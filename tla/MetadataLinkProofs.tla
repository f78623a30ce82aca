------------------------- MODULE MetadataLinkProofs -------------------------
(***************************************************************************)
(* Proof that, with one mount, no directory entry of the metadata store    *)
(* names an inode that is not in the metadata map (NoDanglingEntries,      *)
(* checked by the metadata_safety run), for every value of the constants. *)
(*                                                                         *)
(* NoDanglingEntries is not inductive: unlink drops an inode when its     *)
(* count reaches zero, which is safe only if no other entry names it.     *)
(* The strengthening LinkCounts says that a live inode's link count is at *)
(* least the number of entries naming it (Refs).  unlink removes one      *)
(* entry and one link, so at zero links no entry is left; rmdir drops a   *)
(* directory, which has one entry (UniqueDirEntries, KindAgrees, from     *)
(* DotDotInv); create and mkdir name a fresh inode (NamedAllocated);      *)
(* rename moves an entry; hardlink adds an entry and a link.              *)
(*                                                                         *)
(* Only rmdir needs SingleMount: with stale views it may drop a file that *)
(* other entries still name (the stale_rmdir run).                        *)
(***************************************************************************)
EXTENDS MetadataProofs, FiniteSetTheorems

LinkRest == NoDanglingEntries /\ LinkCounts

\* The places an entry can be.
Slots == Inodes \X Names

-----------------------------------------------------------------------------
(* Counting entries.                                                       *)

LEMMA SlotsFinite == IsFiniteSet(Slots)
<1>1. IsFiniteSet(Inodes)
  BY FS_Interval, MaxInodeAssumption DEF Inodes
<1>. QED BY <1>1, NamesAssumption, FS_Product DEF Slots

LEMMA CardType ==
    ASSUME NEW A \in SUBSET Slots
    PROVE  IsFiniteSet(A) /\ Cardinality(A) \in Nat
BY SlotsFinite, FS_Subset, FS_CardinalityType

\* Fewer entries, no more to count.
LEMMA CardSubset ==
    ASSUME NEW A, NEW B \in SUBSET Slots, A \subseteq B
    PROVE  Cardinality(A) <= Cardinality(B)
BY CardType, FS_Subset

\* One entry added.
LEMMA CardAdd ==
    ASSUME NEW A, NEW B \in SUBSET Slots, NEW x \in Slots, A \subseteq B \cup {x}
    PROVE  Cardinality(A) <= Cardinality(B) + 1
<1>1. IsFiniteSet(B) /\ Cardinality(B) \in Nat
  BY CardType
<1>2. IsFiniteSet(B \cup {x}) /\ Cardinality(B \cup {x}) <= Cardinality(B) + 1
  <2>1. IsFiniteSet(B \cup {x})
    BY <1>1, FS_AddElement
  <2>2. Cardinality(B \cup {x}) = IF x \in B THEN Cardinality(B) ELSE Cardinality(B) + 1
    BY <1>1, FS_AddElement
  <2>. QED BY <1>1, <2>1, <2>2
<1>3. A \in SUBSET (B \cup {x})
  OBVIOUS
<1>4. Cardinality(A) <= Cardinality(B \cup {x})
  BY <1>2, <1>3, FS_Subset
<1>. QED BY <1>1, <1>2, <1>4, CardType

\* One entry of B removed.
LEMMA CardDrop ==
    ASSUME NEW A, NEW B \in SUBSET Slots, NEW x \in B, A \subseteq B \ {x}
    PROVE  Cardinality(A) <= Cardinality(B) - 1
<1>1. IsFiniteSet(B) /\ Cardinality(B) \in Nat
  BY CardType
<1>2. IsFiniteSet(B \ {x}) /\ Cardinality(B \ {x}) = Cardinality(B) - 1
  BY <1>1, FS_RemoveElement
<1>. QED BY <1>1, <1>2, FS_Subset

\* One entry of B moved elsewhere.
LEMMA CardMove ==
    ASSUME NEW A, NEW B \in SUBSET Slots, NEW x \in B, NEW y \in Slots,
           A \subseteq (B \ {x}) \cup {y}
    PROVE  Cardinality(A) <= Cardinality(B)
<1>1. (B \ {x}) \in SUBSET Slots /\ Cardinality(B \ {x}) = Cardinality(B) - 1
  BY CardType, FS_RemoveElement
<1>2. Cardinality(A) <= Cardinality(B \ {x}) + 1
  BY <1>1, CardAdd
<1>. QED BY <1>1, <1>2, CardType

\* A set holding an entry has one to count.
LEMMA CardMember ==
    ASSUME NEW A \in SUBSET Slots, NEW x \in A
    PROVE  Cardinality(A) >= 1
<1>1. IsFiniteSet(A) /\ Cardinality(A) \in Nat
  BY CardType
<1>. QED BY <1>1, FS_EmptySet

\* The entries naming an inode are slots, before and after a step.
LEMMA RefsSlots ==
    ASSUME NEW i, dirs \subseteq Inodes
    PROVE  Refs(i) \in SUBSET Slots
BY DEF Refs, Slots

LEMMA RefsSlotsNext ==
    ASSUME NEW i, dirs' \subseteq Inodes
    PROVE  Refs(i)' \in SUBSET Slots
BY DEF Refs, Slots

\* The one entry of a fresh inode.
LEMMA CardOne ==
    ASSUME NEW A, NEW x \in Slots, A \subseteq {x}
    PROVE  Cardinality(A) <= 1
<1>1. {x} \in SUBSET Slots /\ Cardinality({x}) = 1
  BY FS_Singleton
<1>. QED BY <1>1, CardSubset

\* The entries naming j after a step, slot by slot.
LEMMA RefsWithin ==
    ASSUME NEW j, NEW S,
           \A d \in dirs', x \in Names : directories'[d][x].ino = j => <<d, x>> \in S
    PROVE  Refs(j)' \subseteq S
BY DEF Refs

\* An entry of a descriptor in the map that names j is one of Refs(j).
LEMMA RefsMember ==
    ASSUME NEW j, NEW d \in dirs, NEW x \in Names, directories[d][x].ino = j
    PROVE  <<d, x>> \in Refs(j)
BY DEF Refs

-----------------------------------------------------------------------------
(* One lemma per method: from the invariant in the state a step starts    *)
(* from, and the type invariant in both states, the step keeps LinkRest.  *)

\* create names the fresh inode next_inode, with one link, in a free slot.
LEMMA CreateLinks ==
    ASSUME TypeInv, TypeInv', NamedAllocated, LinkRest,
           NEW p \in Inodes, NEW n \in Names, NEW u, NEW g, NEW m, NEW k,
           Create(p, n, u, g, m, k)
    PROVE  LinkRest'
<1> USE DEF TypeInv, TypeOK
<1> DEFINE k0 == next_inode
<1>1. /\ k0 \in Inodes /\ metadata'[k0].hardlinks = 1
      /\ \A j \in Inodes \ {k0} : metadata'[j] = metadata[j]
  BY DEF Create, Inodes, NewAttrs
<1>2. \A j \in Inodes : j = k0 => Refs(j)' \subseteq {<<p, n>>}
  <2> SUFFICES ASSUME NEW j \in Inodes, j = k0, NEW e \in Refs(j)'
               PROVE  e = <<p, n>>
    OBVIOUS
  <2>1. PICK d \in dirs, x \in Names : e = <<d, x>> /\ directories'[d][x].ino = j
    BY DEF Create, Refs
  <2>2. d = p /\ x = n
    BY <2>1 DEF Create, NamedAllocated
  <2>. QED BY <2>1, <2>2
<1>3. \A j \in Inodes \ {k0} : Refs(j)' \subseteq Refs(j)
  <2> SUFFICES ASSUME NEW j \in Inodes \ {k0}, NEW d \in dirs, NEW x \in Names,
                      directories'[d][x].ino = j
               PROVE  directories[d][x].ino = j
    BY DEF Create, Refs
  <2>1. CASE d = p /\ x = n
    BY <2>1 DEF Create
  <2>. QED BY <2>1 DEF Create
<1>4. LinkCounts'
  <2> SUFFICES ASSUME NEW j \in live'
               PROVE  Cardinality(Refs(j)') <= metadata'[j].hardlinks
    BY DEF LinkCounts
  <2>1. CASE j = k0
    <3>1. <<p, n>> \in Slots
      BY DEF Slots
    <3>2. j \in Inodes /\ Refs(j)' \subseteq {<<p, n>>}
      BY <1>1, <1>2, <2>1
    <3>3. Cardinality(Refs(j)') <= 1
      BY <3>1, <3>2, CardOne
    <3>. QED BY <1>1, <2>1, <3>3
  <2>2. CASE j # k0
    <3>1. j \in live /\ j \in Inodes
      BY <2>2 DEF Create
    <3>2. Cardinality(Refs(j)') <= Cardinality(Refs(j))
      BY <1>3, <2>2, <3>1, RefsSlots, RefsSlotsNext, CardSubset DEF Create
    <3>3. Cardinality(Refs(j)) <= metadata[j].hardlinks
      BY <3>1 DEF LinkRest, LinkCounts
    <3>4. /\ Cardinality(Refs(j)) \in Nat /\ Cardinality(Refs(j)') \in Nat
          /\ metadata[j].hardlinks \in Nat
      BY <3>1, RefsSlots, RefsSlotsNext, CardType DEF Attrs
    <3>. QED BY <1>1, <2>2, <3>1, <3>2, <3>3, <3>4
  <2>. QED BY <2>1, <2>2
<1>5. NoDanglingEntries'
  BY DEF Create, LinkRest, NoDanglingEntries, Named
<1>. QED BY <1>4, <1>5 DEF LinkRest

\* hardlink adds an entry for a live inode and a link to its count.
LEMMA HardlinkLinks ==
    ASSUME TypeInv, TypeInv', LinkRest,
           NEW i \in Inodes, NEW np \in Inodes, NEW nn \in Names, NEW u, NEW g,
           Hardlink(i, np, nn, u, g)
    PROVE  LinkRest'
<1> USE DEF TypeInv, TypeOK
<1>1. /\ i \in live
      /\ metadata'[i].hardlinks = metadata[i].hardlinks + 1
      /\ \A j \in Inodes \ {i} : metadata'[j] = metadata[j]
      /\ UNCHANGED <<live, dirs>>
  BY DEF Hardlink
<1>2. Refs(i)' \subseteq Refs(i) \cup {<<np, nn>>}
  <2>. \A d \in dirs', x \in Names :
          directories'[d][x].ino = i => <<d, x>> \in Refs(i) \cup {<<np, nn>>}
    BY RefsMember DEF Hardlink
  <2>. QED BY RefsWithin
<1>3. \A j \in Inodes \ {i} : Refs(j)' \subseteq Refs(j)
  <2>. SUFFICES ASSUME NEW j \in Inodes \ {i} PROVE Refs(j)' \subseteq Refs(j)
    OBVIOUS
  <2>. \A d \in dirs', x \in Names : directories'[d][x].ino = j => <<d, x>> \in Refs(j)
    BY RefsMember DEF Hardlink
  <2>. QED BY RefsWithin
<1>4. LinkCounts'
  <2> SUFFICES ASSUME NEW j \in live
               PROVE  Cardinality(Refs(j)') <= metadata'[j].hardlinks
    BY <1>1 DEF LinkCounts
  <2>1. /\ Cardinality(Refs(j)) \in Nat /\ Cardinality(Refs(j)') \in Nat
        /\ metadata[j].hardlinks \in Nat
        /\ Cardinality(Refs(j)) <= metadata[j].hardlinks
    BY RefsSlots, RefsSlotsNext, CardType DEF Attrs, LinkRest, LinkCounts
  <2>2. CASE j = i
    <3>0. Refs(i) \in SUBSET Slots /\ <<np, nn>> \in Slots
      BY RefsSlots DEF Slots
    <3>1. Cardinality(Refs(i)') <= Cardinality(Refs(i)) + 1
      BY <1>2, <3>0, CardAdd
    <3>. QED BY <1>1, <2>1, <2>2, <3>1
  <2>3. CASE j # i
    <3>1. Cardinality(Refs(j)') <= Cardinality(Refs(j))
      BY <1>3, <2>3, RefsSlots, RefsSlotsNext, CardSubset
    <3>. QED BY <1>1, <2>1, <2>3, <3>1
  <2>. QED BY <2>2, <2>3
<1>5. NoDanglingEntries'
  BY <1>1 DEF Hardlink, LinkRest, NoDanglingEntries, Named
<1>. QED BY <1>4, <1>5 DEF LinkRest

\* unlink removes one entry and one link of its target; at zero links
\* the target is dropped, and the count shows no entry still names it.
LEMMA UnlinkLinks ==
    ASSUME TypeInv, TypeInv', LinkRest,
           NEW p \in Inodes, NEW n \in Names, NEW u, NEW g, Unlink(p, n, u, g),
           NEW t, t = directories[p][n].ino
    PROVE  LinkRest'
<1> DEFINE links == metadata[t].hardlinks - 1
<1>0. /\ dirs \subseteq Inodes /\ dirs' \subseteq Inodes /\ live \subseteq Inodes
      /\ metadata \in [Inodes -> Attrs]
  BY DEF TypeInv, TypeOK
<1>1. /\ t \in live /\ t \in Inodes
      /\ <<p, n>> \in Refs(t)
      /\ UNCHANGED dirs
  BY <1>0, RefsMember DEF Unlink, LinkRest, NoDanglingEntries
<1>2. /\ metadata'[t].hardlinks = links
      /\ \A j \in Inodes \ {t} : metadata'[j] = metadata[j]
      /\ live' = IF links = 0 THEN live \ {t} ELSE live
  <2>1. /\ metadata' = [metadata EXCEPT ![t].hardlinks = links]
        /\ live' = IF links = 0 THEN live \ {t} ELSE live
    BY <1>1 DEF Unlink
  <2>. QED BY <1>0, <1>1, <2>1
<1>3. \A j \in Inodes : Refs(j)' \subseteq Refs(j) \ {<<p, n>>}
  <2>. SUFFICES ASSUME NEW j \in Inodes PROVE Refs(j)' \subseteq Refs(j) \ {<<p, n>>}
    OBVIOUS
  <2>. \A d \in dirs', x \in Names :
          directories'[d][x].ino = j => <<d, x>> \in Refs(j) \ {<<p, n>>}
    BY RefsMember DEF TypeInv, TypeOK, Unlink, NoEntry, NoInode, Inodes
  <2>. QED BY RefsWithin
<1>4. /\ Cardinality(Refs(t)) \in Nat /\ Cardinality(Refs(t)') \in Nat
      /\ metadata[t].hardlinks \in Nat
      /\ Cardinality(Refs(t)) <= metadata[t].hardlinks
      /\ Cardinality(Refs(t)') <= Cardinality(Refs(t)) - 1
  <2>1. Refs(t) \in SUBSET Slots /\ Refs(t)' \in SUBSET Slots
    BY <1>0, RefsSlots, RefsSlotsNext
  <2>2. Cardinality(Refs(t)') <= Cardinality(Refs(t)) - 1
    BY <1>1, <1>3, <2>1, CardDrop
  <2>3. Cardinality(Refs(t)) \in Nat /\ Cardinality(Refs(t)') \in Nat
    BY <2>1, CardType
  <2>4. metadata[t].hardlinks \in Nat
    BY <1>0, <1>1 DEF Attrs
  <2>5. Cardinality(Refs(t)) <= metadata[t].hardlinks
    BY <1>1 DEF LinkRest, LinkCounts
  <2>. QED BY <2>2, <2>3, <2>4, <2>5
<1>5. LinkCounts'
  <2> SUFFICES ASSUME NEW j \in live'
               PROVE  Cardinality(Refs(j)') <= metadata'[j].hardlinks
    BY DEF LinkCounts
  <2>1. j \in live /\ j \in Inodes
    BY <1>0, <1>2
  <2>2. CASE j = t
    BY <1>2, <1>4, <2>2
  <2>3. CASE j # t
    <3>1. Refs(j) \in SUBSET Slots /\ Refs(j)' \in SUBSET Slots
      BY <1>0, RefsSlots, RefsSlotsNext
    <3>2. Cardinality(Refs(j)) \in Nat /\ Cardinality(Refs(j)') \in Nat
      BY <3>1, CardType
    <3>3. Cardinality(Refs(j)) <= metadata[j].hardlinks
      BY <2>1 DEF LinkRest, LinkCounts
    <3>4. Cardinality(Refs(j)') <= Cardinality(Refs(j))
      BY <1>3, <2>1, <3>1, CardSubset
    <3>5. metadata'[j].hardlinks = metadata[j].hardlinks
      BY <1>2, <2>1, <2>3
    <3>6. metadata[j].hardlinks \in Nat
      BY <1>0, <2>1 DEF Attrs
    <3>. QED BY <3>2, <3>3, <3>4, <3>5, <3>6
  <2>. QED BY <2>2, <2>3
<1>6. NoDanglingEntries'
  <2> SUFFICES ASSUME NEW d \in dirs, NEW x \in Names, Named(d, x)'
               PROVE  directories'[d][x].ino \in live'
    BY <1>1 DEF NoDanglingEntries
  <2> DEFINE j == directories'[d][x].ino
  <2>1. ~(d = p /\ x = n) /\ j = directories[d][x].ino /\ j \in live
    BY DEF TypeInv, TypeOK, Unlink, Named, NoEntry, LinkRest, NoDanglingEntries
  <2>2. CASE j = t /\ links = 0
    <3>1. <<d, x>> \in Refs(t)'
      BY <1>1, <2>2 DEF Refs
    <3>2. Cardinality(Refs(t)') >= 1
      BY <1>0, <3>1, RefsSlotsNext, CardMember
    <3>. QED BY <1>4, <2>2, <3>2
  <2>. QED BY <1>2, <2>1, <2>2
<1>. QED BY <1>5, <1>6 DEF LinkRest

\* rename moves an entry over another slot: the moved inode keeps its
\* count of entries, and a replaced inode loses one.
LEMMA RenameLinks ==
    ASSUME TypeInv, TypeInv', LinkRest,
           NEW p \in Inodes, NEW n \in Names, NEW np \in Inodes, NEW nn \in Names,
           NEW u, NEW g, Rename(p, n, np, nn, u, g),
           NEW s, s = directories[p][n].ino
    PROVE  LinkRest'
<1>0. /\ dirs \subseteq Inodes /\ dirs' \subseteq Inodes /\ live \subseteq Inodes
      /\ metadata \in [Inodes -> Attrs]
  BY DEF TypeInv, TypeOK
<1>1. /\ s \in live /\ s \in Inodes /\ <<p, n>> \in Refs(s)
      /\ UNCHANGED <<metadata, live, dirs>>
  BY <1>0, RefsMember DEF Rename
<1>2. Refs(s)' \subseteq (Refs(s) \ {<<p, n>>}) \cup {<<np, nn>>}
  <2> SUFFICES ASSUME NEW d \in dirs, NEW x \in Names, directories'[d][x].ino = s
               PROVE  <<d, x>> \in (Refs(s) \ {<<p, n>>}) \cup {<<np, nn>>}
    BY <1>1, RefsWithin
  <2>1. CASE d = np /\ x = nn
    BY <2>1
  <2>2. CASE ~(d = np /\ x = nn) /\ d = p /\ x = n
    BY <1>1, <2>2 DEF TypeInv, TypeOK, Rename, NoEntry, NoInode, Inodes
  <2>3. CASE ~(d = np /\ x = nn) /\ ~(d = p /\ x = n)
    <3>1. directories'[d][x] = directories[d][x]
      BY <2>3 DEF TypeInv, TypeOK, Rename
    <3>2. <<d, x>> \in Refs(s)
      BY <3>1, RefsMember
    <3>. QED BY <2>3, <3>2
  <2>. QED BY <2>1, <2>2, <2>3
<1>3. \A j \in Inodes \ {s} : Refs(j)' \subseteq Refs(j)
  <2>. SUFFICES ASSUME NEW j \in Inodes \ {s} PROVE Refs(j)' \subseteq Refs(j)
    OBVIOUS
  <2>. \A d \in dirs', x \in Names : directories'[d][x].ino = j => <<d, x>> \in Refs(j)
    BY RefsMember DEF TypeInv, TypeOK, Rename, NoEntry, NoInode, Inodes
  <2>. QED BY RefsWithin
<1>4. LinkCounts'
  <2> SUFFICES ASSUME NEW j \in live
               PROVE  Cardinality(Refs(j)') <= metadata[j].hardlinks
    BY <1>1 DEF LinkCounts
  <2>1. Refs(j) \in SUBSET Slots /\ Refs(j)' \in SUBSET Slots
    BY <1>0, RefsSlots, RefsSlotsNext
  <2>2. Cardinality(Refs(j)) \in Nat /\ Cardinality(Refs(j)') \in Nat
    BY <2>1, CardType
  <2>3. Cardinality(Refs(j)) <= metadata[j].hardlinks /\ metadata[j].hardlinks \in Nat
    BY <1>0 DEF LinkRest, LinkCounts, Attrs
  <2>4. Cardinality(Refs(j)') <= Cardinality(Refs(j))
    <3>1. CASE j = s
      <4>1. <<np, nn>> \in Slots
        BY DEF Slots
      <4>. QED BY <1>1, <1>2, <2>1, <3>1, <4>1, CardMove
    <3>2. CASE j # s
      BY <1>0, <1>3, <2>1, <3>2, CardSubset
    <3>. QED BY <3>1, <3>2
  <2>. QED BY <2>2, <2>3, <2>4
<1>5. NoDanglingEntries'
  <2> SUFFICES ASSUME NEW d \in dirs, NEW x \in Names, Named(d, x)'
               PROVE  directories'[d][x].ino \in live
    BY <1>1 DEF NoDanglingEntries
  <2>1. CASE d = np /\ x = nn
    BY <1>1, <2>1 DEF TypeInv, TypeOK, Rename
  <2>2. CASE ~(d = np /\ x = nn) /\ d = p /\ x = n
    BY <2>2 DEF TypeInv, TypeOK, Rename, Named, NoEntry
  <2>3. CASE ~(d = np /\ x = nn) /\ ~(d = p /\ x = n)
    <3>1. directories'[d][x] = directories[d][x]
      BY <2>3 DEF TypeInv, TypeOK, Rename
    <3>. QED BY <1>1, <3>1 DEF LinkRest, NoDanglingEntries, Named
  <2>. QED BY <2>1, <2>2, <2>3
<1>. QED BY <1>4, <1>5 DEF LinkRest

\* mkdir names the fresh inode next_inode, with two links, and gives it
\* an empty descriptor; it may overwrite an entry, which only removes one.
LEMMA MkdirLinks ==
    ASSUME TypeInv, TypeInv', NamedAllocated, LinkRest,
           NEW p \in Inodes, NEW n \in Names, NEW u, NEW g, NEW m,
           Mkdir(p, n, u, g, m)
    PROVE  LinkRest'
<1> DEFINE k0 == next_inode
<1>0. /\ dirs \subseteq Inodes /\ dirs' \subseteq Inodes /\ live \subseteq Inodes
      /\ metadata \in [Inodes -> Attrs]
      /\ directories \in [Inodes -> [Names -> Entry]] /\ next_inode \in Nat
  BY DEF TypeInv, TypeOK
<1>1. /\ k0 \in Inodes /\ p \in dirs /\ p # k0
      /\ live' = live \cup {k0} /\ dirs' = dirs \cup {k0}
      /\ metadata'[k0].hardlinks = 2
      /\ \A j \in Inodes \ {k0} : metadata'[j] = metadata[j]
  BY <1>0 DEF Mkdir, NamedAllocated, Inodes, NewAttrs, TypeInv, TypeOK
<1>2. \A d \in dirs', x \in Names :
         directories'[d][x] = IF d = k0 THEN NoEntry
                              ELSE IF d = p /\ x = n THEN [ino |-> k0, kind |-> "dir"]
                              ELSE directories[d][x]
  BY <1>0, <1>1 DEF Mkdir, EmptyDir
<1>3. \A j \in Inodes : j = k0 => Refs(j)' \subseteq {<<p, n>>}
  <2> SUFFICES ASSUME NEW j \in Inodes, j = k0, NEW d \in dirs', NEW x \in Names,
                      directories'[d][x].ino = j
               PROVE  <<d, x>> \in {<<p, n>>}
    BY RefsWithin
  <2>1. CASE d = k0
    BY <1>2, <2>1 DEF NoEntry, NoInode, Inodes
  <2>2. CASE d # k0 /\ d = p /\ x = n
    BY <2>2
  <2>3. CASE d # k0 /\ ~(d = p /\ x = n)
    <3>1. d \in dirs /\ directories'[d][x] = directories[d][x]
      BY <1>1, <1>2, <2>3
    <3>2. directories[d][x].ino < next_inode
      BY <3>1 DEF NamedAllocated
    <3>. QED BY <1>0, <3>1, <3>2
  <2>. QED BY <2>1, <2>2, <2>3
<1>4. \A j \in Inodes \ {k0} : Refs(j)' \subseteq Refs(j)
  <2> SUFFICES ASSUME NEW j \in Inodes \ {k0}, NEW d \in dirs', NEW x \in Names,
                      directories'[d][x].ino = j
               PROVE  <<d, x>> \in Refs(j)
    BY RefsWithin
  <2>1. d \in dirs /\ directories[d][x].ino = j
    BY <1>1, <1>2 DEF NoEntry, NoInode, Inodes
  <2>. QED BY <2>1, RefsMember
<1>5. LinkCounts'
  <2> SUFFICES ASSUME NEW j \in live'
               PROVE  Cardinality(Refs(j)') <= metadata'[j].hardlinks
    BY DEF LinkCounts
  <2>1. j \in Inodes
    BY <1>0, <1>1
  <2>2. CASE j = k0
    <3>1. <<p, n>> \in Slots
      BY DEF Slots
    <3>2. Cardinality(Refs(j)') <= 1
      BY <1>3, <2>1, <2>2, <3>1, CardOne
    <3>3. Cardinality(Refs(j)') \in Nat
      BY <1>0, RefsSlotsNext, CardType
    <3>. QED BY <1>1, <2>2, <3>2, <3>3
  <2>3. CASE j # k0
    <3>1. j \in live
      BY <1>1, <2>3
    <3>2. Refs(j) \in SUBSET Slots /\ Refs(j)' \in SUBSET Slots
      BY <1>0, RefsSlots, RefsSlotsNext
    <3>3. Cardinality(Refs(j)) \in Nat /\ Cardinality(Refs(j)') \in Nat
      BY <3>2, CardType
    <3>4. Cardinality(Refs(j)) <= metadata[j].hardlinks /\ metadata[j].hardlinks \in Nat
      BY <1>0, <3>1 DEF LinkRest, LinkCounts, Attrs
    <3>5. Cardinality(Refs(j)') <= Cardinality(Refs(j))
      BY <1>4, <2>1, <2>3, <3>2, CardSubset
    <3>6. metadata'[j].hardlinks = metadata[j].hardlinks
      BY <1>1, <2>1, <2>3
    <3>. QED BY <3>3, <3>4, <3>5, <3>6
  <2>. QED BY <2>2, <2>3
<1>6. NoDanglingEntries'
  <2> SUFFICES ASSUME NEW d \in dirs', NEW x \in Names, Named(d, x)'
               PROVE  directories'[d][x].ino \in live'
    BY DEF NoDanglingEntries
  <2>1. CASE d = k0
    BY <1>2, <2>1 DEF Named, NoEntry
  <2>2. CASE d # k0 /\ d = p /\ x = n
    BY <1>1, <1>2, <2>2
  <2>3. CASE d # k0 /\ ~(d = p /\ x = n)
    BY <1>1, <1>2, <2>3 DEF Named, LinkRest, NoDanglingEntries
  <2>. QED BY <2>1, <2>2, <2>3
<1>. QED BY <1>5, <1>6 DEF LinkRest

\* rmdir drops a directory inode, which only the removed entry names
\* (one entry per directory: KindAgrees and UniqueDirEntries).
LEMMA RmdirLinks ==
    ASSUME TypeInv, TypeInv', KindAgrees, UniqueDirEntries, LinkRest,
           NEW p \in Inodes, NEW n \in Names, NEW u, NEW g, Rmdir(p, n, u, g),
           NEW t, t = directories[p][n].ino, metadata[t].kind = "dir"
    PROVE  LinkRest'
<1>0. /\ dirs \subseteq Inodes /\ dirs' \subseteq Inodes /\ live \subseteq Inodes
      /\ metadata \in [Inodes -> Attrs]
      /\ directories \in [Inodes -> [Names -> Entry]]
  BY DEF TypeInv, TypeOK
<1>1. /\ p \in dirs /\ Named(p, n) /\ t \in Inodes
      /\ live' = live \ {t} /\ dirs' = dirs \ {t}
      /\ UNCHANGED metadata
  BY <1>0 DEF Rmdir, Named, Entry, NoInode
<1>2. \A d \in dirs, x \in Names : directories[d][x].ino = t => d = p /\ x = n
  <2> SUFFICES ASSUME NEW d \in dirs, NEW x \in Names, directories[d][x].ino = t
               PROVE  d = p /\ x = n
    OBVIOUS
  <2>1. Named(d, x) /\ TargetKind(d, x) = "dir" /\ TargetKind(p, n) = "dir"
    BY <1>1 DEF Named, TargetKind, Inodes, NoInode
  <2>2. DirEntry(d, x) /\ DirEntry(p, n)
    BY <1>1, <2>1 DEF KindAgrees, DirEntry
  <2>. QED BY <1>1, <2>2 DEF UniqueDirEntries
<1>3. \A d \in dirs', x \in Names :
         directories'[d][x] = IF d = p /\ x = n THEN NoEntry ELSE directories[d][x]
  BY <1>0, <1>1 DEF Rmdir
<1>4. \A j \in Inodes : Refs(j)' \subseteq Refs(j)
  <2> SUFFICES ASSUME NEW j \in Inodes, NEW d \in dirs', NEW x \in Names,
                      directories'[d][x].ino = j
               PROVE  <<d, x>> \in Refs(j)
    BY RefsWithin
  <2>1. d \in dirs /\ directories[d][x].ino = j
    BY <1>1, <1>3 DEF NoEntry, NoInode, Inodes
  <2>. QED BY <2>1, RefsMember
<1>5. LinkCounts'
  <2> SUFFICES ASSUME NEW j \in live'
               PROVE  Cardinality(Refs(j)') <= metadata[j].hardlinks
    BY <1>1 DEF LinkCounts
  <2>1. j \in live /\ j \in Inodes
    BY <1>0, <1>1
  <2>2. Refs(j) \in SUBSET Slots /\ Refs(j)' \in SUBSET Slots
    BY <1>0, RefsSlots, RefsSlotsNext
  <2>3. Cardinality(Refs(j)) \in Nat /\ Cardinality(Refs(j)') \in Nat
    BY <2>2, CardType
  <2>4. Cardinality(Refs(j)) <= metadata[j].hardlinks /\ metadata[j].hardlinks \in Nat
    BY <1>0, <2>1 DEF LinkRest, LinkCounts, Attrs
  <2>5. Cardinality(Refs(j)') <= Cardinality(Refs(j))
    BY <1>4, <2>1, <2>2, CardSubset
  <2>. QED BY <2>3, <2>4, <2>5
<1>6. NoDanglingEntries'
  <2> SUFFICES ASSUME NEW d \in dirs', NEW x \in Names, Named(d, x)'
               PROVE  directories'[d][x].ino \in live'
    BY DEF NoDanglingEntries
  <2>1. d \in dirs /\ ~(d = p /\ x = n) /\ directories'[d][x] = directories[d][x]
    BY <1>1, <1>3 DEF Named, NoEntry
  <2>2. directories[d][x].ino \in live
    BY <2>1 DEF Named, LinkRest, NoDanglingEntries
  <2>3. directories[d][x].ino # t
    BY <1>2, <2>1
  <2>. QED BY <1>1, <2>1, <2>2, <2>3
<1>. QED BY <1>5, <1>6 DEF LinkRest

\* The methods that change attributes other than the link count leave the
\* entries, the live inodes and every count alone.
LEMMA AttrLinks ==
    ASSUME LinkRest, UNCHANGED <<directories, dirs, live>>,
           \A j \in live : metadata'[j].hardlinks = metadata[j].hardlinks
    PROVE  LinkRest'
<1>1. \A j : Refs(j)' = Refs(j)
  BY DEF Refs
<1>. QED BY <1>1 DEF LinkRest, LinkCounts, NoDanglingEntries, Named

LEMMA AttrStepLinks ==
    ASSUME TypeInv, LinkRest, NEW u \in Uids, NEW g \in Gids,
           \/ \E i \in Inodes, m \in Modes : Chmod(i, m, u)
           \/ \E i \in Inodes, nu \in Uids \cup {NoChange}, ng \in Gids \cup {NoChange} :
                 Chown(i, nu, ng, u)
           \/ \E i \in Inodes, l \in 0..(MaxFileSize + 1) : Truncate(i, l, u, g)
           \/ \E i \in Inodes, o \in Offsets, l \in Lengths : Write(i, o, l, u, g)
           \/ \E i \in Inodes, key \in XattrKeys : SetXattr(i, key) \/ RemoveXattr(i, key)
    PROVE  LinkRest'
<1>1. UNCHANGED <<directories, dirs, live>>
  BY DEF Chmod, Chown, Truncate, Write, SetXattr, RemoveXattr
<1>2. \A j \in live : metadata'[j].hardlinks = metadata[j].hardlinks
  <2>0. metadata \in [Inodes -> Attrs]
    BY DEF TypeInv, TypeOK
  <2>1. CASE \E i \in Inodes, m \in Modes : Chmod(i, m, u)
    BY <2>0, <2>1 DEF Chmod
  <2>2. CASE \E i \in Inodes, nu \in Uids \cup {NoChange}, ng \in Gids \cup {NoChange} :
               Chown(i, nu, ng, u)
    <3> PICK i \in Inodes, nu \in Uids \cup {NoChange}, ng \in Gids \cup {NoChange} :
               Chown(i, nu, ng, u)
      BY <2>2
    <3> DEFINE a == metadata[i]
               b == [a EXCEPT !.uid = IF nu # NoChange THEN nu ELSE a.uid,
                              !.gid = IF ng # NoChange THEN ng ELSE a.gid]
    <3>1. metadata' = [metadata EXCEPT ![i] = b]
      BY DEF Chown
    <3>2. a \in Attrs
      BY <2>0
    <3>3. b.hardlinks = a.hardlinks
      BY <3>2 DEF Attrs
    <3>. QED BY <2>0, <3>1, <3>3
  <2>3. CASE \E i \in Inodes, l \in 0..(MaxFileSize + 1) : Truncate(i, l, u, g)
    BY <2>0, <2>3 DEF Truncate
  <2>4. CASE \E i \in Inodes, o \in Offsets, l \in Lengths : Write(i, o, l, u, g)
    BY <2>0, <2>4 DEF Write
  <2>5. CASE \E i \in Inodes, key \in XattrKeys : SetXattr(i, key) \/ RemoveXattr(i, key)
    <3> PICK i \in Inodes, key \in XattrKeys : SetXattr(i, key) \/ RemoveXattr(i, key)
      BY <2>5
    <3>1. CASE SetXattr(i, key)
      BY <2>0, <3>1 DEF SetXattr
    <3>2. CASE RemoveXattr(i, key)
      BY <2>0, <3>2 DEF RemoveXattr
    <3>. QED BY <3>1, <3>2
  <2>. QED BY <2>1, <2>2, <2>3, <2>4, <2>5
<1>. QED BY <1>1, <1>2, AttrLinks

-----------------------------------------------------------------------------
(* The induction.                                                          *)

\* No entry at all: every count covers its (empty) set of entries.
LEMMA InitLinks == Init => LinkRest
<1> SUFFICES ASSUME Init PROVE LinkRest
  OBVIOUS
<1>0. dirs = {ROOT_INODE} /\ live = {ROOT_INODE} /\ ROOT_INODE \in Inodes
  BY MaxInodeAssumption DEF Init, ROOT_INODE, Inodes
<1>1. \A d \in dirs, x \in Names : directories[d][x].ino = NoInode
  BY <1>0 DEF Init, EmptyDir, NoEntry
<1>2. NoDanglingEntries
  BY <1>1 DEF NoDanglingEntries, Named
<1>3. \A j \in live : Refs(j) = {} /\ metadata[j].hardlinks = 2
  <2>1. \A j \in live : Refs(j) = {}
    BY <1>0, <1>1 DEF Refs, NoInode, ROOT_INODE
  <2>2. metadata[ROOT_INODE].hardlinks = 2
    BY <1>0 DEF Init, NewAttrs
  <2>. QED BY <1>0, <2>1, <2>2
<1>4. LinkCounts
  BY <1>3, FS_EmptySet DEF LinkCounts
<1>. QED BY <1>2, <1>4 DEF LinkRest

\* A step the kernel sends, with one mount, keeps LinkRest.
LEMMA NextLinks ==
    ASSUME SingleMount, DotDotInv, LinkRest, [Next]_vars
    PROVE  LinkRest'
<1>0. TypeInv /\ TypeInv' /\ NamedAllocated /\ KindAgrees /\ UniqueDirEntries
  BY NextTypeInv DEF DotDotInv
<1>1. CASE UNCHANGED vars
  <2>1. \A j : Refs(j)' = Refs(j)
    BY <1>1 DEF vars, Refs
  <2>. QED BY <1>1, <2>1 DEF vars, LinkRest, LinkCounts, NoDanglingEntries, Named
<1>2. CASE Next
  <2> PICK u \in Uids, g \in Gids : NextBy(u, g)
    BY <1>2 DEF Next
  <2>1. CASE \E p \in Inodes, n \in Names, m \in Modes, k \in CreateKinds :
               Sends(TRUE, WasDir(p)) /\ Create(p, n, u, g, m, k)
    BY <1>0, <2>1, CreateLinks
  <2>2. CASE \E p \in Inodes, n \in Names, m \in Modes :
               Sends(~Named(p, n), WasDir(p)) /\ Mkdir(p, n, u, g, m)
    BY <1>0, <2>2, MkdirLinks
  <2>3. CASE \E p \in Inodes, n \in Names :
               Sends(TargetKind(p, n) \in {"file", "symlink"}, WasDir(p))
               /\ Unlink(p, n, u, g)
    BY <1>0, <2>3, UnlinkLinks
  <2>4. CASE \E p \in Inodes, n \in Names :
               Sends(TargetKind(p, n) = "dir", WasDir(p)) /\ Rmdir(p, n, u, g)
    <3> PICK p \in Inodes, n \in Names :
               Sends(TargetKind(p, n) = "dir", WasDir(p)) /\ Rmdir(p, n, u, g)
      BY <2>4
    <3>1. metadata[directories[p][n].ino].kind = "dir"
      BY DEF Sends, TargetKind, Rmdir
    <3>. QED BY <1>0, <3>1, RmdirLinks
  <2>5. CASE \E p, np \in Inodes, n, nn \in Names :
               /\ Sends(VFSRename(p, n, np, nn), WasDir(p) /\ WasDir(np))
               /\ Rename(p, n, np, nn, u, g)
    BY <1>0, <2>5, RenameLinks
  <2>6. CASE \E i, np \in Inodes, nn \in Names :
               /\ metadata[i].kind # "dir"
               /\ Sends(~Named(np, nn), WasAllocated(i) /\ WasDir(np))
               /\ Hardlink(i, np, nn, u, g)
    BY <1>0, <2>6, HardlinkLinks
  <2>7. CASE \/ \E i \in Inodes, m \in Modes : Chmod(i, m, u)
             \/ \E i \in Inodes, nu \in Uids \cup {NoChange}, ng \in Gids \cup {NoChange} :
                   /\ ng # NoChange /\ u # 0 => ng = g
                   /\ Chown(i, nu, ng, u)
             \/ \E i \in Inodes, l \in 0..(MaxFileSize + 1) :
                   metadata[i].kind # "dir" /\ Truncate(i, l, u, g)
             \/ \E i \in Inodes, o \in Offsets, l \in Lengths :
                   metadata[i].kind # "dir" /\ Write(i, o, l, u, g)
             \/ \E i \in Inodes, key \in XattrKeys : SetXattr(i, key)
             \/ \E i \in Inodes, key \in XattrKeys : RemoveXattr(i, key)
    BY <1>0, <2>7, AttrStepLinks
  <2>. QED BY <2>1, <2>2, <2>3, <2>4, <2>5, <2>6, <2>7 DEF NextBy
<1>. QED BY <1>1, <1>2

-----------------------------------------------------------------------------
\* With one mount, LinkInv (the namespace invariants of DotDotInv, every
\* entry naming a live inode, and every live inode's link count covering
\* the entries that name it) holds in every reachable state of the store,
\* for all values of the constants.
THEOREM LinkInvariant ==
    ASSUME SingleMount
    PROVE  Spec => []LinkInv
<1>1. Init => DotDotInv /\ LinkRest
  BY InitTypeInv, InitDotDot, InitLinks DEF DotDotInv, DotDotRest
<1>2. DotDotInv /\ LinkRest /\ [Next]_vars => (DotDotInv /\ LinkRest)'
  BY NextTypeInv, NextDotDot, NextLinks DEF DotDotInv, DotDotRest
<1>3. DotDotInv /\ LinkRest <=> LinkInv
  BY DEF LinkInv, LinkRest
<1>. QED BY <1>1, <1>2, <1>3, PTL DEF Spec

\* With one mount, unlink, rmdir and rename never drop an inode that a
\* directory entry still names (spec section 3, invariant 1).
THEOREM NoDanglingEntriesHold ==
    ASSUME SingleMount
    PROVE  Spec => []NoDanglingEntries
BY LinkInvariant, PTL DEF LinkInv

====
