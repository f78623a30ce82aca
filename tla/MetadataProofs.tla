--------------------------- MODULE MetadataProofs ---------------------------
(***************************************************************************)
(* Proofs about the metadata store (module Metadata), for every value of   *)
(* the constants and for both environments (SingleMount TRUE or FALSE).   *)
(*                                                                         *)
(* Every theorem follows the same plan: an inductive invariant holds       *)
(* initially, each action of NextBy preserves it (one lemma per action),  *)
(* and the invariant implies the property.                                 *)
(***************************************************************************)
EXTENDS Metadata, TLAPS

USE MaxInodeAssumption, MaxLinksAssumption, UidsAssumption, GidsAssumption,
    ModesAssumption, SizeAssumption

-----------------------------------------------------------------------------
(* Type correctness.                                                       *)

\* Overwriting the attributes of one inode with well-typed attributes
\* keeps the metadata map well typed.
LEMMA AttrsUpdate ==
    ASSUME NEW f \in [Inodes -> Attrs], NEW i \in Inodes, NEW a \in Attrs
    PROVE  [f EXCEPT ![i] = a] \in [Inodes -> Attrs]
OBVIOUS

LEMMA InitTypeInv == Init => TypeInv
<1>1. Init => TypeOK
    BY DEF Init, TypeOK, Attrs, NewAttrs, NoAttrs, Entry, EmptyDir, NoEntry,
           Inodes, ROOT_INODE, NoInode, RootMode, Kinds
<1>2. Init => LiveHasLinks
    BY DEF Init, LiveHasLinks, NewAttrs, ROOT_INODE, Inodes
<1> QED BY <1>1, <1>2 DEF TypeInv

LEMMA CreateTypeInv ==
    ASSUME TypeInv,
           NEW p \in Inodes, NEW n \in Names, NEW u \in Uids, NEW g \in Gids,
           NEW m \in Modes, NEW k \in CreateKinds,
           Create(p, n, u, g, m, k)
    PROVE  TypeInv'
<1> USE DEF TypeInv, TypeOK
<1>1. next_inode \in Inodes
    BY DEF Create, Inodes
<1>2. NewAttrs(k, m, u, g, 0, 1) \in Attrs
    BY DEF NewAttrs, Attrs, CreateKinds, Kinds
<1>3. metadata' \in [Inodes -> Attrs]
    BY <1>1, <1>2, AttrsUpdate DEF Create
<1>4. directories' \in [Inodes -> [Names -> Entry]]
    BY <1>1 DEF Create, Entry, Kinds, Inodes
<1>5. LiveHasLinks'
    BY <1>1 DEF Create, LiveHasLinks, NewAttrs
<1> QED BY <1>1, <1>3, <1>4, <1>5 DEF Create, Inodes

LEMMA MkdirTypeInv ==
    ASSUME TypeInv,
           NEW p \in Inodes, NEW n \in Names, NEW u \in Uids, NEW g \in Gids,
           NEW m \in Modes,
           Mkdir(p, n, u, g, m)
    PROVE  TypeInv'
<1> USE DEF TypeInv, TypeOK
<1>1. next_inode \in Inodes
    BY DEF Mkdir, Inodes
<1>2. NewAttrs("dir", m, u, g, BlockSize, 2) \in Attrs
    BY DEF NewAttrs, Attrs, Kinds
<1>3. metadata' \in [Inodes -> Attrs]
    BY <1>1, <1>2, AttrsUpdate DEF Mkdir
<1>4. directories' \in [Inodes -> [Names -> Entry]]
    BY <1>1 DEF Mkdir, Entry, Kinds, Inodes, EmptyDir, NoEntry, NoInode
<1>5. parents' \in [Inodes -> Inodes \cup {NoInode}]
    BY <1>1 DEF Mkdir
<1>6. LiveHasLinks'
    BY <1>1 DEF Mkdir, LiveHasLinks, NewAttrs
<1>7. /\ live' \subseteq Inodes /\ dirs' \subseteq Inodes
      /\ next_inode' \in 2..(MaxInode + 1)
    BY <1>1 DEF Mkdir, Inodes
<1> QED BY <1>3, <1>4, <1>5, <1>6, <1>7

LEMMA UnlinkTypeInv ==
    ASSUME TypeInv,
           NEW p \in Inodes, NEW n \in Names, NEW u \in Uids, NEW g \in Gids,
           Unlink(p, n, u, g)
    PROVE  TypeInv'
<1> USE DEF TypeInv, TypeOK
<1> DEFINE target == directories[p][n].ino
           links == metadata[target].hardlinks - 1
<1>1. directories' \in [Inodes -> [Names -> Entry]]
    BY DEF Unlink, Entry, NoEntry, Kinds, NoInode
<1>2. CASE target \in live
    <2>1. links \in Nat
        BY <1>2 DEF LiveHasLinks, Attrs
    <2>0. metadata[target] \in Attrs
        BY <1>2
    <2>2. [metadata[target] EXCEPT !.hardlinks = links] \in Attrs
        BY <2>0, <2>1 DEF Attrs
    <2>3. metadata' = [metadata EXCEPT ![target] =
                          [metadata[target] EXCEPT !.hardlinks = links]]
        BY <1>2 DEF Unlink
    <2>4. metadata' \in [Inodes -> Attrs]
        BY <1>2, <2>2, <2>3, AttrsUpdate
    <2>5. live' = IF links = 0 THEN live \ {target} ELSE live
        BY <1>2 DEF Unlink
    <2>6. LiveHasLinks'
        BY <1>2, <2>1, <2>3, <2>5 DEF LiveHasLinks, Attrs
    <2> QED BY <1>1, <2>4, <2>5, <2>6 DEF Unlink
<1>3. CASE target \notin live
    BY <1>1, <1>3 DEF Unlink, LiveHasLinks
<1> QED BY <1>2, <1>3

LEMMA RmdirTypeInv ==
    ASSUME TypeInv,
           NEW p \in Inodes, NEW n \in Names, NEW u \in Uids, NEW g \in Gids,
           Rmdir(p, n, u, g)
    PROVE  TypeInv'
<1> USE DEF TypeInv, TypeOK
<1>1. TypeOK'
    BY DEF Rmdir, Entry, NoEntry, EmptyDir, Inodes, NoInode, Named
<1>2. LiveHasLinks'
    BY DEF Rmdir, LiveHasLinks
<1> QED BY <1>1, <1>2

LEMMA RenameTypeInv ==
    ASSUME TypeInv,
           NEW p \in Inodes, NEW n \in Names, NEW np \in Inodes,
           NEW nn \in Names, NEW u \in Uids, NEW g \in Gids,
           Rename(p, n, np, nn, u, g)
    PROVE  TypeInv'
<1> USE DEF TypeInv, TypeOK
<1> DEFINE entry == directories[p][n]
<1>1. entry \in Entry /\ entry.ino \in Inodes
    BY DEF Rename, Named, Entry, NoInode
<1>2. directories' \in [Inodes -> [Names -> Entry]]
    BY <1>1 DEF Rename, Entry, NoEntry, Kinds, NoInode
<1>3. parents' \in [Inodes -> Inodes \cup {NoInode}]
    BY <1>1 DEF Rename
<1>4. LiveHasLinks'
    BY DEF Rename, LiveHasLinks
<1> QED BY <1>2, <1>3, <1>4 DEF Rename

LEMMA HardlinkTypeInv ==
    ASSUME TypeInv,
           NEW i \in Inodes, NEW np \in Inodes, NEW nn \in Names,
           NEW u \in Uids, NEW g \in Gids,
           Hardlink(i, np, nn, u, g)
    PROVE  TypeInv'
<1> USE DEF TypeInv, TypeOK
<1>0. metadata[i] \in Attrs /\ metadata[i].hardlinks \in Nat
    BY DEF Attrs
<1> DEFINE b == [metadata[i] EXCEPT !.hardlinks = metadata[i].hardlinks + 1]
<1>1. b \in Attrs
    <2>1. metadata[i].hardlinks + 1 \in Nat
        BY <1>0
    <2> QED BY <1>0, <2>1 DEF Attrs
<1>2. metadata' \in [Inodes -> Attrs]
    <2>1. metadata' = [metadata EXCEPT ![i] = b]
        BY DEF Hardlink
    <2> QED BY <1>1, <2>1, AttrsUpdate
<1>3. directories' \in [Inodes -> [Names -> Entry]]
    BY DEF Hardlink, Entry, Attrs
<1>4. LiveHasLinks'
    BY DEF Hardlink, LiveHasLinks, Attrs
<1> QED BY <1>2, <1>3, <1>4 DEF Hardlink

LEMMA ChmodTypeInv ==
    ASSUME TypeInv, NEW i \in Inodes, NEW m \in Modes, NEW u \in Uids,
           Chmod(i, m, u)
    PROVE  TypeInv'
<1> USE DEF TypeInv, TypeOK
<1>1. TypeOK'
    BY DEF Chmod, Attrs
<1>2. LiveHasLinks'
    BY DEF Chmod, LiveHasLinks, Attrs
<1> QED BY <1>1, <1>2

LEMMA ChownTypeInv ==
    ASSUME TypeInv, NEW i \in Inodes, NEW nu \in Uids \cup {NoChange},
           NEW ng \in Gids \cup {NoChange}, NEW u \in Uids,
           Chown(i, nu, ng, u)
    PROVE  TypeInv'
<1> USE DEF TypeInv, TypeOK
<1> DEFINE a == metadata[i]
           b == [a EXCEPT !.uid = IF nu # NoChange THEN nu ELSE @,
                          !.gid = IF ng # NoChange THEN ng ELSE @]
<1>1. b \in Attrs
    BY DEF Attrs
<1>2. metadata' = [metadata EXCEPT ![i] = b]
    BY DEF Chown
<1>3. metadata' \in [Inodes -> Attrs]
    BY <1>1, <1>2, AttrsUpdate
<1>4. LiveHasLinks'
    BY <1>2 DEF Chown, LiveHasLinks, Attrs
<1> QED BY <1>3, <1>4 DEF Chown

LEMMA TruncateTypeInv ==
    ASSUME TypeInv, NEW i \in Inodes, NEW l \in 0..(MaxFileSize + 1),
           NEW u \in Uids, NEW g \in Gids,
           Truncate(i, l, u, g)
    PROVE  TypeInv'
<1> USE DEF TypeInv, TypeOK
<1>0. metadata[i] \in Attrs /\ l \in Nat
    OBVIOUS
<1>1. [metadata[i] EXCEPT !.size = l] \in Attrs
    BY <1>0 DEF Attrs
<1>2. metadata' \in [Inodes -> Attrs]
    BY <1>1, AttrsUpdate DEF Truncate
<1>3. LiveHasLinks'
    BY DEF Truncate, LiveHasLinks, Attrs
<1> QED BY <1>2, <1>3 DEF Truncate

LEMMA WriteTypeInv ==
    ASSUME TypeInv, NEW i \in Inodes, NEW o \in Offsets, NEW l \in Lengths,
           NEW u \in Uids, NEW g \in Gids,
           Write(i, o, l, u, g)
    PROVE  TypeInv'
<1> USE DEF TypeInv, TypeOK
<1> DEFINE b == [metadata[i] EXCEPT !.size =
                    IF o + l > @ THEN o + l ELSE @]
<1>0. metadata[i] \in Attrs /\ metadata[i].size \in Nat /\ o + l \in Nat
    BY DEF Attrs
<1>1. b \in Attrs
    BY <1>0 DEF Attrs
<1>2. metadata' = [metadata EXCEPT ![i] = b]
    BY DEF Write
<1>3. metadata' \in [Inodes -> Attrs]
    BY <1>1, <1>2, AttrsUpdate
<1>4. LiveHasLinks'
    BY <1>2 DEF Write, LiveHasLinks, Attrs
<1> QED BY <1>3, <1>4 DEF Write

LEMMA XattrTypeInv ==
    ASSUME TypeInv, NEW i \in Inodes, NEW key \in XattrKeys,
           SetXattr(i, key) \/ RemoveXattr(i, key)
    PROVE  TypeInv'
<1> USE DEF TypeInv, TypeOK
<1>1. CASE SetXattr(i, key)
    <2>1. TypeOK'
        BY <1>1 DEF SetXattr, Attrs
    <2>2. LiveHasLinks'
        BY <1>1 DEF SetXattr, LiveHasLinks, Attrs
    <2> QED BY <2>1, <2>2
<1>2. CASE RemoveXattr(i, key)
    <2>1. TypeOK'
        BY <1>2 DEF RemoveXattr, Attrs
    <2>2. LiveHasLinks'
        BY <1>2 DEF RemoveXattr, LiveHasLinks, Attrs
    <2> QED BY <2>1, <2>2
<1> QED BY <1>1, <1>2

LEMMA NextTypeInv == TypeInv /\ [Next]_vars => TypeInv'
<1> SUFFICES ASSUME TypeInv, [Next]_vars PROVE TypeInv'
    OBVIOUS
<1>1. CASE UNCHANGED vars
    BY <1>1 DEF vars, TypeInv, TypeOK, LiveHasLinks
<1>2. CASE Next
    <2> PICK u \in Uids, g \in Gids : NextBy(u, g)
        BY <1>2 DEF Next
    <2> QED
        BY CreateTypeInv, MkdirTypeInv, UnlinkTypeInv, RmdirTypeInv,
           RenameTypeInv, HardlinkTypeInv, ChmodTypeInv, ChownTypeInv,
           TruncateTypeInv, WriteTypeInv, XattrTypeInv DEF NextBy
<1> QED BY <1>1, <1>2

\* The store keeps its type: every map holds values of the types of
\* MetadataStorage, and a live inode always has a link.
THEOREM TypeCorrect == Spec => []TypeOK
<1>1. Spec => []TypeInv
    BY InitTypeInv, NextTypeInv, PTL DEF Spec
<1> QED BY <1>1, PTL DEF TypeInv

-----------------------------------------------------------------------------
(* The ".." of a directory.  DotDotAccurate is not inductive by itself:    *)
(* rmdir and rename rewrite directory_parents for one inode only, which is *)
(* right only if that inode has no other directory entry (UniqueDirEntries *)
(* and KindAgrees), and mkdir's new inode must not already be named        *)
(* (NamedAllocated).                                                       *)

DotDotRest == NamedAllocated /\ KindAgrees /\ UniqueDirEntries /\ DotDotAccurate

\* A step that leaves the namespace alone, keeps every kind and only drops
\* live inodes preserves the namespace invariants.
LEMMA AttrStepDotDot ==
    ASSUME TypeInv, TypeInv', DotDotRest,
           UNCHANGED <<directories, dirs, parents, next_inode>>,
           live' \subseteq live,
           \A i \in Inodes : metadata'[i].kind = metadata[i].kind
    PROVE  DotDotRest'
<1> USE DEF TypeInv, TypeOK
<1>1. NamedAllocated'
    BY DEF DotDotRest, NamedAllocated
<1>2. KindAgrees'
    BY DEF DotDotRest, KindAgrees, TargetKind, Named, Entry, NoInode
<1>3. UniqueDirEntries'
    BY DEF DotDotRest, UniqueDirEntries, DirEntry, Named
<1>4. DotDotAccurate'
    BY DEF DotDotRest, DotDotAccurate, Named
<1> QED BY <1>1, <1>2, <1>3, <1>4 DEF DotDotRest

LEMMA ChmodDotDot ==
    ASSUME TypeInv, DotDotRest, NEW i \in Inodes, NEW m \in Modes,
           NEW u \in Uids, Chmod(i, m, u)
    PROVE  DotDotRest'
<1>1. TypeInv'
    BY ChmodTypeInv
<1>2. \A j \in Inodes : metadata'[j].kind = metadata[j].kind
    BY DEF Chmod, TypeInv, TypeOK
<1> QED BY <1>1, <1>2, AttrStepDotDot DEF Chmod

LEMMA ChownDotDot ==
    ASSUME TypeInv, DotDotRest, NEW i \in Inodes,
           NEW nu \in Uids \cup {NoChange}, NEW ng \in Gids \cup {NoChange},
           NEW u \in Uids, Chown(i, nu, ng, u)
    PROVE  DotDotRest'
<1>1. TypeInv'
    BY ChownTypeInv
<1>2. \A j \in Inodes : metadata'[j].kind = metadata[j].kind
    BY DEF Chown, TypeInv, TypeOK
<1> QED BY <1>1, <1>2, AttrStepDotDot DEF Chown

LEMMA TruncateDotDot ==
    ASSUME TypeInv, DotDotRest, NEW i \in Inodes,
           NEW l \in 0..(MaxFileSize + 1), NEW u \in Uids, NEW g \in Gids,
           Truncate(i, l, u, g)
    PROVE  DotDotRest'
<1>1. TypeInv'
    BY TruncateTypeInv
<1>2. \A j \in Inodes : metadata'[j].kind = metadata[j].kind
    BY DEF Truncate, TypeInv, TypeOK
<1> QED BY <1>1, <1>2, AttrStepDotDot DEF Truncate

LEMMA WriteDotDot ==
    ASSUME TypeInv, DotDotRest, NEW i \in Inodes, NEW o \in Offsets,
           NEW l \in Lengths, NEW u \in Uids, NEW g \in Gids,
           Write(i, o, l, u, g)
    PROVE  DotDotRest'
<1>1. TypeInv'
    BY WriteTypeInv
<1>2. \A j \in Inodes : metadata'[j].kind = metadata[j].kind
    BY DEF Write, TypeInv, TypeOK
<1> QED BY <1>1, <1>2, AttrStepDotDot DEF Write

LEMMA XattrDotDot ==
    ASSUME TypeInv, DotDotRest, NEW i \in Inodes, NEW key \in XattrKeys,
           SetXattr(i, key) \/ RemoveXattr(i, key)
    PROVE  DotDotRest'
<1>1. TypeInv'
    BY XattrTypeInv
<1>2. \A j \in Inodes : metadata'[j].kind = metadata[j].kind
    <2>1. CASE SetXattr(i, key)
        BY <2>1 DEF SetXattr, TypeInv, TypeOK
    <2>2. CASE RemoveXattr(i, key)
        BY <2>2 DEF RemoveXattr, TypeInv, TypeOK
    <2> QED BY <2>1, <2>2
<1>3. UNCHANGED <<directories, dirs, parents, next_inode>> /\ live' \subseteq live
    BY DEF SetXattr, RemoveXattr
<1> QED BY <1>1, <1>2, <1>3, AttrStepDotDot


\* Removing one entry, keeping every kind and only dropping live inodes,
\* preserves the namespace invariants (unlink).
LEMMA RemoveEntryDotDot ==
    ASSUME TypeInv, TypeInv', DotDotRest, NEW p \in Inodes, NEW n \in Names,
           directories' = [directories EXCEPT ![p][n] = NoEntry],
           UNCHANGED <<dirs, parents, next_inode>>,
           live' \subseteq live,
           \A i \in Inodes : metadata'[i].kind = metadata[i].kind
    PROVE  DotDotRest'
<1> USE DEF TypeInv, TypeOK
<1>1. NamedAllocated'
    BY DEF DotDotRest, NamedAllocated, NoEntry, NoInode
<1>2. KindAgrees'
    <2> SUFFICES ASSUME NEW d \in dirs', NEW m \in Names, Named(d, m)'
                 PROVE  (directories[d][m].kind = "dir" <=>
                           TargetKind(d, m) = "dir")'
        BY DEF KindAgrees
    <2>1. directories'[d][m] = directories[d][m] /\ Named(d, m)
        BY DEF Named, NoEntry, NoInode
    <2>2. directories[d][m].ino \in Inodes
        BY <2>1 DEF Named, Entry, NoInode
    <2> QED BY <2>1, <2>2 DEF DotDotRest, KindAgrees, TargetKind, Named
<1>3. UniqueDirEntries'
    BY DEF DotDotRest, UniqueDirEntries, DirEntry, Named, NoEntry, NoInode
<1>4. DotDotAccurate'
    BY DEF DotDotRest, DotDotAccurate, Named, NoEntry, NoInode
<1> QED BY <1>1, <1>2, <1>3, <1>4 DEF DotDotRest

LEMMA UnlinkDotDot ==
    ASSUME TypeInv, DotDotRest,
           NEW p \in Inodes, NEW n \in Names, NEW u \in Uids, NEW g \in Gids,
           Unlink(p, n, u, g)
    PROVE  DotDotRest'
<1>1. TypeInv'
    BY UnlinkTypeInv
<1>2. \A j \in Inodes : metadata'[j].kind = metadata[j].kind
    <2> DEFINE target == directories[p][n].ino
    <2>1. CASE target \in live
        <3>1. metadata' = [metadata EXCEPT ![target].hardlinks =
                             metadata[target].hardlinks - 1]
            BY <2>1 DEF Unlink
        <3>2. target \in Inodes /\ metadata[target] \in Attrs
            BY <2>1 DEF TypeInv, TypeOK
        <3> QED BY <3>1, <3>2 DEF TypeInv, TypeOK
    <2>2. CASE target \notin live
        BY <2>2 DEF Unlink
    <2> QED BY <2>1, <2>2
<1>3. live' \subseteq live
    BY DEF Unlink
<1> QED BY <1>1, <1>2, <1>3, RemoveEntryDotDot DEF Unlink

\* hardlink as the kernels send it: never to a directory.
LEMMA HardlinkDotDot ==
    ASSUME TypeInv, DotDotRest,
           NEW i \in Inodes, NEW np \in Inodes, NEW nn \in Names,
           NEW u \in Uids, NEW g \in Gids,
           metadata[i].kind # "dir",
           Hardlink(i, np, nn, u, g)
    PROVE  DotDotRest'
<1> USE DEF TypeInv, TypeOK
<1>1. TypeInv'
    BY HardlinkTypeInv
<1>2. \A j \in Inodes : metadata'[j].kind = metadata[j].kind
    BY DEF Hardlink
<1>3. directories' = [directories EXCEPT ![np][nn] =
                         [ino |-> i, kind |-> metadata[i].kind]]
    BY DEF Hardlink
<1>4. UNCHANGED <<live, dirs, parents, next_inode>>
    BY DEF Hardlink
<1>5. i < next_inode
    BY DEF Hardlink, DotDotRest, NamedAllocated
<1>6. NamedAllocated'
    BY <1>3, <1>4, <1>5 DEF DotDotRest, NamedAllocated
<1>7. KindAgrees'
    BY <1>1, <1>2, <1>3, <1>4
       DEF DotDotRest, KindAgrees, TargetKind, Named, Entry, NoInode
<1>8. UniqueDirEntries'
    BY <1>1, <1>3, <1>4 DEF DotDotRest, UniqueDirEntries, DirEntry, Named
<1>9. DotDotAccurate'
    BY <1>1, <1>3, <1>4 DEF DotDotRest, DotDotAccurate, Named
<1> QED BY <1>6, <1>7, <1>8, <1>9 DEF DotDotRest


\* create names a fresh inode with a non-directory entry.
LEMMA CreateDotDot ==
    ASSUME TypeInv, DotDotRest,
           NEW p \in Inodes, NEW n \in Names, NEW u \in Uids, NEW g \in Gids,
           NEW m \in Modes, NEW k \in CreateKinds,
           Create(p, n, u, g, m, k)
    PROVE  DotDotRest'
<1> USE DEF TypeInv, TypeOK
<1>1. TypeInv'
    BY CreateTypeInv
<1>2. /\ directories' = [directories EXCEPT ![p][n] = [ino |-> next_inode, kind |-> "file"]]
      /\ metadata' = [metadata EXCEPT ![next_inode] = NewAttrs(k, m, u, g, 0, 1)]
      /\ live' = live \cup {next_inode} /\ next_inode' = next_inode + 1
      /\ UNCHANGED <<dirs, parents>>
      /\ p \in dirs /\ next_inode \in Inodes
    BY DEF Create, Inodes
<1>3. metadata'[next_inode].kind # "dir"
    BY <1>2 DEF NewAttrs, CreateKinds
<1>4. ASSUME NEW d \in dirs, NEW x \in Names, (d # p \/ x # n)
      PROVE  /\ directories'[d][x] = directories[d][x]
             /\ directories[d][x].ino # next_inode
             /\ Named(d, x) => metadata'[directories[d][x].ino] =
                                 metadata[directories[d][x].ino]
    <2>1. directories'[d][x] = directories[d][x]
        BY <1>2, <1>4
    <2>2. directories[d][x].ino < next_inode
        BY DEF DotDotRest, NamedAllocated
    <2> QED BY <1>2, <2>1, <2>2 DEF Named, Entry, NoInode
<1>5. NamedAllocated'
    <2>1. \A d \in dirs, x \in Names : directories'[d][x].ino < next_inode + 1
        <3> SUFFICES ASSUME NEW d \in dirs, NEW x \in Names
                     PROVE  directories'[d][x].ino < next_inode + 1
            OBVIOUS
        <3>1. CASE (d = p /\ x = n)
            <4>1. directories'[d][x].ino = next_inode
                BY <1>2, <3>1
            <4> QED BY <4>1
        <3>2. CASE (d # p \/ x # n)
            <4>1. directories'[d][x] = directories[d][x]
                BY <1>4, <3>2
            <4> QED BY <4>1 DEF DotDotRest, NamedAllocated, Entry, NoInode, Inodes
        <3> QED BY <3>1, <3>2
    <2>2. \A i \in live' \cup dirs' : i < next_inode + 1
        BY <1>2 DEF DotDotRest, NamedAllocated
    <2> QED BY <1>2, <2>1, <2>2 DEF NamedAllocated
<1>6. KindAgrees'
    <2> SUFFICES ASSUME NEW d \in dirs', NEW x \in Names, Named(d, x)'
                 PROVE  (directories[d][x].kind = "dir" <=>
                           TargetKind(d, x) = "dir")'
        BY DEF KindAgrees
    <2>1. CASE (d = p /\ x = n)
        BY <1>2, <1>3, <2>1 DEF TargetKind, Named
    <2>2. CASE (d # p \/ x # n)
        BY <1>2, <1>4, <2>2 DEF DotDotRest, KindAgrees, TargetKind, Named
    <2> QED BY <2>1, <2>2
<1>9. ASSUME NEW d \in dirs, NEW x \in Names, DirEntry(d, x)'
      PROVE  (d # p \/ x # n) /\ DirEntry(d, x)
                                /\ directories'[d][x] = directories[d][x]
    <2>1. (d # p \/ x # n)
        BY <1>2, <1>9 DEF DirEntry
    <2> QED BY <1>4, <2>1, <1>9 DEF DirEntry, Named
<1>7. UniqueDirEntries'
    BY <1>2, <1>9 DEF DotDotRest, UniqueDirEntries
<1>8. DotDotAccurate'
    <2> SUFFICES ASSUME NEW d \in dirs, NEW x \in Names, DirEntry(d, x)'
                 PROVE  parents'[directories'[d][x].ino] = d
        BY <1>2 DEF DotDotAccurate, DirEntry
    <2> QED BY <1>2, <1>9 DEF DotDotRest, DotDotAccurate, DirEntry
<1> QED BY <1>5, <1>6, <1>7, <1>8 DEF DotDotRest


\* mkdir names a fresh directory inode, records its parent and gives it an
\* empty descriptor; an entry it overwrites loses nothing the invariants
\* need.
LEMMA MkdirDotDot ==
    ASSUME TypeInv, DotDotRest,
           NEW p \in Inodes, NEW n \in Names, NEW u \in Uids, NEW g \in Gids,
           NEW m \in Modes,
           Mkdir(p, n, u, g, m)
    PROVE  DotDotRest'
<1> USE DEF TypeInv, TypeOK
<1>1. TypeInv'
    BY MkdirTypeInv
<1>2. /\ directories' = [directories EXCEPT
                            ![p][n] = [ino |-> next_inode, kind |-> "dir"],
                            ![next_inode] = EmptyDir]
      /\ metadata' = [metadata EXCEPT ![next_inode] =
                                 NewAttrs("dir", m, u, g, BlockSize, 2)]
      /\ parents' = [parents EXCEPT ![next_inode] = p]
      /\ dirs' = dirs \cup {next_inode}
      /\ live' = live \cup {next_inode} /\ next_inode' = next_inode + 1
      /\ p \in dirs /\ next_inode \in Inodes
    BY DEF Mkdir, Inodes
<1>3. p # next_inode
    BY <1>2 DEF DotDotRest, NamedAllocated
\* The three kinds of entry after the step: those of the new directory
\* (none), the new entry, and the old entries, which name old inodes.
<1>4. ASSUME NEW d \in dirs', NEW x \in Names
      PROVE  \/ d = next_inode /\ ~Named(d, x)'
             \/ d = p /\ x = n
                /\ directories'[d][x] = [ino |-> next_inode, kind |-> "dir"]
             \/ /\ d \in dirs /\ d # next_inode /\ (d # p \/ x # n)
                /\ directories'[d][x] = directories[d][x]
                /\ directories[d][x].ino \in Inodes \cup {NoInode}
                /\ directories[d][x].ino < next_inode
    <2>1. CASE d = next_inode
        BY <1>2, <1>3, <2>1 DEF Named, EmptyDir, NoEntry, NoInode
    <2>2. CASE d = p /\ x = n
        BY <1>2, <1>3, <2>2
    <2>3. CASE d # next_inode /\ (d # p \/ x # n)
        <3>1. d \in dirs
            BY <1>2, <1>4, <2>3
        <3>2. directories'[d][x] = directories[d][x]
            BY <1>2, <2>3, <3>1
        <3> QED BY <3>1, <3>2, <2>3 DEF DotDotRest, NamedAllocated, Entry
    <2> QED BY <2>1, <2>2, <2>3
<1>5. \A j \in Inodes \ {next_inode} :
         metadata'[j] = metadata[j] /\ parents'[j] = parents[j]
    BY <1>2
<1>6. NamedAllocated'
    <2>1. ASSUME NEW d \in dirs', NEW x \in Names
          PROVE  directories'[d][x].ino < next_inode + 1
        <3>1. CASE d = next_inode
            <4>1. directories'[d][x].ino = NoInode
                BY <1>2, <1>3, <3>1 DEF EmptyDir, NoEntry
            <4> QED BY <4>1, <1>2 DEF NoInode, Inodes
        <3>2. CASE d = p /\ x = n
            BY <1>2, <1>3, <3>2 DEF Inodes
        <3>3. CASE d # next_inode /\ ~(d = p /\ x = n)
            <4>1. /\ directories'[d][x] = directories[d][x]
                  /\ directories[d][x].ino \in Inodes \cup {NoInode}
                  /\ directories[d][x].ino < next_inode
                BY <1>4, <3>3
            <4> QED BY <4>1 DEF Inodes, NoInode
        <3> QED BY <3>1, <3>2, <3>3
    <2>2. \A i \in live' \cup dirs' : i < next_inode + 1
        BY <1>2 DEF DotDotRest, NamedAllocated
    <2> QED BY <1>2, <2>1, <2>2 DEF NamedAllocated
<1>7. KindAgrees'
    <2> SUFFICES ASSUME NEW d \in dirs', NEW x \in Names, Named(d, x)'
                 PROVE  (directories[d][x].kind = "dir" <=>
                           TargetKind(d, x) = "dir")'
        BY DEF KindAgrees
    <2>1. CASE d = p /\ x = n
        BY <1>2, <2>1 DEF TargetKind, Named, NewAttrs
    <2>2. CASE ~(d = p /\ x = n)
        <3>1. /\ d \in dirs /\ directories'[d][x] = directories[d][x]
              /\ directories[d][x].ino \in Inodes \ {next_inode}
            BY <1>4, <2>2 DEF Named, NoInode
        <3> QED BY <3>1, <1>5 DEF DotDotRest, KindAgrees, TargetKind, Named
    <2> QED BY <2>1, <2>2
<1>8. UniqueDirEntries'
    <2> SUFFICES ASSUME NEW d1 \in dirs', NEW d2 \in dirs',
                        NEW x1 \in Names, NEW x2 \in Names,
                        DirEntry(d1, x1)', DirEntry(d2, x2)',
                        directories'[d1][x1].ino = directories'[d2][x2].ino
                 PROVE  d1 = d2 /\ x1 = x2
        BY DEF UniqueDirEntries
    <2>1. CASE d1 = p /\ x1 = n
        BY <1>4, <2>1 DEF DirEntry
    <2>2. CASE d2 = p /\ x2 = n
        BY <1>4, <2>2 DEF DirEntry
    <2>3. CASE ~(d1 = p /\ x1 = n) /\ ~(d2 = p /\ x2 = n)
        <3>1. d1 \in dirs /\ directories'[d1][x1] = directories[d1][x1]
            BY <1>4, <2>3 DEF DirEntry
        <3>2. d2 \in dirs /\ directories'[d2][x2] = directories[d2][x2]
            BY <1>4, <2>3 DEF DirEntry
        <3>3. DirEntry(d1, x1) /\ DirEntry(d2, x2)
            BY <3>1, <3>2 DEF DirEntry, Named
        <3> QED BY <3>1, <3>2, <3>3 DEF DotDotRest, UniqueDirEntries
    <2> QED BY <2>1, <2>2, <2>3
<1>9. DotDotAccurate'
    <2> SUFFICES ASSUME NEW d \in dirs', NEW x \in Names,
                        Named(d, x)', directories'[d][x].kind = "dir"
                 PROVE  parents'[directories'[d][x].ino] = d
        BY DEF DotDotAccurate
    <2>1. CASE d = p /\ x = n
        BY <1>2, <2>1
    <2>2. CASE ~(d = p /\ x = n)
        <3>1. /\ d \in dirs /\ directories'[d][x] = directories[d][x]
              /\ directories[d][x].ino \in Inodes \ {next_inode}
            BY <1>4, <2>2 DEF Named, NoInode
        <3> QED BY <3>1, <1>5 DEF DotDotRest, DotDotAccurate, Named
    <2> QED BY <2>1, <2>2
<1> QED BY <1>6, <1>7, <1>8, <1>9 DEF DotDotRest


\* rmdir resets directory_parents for its target only.  That is right
\* because a directory inode has one directory entry, the one removed: any
\* other "dir" entry naming the target would, by KindAgrees, make the
\* removed entry a "dir" entry too, against UniqueDirEntries.
LEMMA RmdirDotDot ==
    ASSUME TypeInv, DotDotRest,
           NEW p \in Inodes, NEW n \in Names, NEW u \in Uids, NEW g \in Gids,
           Rmdir(p, n, u, g)
    PROVE  DotDotRest'
<1> USE DEF TypeInv, TypeOK
<1> DEFINE target == directories[p][n].ino
<1>1. TypeInv'
    BY RmdirTypeInv
<1>2. /\ directories' = [directories EXCEPT ![p][n] = NoEntry,
                                            ![target] = EmptyDir]
      /\ dirs' = dirs \ {target} /\ live' = live \ {target}
      /\ parents' = [parents EXCEPT ![target] = NoInode]
      /\ UNCHANGED <<metadata, next_inode>>
      /\ p \in dirs /\ Named(p, n) /\ target \in Inodes
    BY DEF Rmdir, Named, Entry, NoInode
\* An entry that survives the step was there before, unchanged.
<1>3. ASSUME NEW d \in dirs', NEW x \in Names, Named(d, x)'
      PROVE  /\ d \in dirs /\ d # target /\ ~(d = p /\ x = n)
             /\ directories'[d][x] = directories[d][x]
             /\ Named(d, x)
    <2>1. d \in dirs /\ d # target
        BY <1>2, <1>3
    <2>2. ~(d = p /\ x = n)
        BY <1>2, <1>3, <2>1 DEF Named, NoEntry
    <2>3. directories'[d][x] = directories[d][x]
        BY <1>2, <2>1, <2>2
    <2> QED BY <1>3, <2>1, <2>2, <2>3 DEF Named
<1>4. NamedAllocated'
    <2>1. ASSUME NEW d \in dirs', NEW x \in Names
          PROVE  directories'[d][x].ino < next_inode
        <3>1. CASE Named(d, x)'
            BY <1>2, <1>3, <3>1 DEF DotDotRest, NamedAllocated
        <3>2. CASE ~Named(d, x)'
            BY <1>2, <3>2 DEF Named, NoInode
        <3> QED BY <3>1, <3>2
    <2> QED BY <1>2, <2>1 DEF DotDotRest, NamedAllocated
<1>5. KindAgrees'
    <2> SUFFICES ASSUME NEW d \in dirs', NEW x \in Names, Named(d, x)'
                 PROVE  (directories[d][x].kind = "dir" <=>
                           TargetKind(d, x) = "dir")'
        BY DEF KindAgrees
    <2>1. /\ d \in dirs /\ directories'[d][x] = directories[d][x]
          /\ Named(d, x) /\ Named(d, x)'
        BY <1>3
    <2>2. TargetKind(d, x)' = TargetKind(d, x)
        BY <1>2, <2>1 DEF TargetKind
    <2> QED BY <2>1, <2>2 DEF DotDotRest, KindAgrees
<1>6. UniqueDirEntries'
    <2> SUFFICES ASSUME NEW d1 \in dirs', NEW d2 \in dirs',
                        NEW x1 \in Names, NEW x2 \in Names,
                        DirEntry(d1, x1)', DirEntry(d2, x2)',
                        directories'[d1][x1].ino = directories'[d2][x2].ino
                 PROVE  d1 = d2 /\ x1 = x2
        BY DEF UniqueDirEntries
    <2>1. /\ d1 \in dirs /\ directories'[d1][x1] = directories[d1][x1]
          /\ d2 \in dirs /\ directories'[d2][x2] = directories[d2][x2]
        BY <1>3 DEF DirEntry
    <2>2. DirEntry(d1, x1) /\ DirEntry(d2, x2)
        BY <2>1 DEF DirEntry, Named
    <2> QED BY <2>1, <2>2 DEF DotDotRest, UniqueDirEntries
<1>7. DotDotAccurate'
    <2> SUFFICES ASSUME NEW d \in dirs', NEW x \in Names,
                        Named(d, x)', directories'[d][x].kind = "dir"
                 PROVE  parents'[directories'[d][x].ino] = d
        BY DEF DotDotAccurate
    <2>1. /\ d \in dirs /\ ~(d = p /\ x = n)
          /\ directories'[d][x] = directories[d][x] /\ Named(d, x)
        BY <1>3
    <2>2. DirEntry(d, x)
        BY <2>1 DEF DirEntry
    <2>3. directories[d][x].ino # target
        <3> SUFFICES ASSUME directories[d][x].ino = target PROVE FALSE
            OBVIOUS
        <3>1. metadata[target].kind = "dir"
            BY <2>1, <2>2 DEF DotDotRest, KindAgrees, TargetKind, DirEntry
        <3>2. DirEntry(p, n)
            BY <1>2, <3>1 DEF DotDotRest, KindAgrees, TargetKind, DirEntry
        <3> QED BY <1>2, <2>1, <2>2, <3>2 DEF DotDotRest, UniqueDirEntries
    <2>4. directories[d][x].ino \in Inodes
        BY <2>1 DEF Named, Entry, NoInode
    <2> QED BY <1>2, <2>1, <2>2, <2>3, <2>4
                DEF DotDotRest, DotDotAccurate, DirEntry
<1> QED BY <1>4, <1>5, <1>6, <1>7 DEF DotDotRest


\* rename moves one entry and, for a directory, rewrites directory_parents
\* of the moved inode.  Every other "dir" entry names another inode
\* (UniqueDirEntries), so no other ".." changes.
LEMMA RenameDotDot ==
    ASSUME TypeInv, DotDotRest,
           NEW p \in Inodes, NEW n \in Names, NEW np \in Inodes,
           NEW nn \in Names, NEW u \in Uids, NEW g \in Gids,
           Rename(p, n, np, nn, u, g)
    PROVE  DotDotRest'
<1> USE DEF TypeInv, TypeOK
<1> DEFINE entry == directories[p][n]
<1>1. TypeInv'
    BY RenameTypeInv
<1>2. /\ directories' = [directories EXCEPT ![p][n] = NoEntry,
                                            ![np][nn] = entry]
      /\ parents' = IF entry.kind = "dir"
                    THEN [parents EXCEPT ![entry.ino] = np]
                    ELSE parents
      /\ UNCHANGED <<metadata, live, dirs, next_inode>>
      /\ p \in dirs /\ np \in dirs /\ Named(p, n)
      /\ entry \in Entry /\ entry.ino \in Inodes
    BY DEF Rename, Named, Entry, NoInode
<1>3. ASSUME NEW d \in dirs, NEW x \in Names
      PROVE  \/ d = np /\ x = nn /\ directories'[d][x] = entry
             \/ /\ ~(d = np /\ x = nn) /\ d = p /\ x = n
                /\ directories'[d][x] = NoEntry
             \/ /\ ~(d = np /\ x = nn) /\ ~(d = p /\ x = n)
                /\ directories'[d][x] = directories[d][x]
    BY <1>2
\* An entry other than the destination that names something after the
\* step was there before, unchanged, and is not the source.
<1>4. ASSUME NEW d \in dirs, NEW x \in Names, Named(d, x)',
             ~(d = np /\ x = nn)
      PROVE  /\ ~(d = p /\ x = n)
             /\ directories'[d][x] = directories[d][x]
             /\ Named(d, x)
    BY <1>3, <1>4 DEF Named, NoEntry, NoInode
<1>5. NamedAllocated'
    <2>1. ASSUME NEW d \in dirs, NEW x \in Names
          PROVE  directories'[d][x].ino < next_inode
        <3>1. entry.ino < next_inode /\ directories[d][x].ino < next_inode
            BY <1>2 DEF DotDotRest, NamedAllocated
        <3>2. NoEntry.ino < next_inode
            BY DEF NoEntry, NoInode
        <3> QED BY <1>3, <3>1, <3>2
    <2> QED BY <1>2, <2>1 DEF DotDotRest, NamedAllocated
<1>6. KindAgrees'
    <2> SUFFICES ASSUME NEW d \in dirs, NEW x \in Names, Named(d, x)'
                 PROVE  (directories[d][x].kind = "dir" <=>
                           TargetKind(d, x) = "dir")'
        BY <1>2 DEF KindAgrees
    <2>1. CASE d = np /\ x = nn
        BY <1>2, <1>3, <2>1 DEF DotDotRest, KindAgrees, TargetKind, Named
    <2>2. CASE ~(d = np /\ x = nn)
        <3>1. directories'[d][x] = directories[d][x] /\ Named(d, x)
            BY <1>4, <2>2
        <3>2. TargetKind(d, x)' = TargetKind(d, x)
            BY <1>2, <3>1 DEF TargetKind, Named
        <3> QED BY <3>1, <3>2 DEF DotDotRest, KindAgrees
    <2> QED BY <2>1, <2>2
<1>7. UniqueDirEntries'
    <2> SUFFICES ASSUME NEW d1 \in dirs, NEW d2 \in dirs,
                        NEW x1 \in Names, NEW x2 \in Names,
                        DirEntry(d1, x1)', DirEntry(d2, x2)',
                        directories'[d1][x1].ino = directories'[d2][x2].ino
                 PROVE  d1 = d2 /\ x1 = x2
        BY <1>2 DEF UniqueDirEntries
    \* The moved entry and an untouched one never name the same directory.
    <2>1. ASSUME NEW d \in dirs, NEW x \in Names, DirEntry(d, x)',
                 ~(d = np /\ x = nn), entry.kind = "dir"
          PROVE  directories'[d][x].ino # entry.ino
        <3>1. ~(d = p /\ x = n) /\ directories'[d][x] = directories[d][x]
              /\ DirEntry(d, x)
            BY <1>4, <2>1 DEF DirEntry
        <3>2. DirEntry(p, n)
            BY <1>2, <2>1 DEF DirEntry
        <3> QED BY <1>2, <3>1, <3>2 DEF DotDotRest, UniqueDirEntries
    <2>2. CASE d1 = np /\ x1 = nn /\ d2 = np /\ x2 = nn
        BY <2>2
    <2>3. CASE d1 = np /\ x1 = nn /\ ~(d2 = np /\ x2 = nn)
        BY <1>3, <2>1, <2>3 DEF DirEntry
    <2>4. CASE ~(d1 = np /\ x1 = nn) /\ d2 = np /\ x2 = nn
        BY <1>3, <2>1, <2>4 DEF DirEntry
    <2>5. CASE ~(d1 = np /\ x1 = nn) /\ ~(d2 = np /\ x2 = nn)
        <3>1. /\ directories'[d1][x1] = directories[d1][x1]
              /\ directories'[d2][x2] = directories[d2][x2]
              /\ DirEntry(d1, x1) /\ DirEntry(d2, x2)
            BY <1>4, <2>5 DEF DirEntry
        <3> QED BY <3>1 DEF DotDotRest, UniqueDirEntries
    <2> QED BY <2>2, <2>3, <2>4, <2>5
<1>8. DotDotAccurate'
    <2> SUFFICES ASSUME NEW d \in dirs, NEW x \in Names,
                        Named(d, x)', directories'[d][x].kind = "dir"
                 PROVE  parents'[directories'[d][x].ino] = d
        BY <1>2 DEF DotDotAccurate
    <2>1. CASE d = np /\ x = nn
        BY <1>2, <1>3, <2>1
    <2>2. CASE ~(d = np /\ x = nn)
        <3>1. /\ ~(d = p /\ x = n) /\ directories'[d][x] = directories[d][x]
              /\ DirEntry(d, x)
            BY <1>4, <2>2 DEF DirEntry
        <3>2. directories[d][x].ino \in Inodes
            BY <3>1 DEF DirEntry, Named, Entry, NoInode
        <3>3. entry.kind = "dir" => directories[d][x].ino # entry.ino
            <4>1. entry.kind = "dir" => DirEntry(p, n)
                BY <1>2 DEF DirEntry
            <4> QED BY <1>2, <3>1, <4>1 DEF DotDotRest, UniqueDirEntries
        <3>4. parents'[directories[d][x].ino] = parents[directories[d][x].ino]
            BY <1>2, <3>2, <3>3
        <3> QED BY <3>1, <3>4 DEF DotDotRest, DotDotAccurate, DirEntry
    <2> QED BY <2>1, <2>2
<1> QED BY <1>2, <1>5, <1>6, <1>7, <1>8 DEF DotDotRest


LEMMA InitDotDot == Init => DotDotRest
<1> SUFFICES ASSUME Init PROVE DotDotRest
    OBVIOUS
<1>1. \A d \in dirs, x \in Names : ~Named(d, x)
    BY DEF Init, Named, EmptyDir, NoEntry, ROOT_INODE, Inodes
<1>2. NamedAllocated
    BY DEF Init, NamedAllocated, EmptyDir, NoEntry, NoInode, ROOT_INODE, Inodes
<1> QED BY <1>1, <1>2
        DEF DotDotRest, KindAgrees, UniqueDirEntries, DirEntry, DotDotAccurate

LEMMA NextDotDot == TypeInv /\ DotDotRest /\ [Next]_vars => DotDotRest'
<1> SUFFICES ASSUME TypeInv, DotDotRest, [Next]_vars PROVE DotDotRest'
    OBVIOUS
<1>1. CASE UNCHANGED vars
    BY <1>1 DEF vars, DotDotRest, NamedAllocated, KindAgrees, TargetKind,
                UniqueDirEntries, DirEntry, DotDotAccurate, Named
<1>2. CASE Next
    <2> PICK u \in Uids, g \in Gids : NextBy(u, g)
        BY <1>2 DEF Next
    <2> QED
        BY CreateDotDot, MkdirDotDot, UnlinkDotDot, RmdirDotDot,
           RenameDotDot, HardlinkDotDot, ChmodDotDot, ChownDotDot,
           TruncateDotDot, WriteDotDot, XattrDotDot DEF NextBy
<1> QED BY <1>1, <1>2

\* The inductive invariant, checked by the MCMetadata run, holds in every
\* reachable state for all values of the constants.
THEOREM DotDotInvariant == Spec => []DotDotInv
<1>1. Init => TypeInv /\ DotDotRest
    BY InitTypeInv, InitDotDot
<1>2. TypeInv /\ DotDotRest /\ [Next]_vars => (TypeInv /\ DotDotRest)'
    BY NextTypeInv, NextDotDot
<1>3. TypeInv /\ DotDotRest <=> DotDotInv
    BY DEF DotDotInv, DotDotRest
<1> QED BY <1>1, <1>2, <1>3, PTL DEF Spec

\* The ".." readdir reports for a directory (directory_parents, kept by
\* mkdir, rename and rmdir) is the directory whose descriptor names it,
\* whatever the number of mounts sending requests.
THEOREM DotDotCorrect == Spec => []DotDotAccurate
BY DotDotInvariant, PTL DEF DotDotInv

=============================================================================
