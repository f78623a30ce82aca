------------------------ MODULE MetadataStickyProofs ------------------------
(***************************************************************************)
(* Proof that the metadata store enforces the sticky bit (the action      *)
(* property StickyBitProtectsEntries, checked by the metadata_sticky run) *)
(* for every value of the constants, when every request comes from one    *)
(* kernel with an up to date view (SingleMount).                          *)
(*                                                                         *)
(* unlink, rmdir and rename check the rule themselves (StickyAllows);     *)
(* create, mkdir and hardlink change only a free name, which the VFS      *)
(* checks before it sends them, and mkdir's fresh descriptor belongs to   *)
(* an inode that is not yet a directory (NamedAllocated, proved in        *)
(* MetadataProofs).  The step lemmas need only TypeInv and NamedAllocated *)
(* of the state the step starts from.                                     *)
(***************************************************************************)
EXTENDS MetadataProofs

\* A non-root user u may change entry n of directory d: d is not sticky,
\* the entry is free, or u owns d or the inode the entry names.
MayChange(u, d, n) ==
    (Named(d, n) /\ metadata[d].mode.sticky)
        => u \in {0, metadata[d].uid, metadata[directories[d][n].ino].uid}

\* StickyRespected, stated entry by entry.
LEMMA StickyByEntry ==
    ASSUME NEW u,
           \A d \in dirs, n \in Names :
              directories'[d][n] # directories[d][n] => MayChange(u, d, n)
    PROVE  StickyRespected(u)
BY DEF StickyRespected, MayChange

\* StickyAllows, as unlink, rmdir and rename check it, lets u change the
\* entry.
LEMMA AllowsMayChange ==
    ASSUME NEW u, NEW p, NEW n,
           StickyAllows(metadata[p], directories[p][n].ino, u)
    PROVE  MayChange(u, p, n)
BY DEF StickyAllows, MayChange

\* A free entry may be changed by anyone.
LEMMA FreeMayChange ==
    ASSUME NEW u, NEW p, NEW n, ~Named(p, n)
    PROVE  MayChange(u, p, n)
BY DEF MayChange

-----------------------------------------------------------------------------
(* What the descriptor updates of the methods change.                      *)

\* One entry overwritten (create, unlink, hardlink).
LEMMA OneEntry ==
    ASSUME TypeOK, NEW u, NEW p \in Inodes, NEW n \in Names, NEW e,
           directories' = [directories EXCEPT ![p][n] = e],
           MayChange(u, p, n)
    PROVE  StickyRespected(u)
<1> SUFFICES ASSUME NEW d \in dirs, NEW m \in Names,
                    directories'[d][m] # directories[d][m]
             PROVE  MayChange(u, d, m)
  BY StickyByEntry
<1>1. d = p /\ m = n
  BY DEF TypeOK
<1>. QED BY <1>1

\* Two entries overwritten, the first emptied (rename).
LEMMA TwoEntries ==
    ASSUME TypeOK, NEW u, NEW p \in Inodes, NEW n \in Names,
           NEW np \in Inodes, NEW nn \in Names, NEW e,
           directories' = [directories EXCEPT ![p][n] = NoEntry, ![np][nn] = e],
           MayChange(u, p, n), MayChange(u, np, nn)
    PROVE  StickyRespected(u)
<1> SUFFICES ASSUME NEW d \in dirs, NEW m \in Names,
                    directories'[d][m] # directories[d][m]
             PROVE  MayChange(u, d, m)
  BY StickyByEntry
<1>1. (d = p /\ m = n) \/ (d = np /\ m = nn)
  BY DEF TypeOK
<1>. QED BY <1>1

\* An entry overwritten and a whole descriptor emptied (mkdir, rmdir):
\* emptying the descriptor of a directory whose entries are all free, or
\* of an inode that is not a directory, changes nothing the rule protects.
LEMMA EntryAndDir ==
    ASSUME TypeOK, NEW u, NEW p \in Inodes, NEW n \in Names,
           NEW t \in Inodes, NEW e,
           directories' = [directories EXCEPT ![p][n] = e, ![t] = EmptyDir],
           MayChange(u, p, n),
           t \in dirs => \A m \in Names : ~Named(t, m)
    PROVE  StickyRespected(u)
<1> SUFFICES ASSUME NEW d \in dirs, NEW m \in Names,
                    directories'[d][m] # directories[d][m]
             PROVE  MayChange(u, d, m)
  BY StickyByEntry
<1>1. CASE d = t
  BY <1>1, FreeMayChange
<1>2. CASE d # t
  <2>1. d = p /\ m = n
    BY <1>2 DEF TypeOK
  <2>. QED BY <2>1
<1>. QED BY <1>1, <1>2

-----------------------------------------------------------------------------
(* One lemma per method.  Each assumes what the kernel has checked before *)
(* sending the request, with one mount.                                   *)

LEMMA CreateSticky ==
    ASSUME TypeOK, NEW p \in Inodes, NEW n \in Names, NEW u, NEW g, NEW m, NEW k,
           Create(p, n, u, g, m, k)
    PROVE  StickyRespected(u)
<1>1. ~Named(p, n)
  BY DEF Create
<1>. QED BY <1>1, FreeMayChange, OneEntry DEF Create

\* mkdir replaces a name the kernel saw free and empties the descriptor
\* of the inode it allocates, which is not a directory yet.
LEMMA MkdirSticky ==
    ASSUME TypeOK, NamedAllocated, NEW p \in Inodes, NEW n \in Names,
           NEW u, NEW g, NEW m, ~Named(p, n), Mkdir(p, n, u, g, m)
    PROVE  StickyRespected(u)
<1>1. next_inode \in Inodes /\ next_inode \notin dirs
  BY DEF Mkdir, TypeOK, NamedAllocated, Inodes
<1>2. directories' = [directories EXCEPT ![p][n] = [ino |-> next_inode, kind |-> "dir"],
                                         ![next_inode] = EmptyDir]
  BY DEF Mkdir
<1>. QED BY <1>1, <1>2, FreeMayChange, EntryAndDir

LEMMA UnlinkSticky ==
    ASSUME TypeOK, NEW p \in Inodes, NEW n \in Names, NEW u, NEW g,
           Unlink(p, n, u, g)
    PROVE  StickyRespected(u)
<1>1. MayChange(u, p, n)
  BY AllowsMayChange DEF Unlink
<1>. QED BY <1>1, OneEntry DEF Unlink

\* rmdir empties the descriptor of a directory only when it has no entry.
LEMMA RmdirSticky ==
    ASSUME TypeOK, NEW p \in Inodes, NEW n \in Names, NEW u, NEW g,
           Rmdir(p, n, u, g)
    PROVE  StickyRespected(u)
<1> DEFINE target == directories[p][n].ino
<1>1. MayChange(u, p, n)
  BY AllowsMayChange DEF Rmdir
<1>2. target \in Inodes
  BY DEF Rmdir, Named, TypeOK, Entry, NoInode
<1>3. target \in dirs => \A m \in Names : ~Named(target, m)
  BY DEF Rmdir
<1>4. directories' = [directories EXCEPT ![p][n] = NoEntry, ![target] = EmptyDir]
  BY DEF Rmdir
<1>. QED BY <1>1, <1>2, <1>3, <1>4, EntryAndDir

\* rename applies the rule to the source and to a replaced destination.
LEMMA RenameSticky ==
    ASSUME TypeOK, NEW p \in Inodes, NEW n \in Names, NEW np \in Inodes,
           NEW nn \in Names, NEW u, NEW g, Rename(p, n, np, nn, u, g)
    PROVE  StickyRespected(u)
<1>1. MayChange(u, p, n)
  BY AllowsMayChange DEF Rename
<1>2. MayChange(u, np, nn)
  <2>1. CASE Named(np, nn)
    BY <2>1, AllowsMayChange DEF Rename
  <2>2. CASE ~Named(np, nn)
    BY <2>2, FreeMayChange
  <2>. QED BY <2>1, <2>2
<1>3. directories' = [directories EXCEPT ![p][n] = NoEntry,
                                         ![np][nn] = directories[p][n]]
  BY DEF Rename
<1>. QED BY <1>1, <1>2, <1>3, TwoEntries

LEMMA HardlinkSticky ==
    ASSUME TypeOK, NEW i, NEW np \in Inodes, NEW nn \in Names, NEW u, NEW g,
           ~Named(np, nn), Hardlink(i, np, nn, u, g)
    PROVE  StickyRespected(u)
BY FreeMayChange, OneEntry DEF Hardlink

\* The methods that only change attributes leave every entry alone.
LEMMA AttrSticky ==
    ASSUME NEW u, UNCHANGED directories
    PROVE  StickyRespected(u)
BY StickyByEntry

-----------------------------------------------------------------------------
\* A step of user u, as one kernel sends it, respects the sticky bit.
LEMMA StickyStep ==
    ASSUME TypeInv, NamedAllocated, SingleMount,
           NEW u \in Uids, NEW g \in Gids, NextBy(u, g)
    PROVE  StickyRespected(u)
<1> USE DEF TypeInv
<1>1. CASE \E p \in Inodes, n \in Names, m \in Modes, k \in CreateKinds :
              Sends(TRUE, WasDir(p)) /\ Create(p, n, u, g, m, k)
  BY <1>1, CreateSticky
<1>2. CASE \E p \in Inodes, n \in Names, m \in Modes :
              Sends(~Named(p, n), WasDir(p)) /\ Mkdir(p, n, u, g, m)
  BY <1>2, MkdirSticky DEF Sends
<1>3. CASE \E p \in Inodes, n \in Names :
              Sends(TargetKind(p, n) \in {"file", "symlink"}, WasDir(p))
              /\ Unlink(p, n, u, g)
  BY <1>3, UnlinkSticky
<1>4. CASE \E p \in Inodes, n \in Names :
              Sends(TargetKind(p, n) = "dir", WasDir(p)) /\ Rmdir(p, n, u, g)
  BY <1>4, RmdirSticky
<1>5. CASE \E p, np \in Inodes, n, nn \in Names :
              /\ Sends(VFSRename(p, n, np, nn), WasDir(p) /\ WasDir(np))
              /\ Rename(p, n, np, nn, u, g)
  BY <1>5, RenameSticky
<1>6. CASE \E i, np \in Inodes, nn \in Names :
              /\ metadata[i].kind # "dir"
              /\ Sends(~Named(np, nn), WasAllocated(i) /\ WasDir(np))
              /\ Hardlink(i, np, nn, u, g)
  BY <1>6, HardlinkSticky DEF Sends
<1>8. CASE \/ \E i \in Inodes, m \in Modes : Chmod(i, m, u)
           \/ \E i \in Inodes, nu \in Uids \cup {NoChange}, ng \in Gids \cup {NoChange} :
                 Chown(i, nu, ng, u)
           \/ \E i \in Inodes, l \in 0..(MaxFileSize + 1) : Truncate(i, l, u, g)
           \/ \E i \in Inodes, o \in Offsets, l \in Lengths : Write(i, o, l, u, g)
           \/ \E i \in Inodes, key \in XattrKeys : SetXattr(i, key) \/ RemoveXattr(i, key)
  <2>. UNCHANGED directories
    BY <1>8 DEF Chmod, Chown, Truncate, Write, SetXattr, RemoveXattr
  <2>. QED BY AttrSticky
<1>. QED BY <1>1, <1>2, <1>3, <1>4, <1>5, <1>6, <1>8 DEF NextBy

\* With one mount, no step of a non-root user removes or replaces an entry
\* of a sticky directory unless the user owns the directory or the entry's
\* inode (unlink, rmdir and rename check S_ISVTX; create, mkdir and
\* hardlink only take free names), for every value of the constants.
THEOREM StickyBitEnforced ==
    ASSUME SingleMount
    PROVE  Spec => StickyBitProtectsEntries
<1>1. Spec => []DotDotInv
  BY DotDotInvariant
<1>2. DotDotInv => \A u \in Uids, g \in Gids : StickyRespected(u) \/ ~NextBy(u, g)
  BY StickyStep DEF DotDotInv
<1>. QED BY <1>1, <1>2, PTL DEF StickyBitProtectsEntries

====
