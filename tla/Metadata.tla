------------------------------ MODULE Metadata ------------------------------
(***************************************************************************)
(* The authoritative metadata store of a fleetfs storage node             *)
(* (src/src/storage/metadata_storage.rs, struct MetadataStorage).         *)
(*                                                                         *)
(* Every mutating method of MetadataStorage is one action.  The store is  *)
(* driven by the apply loop, one committed request at a time, so each     *)
(* method is atomic here (it holds the map mutexes for its whole body).   *)
(* A method that fails before changing anything is a stutter step and is  *)
(* left out; a method that changes state and then fails is modelled with *)
(* the changes it makes.                                                   *)
(*                                                                         *)
(* Data abstraction: names are model values, modes are records of         *)
(* permission sets, sizes are scaled down, timestamps are left out (they   *)
(* are written by every method but never read by one).                    *)
(*                                                                         *)
(* The requests reaching the store come from Linux kernels through FUSE.  *)
(* With SingleMount = TRUE every request passed the checks the kernel's    *)
(* VFS makes against its own, up to date, view of the namespace (one      *)
(* mount, requests serialized).  With SingleMount = FALSE several mounts  *)
(* act on stale views: arguments are only known to have been allocated    *)
(* with the kind the kernel saw.                                          *)
(***************************************************************************)
EXTENDS Integers, FiniteSets

CONSTANTS
    MaxInode,      \* bound on the inode counter next_inode
    MaxLinks,      \* bound on a link count (a u32 in the code)
    Names,         \* directory entry names
    Uids,          \* user ids; 0 is root
    Gids,          \* group ids
    Modes,         \* permission modes carried by requests
    XattrKeys,     \* extended attribute keys
    MaxFileSize,   \* MAX_FILE_SIZE, scaled down
    BlockSize,     \* BLOCK_SIZE, the size of a new directory
    Offsets,       \* write offsets a request may carry
    Lengths,       \* write lengths a request may carry
    SingleMount    \* TRUE: one kernel with an up to date view

Perms == {"r", "w", "x"}
Mode == [owner : SUBSET Perms, group : SUBSET Perms,
         other : SUBSET Perms, sticky : BOOLEAN]

ASSUME MaxInodeAssumption == MaxInode \in Nat /\ MaxInode >= 2
ASSUME MaxLinksAssumption == MaxLinks \in Nat
ASSUME UidsAssumption == Uids \subseteq Nat /\ 0 \in Uids
ASSUME GidsAssumption == Gids \subseteq Nat /\ 0 \in Gids
ASSUME ModesAssumption == Modes \subseteq Mode /\ Modes # {}
ASSUME SizeAssumption ==
    /\ MaxFileSize \in Nat /\ BlockSize \in Nat
    /\ Offsets \subseteq Nat /\ Lengths \subseteq Nat
ASSUME SingleMountAssumption == SingleMount \in BOOLEAN
ASSUME NamesAssumption == IsFiniteSet(Names)

ROOT_INODE == 1
Inodes == 1..MaxInode
NoInode == 0

\* FileKind; "none" only marks an unused slot.
Kinds == {"file", "dir", "symlink"}

\* An entry (Inode, FileKind) of a DirectoryDescriptor; ino = 0: no entry.
Entry == [ino : Inodes \cup {NoInode}, kind : Kinds \cup {"none"}]
NoEntry == [ino |-> NoInode, kind |-> "none"]
EmptyDir == [n \in Names |-> NoEntry]

\* The mode of the root directory, 0o777 (MetadataStorage::new).
RootMode == [owner |-> Perms, group |-> Perms, other |-> Perms, sticky |-> FALSE]

\* InodeAttributes without the timestamps.
Attrs == [kind : Kinds \cup {"none"}, mode : Modes \cup {RootMode},
          uid : Uids, gid : Gids, size : Nat, hardlinks : Nat,
          xattrs : SUBSET XattrKeys]

NoAttrs == [kind |-> "none", mode |-> RootMode, uid |-> 0, gid |-> 0,
            size |-> 0, hardlinks |-> 0, xattrs |-> {}]

\* chown's Option<u32> arguments: NoChange stands for None.
NoChange == -1

VARIABLES
    metadata,     \* metadata map: attributes, meaningful on live inodes
    live,         \* the keys of the metadata map
    directories,  \* directories map: a descriptor per directory inode
    dirs,         \* the keys of the directories map
    parents,      \* directory_parents map; NoInode where there is no key
    next_inode    \* the inode counter

vars == <<metadata, live, directories, dirs, parents, next_inode>>

-----------------------------------------------------------------------------
(* Helpers                                                                 *)

\* utils::check_access: root passes; otherwise the owner, group or other
\* permission class, chosen by the requester's ids, must hold every
\* wanted permission.
CheckAccess(attrs, uid, gid, wanted) ==
    \/ uid = 0
    \/ wanted \subseteq
          IF attrs.uid = uid THEN attrs.mode.owner
          ELSE IF attrs.gid = gid THEN attrs.mode.group
          ELSE attrs.mode.other

\* The "sticky bit" rule: in a sticky directory only root, the owner of the
\* directory or the owner of the entry may remove or replace the entry.
StickyAllows(pattrs, target, uid) ==
    pattrs.mode.sticky =>
        /\ target \in live
        /\ uid \in {0, pattrs.uid, metadata[target].uid}

Named(d, n) == directories[d][n].ino # NoInode

\* Attributes of a freshly allocated inode.
NewAttrs(kind, mode, uid, gid, size, links) ==
    [kind |-> kind, mode |-> mode, uid |-> uid, gid |-> gid,
     size |-> size, hardlinks |-> links, xattrs |-> {}]

-----------------------------------------------------------------------------
(* What the kernel sends.  With one mount the VFS has already checked the  *)
(* request against a view equal to the store; with several mounts only    *)
(* the kind an inode was allocated with is known to the sender.            *)

WasAllocated(i) == i \in Inodes /\ i < next_inode
WasDir(i) == WasAllocated(i) /\ metadata[i].kind = "dir"

\* The inodes below directory i through entries (i included).
Subtree(i) ==
    LET below[k \in 0..MaxInode] ==
            IF k = 0 THEN {i}
            ELSE below[k - 1] \cup
                 {directories[d][n].ino : d \in below[k - 1] \cap dirs, n \in Names}
    IN below[MaxInode] \ {NoInode}

Sends(singleMountCheck, staleCheck) ==
    IF SingleMount THEN singleMountCheck ELSE staleCheck

-----------------------------------------------------------------------------
Init ==
    /\ metadata = [i \in Inodes |->
                     IF i = ROOT_INODE
                     THEN NewAttrs("dir", RootMode, 0, 0, 0, 2)
                     ELSE NoAttrs]
    /\ live = {ROOT_INODE}
    /\ directories = [i \in Inodes |-> EmptyDir]
    /\ dirs = {ROOT_INODE}
    /\ parents = [i \in Inodes |-> IF i = ROOT_INODE THEN ROOT_INODE ELSE NoInode]
    /\ next_inode = ROOT_INODE + 1

-----------------------------------------------------------------------------
(* One action per mutating method of MetadataStorage.                     *)

\* Mutant of Create: a new file starts with no link.
CreateLinksZero(parent, name, uid, gid, mode, kind) ==
    /\ parent \in live /\ parent \in dirs /\ ~Named(parent, name)
    /\ CheckAccess(metadata[parent], uid, gid, {"x", "w"})
    /\ next_inode <= MaxInode
    /\ directories' = [directories EXCEPT ![parent][name] =
                          [ino |-> next_inode, kind |-> "file"]]
    /\ metadata' = [metadata EXCEPT ![next_inode] =
                          NewAttrs(kind, mode, uid, gid, 0, 0)]
    /\ live' = live \cup {next_inode}
    /\ next_inode' = next_inode + 1
    /\ UNCHANGED <<dirs, parents>>

\* create: lookup (X on parent, name free), then W on parent; the entry is
\* always recorded with FileKind::File, whatever kind the inode has.
Create(parent, name, uid, gid, mode, kind) ==
    /\ parent \in live
    /\ CheckAccess(metadata[parent], uid, gid, {"x"})
    /\ parent \in dirs
    /\ ~Named(parent, name)
    /\ CheckAccess(metadata[parent], uid, gid, {"w"})
    /\ next_inode <= MaxInode
    /\ directories' = [directories EXCEPT ![parent][name] =
                          [ino |-> next_inode, kind |-> "file"]]
    /\ metadata' = [metadata EXCEPT ![next_inode] =
                          NewAttrs(kind, mode, uid, gid, 0, 1)]
    /\ live' = live \cup {next_inode}
    /\ next_inode' = next_inode + 1
    /\ UNCHANGED <<dirs, parents>>

\* mkdir: W on parent; the name is not checked and an existing entry is
\* overwritten.
Mkdir(parent, name, uid, gid, mode) ==
    /\ parent \in live
    /\ CheckAccess(metadata[parent], uid, gid, {"w"})
    /\ next_inode <= MaxInode
    /\ parent \in dirs
    /\ directories' = [directories EXCEPT ![parent][name] =
                          [ino |-> next_inode, kind |-> "dir"],
                                          ![next_inode] = EmptyDir]
    /\ dirs' = dirs \cup {next_inode}
    /\ parents' = [parents EXCEPT ![next_inode] = parent]
    /\ metadata' = [metadata EXCEPT ![next_inode] =
                          NewAttrs("dir", mode, uid, gid, BlockSize, 2)]
    /\ live' = live \cup {next_inode}
    /\ next_inode' = next_inode + 1

\* unlink: the entry is removed before the target's attributes are looked
\* up; the target loses a link and is dropped when none is left.  Nothing
\* is done to a directory's descriptor or parent entry.
Unlink(parent, name, uid, gid) ==
    LET target == directories[parent][name].ino
        links == metadata[target].hardlinks - 1
    IN
    /\ parent \in dirs
    /\ Named(parent, name)
    /\ parent \in live
    /\ CheckAccess(metadata[parent], uid, gid, {"w"})
    /\ StickyAllows(metadata[parent], target, uid)
    /\ directories' = [directories EXCEPT ![parent][name] = NoEntry]
    /\ IF target \in live
       THEN /\ metadata' = [metadata EXCEPT ![target].hardlinks = links]
            /\ live' = IF links = 0 THEN live \ {target} ELSE live
       ELSE UNCHANGED <<metadata, live>>
    /\ UNCHANGED <<dirs, parents, next_inode>>

\* rmdir: NotEmpty only when the target has a non-empty descriptor; the
\* target is removed from all three maps whatever its kind or link count.
Rmdir(parent, name, uid, gid) ==
    LET target == directories[parent][name].ino
    IN
    /\ parent \in dirs
    /\ Named(parent, name)
    /\ target \in dirs => \A n \in Names : ~Named(target, n)
    /\ parent \in live
    /\ CheckAccess(metadata[parent], uid, gid, {"w"})
    /\ StickyAllows(metadata[parent], target, uid)
    /\ directories' = [directories EXCEPT ![parent][name] = NoEntry,
                                          ![target] = EmptyDir]
    /\ dirs' = dirs \ {target}
    /\ live' = live \ {target}
    /\ parents' = [parents EXCEPT ![target] = NoInode]
    /\ UNCHANGED <<metadata, next_inode>>

\* Mutant of Rename: the sticky rule is not applied to a replaced
\* destination.
RenameNoDestSticky(parent, name, new_parent, new_name, uid, gid) ==
    LET entry == directories[parent][name]
        dest == directories[new_parent][new_name]
    IN
    /\ parent \in dirs /\ Named(parent, name) /\ parent \in live
    /\ CheckAccess(metadata[parent], uid, gid, {"w"})
    /\ StickyAllows(metadata[parent], entry.ino, uid)
    /\ new_parent \in live /\ new_parent \in dirs
    /\ CheckAccess(metadata[new_parent], uid, gid, {"w"})
    /\ Named(new_parent, new_name) =>
          /\ dest.ino \in live
          /\ metadata[dest.ino].kind = "dir" =>
                /\ dest.ino \in dirs
                /\ \A n \in Names : ~Named(dest.ino, n)
    /\ entry.ino \in live
    /\ (metadata[entry.ino].kind = "dir" /\ parent # new_parent) =>
          CheckAccess(metadata[entry.ino], uid, gid, {"w"})
    /\ directories' = [directories EXCEPT ![parent][name] = NoEntry,
                                          ![new_parent][new_name] = entry]
    /\ parents' = IF entry.kind = "dir"
                  THEN [parents EXCEPT ![entry.ino] = new_parent]
                  ELSE parents
    /\ UNCHANGED <<metadata, live, dirs, next_inode>>

\* Mutant of Rename: directory_parents is not updated for a moved directory.
RenameKeepsParent(parent, name, new_parent, new_name, uid, gid) ==
    LET entry == directories[parent][name]
        dest == directories[new_parent][new_name]
    IN
    /\ parent \in dirs /\ Named(parent, name) /\ parent \in live
    /\ CheckAccess(metadata[parent], uid, gid, {"w"})
    /\ StickyAllows(metadata[parent], entry.ino, uid)
    /\ new_parent \in live /\ new_parent \in dirs
    /\ CheckAccess(metadata[new_parent], uid, gid, {"w"})
    /\ Named(new_parent, new_name) =>
          /\ StickyAllows(metadata[new_parent], dest.ino, uid)
          /\ dest.ino \in live
          /\ metadata[dest.ino].kind = "dir" =>
                /\ dest.ino \in dirs
                /\ \A n \in Names : ~Named(dest.ino, n)
    /\ entry.ino \in live
    /\ (metadata[entry.ino].kind = "dir" /\ parent # new_parent) =>
          CheckAccess(metadata[entry.ino], uid, gid, {"w"})
    /\ directories' = [directories EXCEPT ![parent][name] = NoEntry,
                                          ![new_parent][new_name] = entry]
    /\ UNCHANGED <<metadata, live, dirs, parents, next_inode>>

\* rename: W on both parents, the sticky rule on the source and on a
\* replaced destination, NotEmpty for a non-empty replaced directory, W on
\* a directory moved to another parent.  The source entry is moved over
\* the destination; a replaced inode keeps its link count.
Rename(parent, name, new_parent, new_name, uid, gid) ==
    LET entry == directories[parent][name]
        dest == directories[new_parent][new_name]
    IN
    /\ parent \in dirs
    /\ Named(parent, name)
    /\ parent \in live
    /\ CheckAccess(metadata[parent], uid, gid, {"w"})
    /\ StickyAllows(metadata[parent], entry.ino, uid)
    /\ new_parent \in live
    /\ CheckAccess(metadata[new_parent], uid, gid, {"w"})
    /\ new_parent \in dirs
    /\ Named(new_parent, new_name) =>
          /\ StickyAllows(metadata[new_parent], dest.ino, uid)
          /\ dest.ino \in live
          /\ metadata[dest.ino].kind = "dir" =>
                /\ dest.ino \in dirs
                /\ \A n \in Names : ~Named(dest.ino, n)
    /\ entry.ino \in live
    /\ (metadata[entry.ino].kind = "dir" /\ parent # new_parent) =>
          CheckAccess(metadata[entry.ino], uid, gid, {"w"})
    /\ directories' = [directories EXCEPT ![parent][name] = NoEntry,
                                          ![new_parent][new_name] = entry]
    /\ parents' = IF entry.kind = "dir"
                  THEN [parents EXCEPT ![entry.ino] = new_parent]
                  ELSE parents
    /\ UNCHANGED <<metadata, live, dirs, next_inode>>

\* Mutant of Hardlink: the link count is not incremented.
HardlinkNoCount(inode, new_parent, new_name, uid, gid) ==
    /\ new_parent \in live
    /\ CheckAccess(metadata[new_parent], uid, gid, {"w"})
    /\ inode \in live
    /\ metadata[inode].hardlinks < MaxLinks
    /\ new_parent \in dirs
    /\ directories' = [directories EXCEPT ![new_parent][new_name] =
                          [ino |-> inode, kind |-> metadata[inode].kind]]
    /\ UNCHANGED <<metadata, live, dirs, parents, next_inode>>

\* hardlink: W on the new parent; the link count goes up and the new entry
\* overwrites whatever the name held.
Hardlink(inode, new_parent, new_name, uid, gid) ==
    /\ new_parent \in live
    /\ CheckAccess(metadata[new_parent], uid, gid, {"w"})
    /\ inode \in live
    /\ metadata[inode].hardlinks < MaxLinks
    /\ new_parent \in dirs
    /\ metadata' = [metadata EXCEPT ![inode].hardlinks = @ + 1]
    /\ directories' = [directories EXCEPT ![new_parent][new_name] =
                          [ino |-> inode, kind |-> metadata[inode].kind]]
    /\ UNCHANGED <<live, dirs, parents, next_inode>>

\* chmod: root or the owner; suid and sgid are never stored.
Chmod(inode, mode, uid) ==
    /\ inode \in live
    /\ uid = 0 \/ metadata[inode].uid = uid
    /\ metadata' = [metadata EXCEPT ![inode].mode = mode]
    /\ UNCHANGED <<live, directories, dirs, parents, next_inode>>

\* chown: only root changes the owner (the owner may "change" it to
\* itself); root or the owner changes the group.
Chown(inode, new_uid, new_gid, uid) ==
    LET attrs == metadata[inode] IN
    /\ inode \in live
    /\ new_uid # NoChange =>
          uid = 0 \/ (new_uid = attrs.uid /\ uid = attrs.uid)
    /\ new_gid # NoChange => uid = 0 \/ uid = attrs.uid
    /\ metadata' = [metadata EXCEPT
                      ![inode].uid = IF new_uid # NoChange THEN new_uid ELSE @,
                      ![inode].gid = IF new_gid # NoChange THEN new_gid ELSE @]
    /\ UNCHANGED <<live, directories, dirs, parents, next_inode>>

\* truncate: FileTooLarge above MAX_FILE_SIZE, then W on the inode.
Truncate(inode, new_length, uid, gid) ==
    /\ new_length <= MaxFileSize
    /\ inode \in live
    /\ CheckAccess(metadata[inode], uid, gid, {"w"})
    /\ metadata' = [metadata EXCEPT ![inode].size = new_length]
    /\ UNCHANGED <<live, directories, dirs, parents, next_inode>>

\* write: W on the inode; the size grows to cover the written range and is
\* not checked against MAX_FILE_SIZE.
Write(inode, offset, length, uid, gid) ==
    LET attrs == metadata[inode] IN
    /\ inode \in live
    /\ CheckAccess(attrs, uid, gid, {"w"})
    /\ metadata' = [metadata EXCEPT ![inode].size =
                      IF offset + length > @ THEN offset + length ELSE @]
    /\ UNCHANGED <<live, directories, dirs, parents, next_inode>>

\* set_xattr and remove_xattr: no permission check.
SetXattr(inode, key) ==
    /\ inode \in live
    /\ metadata' = [metadata EXCEPT ![inode].xattrs = @ \cup {key}]
    /\ UNCHANGED <<live, directories, dirs, parents, next_inode>>

RemoveXattr(inode, key) ==
    /\ inode \in live
    /\ metadata' = [metadata EXCEPT ![inode].xattrs = @ \ {key}]
    /\ UNCHANGED <<live, directories, dirs, parents, next_inode>>

-----------------------------------------------------------------------------
(* The requests the kernels send, each applied by the method it names.    *)

\* The FileKind the adapter passes to create: regular files from create
\* and mknod, Symlink from symlink.
CreateKinds == {"file", "symlink"}

TargetKind(d, n) ==
    IF Named(d, n) THEN metadata[directories[d][n].ino].kind ELSE "none"

\* rename as the VFS lets it through: the two names are not links to the
\* same inode, a directory replaces only a directory and a non-directory
\* only a non-directory, and a directory is not moved below itself.
VFSRename(p, n, np, nn) ==
    LET src == directories[p][n].ino
        dst == directories[np][nn].ino
    IN /\ Named(np, nn) => /\ dst # src
                           /\ (TargetKind(p, n) = "dir") = (TargetKind(np, nn) = "dir")
       /\ TargetKind(p, n) = "dir" => np \notin Subtree(src)

\* The requests of user uid (with group gid) the kernels may send.
NextBy(u, g) ==
    \/ \E p \in Inodes, n \in Names, m \in Modes, k \in CreateKinds :
          Sends(TRUE, WasDir(p)) /\ Create(p, n, u, g, m, k)
    \/ \E p \in Inodes, n \in Names, m \in Modes :
          Sends(~Named(p, n), WasDir(p)) /\ Mkdir(p, n, u, g, m)
    \/ \E p \in Inodes, n \in Names :
          Sends(TargetKind(p, n) \in {"file", "symlink"}, WasDir(p))
          /\ Unlink(p, n, u, g)
    \/ \E p \in Inodes, n \in Names :
          Sends(TargetKind(p, n) = "dir", WasDir(p)) /\ Rmdir(p, n, u, g)
    \/ \E p, np \in Inodes, n, nn \in Names :
          /\ Sends(VFSRename(p, n, np, nn), WasDir(p) /\ WasDir(np))
          /\ Rename(p, n, np, nn, u, g)
    \/ \E i, np \in Inodes, nn \in Names :
          /\ metadata[i].kind # "dir"
          /\ Sends(~Named(np, nn), WasAllocated(i) /\ WasDir(np))
          /\ Hardlink(i, np, nn, u, g)
    \/ \E i \in Inodes, m \in Modes : Chmod(i, m, u)
    \/ \E i \in Inodes, nu \in Uids \cup {NoChange}, ng \in Gids \cup {NoChange} :
          \* setattr: a non-root caller may only give a group it is in
          /\ ng # NoChange /\ u # 0 => ng = g
          /\ Chown(i, nu, ng, u)
    \/ \E i \in Inodes, l \in 0..(MaxFileSize + 1) :
          metadata[i].kind # "dir" /\ Truncate(i, l, u, g)
    \/ \E i \in Inodes, o \in Offsets, l \in Lengths :
          metadata[i].kind # "dir" /\ Write(i, o, l, u, g)
    \/ \E i \in Inodes, key \in XattrKeys : SetXattr(i, key)
    \/ \E i \in Inodes, key \in XattrKeys : RemoveXattr(i, key)

Next == \E u \in Uids, g \in Gids : NextBy(u, g)

Spec == Init /\ [][Next]_vars

-----------------------------------------------------------------------------
(* Properties                                                              *)

TypeOK ==
    /\ metadata \in [Inodes -> Attrs]
    /\ live \subseteq Inodes
    /\ directories \in [Inodes -> [Names -> Entry]]
    /\ dirs \subseteq Inodes
    /\ parents \in [Inodes -> Inodes \cup {NoInode}]
    /\ next_inode \in 2..(MaxInode + 1)

\* Spec section 3, invariant 1: every inode a directory entry names is in
\* the metadata map.  Breaks when unlink, rmdir or rename drop an inode
\* that another entry still names.
NoDanglingEntries ==
    \A d \in dirs, n \in Names : Named(d, n) => directories[d][n].ino \in live

\* The ".." that readdir reports for a directory (directory_parents) is the
\* directory whose descriptor names it; mkdir and rename maintain it.
DotDotAccurate ==
    \A d \in dirs, n \in Names :
        (Named(d, n) /\ directories[d][n].kind = "dir")
            => parents[directories[d][n].ino] = d

\* Spec section 3, invariant 2: every inode in the store other than the
\* root is named by some directory entry (an inode nothing names can never
\* be unlinked, and its data is never deleted).
StoreIsReachable ==
    \A i \in live \ {ROOT_INODE} : \E d \in dirs, n \in Names :
        directories[d][n].ino = i

\* Spec section 3: a descriptor maps a name to (child_inode, child_kind);
\* readdir reports that kind, so it must be the inode's own kind.
EntryKindMatches ==
    \A d \in dirs, n \in Names :
        Named(d, n) => directories[d][n].kind = TargetKind(d, n)

\* Spec section 3, invariant 6: a file's size never exceeds 1 TiB.
SizeWithinMax ==
    \A i \in live : metadata[i].kind # "dir" => metadata[i].size <= MaxFileSize

\* Every directory that an entry names can be reached from the root: the
\* namespace has no cycle and no directory cut off from the root.
NamedDirsReachable ==
    \A d \in dirs, n \in Names :
        (Named(d, n) /\ TargetKind(d, n) = "dir")
            => directories[d][n].ino \in Subtree(ROOT_INODE)

\* The sticky bit (S_ISVTX) of a directory protects its entries: a step
\* of a non-root user removes or replaces an entry of a sticky directory
\* only if the user owns the directory or the inode the entry names.  It
\* is enforced separately in unlink, rmdir and both ends of rename; create,
\* mkdir and hardlink rely on the name being free.
StickyRespected(u) ==
    \A d \in dirs, n \in Names :
        (/\ Named(d, n)
         /\ metadata[d].mode.sticky
         /\ directories'[d][n] # directories[d][n])
            => u \in {0, metadata[d].uid, metadata[directories[d][n].ino].uid}

\* No user outside those may take a step that changes such an entry.
StickyBitProtectsEntries ==
    [][\A u \in Uids, g \in Gids : StickyRespected(u) \/ ~NextBy(u, g)]_vars

-----------------------------------------------------------------------------
(* Inductive strengthenings, used by the proofs in MetadataProofs.         *)

\* A live inode has a link: unlink drops it when the count reaches zero.
LiveHasLinks == \A i \in live : metadata[i].hardlinks >= 1

TypeInv == TypeOK /\ LiveHasLinks

\* Entries, directories and live inodes are below the counter: a new
\* inode is fresh.
NamedAllocated ==
    /\ \A d \in dirs, n \in Names : directories[d][n].ino < next_inode
    /\ \A i \in live \cup dirs : i < next_inode

\* An entry records "dir" exactly when it names a directory inode.
KindAgrees ==
    \A d \in dirs, n \in Names :
        Named(d, n) =>
            (directories[d][n].kind = "dir" <=> TargetKind(d, n) = "dir")

DirEntry(d, n) == Named(d, n) /\ directories[d][n].kind = "dir"

\* A directory has at most one entry naming it.
UniqueDirEntries ==
    \A d1, d2 \in dirs, n1, n2 \in Names :
        (/\ DirEntry(d1, n1) /\ DirEntry(d2, n2)
         /\ directories[d1][n1].ino = directories[d2][n2].ino)
            => d1 = d2 /\ n1 = n2

\* The inductive invariant behind DotDotAccurate.
DotDotInv ==
    /\ TypeInv
    /\ NamedAllocated
    /\ KindAgrees
    /\ UniqueDirEntries
    /\ DotDotAccurate

\* The directory entries that name inode i.
Refs(i) == {e \in dirs \X Names : directories[e[1]][e[2]].ino = i}

\* A live inode's link count covers the entries naming it: unlink drops
\* the inode only after its last entry is gone.
LinkCounts == \A i \in live : Cardinality(Refs(i)) <= metadata[i].hardlinks

\* The inductive invariant behind NoDanglingEntries (one mount).
LinkInv == DotDotInv /\ NoDanglingEntries /\ LinkCounts

=============================================================================
