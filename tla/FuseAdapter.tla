----------------------------- MODULE FuseAdapter -----------------------------
(***************************************************************************)
(* The client side of fleetfs for one regular file: the FUSE adapter's     *)
(* file-handle table and read-ahead cache (src/src/fuse_adapter.rs,        *)
(* struct FleetFUSE) and the calls it makes to a storage node.             *)
(*                                                                         *)
(* The fuse session loop hands the adapter one kernel request at a time,   *)
(* so each handler is one atomic action.  The storage node is reduced to   *)
(* what these handlers observe of it: the file's bytes (the data store)    *)
(* and the requesting user's permission class on the file (the inode's     *)
(* mode in the metadata store), which the file's owner may change.         *)
(*                                                                         *)
(* Data abstraction: sizes are scaled (MaxRead stands for                  *)
(* FUSE_MAX_READ_SIZE = 128 KiB, SpecFactor for the factor 8 of            *)
(* SPECULATIVE_READ_SIZE); bytes are members of Values; the 1 ms TTL of a  *)
(* cached read is a flag that time passing clears.  A panic of the         *)
(* adapter ends the FUSE daemon; the file system is then mounted again,    *)
(* with an empty handle table and cache.                                   *)
(***************************************************************************)
EXTENDS Integers, Sequences, FiniteSets, Functions

CONSTANTS
    Procs,       \* process ids of the kernel requests
    Values,      \* byte values
    MaxHandle,   \* bound on next_file_handle (a u64 in the code)
    MaxRead,     \* FUSE_MAX_READ_SIZE, scaled
    SpecFactor,  \* SPECULATIVE_READ_SIZE / FUSE_MAX_READ_SIZE
    ReadSizes,   \* sizes of the reads the kernel sends
    MaxLen,      \* bound on the file's length
    InitLen      \* the file's length when the model starts

ASSUME ProcsAssumption == Procs # {}
ASSUME HandleAssumption == MaxHandle \in Nat \ {0}
ASSUME ReadAssumption ==
    /\ MaxRead \in Nat \ {0} /\ SpecFactor \in Nat \ {0}
    /\ ReadSizes \subseteq 1..(SpecFactor * MaxRead)
ASSUME LenAssumption == InitLen \in Nat /\ MaxLen \in Nat /\ InitLen <= MaxLen

SPECULATIVE_READ_SIZE == SpecFactor * MaxRead

Handles == 1..MaxHandle

\* The access modes of open(2): O_RDONLY (alone or with O_TRUNC), O_WRONLY,
\* O_RDWR, and a flags word with no valid access mode.
Flags == {"RDONLY", "RDONLY_TRUNC", "WRONLY", "RDWR", "BADMODE"}

Perms == {"r", "w"}

\* FileHandleAttributes.
HandleAttrs == [read : BOOLEAN, write : BOOLEAN]

\* CachedRead; snapshot is the file's content when the data was fetched
\* (not in the code: it records what the cached bytes were read from).
CachedRead == [data : Seq(Values), file_offset : Nat, process_id : Procs,
               fresh : BOOLEAN, snapshot : Seq(Values)]

\* What the adapter last answered the kernel.
Replies == [op : {"none", "open", "read", "write", "truncate", "release"},
            fh : Handles \cup {0}, offset : Nat,
            path : {"none", "cache", "fetch", "server"},
            status : {"ok", "EACCES", "EINVAL"},
            data : Seq(Values)]

NoReply == [op |-> "none", fh |-> 0, offset |-> 0, path |-> "none",
            status |-> "ok", data |-> <<>>]

VARIABLES
    next_file_handle,  \* FleetFUSE.next_file_handle
    file_handles,      \* FleetFUSE.file_handles: handle -> attributes
    read_ahead_cache,  \* FleetFUSE.read_ahead_cache: handle -> CachedRead
    content,           \* the file's bytes on the storage node
    perm,              \* the requesting user's permission class on the file
    reply,             \* the adapter's last reply
    panicked           \* the adapter panicked; the mount is dead

vars == <<next_file_handle, file_handles, read_ahead_cache, content, perm,
          reply, panicked>>

-----------------------------------------------------------------------------
(* The storage node, as the adapter's calls see it.                        *)

Smaller(a, b) == IF a < b THEN a ELSE b

\* HashMap::insert: f with key k mapped to v, added or replaced.
Put(f, k, v) == [x \in DOMAIN f \cup {k} |-> IF x = k THEN v ELSE f[x]]

\* The data store's read: the bytes of [offset, offset + size), cut at EOF.
FetchBytes(offset, size) ==
    IF offset >= Len(content) THEN <<>>
    ELSE SubSeq(content, offset + 1, Smaller(offset + size, Len(content)))

\* MetadataStorage::read and ::write: R or W on the inode; root passes.
ServerAllows(root, wanted) == root \/ wanted \in perm

\* The data store's write of one byte at offset (no holes: offset <= EOF).
WriteByte(offset, v) ==
    IF offset = Len(content) THEN Append(content, v)
    ELSE [content EXCEPT ![offset + 1] = v]

\* NodeClient::read and ::read_to_vec: a Read request; the answer is the
\* bytes the data store holds there.
ClientRead(offset, size) == FetchBytes(offset, size)

ReadToVec(offset, size) == FetchBytes(offset, size)

\* NodeClient::truncate and ::write: the node's data store applies them.
ClientTruncate(length) == SubSeq(content, 1, length)

ClientWrite(offset, v) == WriteByte(offset, v)

-----------------------------------------------------------------------------
Init ==
    /\ next_file_handle = 1
    /\ file_handles = <<>>
    /\ read_ahead_cache = <<>>
    /\ content \in [1..InitLen -> Values]
    /\ perm \in SUBSET Perms
    /\ reply = NoReply
    /\ panicked = FALSE

\* Mutant: the counter is read but not advanced.
AllocateNoIncrement(read, write) ==
    /\ next_file_handle' = next_file_handle
    /\ file_handles' = Put(file_handles, next_file_handle,
                            [read |-> read, write |-> write])

\* allocate_file_handle: fetch_add on the counter, then insert.
AllocateFileHandle(read, write) ==
    /\ next_file_handle' = next_file_handle + 1
    /\ file_handles' = Put(file_handles, next_file_handle,
                            [read |-> read, write |-> write])

CheckRead(fh) == fh \in DOMAIN file_handles /\ file_handles[fh].read

CheckWrite(fh) == fh \in DOMAIN file_handles /\ file_handles[fh].write

\* The permissions open asks of check_access for an access mode.
AccessMask(flags) ==
    CASE flags \in {"RDONLY", "RDONLY_TRUNC"} -> {"r"}
      [] flags = "WRONLY" -> {"w"}
      [] OTHER -> {"r", "w"}

\* open's answer: its early returns in order, then check_access.
OpenStatus(flags) ==
    CASE flags = "RDONLY_TRUNC" -> "EACCES"
      [] flags = "BADMODE" -> "EINVAL"
      [] ~(AccessMask(flags) \subseteq perm) -> "EACCES"
      [] OTHER -> "ok"

\* open: the access mode gives the wanted bits and the handle's rights;
\* O_RDONLY|O_TRUNC is refused, then getattr and check_access.
Open(flags) ==
    LET status == OpenStatus(flags) IN
    /\ ~panicked
    /\ status = "ok" => next_file_handle <= MaxHandle
    /\ IF status = "ok"
       THEN AllocateFileHandle("r" \in AccessMask(flags), "w" \in AccessMask(flags))
       ELSE UNCHANGED <<next_file_handle, file_handles>>
    /\ reply' = [NoReply EXCEPT !.op = "open", !.status = status,
                                !.fh = IF status = "ok" THEN next_file_handle ELSE 0]
    /\ UNCHANGED <<read_ahead_cache, content, perm, panicked>>

\* A cached read is served iff offset, process and size match and it is
\* younger than READ_AHEAD_CACHE_TTL_MS.
CacheHit(fh, pid, offset, size) ==
    /\ fh \in DOMAIN read_ahead_cache
    /\ read_ahead_cache[fh].file_offset = offset
    /\ read_ahead_cache[fh].process_id = pid
    /\ size <= Len(read_ahead_cache[fh].data)
    /\ read_ahead_cache[fh].fresh

ReadReply(fh, offset, path, data) ==
    [NoReply EXCEPT !.op = "read", !.fh = fh, !.offset = offset,
                    !.path = path, !.data = data]

\* read, served from the cache: the first size cached bytes, then advance.
ReadFromCache(fh, pid, offset, size) ==
    LET c == read_ahead_cache[fh] IN
    /\ read_ahead_cache' = [read_ahead_cache EXCEPT
          ![fh].data = SubSeq(c.data, size + 1, Len(c.data)),
          ![fh].file_offset = c.file_offset + size]
    /\ reply' = ReadReply(fh, offset, "cache", SubSeq(c.data, 1, size))
    /\ UNCHANGED panicked

\* Mutant: the fetched bytes are cached without dropping the size bytes
\* already returned (data_bytes.advance(size) left out).
ReadSpeculativeNoAdvance(fh, pid, offset, size) ==
    LET data == ReadToVec(offset, SPECULATIVE_READ_SIZE) IN
    IF Len(data) < size
    THEN /\ panicked' = TRUE
         /\ UNCHANGED <<read_ahead_cache, reply>>
    ELSE /\ read_ahead_cache' =
               IF Len(data) > size
               THEN Put(read_ahead_cache, fh,
                        [data |-> data, file_offset |-> offset + size,
                         process_id |-> pid, fresh |-> TRUE,
                         snapshot |-> content])
               ELSE read_ahead_cache
         /\ reply' = ReadReply(fh, offset, "fetch", SubSeq(data, 1, size))
         /\ UNCHANGED panicked

\* read of at least FUSE_MAX_READ_SIZE on a miss: read_to_vec of
\* SPECULATIVE_READ_SIZE bytes; reply with the first size bytes (a slice
\* that panics when the node returned fewer), cache the rest if any.
ReadSpeculative(fh, pid, offset, size) ==
    LET data == ReadToVec(offset, SPECULATIVE_READ_SIZE) IN
    IF Len(data) < size
    THEN /\ panicked' = TRUE
         /\ UNCHANGED <<read_ahead_cache, reply>>
    ELSE /\ read_ahead_cache' =
               IF Len(data) > size
               THEN Put(read_ahead_cache, fh,
                        [data |-> SubSeq(data, size + 1, Len(data)),
                         file_offset |-> offset + size,
                         process_id |-> pid, fresh |-> TRUE,
                         snapshot |-> content])
               ELSE read_ahead_cache
         /\ reply' = ReadReply(fh, offset, "fetch", SubSeq(data, 1, size))
         /\ UNCHANGED panicked

\* read: check_read, then the cache, then the node (whose read checks R).
Read(fh, pid, offset, size) ==
    /\ ~panicked
    /\ \/ /\ ~CheckRead(fh)
          /\ reply' = [ReadReply(fh, offset, "none", <<>>) EXCEPT !.status = "EACCES"]
          /\ UNCHANGED <<read_ahead_cache, panicked>>
       \/ /\ CheckRead(fh)
          /\ CacheHit(fh, pid, offset, size)
          /\ ReadFromCache(fh, pid, offset, size)
       \/ /\ CheckRead(fh)
          /\ ~CacheHit(fh, pid, offset, size)
          /\ ~ServerAllows(FALSE, "r")
          /\ reply' = [ReadReply(fh, offset, "none", <<>>) EXCEPT !.status = "EACCES"]
          /\ UNCHANGED <<read_ahead_cache, panicked>>
       \/ /\ CheckRead(fh)
          /\ ~CacheHit(fh, pid, offset, size)
          /\ ServerAllows(FALSE, "r")
          /\ IF size >= MaxRead
             THEN ReadSpeculative(fh, pid, offset, size)
             ELSE /\ reply' = ReadReply(fh, offset, "server", ClientRead(offset, size))
                  /\ UNCHANGED <<read_ahead_cache, panicked>>
    /\ UNCHANGED <<next_file_handle, file_handles, content, perm>>

\* write: check_write, then the node's write, which checks W for the
\* requesting user.
Write(fh, offset, v) ==
    LET status == IF ~CheckWrite(fh) \/ ~ServerAllows(FALSE, "w")
                  THEN "EACCES" ELSE "ok"
    IN
    /\ ~panicked
    /\ offset < Len(content) \/ Len(content) < MaxLen
    /\ content' = IF status = "ok" THEN ClientWrite(offset, v) ELSE content
    /\ reply' = [NoReply EXCEPT !.op = "write", !.fh = fh, !.offset = offset,
                                !.status = status]
    /\ UNCHANGED <<next_file_handle, file_handles, read_ahead_cache, perm,
                   panicked>>

\* setattr with a size: with a handle, check_write locally and truncate as
\* root; without one, truncate as the user (W on the inode).
Truncate(fh, length) ==
    LET allowed == IF fh # 0 THEN CheckWrite(fh) /\ ServerAllows(TRUE, "w")
                   ELSE ServerAllows(FALSE, "w")
    IN
    /\ ~panicked
    /\ content' = IF allowed THEN ClientTruncate(length) ELSE content
    /\ reply' = [NoReply EXCEPT !.op = "truncate", !.fh = fh, !.offset = length,
                                !.status = IF allowed THEN "ok" ELSE "EACCES"]
    /\ UNCHANGED <<next_file_handle, file_handles, read_ahead_cache, perm,
                   panicked>>

\* Mutant: deallocation forgets the handle's cached read.
DeallocateKeepsCache(fh) ==
    /\ file_handles' = Restrict(file_handles, DOMAIN file_handles \ {fh})
    /\ UNCHANGED read_ahead_cache

\* deallocate_file_handle: drop the handle and its cached read.
DeallocateFileHandle(fh) ==
    /\ file_handles' = Restrict(file_handles, DOMAIN file_handles \ {fh})
    /\ read_ahead_cache' = Restrict(read_ahead_cache, DOMAIN read_ahead_cache \ {fh})

\* release.
Release(fh) ==
    /\ ~panicked
    /\ DeallocateFileHandle(fh)
    /\ reply' = [NoReply EXCEPT !.op = "release", !.fh = fh]
    /\ UNCHANGED <<next_file_handle, content, perm, panicked>>

\* The file's owner changes its mode (chmod through any client).
Chmod(p) ==
    /\ perm' = p
    /\ UNCHANGED <<next_file_handle, file_handles, read_ahead_cache, content,
                   reply, panicked>>

\* READ_AHEAD_CACHE_TTL_MS passes for a cached read.
Expire(fh) ==
    /\ fh \in DOMAIN read_ahead_cache
    /\ read_ahead_cache[fh].fresh
    /\ read_ahead_cache' = [read_ahead_cache EXCEPT ![fh].fresh = FALSE]
    /\ UNCHANGED <<next_file_handle, file_handles, content, perm, reply, panicked>>

\* After a panic the file system is mounted again: FleetFUSE::new.
Remount ==
    /\ panicked
    /\ next_file_handle' = 1
    /\ file_handles' = <<>>
    /\ read_ahead_cache' = <<>>
    /\ reply' = NoReply
    /\ panicked' = FALSE
    /\ UNCHANGED <<content, perm>>

Next ==
    \/ \E flags \in Flags : Open(flags)
    \/ \E fh \in Handles, pid \in Procs, offset \in 0..MaxLen, size \in ReadSizes :
          Read(fh, pid, offset, size)
    \/ \E fh \in Handles, offset \in 0..Len(content), v \in Values :
          Write(fh, offset, v)
    \/ \E fh \in Handles \cup {0}, length \in 0..Len(content) : Truncate(fh, length)
    \/ \E fh \in Handles : Release(fh)
    \/ \E p \in SUBSET Perms : p # perm /\ Chmod(p)
    \/ \E fh \in Handles : Expire(fh)
    \/ Remount

Spec == Init /\ [][Next]_vars

-----------------------------------------------------------------------------
(* Properties                                                              *)

TypeOK ==
    /\ next_file_handle \in 1..(MaxHandle + 1)
    /\ DOMAIN file_handles \subseteq 1..(next_file_handle - 1)
    /\ \A h \in DOMAIN file_handles : file_handles[h] \in HandleAttrs
    /\ DOMAIN read_ahead_cache \subseteq Handles
    /\ \A h \in DOMAIN read_ahead_cache : read_ahead_cache[h] \in CachedRead
    /\ content \in Seq(Values) /\ Len(content) <= MaxLen
    /\ perm \subseteq Perms
    /\ reply \in Replies
    /\ panicked \in BOOLEAN

\* Every cached read holds exactly the bytes of the file, as it was when
\* they were fetched, that follow file_offset: a hit hands the kernel the
\* bytes at the offset it asked for (read, fuse_adapter.rs: the hit advances
\* data and file_offset together; a fetch caches the tail after size).
CacheConsistent ==
    \A h \in DOMAIN read_ahead_cache :
        LET c == read_ahead_cache[h] IN
        /\ c.file_offset + Len(c.data) <= Len(c.snapshot)
        /\ c.data = SubSeq(c.snapshot, c.file_offset + 1, c.file_offset + Len(c.data))

\* Only an open handle has a cached read: release drops both, so a handle
\* number can never pick up another handle's read-ahead data
\* (deallocate_file_handle).
CacheOwnedByHandle == DOMAIN read_ahead_cache \subseteq DOMAIN file_handles

\* Spec 4.6: a handle opened with W_OK may always write, even if the file
\* is chmod'ed afterwards (write, fuse_adapter.rs).
WriteHandleSurvivesChmod ==
    /\ reply.op = "write"
    /\ reply.fh \in DOMAIN file_handles
    /\ file_handles[reply.fh].write
    => reply.status = "ok"

\* A read returns the file's current bytes at the offset asked for: what
\* the adapter last answered to a read is what the node now holds there
\* (read, fuse_adapter.rs: served from the read-ahead cache).
ReadSeesCurrentBytes ==
    reply.op = "read" /\ reply.status = "ok" =>
        reply.data = FetchBytes(reply.offset, Len(reply.data))

\* The adapter never panics on a read (the slice data[0..size] after
\* read_to_vec in read, fuse_adapter.rs).
NoPanic == ~panicked
====
