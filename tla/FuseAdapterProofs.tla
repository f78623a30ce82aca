-------------------------- MODULE FuseAdapterProofs --------------------------
(***************************************************************************)
(* Proof, for every value of the constants, that the FUSE adapter's       *)
(* read-ahead cache only ever holds reads of open handles, the property    *)
(* the fuse_handles run checks on a small instance as CacheOwnedByHandle.  *)
(***************************************************************************)
EXTENDS FuseAdapter, TLAPS

\* CacheOwnedByHandle is inductive as it stands: every step that adds a
\* cache entry adds it for a handle that is open, and release drops both.
HandleInv == CacheOwnedByHandle

-----------------------------------------------------------------------------
(* What the table operations do to domains.                                *)

\* Put (allocate_file_handle, the cache insert in read) adds exactly the
\* key.
LEMMA DomainInsert ==
    ASSUME NEW f, NEW a, NEW b
    PROVE  DOMAIN Put(f, a, b) = {a} \cup DOMAIN f
BY DEF Put

\* Removing with Restrict (deallocate_file_handle) leaves the given set.
LEMMA DomainRestrict ==
    ASSUME NEW f, NEW S
    PROVE  DOMAIN Restrict(f, S) = S
BY DEF Restrict

\* The empty tables of FleetFUSE::new.
LEMMA DomainEmpty == DOMAIN <<>> = {}
OBVIOUS

-----------------------------------------------------------------------------
(* One lemma per action.                                                   *)

\* open only adds a handle.
LEMMA OpenInv ==
    ASSUME HandleInv, NEW flags \in Flags, Open(flags)
    PROVE  HandleInv'
<1>3. DOMAIN file_handles \subseteq DOMAIN file_handles'
  <2>1. CASE OpenStatus(flags) = "ok"
    <3>1. file_handles' = Put(file_handles, next_file_handle,
                              [read |-> "r" \in AccessMask(flags),
                               write |-> "w" \in AccessMask(flags)])
      BY <2>1 DEF Open, AllocateFileHandle
    <3>. QED BY <3>1, DomainInsert DEF HandleInv
  <2>2. CASE OpenStatus(flags) # "ok"
    BY <2>2 DEF Open, HandleInv
  <2>. QED BY <2>1, <2>2
<1>. QED BY <1>3 DEF Open, HandleInv, CacheOwnedByHandle

\* A speculative fetch adds at most the handle it was made on to the cache.
LEMMA SpeculativeDomain ==
    ASSUME NEW fh, NEW pid, NEW offset, NEW size,
           ReadSpeculative(fh, pid, offset, size)
    PROVE  DOMAIN read_ahead_cache' \subseteq DOMAIN read_ahead_cache \cup {fh}
<1>1. CASE Len(ReadToVec(offset, SPECULATIVE_READ_SIZE)) > size
         /\ ~(Len(ReadToVec(offset, SPECULATIVE_READ_SIZE)) < size)
  <2>1. read_ahead_cache' =
          Put(read_ahead_cache, fh,
              [data |-> SubSeq(ReadToVec(offset, SPECULATIVE_READ_SIZE), size + 1,
                               Len(ReadToVec(offset, SPECULATIVE_READ_SIZE))),
               file_offset |-> offset + size,
               process_id |-> pid, fresh |-> TRUE,
               snapshot |-> content])
    BY <1>1 DEF ReadSpeculative
  <2>. QED BY <2>1, DomainInsert
<1>2. CASE ~(Len(ReadToVec(offset, SPECULATIVE_READ_SIZE)) > size
           /\ ~(Len(ReadToVec(offset, SPECULATIVE_READ_SIZE)) < size))
  BY <1>2 DEF ReadSpeculative
<1>. QED BY <1>1, <1>2

\* read leaves the table alone; a cache insert is for a handle that passed
\* check_read, so is open.
LEMMA ReadInv ==
    ASSUME HandleInv, NEW fh, NEW pid, NEW offset, NEW size,
           Read(fh, pid, offset, size)
    PROVE  HandleInv'
<1>1. UNCHANGED <<next_file_handle, file_handles>>
  BY DEF Read
<1>3. \/ DOMAIN read_ahead_cache' = DOMAIN read_ahead_cache
      \/ CheckRead(fh) /\ ReadSpeculative(fh, pid, offset, size)
  BY DEF Read, ReadFromCache
<1>. QED
  <2>1. CASE DOMAIN read_ahead_cache' = DOMAIN read_ahead_cache
    BY <1>1, <2>1 DEF HandleInv, CacheOwnedByHandle
  <2>2. CASE CheckRead(fh) /\ ReadSpeculative(fh, pid, offset, size)
    BY <1>1, <2>2, SpeculativeDomain DEF HandleInv, CacheOwnedByHandle, CheckRead
  <2>. QED BY <1>3, <2>1, <2>2

\* write and truncate change no table.
LEMMA WriteTruncateInv ==
    ASSUME HandleInv, NEW fh, NEW offset, NEW v,
           Write(fh, offset, v) \/ Truncate(fh, offset)
    PROVE  HandleInv'
BY DEF Write, Truncate, HandleInv, CacheOwnedByHandle

\* release removes the handle and its cached read together.
LEMMA ReleaseInv ==
    ASSUME HandleInv, NEW fh, Release(fh)
    PROVE  HandleInv'
<1>1. /\ DOMAIN file_handles' = DOMAIN file_handles \ {fh}
      /\ DOMAIN read_ahead_cache' = DOMAIN read_ahead_cache \ {fh}
  BY DomainRestrict DEF Release, DeallocateFileHandle
<1>. QED BY <1>1 DEF HandleInv, CacheOwnedByHandle

\* chmod and the TTL change neither table's domain.
LEMMA ChmodExpireInv ==
    ASSUME HandleInv, \/ \E p \in SUBSET Perms : Chmod(p)
                      \/ \E fh \in Handles : Expire(fh)
    PROVE  HandleInv'
<1>1. CASE \E p \in SUBSET Perms : Chmod(p)
  BY <1>1 DEF Chmod, HandleInv, CacheOwnedByHandle
<1>2. CASE \E fh \in Handles : Expire(fh)
  <2>1. PICK fh \in Handles : Expire(fh)
    BY <1>2
  <2>2. DOMAIN read_ahead_cache' = DOMAIN read_ahead_cache
    BY <2>1 DEF Expire
  <2>. QED BY <2>1, <2>2 DEF Expire, HandleInv, CacheOwnedByHandle
<1>. QED BY <1>1, <1>2

\* A remount starts from empty tables.
LEMMA RemountInv ==
    ASSUME HandleInv, Remount
    PROVE  HandleInv'
BY DomainEmpty DEF Remount, HandleInv, CacheOwnedByHandle

-----------------------------------------------------------------------------
LEMMA InitInv == Init => HandleInv
BY DomainEmpty DEF Init, HandleInv, CacheOwnedByHandle

LEMMA NextInv == HandleInv /\ [Next]_vars => HandleInv'
<1> SUFFICES ASSUME HandleInv, [Next]_vars PROVE HandleInv'
  OBVIOUS
<1>1. CASE \E flags \in Flags : Open(flags)
  BY <1>1, OpenInv
<1>2. CASE \E fh \in Handles, pid \in Procs, offset \in 0..MaxLen,
              size \in ReadSizes : Read(fh, pid, offset, size)
  BY <1>2, ReadInv
<1>3. CASE \E fh \in Handles, offset \in 0..Len(content), v \in Values :
              Write(fh, offset, v)
  BY <1>3, WriteTruncateInv
<1>4. CASE \E fh \in Handles \cup {0}, length \in 0..Len(content) :
              Truncate(fh, length)
  BY <1>4, WriteTruncateInv
<1>5. CASE \E fh \in Handles : Release(fh)
  BY <1>5, ReleaseInv
<1>6. CASE \/ \E p \in SUBSET Perms : p # perm /\ Chmod(p)
           \/ \E fh \in Handles : Expire(fh)
  BY <1>6, ChmodExpireInv
<1>7. CASE Remount
  BY <1>7, RemountInv
<1>8. CASE UNCHANGED vars
  BY <1>8 DEF vars, HandleInv, CacheOwnedByHandle
<1>. QED BY <1>1, <1>2, <1>3, <1>4, <1>5, <1>6, <1>7, <1>8 DEF Next

\* Every cached read in read_ahead_cache belongs to a handle that is still
\* in file_handles (deallocate_file_handle drops both), whatever the sizes
\* and bounds.
THEOREM CacheOwned == Spec => []CacheOwnedByHandle
<1>1. Spec => []HandleInv
  BY InitInv, NextInv, PTL DEF Spec
<1>. QED BY <1>1, PTL DEF HandleInv
====
