--------------------------- MODULE FuseCacheProofs ---------------------------
(***************************************************************************)
(* Proofs, for every value of the constants, that the FUSE adapter's       *)
(* state keeps its types and that every read-ahead cache entry holds       *)
(* exactly the bytes that followed its offset in the file it was fetched   *)
(* from (the properties TypeOK and CacheConsistent of the fuse_handles     *)
(* run).                                                                   *)
(***************************************************************************)
EXTENDS FuseAdapterProofs, SequenceTheorems

-----------------------------------------------------------------------------
(* Slices of sequences.                                                    *)

\* Dropping the first k bytes of the slice (a, a + l] of s leaves the slice
\* (a + k, a + l]: what ReadFromCache and ReadSpeculative do to the data
\* they keep.
LEMMA SliceOfSlice ==
    ASSUME NEW S, NEW s \in Seq(S), NEW a \in Nat, NEW l \in Nat,
           a + l <= Len(s), NEW k \in 0..l
    PROVE  SubSeq(SubSeq(s, a + 1, a + l), k + 1, l) = SubSeq(s, a + k + 1, a + l)
<1> DEFINE t == SubSeq(s, a + 1, a + l)
<1>1. t \in Seq(S) /\ Len(t) = l /\ \A i \in 1..l : t[i] = s[a + i]
  BY SubSeqProperties, LenProperties
<1>2. /\ SubSeq(t, k + 1, l) \in Seq(S)
      /\ Len(SubSeq(t, k + 1, l)) = l - k
      /\ \A i \in 1..l - k : SubSeq(t, k + 1, l)[i] = t[k + i]
  BY <1>1, SubSeqProperties, LenProperties
<1>3. /\ SubSeq(s, a + k + 1, a + l) \in Seq(S)
      /\ Len(SubSeq(s, a + k + 1, a + l)) = l - k
      /\ \A i \in 1..l - k : SubSeq(s, a + k + 1, a + l)[i] = s[a + k + i]
  BY SubSeqProperties, LenProperties
<1>. QED BY <1>1, <1>2, <1>3, SeqEqual

\* The data store's read returns the bytes of the file that start at the
\* offset asked for: nothing past EOF, else a slice of at most size bytes.
LEMMA FetchSlice ==
    ASSUME content \in Seq(Values), NEW offset \in Nat, NEW size \in Nat
    PROVE  LET f == FetchBytes(offset, size) IN
           /\ f \in Seq(Values)
           /\ Len(f) <= size
           /\ Len(f) > 0 => /\ offset + Len(f) <= Len(content)
                            /\ f = SubSeq(content, offset + 1, offset + Len(f))
<1> DEFINE f == FetchBytes(offset, size)
<1>1. CASE offset >= Len(content)
  <2>1. f = << >>
    BY <1>1 DEF FetchBytes
  <2>. QED BY <2>1, EmptySeq
<1>2. CASE offset < Len(content)
  <2> DEFINE e == Smaller(offset + size, Len(content))
  <2>1. f = SubSeq(content, offset + 1, e) /\ e \in Nat /\ e <= Len(content)
        /\ e <= offset + size /\ e >= offset
    BY <1>2 DEF FetchBytes, Smaller
  <2>2. f \in Seq(Values) /\ Len(f) = e - offset
    BY <2>1, SubSeqProperties, LenProperties, ElementOfSeq
  <2>. QED BY <2>1, <2>2
<1>. QED BY <1>1, <1>2

-----------------------------------------------------------------------------
(* The adapter's replies.                                                  *)

LEMMA NoReplyType == NoReply \in Replies
BY DEF NoReply, Replies

\* read's replies, served or refused.
LEMMA ReadReplyType ==
    ASSUME NEW fh \in Handles \cup {0}, NEW offset \in Nat,
           NEW path \in {"none", "cache", "fetch", "server"},
           NEW data \in Seq(Values)
    PROVE  /\ ReadReply(fh, offset, path, data) \in Replies
           /\ [ReadReply(fh, offset, path, data) EXCEPT !.status = "EACCES"] \in Replies
           /\ ReadReply(fh, offset, path, data).op = "read"
BY DEF ReadReply, NoReply, Replies

\* A function with the fields of a reply, each in its range, is a reply.
LEMMA ReplyIn ==
    ASSUME NEW r, r = [g \in DOMAIN r |-> r[g]],
           DOMAIN r = {"op", "fh", "offset", "path", "status", "data"},
           r.op \in {"none", "open", "read", "write", "truncate", "release"},
           r.fh \in Handles \cup {0}, r.offset \in Nat,
           r.path \in {"none", "cache", "fetch", "server"},
           r.status \in {"ok", "EACCES", "EINVAL"}, r.data \in Seq(Values)
    PROVE  r \in Replies
<1> DEFINE t == [op |-> r.op, fh |-> r.fh, offset |-> r.offset, path |-> r.path,
                 status |-> r.status, data |-> r.data]
<1>1. \A g \in DOMAIN t : r[g] = t[g]
  <2>1. TAKE g \in DOMAIN t
  <2>2. g = "op" \/ g = "fh" \/ g = "offset" \/ g = "path" \/ g = "status"
        \/ g = "data"
    OBVIOUS
  <2>3. CASE g = "op"      BY <2>3
  <2>4. CASE g = "fh"      BY <2>4
  <2>5. CASE g = "offset"  BY <2>5
  <2>6. CASE g = "path"    BY <2>6
  <2>7. CASE g = "status"  BY <2>7
  <2>8. CASE g = "data"    BY <2>8
  <2>. QED BY <2>2, <2>3, <2>4, <2>5, <2>6, <2>7, <2>8
<1>2. r = t
  <2>1. t = [g \in DOMAIN t |-> t[g]]
    OBVIOUS
  <2>. QED BY <1>1, <2>1
<1>3. t \in Replies
  BY DEF Replies
<1>. QED BY <1>2, <1>3

\* The replies of write, setattr's truncate and release.
LEMMA UpdateReplyType ==
    ASSUME NEW o \in {"write", "truncate", "release"}, NEW f \in Handles \cup {0},
           NEW off \in Nat, NEW st \in {"ok", "EACCES"}
    PROVE  /\ [NoReply EXCEPT !.op = o, !.fh = f, !.offset = off, !.status = st]
              \in Replies
           /\ [NoReply EXCEPT !.op = o, !.fh = f] \in Replies
<1>1. NoReply = [g \in DOMAIN NoReply |-> NoReply[g]]
  BY DEF NoReply
<1>2. [NoReply EXCEPT !.op = o, !.fh = f, !.offset = off, !.status = st] \in Replies
  <2> DEFINE r == [NoReply EXCEPT !.op = o, !.fh = f, !.offset = off, !.status = st]
  <2>1. r = [g \in DOMAIN r |-> r[g]]
    BY <1>1, Zenon
  <2>2. /\ DOMAIN r = {"op", "fh", "offset", "path", "status", "data"}
        /\ r.op = o /\ r.fh = f /\ r.offset = off /\ r.path = "none"
        /\ r.status = st /\ r.data = <<>>
    BY DEF NoReply
  <2>3. /\ r.op \in {"none", "open", "read", "write", "truncate", "release"}
        /\ r.fh \in Handles \cup {0} /\ r.offset \in Nat
        /\ r.path \in {"none", "cache", "fetch", "server"}
        /\ r.status \in {"ok", "EACCES", "EINVAL"} /\ r.data \in Seq(Values)
    <3>1. <<>> \in Seq(Values)
      BY EmptySeq
    <3>. QED BY <2>2, <3>1
  <2>. QED BY <2>1, <2>2, <2>3, ReplyIn
<1>3. [NoReply EXCEPT !.op = o, !.fh = f] \in Replies
  <2> DEFINE r == [NoReply EXCEPT !.op = o, !.fh = f]
  <2>1. r = [g \in DOMAIN r |-> r[g]]
    BY <1>1, Zenon
  <2>2. /\ DOMAIN r = {"op", "fh", "offset", "path", "status", "data"}
        /\ r.op = o /\ r.fh = f /\ r.offset = 0 /\ r.path = "none"
        /\ r.status = "ok" /\ r.data = <<>>
    BY DEF NoReply
  <2>3. /\ r.op \in {"none", "open", "read", "write", "truncate", "release"}
        /\ r.fh \in Handles \cup {0} /\ r.offset \in Nat
        /\ r.path \in {"none", "cache", "fetch", "server"}
        /\ r.status \in {"ok", "EACCES", "EINVAL"} /\ r.data \in Seq(Values)
    <3>1. <<>> \in Seq(Values)
      BY EmptySeq
    <3>2. r.op \in {"none", "open", "read", "write", "truncate", "release"}
      BY <2>2
    <3>3. r.fh \in Handles \cup {0} /\ r.offset \in Nat
      BY <2>2
    <3>4. r.path \in {"none", "cache", "fetch", "server"}
          /\ r.status \in {"ok", "EACCES", "EINVAL"}
      BY <2>2
    <3>5. r.data \in Seq(Values)
      BY <2>2, <3>1
    <3>. QED BY <3>2, <3>3, <3>4, <3>5
  <2>. QED BY <2>1, <2>2, <2>3, ReplyIn
<1>. QED BY <1>2, <1>3

\* open's replies.
LEMMA OpenReplyType ==
    ASSUME NEW st \in {"ok", "EACCES", "EINVAL"}, NEW f \in Handles \cup {0}
    PROVE  [NoReply EXCEPT !.op = "open", !.status = st, !.fh = f] \in Replies
<1> DEFINE r == [NoReply EXCEPT !.op = "open", !.status = st, !.fh = f]
<1>1. DOMAIN r = {"op", "fh", "offset", "path", "status", "data"}
  BY DEF NoReply
<1>2. /\ r.op = "open" /\ r.status = st /\ r.fh = f /\ r.offset = 0
      /\ r.path = "none" /\ r.data = <<>>
  BY DEF NoReply
<1> DEFINE t == [op |-> "open", fh |-> f, offset |-> 0, path |-> "none",
                 status |-> st, data |-> <<>>]
<1>3. \A g \in DOMAIN t : r[g] = t[g]
  <2>1. TAKE g \in DOMAIN t
  <2>2. g = "op" \/ g = "fh" \/ g = "offset" \/ g = "path" \/ g = "status"
        \/ g = "data"
    OBVIOUS
  <2>3. CASE g = "op"      BY <1>2, <2>3
  <2>4. CASE g = "fh"      BY <1>2, <2>4
  <2>5. CASE g = "offset"  BY <1>2, <2>5
  <2>6. CASE g = "path"    BY <1>2, <2>6
  <2>7. CASE g = "status"  BY <1>2, <2>7
  <2>8. CASE g = "data"    BY <1>2, <2>8
  <2>. QED BY <2>2, <2>3, <2>4, <2>5, <2>6, <2>7, <2>8
<1>4. r = [g \in DOMAIN r |-> r[g]] /\ t = [g \in DOMAIN t |-> t[g]]
  <2>1. NoReply = [g \in DOMAIN NoReply |-> NoReply[g]]
    BY DEF NoReply
  <2>2. r = [g \in DOMAIN r |-> r[g]]
    BY <2>1, Zenon
  <2>3. t = [g \in DOMAIN t |-> t[g]]
    OBVIOUS
  <2>. QED BY <2>2, <2>3
<1>5. r = t
  BY <1>1, <1>3, <1>4
<1>6. t \in Replies
  BY DEF Replies
<1>. QED BY <1>5, <1>6

-----------------------------------------------------------------------------
(* Cache entries.                                                          *)

\* Updating the bytes and the offset of a cache entry keeps its other fields.
LEMMA AdvanceEntry ==
    ASSUME NEW c \in CachedRead, NEW d, NEW o
    PROVE  [c EXCEPT !.data = d, !.file_offset = o]
           = [data |-> d, file_offset |-> o, process_id |-> c.process_id,
              fresh |-> c.fresh, snapshot |-> c.snapshot]
<1> DEFINE r == [c EXCEPT !.data = d, !.file_offset = o]
           t == [data |-> d, file_offset |-> o, process_id |-> c.process_id,
                 fresh |-> c.fresh, snapshot |-> c.snapshot]
<1>1. DOMAIN c = {"data", "file_offset", "process_id", "fresh", "snapshot"}
  BY DEF CachedRead
<1>2. DOMAIN r = DOMAIN t
  BY <1>1
<1>3. \A f \in DOMAIN t : r[f] = t[f]
  <2>1. /\ r.data = d /\ r.file_offset = o /\ r.process_id = c.process_id
        /\ r.fresh = c.fresh /\ r.snapshot = c.snapshot
    BY <1>1
  <2>2. DOMAIN t = {"data", "file_offset", "process_id", "fresh", "snapshot"}
    OBVIOUS
  <2>3. TAKE f \in DOMAIN t
  <2>4. f = "data" \/ f = "file_offset" \/ f = "process_id" \/ f = "fresh"
        \/ f = "snapshot"
    BY <2>2
  <2>5. CASE f = "data"        BY <2>1, <2>5
  <2>6. CASE f = "file_offset" BY <2>1, <2>6
  <2>7. CASE f = "process_id"  BY <2>1, <2>7
  <2>8. CASE f = "fresh"       BY <2>1, <2>8
  <2>9. CASE f = "snapshot"    BY <2>1, <2>9
  <2>. QED BY <2>4, <2>5, <2>6, <2>7, <2>8, <2>9
<1>4. r = [f \in DOMAIN r |-> r[f]] /\ t = [f \in DOMAIN t |-> t[f]]
  OBVIOUS
<1>. QED BY <1>2, <1>3, <1>4

\* Marking a cache entry stale keeps its other fields.
LEMMA ExpireEntry ==
    ASSUME NEW c \in CachedRead
    PROVE  [c EXCEPT !.fresh = FALSE]
           = [data |-> c.data, file_offset |-> c.file_offset,
              process_id |-> c.process_id, fresh |-> FALSE, snapshot |-> c.snapshot]
<1> DEFINE r == [c EXCEPT !.fresh = FALSE]
           t == [data |-> c.data, file_offset |-> c.file_offset,
                 process_id |-> c.process_id, fresh |-> FALSE, snapshot |-> c.snapshot]
<1>1. DOMAIN c = {"data", "file_offset", "process_id", "fresh", "snapshot"}
  BY DEF CachedRead
<1>2. DOMAIN r = DOMAIN t
  BY <1>1
<1>3. \A f \in DOMAIN t : r[f] = t[f]
  <2>1. /\ r.data = c.data /\ r.file_offset = c.file_offset
        /\ r.process_id = c.process_id /\ r.fresh = FALSE /\ r.snapshot = c.snapshot
    BY <1>1
  <2>2. TAKE f \in DOMAIN t
  <2>3. f = "data" \/ f = "file_offset" \/ f = "process_id" \/ f = "fresh"
        \/ f = "snapshot"
    OBVIOUS
  <2>4. CASE f = "data"        BY <2>1, <2>4
  <2>5. CASE f = "file_offset" BY <2>1, <2>5
  <2>6. CASE f = "process_id"  BY <2>1, <2>6
  <2>7. CASE f = "fresh"       BY <2>1, <2>7
  <2>8. CASE f = "snapshot"    BY <2>1, <2>8
  <2>. QED BY <2>3, <2>4, <2>5, <2>6, <2>7, <2>8
<1>4. r = [f \in DOMAIN r |-> r[f]] /\ t = [f \in DOMAIN t |-> t[f]]
  OBVIOUS
<1>. QED BY <1>2, <1>3, <1>4

\* A well-typed cache entry that holds the bytes following its offset in
\* its snapshot: what TypeOK and CacheConsistent ask of each entry.
EntryOK(c) ==
    /\ c \in CachedRead
    /\ c.file_offset + Len(c.data) <= Len(c.snapshot)
    /\ c.data = SubSeq(c.snapshot, c.file_offset + 1, c.file_offset + Len(c.data))

\* A cache hit hands out the first size bytes and keeps the rest, with the
\* offset advanced by size: the entry still matches its snapshot.
LEMMA HitEntry ==
    ASSUME NEW c, EntryOK(c), NEW size \in Nat, size <= Len(c.data)
    PROVE  EntryOK([c EXCEPT !.data = SubSeq(c.data, size + 1, Len(c.data)),
                             !.file_offset = c.file_offset + size])
<1> DEFINE l == Len(c.data)  fo == c.file_offset
           d == SubSeq(c.data, size + 1, l)
<1>1. /\ c.snapshot \in Seq(Values) /\ c.data \in Seq(Values)
      /\ fo \in Nat /\ l \in Nat /\ fo + l <= Len(c.snapshot)
  BY LenProperties DEF EntryOK, CachedRead
<1>2. d = SubSeq(c.snapshot, fo + size + 1, fo + l)
  <2>1. SubSeq(SubSeq(c.snapshot, fo + 1, fo + l), size + 1, l)
        = SubSeq(c.snapshot, fo + size + 1, fo + l)
    <3>1. size \in 0..l
      BY <1>1
    <3>. QED BY <1>1, <3>1, SliceOfSlice
  <2>2. c.data = SubSeq(c.snapshot, fo + 1, fo + l)
    BY DEF EntryOK
  <2>. QED BY <2>1, <2>2
<1>3. d \in Seq(Values) /\ Len(d) = l - size
  BY <1>1, SubSeqProperties, ElementOfSeq
<1> DEFINE r == [c EXCEPT !.data = d, !.file_offset = fo + size]
<1>4. r = [data |-> d, file_offset |-> fo + size, process_id |-> c.process_id,
           fresh |-> c.fresh, snapshot |-> c.snapshot]
  BY AdvanceEntry DEF EntryOK
<1>5. r \in CachedRead
  <2>1. c.process_id \in Procs /\ c.fresh \in BOOLEAN
    BY DEF EntryOK, CachedRead
  <2>2. [data |-> d, file_offset |-> fo + size, process_id |-> c.process_id,
         fresh |-> c.fresh, snapshot |-> c.snapshot] \in CachedRead
    BY <1>1, <1>3, <2>1 DEF CachedRead
  <2>. QED BY <1>4, <2>2
<1>6. r.file_offset + Len(r.data) <= Len(r.snapshot)
  BY <1>1, <1>3, <1>4
<1>7. r.data = SubSeq(r.snapshot, r.file_offset + 1, r.file_offset + Len(r.data))
  <2>1. fo + size + Len(d) = fo + l
    BY <1>1, <1>3
  <2>. QED BY <1>2, <1>4, <2>1
<1>. QED BY <1>5, <1>6, <1>7 DEF EntryOK

\* The bytes of a snapshot from a + size + 1 to a + l, cached at offset
\* a + size, make an entry that matches the snapshot.
LEMMA SliceEntry ==
    ASSUME NEW s \in Seq(Values), NEW a \in Nat, NEW l \in Nat,
           a + l <= Len(s), NEW size \in 0..l, NEW pid \in Procs,
           NEW fr \in BOOLEAN
    PROVE  EntryOK([data |-> SubSeq(SubSeq(s, a + 1, a + l), size + 1, l),
                    file_offset |-> a + size, process_id |-> pid,
                    fresh |-> fr, snapshot |-> s])
<1> DEFINE d == SubSeq(SubSeq(s, a + 1, a + l), size + 1, l)
           r == [data |-> d, file_offset |-> a + size, process_id |-> pid,
                 fresh |-> fr, snapshot |-> s]
<1>1. d = SubSeq(s, a + size + 1, a + l)
  BY SliceOfSlice
<1>2. d \in Seq(Values) /\ Len(d) = l - size
  BY <1>1, SubSeqProperties
<1>3. r \in CachedRead
  BY <1>2 DEF CachedRead
<1>4. a + size + Len(d) = a + l
  BY <1>2
<1>. QED BY <1>1, <1>3, <1>4 DEF EntryOK

\* A speculative fetch caches the fetched bytes after the first size ones,
\* at offset + size, with the file as it is now as snapshot.
LEMMA FetchEntry ==
    ASSUME content \in Seq(Values), NEW offset \in Nat, NEW size \in Nat,
           NEW pid \in Procs,
           Len(FetchBytes(offset, SPECULATIVE_READ_SIZE)) > size
    PROVE  LET data == FetchBytes(offset, SPECULATIVE_READ_SIZE) IN
           EntryOK([data |-> SubSeq(data, size + 1, Len(data)),
                    file_offset |-> offset + size,
                    process_id |-> pid, fresh |-> TRUE,
                    snapshot |-> content])
<1> DEFINE data == FetchBytes(offset, SPECULATIVE_READ_SIZE)
           l == Len(data)
<1>1. SPECULATIVE_READ_SIZE \in Nat
  BY ReadAssumption DEF SPECULATIVE_READ_SIZE
<1>2. /\ data \in Seq(Values)
      /\ (l > 0 => /\ offset + l <= Len(content)
                    /\ data = SubSeq(content, offset + 1, offset + l))
  BY <1>1, FetchSlice
<1>3. l \in Nat /\ size \in 0..l /\ offset + l <= Len(content)
  BY <1>2, LenProperties
<1>4. EntryOK([data |-> SubSeq(SubSeq(content, offset + 1, offset + l), size + 1, l),
               file_offset |-> offset + size, process_id |-> pid,
               fresh |-> TRUE, snapshot |-> content])
  BY <1>3, SliceEntry
<1>5. data = SubSeq(content, offset + 1, offset + l)
  <2>1. l > 0
    BY <1>3
  <2>. QED BY <1>2, <2>1
<1>. QED BY <1>4, <1>5, Zenon

-----------------------------------------------------------------------------
(* The invariant.  TypeOK and CacheConsistent are inductive together: a    *)
(* hit's and a fetch's entries are consistent only given that the cached   *)
(* data and the fetched bytes are sequences of the lengths TypeOK bounds.  *)

\* Every cache entry is well typed and consistent with its snapshot.
Entries == \A h \in DOMAIN read_ahead_cache : EntryOK(read_ahead_cache[h])

CacheInv == TypeOK /\ Entries

\* The two forms of the invariant agree.
LEMMA CacheInvIsChecked == CacheInv <=> TypeOK /\ CacheConsistent
BY DEF CacheInv, Entries, EntryOK, TypeOK, CacheConsistent

-----------------------------------------------------------------------------
(* The file's bytes.                                                       *)

\* write of one byte at offset <= EOF keeps the content a sequence within
\* MaxLen when the write is allowed by Write's guard.
LEMMA WriteByteType ==
    ASSUME content \in Seq(Values), Len(content) <= MaxLen,
           NEW offset \in 0..Len(content), NEW v \in Values,
           offset < Len(content) \/ Len(content) < MaxLen
    PROVE  WriteByte(offset, v) \in Seq(Values) /\ Len(WriteByte(offset, v)) <= MaxLen
<1>1. CASE offset = Len(content)
  <2>1. WriteByte(offset, v) = Append(content, v)
    BY <1>1 DEF WriteByte
  <2>2. Append(content, v) \in Seq(Values) /\ Len(Append(content, v)) = Len(content) + 1
    BY AppendProperties
  <2>. QED BY <1>1, <2>1, <2>2, LenAssumption
<1>2. CASE offset # Len(content)
  <2>1. offset + 1 \in 1..Len(content)
    BY <1>2
  <2>. QED BY <1>2, <2>1, ExceptSeq DEF WriteByte
<1>. QED BY <1>1, <1>2

\* truncate to a length within the file keeps a sequence of that length.
LEMMA TruncateType ==
    ASSUME content \in Seq(Values), Len(content) <= MaxLen,
           NEW length \in 0..Len(content)
    PROVE  ClientTruncate(length) \in Seq(Values) /\ Len(ClientTruncate(length)) <= MaxLen
<1>1. \A i \in 1..length : content[i] \in Values
  BY ElementOfSeq
<1>2. /\ SubSeq(content, 1, length) \in Seq(Values)
      /\ Len(SubSeq(content, 1, length)) = IF 1 <= length THEN length ELSE 0
  <2>1. length \in Int /\ 1 \in Int
    OBVIOUS
  <2>. QED BY <1>1, <2>1, SubSeqProperties
<1>. QED BY <1>2, LenAssumption DEF ClientTruncate

\* The file's first content is a sequence of InitLen bytes.
LEMMA InitContentType ==
    ASSUME content \in [1..InitLen -> Values]
    PROVE  content \in Seq(Values) /\ Len(content) <= MaxLen
<1>1. content \in Seq(Values)
  BY LenAssumption, SeqDef
<1>2. Len(content) = InitLen
  <2>1. Len(content) \in Nat /\ DOMAIN content = 1..Len(content)
    BY <1>1, LenProperties
  <2>2. 1..Len(content) = 1..InitLen
    BY <2>1
  <2>3. ~(Len(content) < InitLen)
    <3>1. SUFFICES ASSUME Len(content) < InitLen PROVE FALSE
      OBVIOUS
    <3>2. InitLen \in 1..InitLen /\ InitLen \notin 1..Len(content)
      BY <2>1, <3>1, LenAssumption
    <3>. QED BY <2>2, <3>2
  <2>4. ~(InitLen < Len(content))
    <3>1. SUFFICES ASSUME InitLen < Len(content) PROVE FALSE
      OBVIOUS
    <3>2. Len(content) \in 1..Len(content) /\ Len(content) \notin 1..InitLen
      BY <2>1, <3>1, LenAssumption
    <3>. QED BY <2>2, <3>2
  <2>. QED BY <2>1, <2>3, <2>4, LenAssumption
<1>. QED BY <1>1, <1>2, LenAssumption

-----------------------------------------------------------------------------
(* One lemma per action.                                                   *)

\* open allocates a handle below the bound and touches no cache entry.
LEMMA OpenCache ==
    ASSUME CacheInv, NEW flags \in Flags, Open(flags)
    PROVE  CacheInv'
<1> DEFINE status == OpenStatus(flags)
<1>1. UNCHANGED <<read_ahead_cache, content, perm, panicked>>
  BY DEF Open
<1>2. status \in {"ok", "EACCES", "EINVAL"}
  BY DEF OpenStatus
<1>3. /\ next_file_handle' \in 1..(MaxHandle + 1)
      /\ DOMAIN file_handles' \subseteq 1..(next_file_handle' - 1)
      /\ \A h \in DOMAIN file_handles' : file_handles'[h] \in HandleAttrs
  <2>1. CASE status = "ok"
    <3>1. /\ next_file_handle <= MaxHandle
          /\ next_file_handle' = next_file_handle + 1
          /\ file_handles' = Put(file_handles, next_file_handle,
                                  [read |-> "r" \in AccessMask(flags),
                                   write |-> "w" \in AccessMask(flags)])
      BY <2>1 DEF Open, AllocateFileHandle
    <3>2. DOMAIN file_handles' = {next_file_handle} \cup DOMAIN file_handles
      BY <3>1, DomainInsert
    <3>3. [read |-> "r" \in AccessMask(flags), write |-> "w" \in AccessMask(flags)]
          \in HandleAttrs
      BY DEF HandleAttrs
    <3>4. next_file_handle' \in 1..(MaxHandle + 1)
          /\ DOMAIN file_handles' \subseteq 1..(next_file_handle' - 1)
      BY <3>1, <3>2, HandleAssumption DEF CacheInv, TypeOK
    <3>5. \A h \in DOMAIN file_handles' : file_handles'[h] \in HandleAttrs
      <4>1. TAKE h \in DOMAIN file_handles'
      <4>2. CASE h = next_file_handle
        BY <3>1, <3>3, <4>2 DEF Put
      <4>3. CASE h # next_file_handle
        BY <3>1, <3>2, <4>3 DEF CacheInv, TypeOK, Put
      <4>. QED BY <4>2, <4>3
    <3>. QED BY <3>4, <3>5
  <2>2. CASE status # "ok"
    BY <2>2 DEF Open, CacheInv, TypeOK
  <2>. QED BY <2>1, <2>2
<1>4. reply' \in Replies
  <2>1. (IF status = "ok" THEN next_file_handle ELSE 0) \in Handles \cup {0}
    BY DEF Open, CacheInv, TypeOK, Handles
  <2>2. reply' = [NoReply EXCEPT !.op = "open", !.status = status,
                  !.fh = IF status = "ok" THEN next_file_handle ELSE 0]
    BY DEF Open
  <2>. QED BY <1>2, <2>1, <2>2, OpenReplyType
<1>. QED BY <1>1, <1>3, <1>4 DEF CacheInv, TypeOK, Entries

\* write changes only the file's bytes, within MaxLen by its guard, and
\* the reply; cached entries keep their snapshots.
LEMMA WriteCache ==
    ASSUME CacheInv, NEW fh \in Handles, NEW offset \in 0..Len(content),
           NEW v \in Values, Write(fh, offset, v)
    PROVE  CacheInv'
<1> DEFINE status == IF ~CheckWrite(fh) \/ ~ServerAllows(FALSE, "w")
                     THEN "EACCES" ELSE "ok"
<1>1. UNCHANGED <<next_file_handle, file_handles, read_ahead_cache, perm, panicked>>
  BY DEF Write
<1>2. content' \in Seq(Values) /\ Len(content') <= MaxLen
  <2>1. offset < Len(content) \/ Len(content) < MaxLen
    BY DEF Write
  <2>2. content' = IF status = "ok" THEN WriteByte(offset, v) ELSE content
    BY DEF Write, ClientWrite
  <2>. QED BY <2>1, <2>2, WriteByteType DEF CacheInv, TypeOK
<1>3. reply' \in Replies
  <2>1. reply' = [NoReply EXCEPT !.op = "write", !.fh = fh, !.offset = offset,
                                 !.status = status]
    BY DEF Write
  <2>2. status \in {"ok", "EACCES"} /\ fh \in Handles \cup {0} /\ offset \in Nat
    OBVIOUS
  <2>. QED BY <2>1, <2>2, UpdateReplyType
<1>. QED BY <1>1, <1>2, <1>3 DEF CacheInv, TypeOK, Entries

\* setattr's truncate keeps the file a sequence no longer than it was.
LEMMA TruncateCache ==
    ASSUME CacheInv, NEW fh \in Handles \cup {0}, NEW length \in 0..Len(content),
           Truncate(fh, length)
    PROVE  CacheInv'
<1> DEFINE allowed == IF fh # 0 THEN CheckWrite(fh) /\ ServerAllows(TRUE, "w")
                      ELSE ServerAllows(FALSE, "w")
<1>1. UNCHANGED <<next_file_handle, file_handles, read_ahead_cache, perm, panicked>>
  BY DEF Truncate
<1>2. content' \in Seq(Values) /\ Len(content') <= MaxLen
  <2>1. content' = IF allowed THEN ClientTruncate(length) ELSE content
    BY DEF Truncate
  <2>. QED BY <2>1, TruncateType DEF CacheInv, TypeOK
<1>3. reply' \in Replies
  <2>1. reply' = [NoReply EXCEPT !.op = "truncate", !.fh = fh, !.offset = length,
                                 !.status = IF allowed THEN "ok" ELSE "EACCES"]
    BY DEF Truncate
  <2>2. (IF allowed THEN "ok" ELSE "EACCES") \in {"ok", "EACCES"} /\ length \in Nat
    OBVIOUS
  <2>. QED BY <2>1, <2>2, UpdateReplyType
<1>. QED BY <1>1, <1>2, <1>3 DEF CacheInv, TypeOK, Entries

\* release keeps what remains of both tables as it was.
LEMMA ReleaseCache ==
    ASSUME CacheInv, NEW fh \in Handles, Release(fh)
    PROVE  CacheInv'
<1>1. UNCHANGED <<next_file_handle, content, perm, panicked>>
  BY DEF Release
<1>2. /\ DOMAIN file_handles' = DOMAIN file_handles \ {fh}
      /\ \A h \in DOMAIN file_handles' : file_handles'[h] = file_handles[h]
      /\ DOMAIN read_ahead_cache' = DOMAIN read_ahead_cache \ {fh}
      /\ \A h \in DOMAIN read_ahead_cache' : read_ahead_cache'[h] = read_ahead_cache[h]
  BY DEF Release, DeallocateFileHandle, Restrict
<1>3. reply' \in Replies
  <2>1. reply' = [NoReply EXCEPT !.op = "release", !.fh = fh]
    BY DEF Release
  <2>. QED BY <2>1, UpdateReplyType
<1>. QED BY <1>1, <1>2, <1>3 DEF CacheInv, TypeOK, Entries

\* chmod sets a permission class of Perms and touches nothing else.
LEMMA ChmodCache ==
    ASSUME CacheInv, NEW p \in SUBSET Perms, Chmod(p)
    PROVE  CacheInv'
BY DEF Chmod, CacheInv, TypeOK, Entries

\* The TTL clears only an entry's fresh flag.
LEMMA ExpireCache ==
    ASSUME CacheInv, NEW fh \in Handles, Expire(fh)
    PROVE  CacheInv'
<1>1. UNCHANGED <<next_file_handle, file_handles, content, perm, reply, panicked>>
  BY DEF Expire
<1>2. /\ fh \in DOMAIN read_ahead_cache
      /\ read_ahead_cache' = [read_ahead_cache EXCEPT ![fh].fresh = FALSE]
  BY DEF Expire
<1>3. DOMAIN read_ahead_cache' = DOMAIN read_ahead_cache
  BY <1>2
<1>4. \A h \in DOMAIN read_ahead_cache' : EntryOK(read_ahead_cache'[h])
  <2>1. TAKE h \in DOMAIN read_ahead_cache'
  <2>2. CASE h = fh
    <3> DEFINE c == read_ahead_cache[fh]
    <3>1. EntryOK(c)
      BY <1>2 DEF CacheInv, Entries
    <3>2. read_ahead_cache'[h]
          = [data |-> c.data, file_offset |-> c.file_offset,
             process_id |-> c.process_id, fresh |-> FALSE, snapshot |-> c.snapshot]
      BY <1>2, <2>2, <3>1, ExpireEntry DEF EntryOK
    <3>3. c \in CachedRead
      BY <3>1 DEF EntryOK
    <3>. QED BY <3>1, <3>2, <3>3 DEF EntryOK, CachedRead
  <2>3. CASE h # fh
    BY <1>2, <1>3, <2>3 DEF CacheInv, Entries
  <2>. QED BY <2>2, <2>3
<1>. QED BY <1>1, <1>3, <1>4 DEF CacheInv, TypeOK, Entries, EntryOK

\* FleetFUSE::new after a panic: empty tables and no reply.
LEMMA RemountCache ==
    ASSUME CacheInv, Remount
    PROVE  CacheInv'
<1>1. /\ next_file_handle' = 1 /\ file_handles' = <<>> /\ read_ahead_cache' = <<>>
      /\ reply' = NoReply /\ panicked' = FALSE
      /\ UNCHANGED <<content, perm>>
  BY DEF Remount
<1>2. DOMAIN file_handles' = {} /\ DOMAIN read_ahead_cache' = {}
  BY <1>1, DomainEmpty
<1>3. next_file_handle' \in 1..(MaxHandle + 1)
  BY <1>1, HandleAssumption
<1>. QED BY <1>1, <1>2, <1>3, NoReplyType DEF CacheInv, TypeOK, Entries

\* A hit's update of the cache table touches the hit entry only.
LEMMA HitTable ==
    ASSUME NEW f, NEW k \in DOMAIN f, NEW d, NEW o
    PROVE  LET g == [f EXCEPT ![k].data = d, ![k].file_offset = o] IN
           /\ DOMAIN g = DOMAIN f
           /\ g[k] = [f[k] EXCEPT !.data = d, !.file_offset = o]
           /\ \A h \in DOMAIN f \ {k} : g[h] = f[h]
OBVIOUS

\* read served from the cache: the hit entry advances past the bytes
\* handed out and still matches its snapshot.
LEMMA ReadHitCache ==
    ASSUME CacheInv, NEW fh \in Handles, NEW pid \in Procs,
           NEW offset \in 0..MaxLen, NEW size \in ReadSizes,
           CacheHit(fh, pid, offset, size), ReadFromCache(fh, pid, offset, size)
    PROVE  /\ DOMAIN read_ahead_cache' = DOMAIN read_ahead_cache
           /\ \A h \in DOMAIN read_ahead_cache' : EntryOK(read_ahead_cache'[h])
           /\ reply' \in Replies
           /\ panicked' = panicked
<1> DEFINE c == read_ahead_cache[fh]
           d == SubSeq(c.data, size + 1, Len(c.data))
<1>1. fh \in DOMAIN read_ahead_cache /\ size <= Len(c.data) /\ EntryOK(c)
  BY DEF CacheHit, CacheInv, Entries
<1>2. size \in Nat
  BY ReadAssumption
<1>3. read_ahead_cache' = [read_ahead_cache EXCEPT ![fh].data = d,
                                                   ![fh].file_offset = c.file_offset + size]
  BY DEF ReadFromCache
<1>4. /\ DOMAIN read_ahead_cache' = DOMAIN read_ahead_cache
      /\ read_ahead_cache'[fh] = [c EXCEPT !.data = d, !.file_offset = c.file_offset + size]
      /\ \A h \in DOMAIN read_ahead_cache \ {fh} : read_ahead_cache'[h] = read_ahead_cache[h]
  BY <1>1, <1>3, HitTable
<1>5. EntryOK([c EXCEPT !.data = d, !.file_offset = c.file_offset + size])
  BY <1>1, <1>2, HitEntry
<1>6. \A h \in DOMAIN read_ahead_cache' : EntryOK(read_ahead_cache'[h])
  BY <1>4, <1>5 DEF CacheInv, Entries
<1>7. reply' \in Replies
  <2>1. c.data \in Seq(Values) /\ \A i \in 1..size : c.data[i] \in Values
    <3>1. c.data \in Seq(Values)
      BY <1>1 DEF EntryOK, CachedRead
    <3>. QED BY <1>1, <1>2, <3>1, ElementOfSeq
  <2>2. SubSeq(c.data, 1, size) \in Seq(Values)
    BY <1>2, <2>1, SubSeqProperties
  <2>3. reply' = ReadReply(fh, offset, "cache", SubSeq(c.data, 1, size))
    BY DEF ReadFromCache
  <2>4. fh \in Handles \cup {0} /\ offset \in Nat
    OBVIOUS
  <2>. QED BY <2>2, <2>3, <2>4, ReadReplyType
<1>8. panicked' = panicked
  BY DEF ReadFromCache
<1>. QED BY <1>4, <1>6, <1>7, <1>8

\* read's speculative fetch: a short answer panics and changes nothing
\* else; otherwise the tail after the bytes handed out is cached for fh.
LEMMA ReadSpecCache ==
    ASSUME CacheInv, NEW fh \in Handles, NEW pid \in Procs,
           NEW offset \in 0..MaxLen, NEW size \in ReadSizes,
           ReadSpeculative(fh, pid, offset, size)
    PROVE  /\ DOMAIN read_ahead_cache' \subseteq Handles
           /\ \A h \in DOMAIN read_ahead_cache' : EntryOK(read_ahead_cache'[h])
           /\ reply' \in Replies
           /\ panicked' \in BOOLEAN
<1> DEFINE data == FetchBytes(offset, SPECULATIVE_READ_SIZE)
           entry == [data |-> SubSeq(data, size + 1, Len(data)),
                     file_offset |-> offset + size,
                     process_id |-> pid, fresh |-> TRUE,
                     snapshot |-> content]
<1>1. size \in Nat /\ offset \in Nat /\ SPECULATIVE_READ_SIZE \in Nat
  BY ReadAssumption DEF SPECULATIVE_READ_SIZE
<1>2. data \in Seq(Values) /\ Len(data) \in Nat
  BY <1>1, FetchSlice, LenProperties DEF CacheInv, TypeOK
<1>3. CASE Len(data) < size
  BY <1>3 DEF ReadSpeculative, ReadToVec, CacheInv, TypeOK, Entries
<1>4. CASE ~(Len(data) < size)
  <2>1. reply' = ReadReply(fh, offset, "fetch", SubSeq(data, 1, size))
        /\ panicked' = panicked
    BY <1>4 DEF ReadSpeculative, ReadToVec
  <2>2. reply' \in Replies
    <3>1. \A i \in 1..size : data[i] \in Values
      BY <1>1, <1>2, <1>4, ElementOfSeq
    <3>2. SubSeq(data, 1, size) \in Seq(Values)
      BY <1>1, <3>1, SubSeqProperties
    <3>3. fh \in Handles \cup {0} /\ offset \in Nat
      OBVIOUS
    <3>. QED BY <2>1, <3>2, <3>3, ReadReplyType
  <2>3. CASE Len(data) > size
    <3>1. read_ahead_cache' = Put(read_ahead_cache, fh, entry)
      BY <1>4, <2>3 DEF ReadSpeculative, ReadToVec
    <3>2. DOMAIN read_ahead_cache' = {fh} \cup DOMAIN read_ahead_cache
      BY <3>1, DomainInsert
    <3>3. EntryOK(entry)
      BY <1>1, <2>3, FetchEntry DEF CacheInv, TypeOK
    <3>4. \A h \in DOMAIN read_ahead_cache' : EntryOK(read_ahead_cache'[h])
      <4>1. TAKE h \in DOMAIN read_ahead_cache'
      <4>2. CASE h = fh
        BY <3>1, <3>3, <4>2 DEF Put
      <4>3. CASE h # fh
        BY <3>1, <3>2, <4>3 DEF Put, CacheInv, Entries
      <4>. QED BY <4>2, <4>3
    <3>. QED BY <2>1, <2>2, <3>2, <3>4 DEF CacheInv, TypeOK
  <2>4. CASE ~(Len(data) > size)
    <3>1. read_ahead_cache' = read_ahead_cache
      BY <1>4, <2>4 DEF ReadSpeculative, ReadToVec
    <3>. QED BY <2>1, <2>2, <3>1 DEF CacheInv, TypeOK, Entries
  <2>. QED BY <2>3, <2>4
<1>. QED BY <1>3, <1>4

\* read, by its four outcomes: refused by check_read, a cache hit,
\* refused by the node, or served by the node (speculatively or not).
LEMMA ReadCache ==
    ASSUME CacheInv, NEW fh \in Handles, NEW pid \in Procs,
           NEW offset \in 0..MaxLen, NEW size \in ReadSizes,
           Read(fh, pid, offset, size)
    PROVE  CacheInv'
<1>1. UNCHANGED <<next_file_handle, file_handles, content, perm>> /\ ~panicked
  BY DEF Read
<1>2. /\ [ReadReply(fh, offset, "none", <<>>) EXCEPT !.status = "EACCES"] \in Replies
      /\ ReadReply(fh, offset, "server", ClientRead(offset, size)) \in Replies
  <2>1. <<>> \in Seq(Values) /\ fh \in Handles \cup {0} /\ offset \in Nat
    BY EmptySeq
  <2>2. ClientRead(offset, size) \in Seq(Values)
    <3>1. size \in Nat /\ offset \in Nat /\ content \in Seq(Values)
      BY ReadAssumption DEF CacheInv, TypeOK
    <3>. QED BY <3>1, FetchSlice DEF ClientRead
  <2>. QED BY <2>1, <2>2, ReadReplyType
<1> DEFINE Refused ==
             /\ reply' = [ReadReply(fh, offset, "none", <<>>) EXCEPT !.status = "EACCES"]
             /\ UNCHANGED <<read_ahead_cache, panicked>>
           Served ==
             /\ reply' = ReadReply(fh, offset, "server", ClientRead(offset, size))
             /\ UNCHANGED <<read_ahead_cache, panicked>>
<1>3. CASE Refused \/ Served
  BY <1>1, <1>2, <1>3 DEF CacheInv, TypeOK, Entries
<1>4. CASE CacheHit(fh, pid, offset, size) /\ ReadFromCache(fh, pid, offset, size)
  <2>1. /\ DOMAIN read_ahead_cache' = DOMAIN read_ahead_cache
        /\ \A h \in DOMAIN read_ahead_cache' : EntryOK(read_ahead_cache'[h])
        /\ reply' \in Replies
        /\ panicked' = panicked
    BY <1>4, ReadHitCache
  <2>2. \A h \in DOMAIN read_ahead_cache' : read_ahead_cache'[h] \in CachedRead
    BY <2>1 DEF EntryOK
  <2>. QED BY <1>1, <2>1, <2>2 DEF CacheInv, TypeOK, Entries
<1>5. CASE ReadSpeculative(fh, pid, offset, size)
  <2>1. /\ DOMAIN read_ahead_cache' \subseteq Handles
        /\ \A h \in DOMAIN read_ahead_cache' : EntryOK(read_ahead_cache'[h])
        /\ reply' \in Replies
        /\ panicked' \in BOOLEAN
    BY <1>5, ReadSpecCache
  <2>2. \A h \in DOMAIN read_ahead_cache' : read_ahead_cache'[h] \in CachedRead
    BY <2>1 DEF EntryOK
  <2>. QED BY <1>1, <2>1, <2>2 DEF CacheInv, TypeOK, Entries
<1>. QED BY <1>3, <1>4, <1>5 DEF Read

-----------------------------------------------------------------------------
LEMMA InitCache == Init => CacheInv
<1> SUFFICES ASSUME Init PROVE CacheInv
  OBVIOUS
<1>1. content \in Seq(Values) /\ Len(content) <= MaxLen
  BY InitContentType DEF Init
<1>2. DOMAIN file_handles = {} /\ DOMAIN read_ahead_cache = {}
  BY DomainEmpty DEF Init
<1>3. next_file_handle \in 1..(MaxHandle + 1)
  BY HandleAssumption DEF Init
<1>. QED BY <1>1, <1>2, <1>3, NoReplyType DEF Init, CacheInv, TypeOK, Entries

LEMMA NextCache == CacheInv /\ [Next]_vars => CacheInv'
<1> SUFFICES ASSUME CacheInv, [Next]_vars PROVE CacheInv'
  OBVIOUS
<1>1. CASE \E flags \in Flags : Open(flags)
  BY <1>1, OpenCache
<1>2. CASE \E fh \in Handles, pid \in Procs, offset \in 0..MaxLen,
              size \in ReadSizes : Read(fh, pid, offset, size)
  BY <1>2, ReadCache
<1>3. CASE \E fh \in Handles, offset \in 0..Len(content), v \in Values :
              Write(fh, offset, v)
  BY <1>3, WriteCache
<1>4. CASE \E fh \in Handles \cup {0}, length \in 0..Len(content) :
              Truncate(fh, length)
  BY <1>4, TruncateCache
<1>5. CASE \E fh \in Handles : Release(fh)
  BY <1>5, ReleaseCache
<1>6. CASE \E p \in SUBSET Perms : p # perm /\ Chmod(p)
  BY <1>6, ChmodCache
<1>7. CASE \E fh \in Handles : Expire(fh)
  BY <1>7, ExpireCache
<1>8. CASE Remount
  BY <1>8, RemountCache
<1>9. CASE UNCHANGED vars
  BY <1>9 DEF vars, CacheInv, TypeOK, Entries, EntryOK
<1>. QED BY <1>1, <1>2, <1>3, <1>4, <1>5, <1>6, <1>7, <1>8, <1>9 DEF Next

\* The adapter's state keeps its types in every behaviour, whatever the
\* bounds: handle numbers stay below the counter, cached reads and replies
\* are well formed, the file stays within MaxLen (open, read, write,
\* setattr, release in fuse_adapter.rs).
THEOREM TypeCorrect == Spec => []TypeOK
<1>1. Spec => []CacheInv
  BY InitCache, NextCache, PTL DEF Spec
<1>. QED BY <1>1, PTL DEF CacheInv

\* Every cached read holds, from its file_offset on, exactly the bytes of
\* the file as it was fetched: a hit advances data and file_offset
\* together and a fetch caches the tail after the bytes it returned (read,
\* fuse_adapter.rs), for every value of the constants.
THEOREM CacheSound == Spec => []CacheConsistent
<1>1. Spec => []CacheInv
  BY InitCache, NextCache, PTL DEF Spec
<1>2. CacheInv => CacheConsistent
  BY CacheInvIsChecked
<1>. QED BY <1>1, <1>2, PTL

====
