# TLA+ models of fleetfs

This directory holds TLA+ specifications of three parts of fleetfs (the
metadata store, the FUSE adapter and the storage node's request pipeline),
the TLC configurations that model-check them, and TLAPS proofs of their main
invariants and of the pipeline's refinement of an abstract linearizable
store.

## The system

fleetfs is a distributed file system made of the following parts:

- **FUSE adapter** (`src/src/fuse_adapter.rs`, `FleetFUSE`). It turns kernel
  requests into requests to a storage node. It keeps two pieces of
  process-local state:
  - a file-handle table, mapping each handle to its `{read, write}` rights;
  - a read-ahead cache: a large read fetches 8× the kernel's maximum read
    size, and the following reads are served locally.
- **Node client** (`src/src/client.rs`, `NodeClient`). It encodes requests
  and sends them to a node.
- **Storage node** (`src/src/storage_node.rs`). It routes each request:
  - raft frames go to the raft manager;
  - writes are proposed through raft;
  - reads are served after a commit barrier.

  A periodic tick (100 ms) drives raft's heartbeats and elections. `fsck`
  compares the node's data-directory checksum with every peer's. The raft
  manager and the data store are not in this source tree.
- **Metadata store** (`src/src/storage/metadata_storage.rs`,
  `MetadataStorage`). It holds four maps:
  - `directories`: the directory descriptors, name → (inode, kind);
  - `directory_parents`;
  - `metadata`: the inode attributes;
  - `next_inode`: the inode counter.

  Each committed request is applied through one method, under the map
  mutexes.

A namespace request therefore goes: kernel → adapter → client → node → raft
commit → one `MetadataStorage` method. A data request goes through the
adapter's handle checks and the read-ahead cache first.

## Modules

| Module | Models |
|---|---|
| `Metadata` | `MetadataStorage`: one action per mutating method, plus the requests the kernels send (`NextBy`) |
| `MetadataProofs` | TLAPS proofs of type correctness and of the `..` invariant of `Metadata` |
| `MetadataStickyProofs` | TLAPS proof that, with one mount, every step respects the sticky bit |
| `MetadataLinkProofs` | TLAPS proof that, with one mount, no entry names a dropped inode (link counting) |
| `MCMetadata` | model values and a symmetry set for `Metadata` |
| `FuseAdapter` | the handle table, the read-ahead cache and the adapter's `open`, `read`, `write`, `setattr` (truncate, chmod), `release`, for one regular file |
| `FuseAdapterProofs` | TLAPS proofs of the handle-table properties of `FuseAdapter` |
| `FuseCacheProofs` | TLAPS proofs of type correctness and of the read-ahead cache's contents |
| `MCFuseAdapter` | model values and a symmetry set for `FuseAdapter` |
| `StorageNode` | `Node::run`'s write, read and fsck paths, the raft message handler, error responses, and the raft log (commit, apply loop, elections) they drive |
| `LinearStore` | the abstract store the pipeline promises: one log of writes, reads of a log prefix that holds every acknowledged write |
| `StorageNodeProofs` | TLAPS proofs of type correctness, linearizable reads and the refinement of `LinearStore` |
| `MCStorageNode` | model values for `StorageNode` |

### Metadata

**State:**
- `metadata`: a function from the inode range to attribute records;
- `live`: the domain of the metadata map;
- `directories` and `dirs`: the descriptors and their domain;
- `parents`: `directory_parents`;
- `next_inode`: the counter.

**Actions.** There is one action per mutating method: `Create`, `Mkdir`,
`Unlink`, `Rmdir`, `Rename`, `Hardlink`, `Chmod`, `Chown`, `Truncate`,
`Write`, `SetXattr`, `RemoveXattr`. Each action's guard is made of the
method's early returns, in code order. Its updates are every map write the
method makes, including the writes that happen before a later failure.
There are two exceptions. Both are on a path where the parent has
attributes but no descriptor, which means it is not a directory:
- `mkdir` (metadata_storage.rs:385) allocates an inode number before the
  `directories` lookup fails. `Mkdir` makes no change then. The lost
  number is never read.
- `hardlink` (line 348) adds one to the target's link count before the
  `directories` lookup of the new parent fails. `Hardlink` makes no change
  then. The extra link only makes the count larger, and `LinkCounts`
  bounds the number of names from above, so it cannot break it.

**What is abstracted:**
- Timestamps are left out: they are written but never read by a method.
- Modes are records of permission sets.
- Sizes are scaled down.
- Names are model values.

**Kernel environment.** The kernel's VFS checks a request before sending it,
and `NextBy(u, g)` models this. The constant `SingleMount` selects how
much the VFS knows:
- `SingleMount = TRUE`: one up-to-date mount. The VFS only sends requests
  that are consistent with the current namespace, for example no rename of
  a directory into itself and no mkdir over an existing name.
- `SingleMount = FALSE`: several mounts with stale views. An argument is
  only known to have been allocated with the kind the sender saw.

### FuseAdapter

**State:**
- `next_file_handle`, `file_handles` and `read_ahead_cache`, as in the
  code;
- `content`: the file's bytes in the data store;
- `perm`: the caller's permission class on the file, which `Chmod` changes;
- `reply`: a record of the adapter's last answer;
- `panicked`.

Each FUSE handler is one action, because the session loop runs one request
at a time:
- `Read` has one disjunct per path through `read`:
  - EACCES from `check_read`;
  - a cache hit;
  - EACCES from the node;
  - the speculative fetch, or the plain read.
- `ReadSpeculative` models the slice `data[0..size]`: if fewer than `size`
  bytes came back, the adapter panics.
- `Remount` models the daemon starting again after a panic.
- `Expire` models the 1 ms TTL running out.
- `FetchBytes` and `WriteByte` model the data store (read up to EOF;
  overwrite or append), taken from the spec.
- `ServerAllows` is the R/W check in `MetadataStorage::read` and `::write`.
  Root passes it, which `setattr`'s truncate-with-handle relies on.

### StorageNode

**State:**
- the raft side: `log` (the committed entries, each the client that
  wrote it), `commit[n]` and `applied[n]` per node, `leader`, `elections`;
- one request in flight per client (a client blocks on its socket):
  `rop` (kind), `rnode` (the node it was sent to), `phase` (where it is in
  `Node::run`), `rindex` (a write's log index or a read's barrier),
  `floor` (the writes acknowledged when it arrived), `fver` and `peer`
  (fsck's local checksum and its per-peer checksum requests);
- `reply`, `acked` (the highest acknowledged log index) and `sent`.

The data directory after `k` applied entries is abstracted to `k`, so a
checksum (`Checksum(n) == applied[n]`) and a read's result are the applied
prefix length. Two replicas differ only if they applied different prefixes:
every replica applies the same log.

**Actions.**
- `Receive` is `Node::run`'s classification of a frame: writes go to
  `propose`, everything else to the leader query.
- `Commit` is the leader appending and committing the proposal.
  `AckWrite` is the proposer's future resolving once its own apply loop
  has run the entry.
- `QueryLeader` is `get_latest_commit_from_leader` answered by
  `LatestCommitRequest`: the leader's `get_latest_local_commit`.
- `Serve` is `sync` resolving and `handler` running the read; for fsck,
  `Handle` takes the local checksum at once and sends a checksum request
  to every peer.
- `PeerQuery` and `PeerChecksum` are a peer serving that request. It is a
  read frame, so it does its own leader query and sync.
- `FsckDone` is `join_all` resolving. It answers Corrupted if any peer's
  checksum differs from the local one. The receiving node is not its own
  peer (`peers` excludes it), so its slot in `peer` is never compared.
- `Fail` is a failed proposal, leader query or peer request, mapped to
  `Uncategorized`. A failed proposal leaves the log untouched (spec §5).
- The raft side, from spec §4.3 because the raft manager is not in the
  tree:
  - `LearnCommit`: a `RaftRequest` carrying the leader's commit index;
  - `Apply`: one step of a node's apply loop;
  - `Elect`: an election on a background tick;
  - `LeaderCatchUp`: a new leader committing an entry of its own term.
  `Elect` keeps the new leader's commit index as it was.

**Refinement.** `LinearStore` is what spec §4.3 and §5 promise. A write
takes effect when it enters the log. A read returns the state after some
prefix that holds every write acknowledged before it was sent. An fsck of
agreeing replicas answers ok. The mapping `AbstractReq` sends a request
to its kind, its log index once it is committed (phase `wait`), and its
floor. Everything else (node, phase, barrier, raft state) is hidden.

## Runs

**Passing runs:**
- `metadata_safety` (MCMetadata.cfg, 295,884 states, about 80 s):
  - `TypeOK`;
  - `NoDanglingEntries`: every entry names a live inode;
  - `DotDotAccurate`: `directory_parents` of every named directory is the
    directory that names it;
  - `DotDotInv`: the inductive invariant of the `..` proof;
  - `LinkInv`: the inductive invariant of the `NoDanglingEntries` proof
    (`DotDotInv`, `NoDanglingEntries`, and `LinkCounts`: a live inode's
    link count is at least the number of entries that name it).

  It uses one mount, three inodes, two names, two users and three link
  counts.
- `metadata_sticky` (MCMetadataSticky.cfg):
  - `StickyBitProtectsEntries`, an action property: no step of a user
    other than root, the directory's owner or the entry's owner changes an
    entry of a sticky directory. Unlink, rmdir and both ends of rename each
    enforce this separately.
- `storage_linearizable` (MCStorageNode.cfg, 249,810 states, 10 s):
  - `TypeOK`;
  - `ReadSeesAckedWrites`: a read answered ok reflects every write
    acknowledged before it arrived;
  - `RefinesLinearStore`: `LS!Spec` under the mapping.

  It uses a fixed leader, three nodes, two clients, and up to three writes
  and reads sent to any node.
- `storage_liveness` (MCStorageLiveness.cfg, 182,701 states, 20 s):
  - `RequestsComplete`: every write, read and fsck is eventually answered.

  It allows one election and up to two requests of all three kinds.
- `fuse_handles` (MCFuseAdapter.cfg, 55,812 states, a few seconds):
  - `CacheConsistent`: every cached read is exactly the bytes that follow
    `file_offset` in what was fetched;
  - `CacheOwnedByHandle`: only open handles have cached reads.

**Violation runs.** Each one checks one property that the spec, a comment
or the code's evident intent states. TLC finds it broken by what the code
does; PROJECT.json `findings` gives the lines.
- `rename_leak`: rename over a name leaks the replaced inode.
- `stale_rmdir`: with stale mounts, rmdir drops a hard-linked file.
- `stale_leader_read`: after an election, a read's leader query reaches
  the new leader before it has committed an entry of its own term. Its
  commit index lags a write the old leader acknowledged, and the read
  misses that write (spec §4.3: a read sees every write committed on the
  leader before it arrived).
- `fsck_false_corruption`: fsck takes the local checksum at once, while
  each peer takes its own after its leader query and sync. A write
  committed in between makes replicas that apply the same log look
  corrupted.
- `fuse_short_read_panic`: a large read near EOF panics the adapter.
- `fuse_write_after_chmod`: a write through a W handle fails after a chmod,
  against spec §4.6.
- `fuse_stale_read`: a cache hit returns bytes that a truncate or write has
  replaced.

**Mutants.** Every property of a passing run is broken by a mutant of the
code it is about. For example, a create that sets no link, a hardlink that
does not count, or a rename that leaves `directory_parents`. The full list
is in PROJECT.json.

### Bounds

**Metadata.** Three inodes are enough for a directory inside a directory,
next to a file. Two names let rename and hardlink move an entry between
two slots, or place it on top of an existing one. Two or three users give
an owner, another user and root.

**FuseAdapter.**
- The sizes are scaled: maximum read 2, speculative fetch 4, file length
  at most 3, reads of 1 or 2. With these sizes a fetch can leave bytes
  cached, a hit can consume them, a fetch at offset 2 comes back short, and
  a small read misses.
- Two values tell a stale byte from a current one.
- Two process ids give the pid-mismatch miss.
- There is one file handle; after a remount the counter starts again at 1.
  Two handles are out of TLC's reach within minutes, so the interaction of
  two handles' caches is not checked.

**StorageNode.** Three nodes give a leader and two followers. This lets a
read go to a lagging follower, and lets fsck query two peers. Two clients
give a write racing a read or an fsck. Three requests are enough for a
write acknowledged to one client before the other's read. One election is
enough for a new leader with a stale commit index. The liveness run has
two requests of all three kinds; with three it grows past 7 million
states.

### Fairness

The metadata and adapter modules assume none: the adapter answers every
request synchronously.

`StorageNode` assumes weak fairness of the steps the code drives by
itself:
- `Commit`, `LearnCommit` and `LeaderCatchUp`: raft, driven by the 100 ms
  background tick (`background_tick`, storage_node.rs:452);
- `Apply`: the apply loop;
- `AckWrite`, `QueryLeader`, `Serve`, `PeerQuery`, `PeerChecksum` and
  `FsckDone`: the single-threaded runtime (line 460) polling every ready
  future.

Clients sending, failures and elections are not forced.

## Proofs (MetadataProofs)

All theorems hold for every value of the constants. They rest on the named
assumptions of `Metadata`: the bounds are naturals, and `0` is in
`Uids` and `Gids` (the code creates the root as uid 0, gid 0).

- **`TypeCorrect`**: `Spec => []TypeOK`. It goes through `TypeInv`, which is
  `TypeOK` plus "a live inode has a link". The extra conjunct is what
  keeps unlink's `hardlinks - 1` a natural number.
- **`DotDotInvariant`**: `Spec => []DotDotInv`.
- **`DotDotCorrect`**: `Spec => []DotDotAccurate`.

`DotDotAccurate` alone is not inductive. A mkdir could reuse an inode that
an entry still names. An rmdir could remove a directory that a second entry
also names. The strengthening `DotDotInv` adds:
- `NamedAllocated`: every entry, live inode and directory is below
  `next_inode`, so a new inode is fresh;
- `KindAgrees`: an entry says "dir" exactly when it names a directory;
- `UniqueDirEntries`: a directory is named by at most one entry.

The proof has one lemma per action. A step is split into named sub-steps
per changed variable. For rename and mkdir, the entries of the new
`directories` are first classified as moved, replaced or untouched.
Hardlinking a directory would break `UniqueDirEntries`, and it is excluded
by the guard `metadata[i].kind # "dir"`. That guard is what the FUSE
`link` handler's kernel enforces, and it holds with stale mounts too,
because the store never changes an inode's kind.

## Proofs (MetadataStickyProofs)

- **`StickyBitEnforced`**: with `SingleMount`,
  `Spec => StickyBitProtectsEntries`.

The proof needs no invariant of its own. It uses `DotDotInv` of the state
a step starts from (`StickyStep`), with one lemma per method:
- unlink, rmdir and rename apply `StickyAllows` to each entry they change
  (both ends for rename);
- create and hardlink write only a name the kernel saw free;
- mkdir writes a free name and empties the descriptor of `next_inode`,
  which `NamedAllocated` shows is not yet a directory;
- the attribute methods change no entry.

`SingleMount` is needed. With stale views, mkdir's name is not checked
(metadata_storage.rs:389), so it overwrites a named entry of a sticky
directory. TLC finds this at once with `SingleMount = FALSE`.

## Proofs (MetadataLinkProofs)

- **`LinkInvariant`**: with `SingleMount`, `Spec => []LinkInv`.
- **`NoDanglingEntriesHold`**: with `SingleMount`,
  `Spec => []NoDanglingEntries`.

`NoDanglingEntries` alone is not inductive. Unlink drops its target at
zero links, which is safe only if no other entry still names it. The
strengthening `LinkCounts` counts the entries `Refs(i)` that name each live
inode and bounds them by `hardlinks`. Per method:
- unlink removes one entry and one link, so at zero links no entry is
  left;
- rmdir drops a directory, and `KindAgrees` with `UniqueDirEntries` shows
  that the removed entry was its only one;
- create and mkdir name an inode that no entry names yet
  (`NamedAllocated`);
- rename moves an entry and may take one from a replaced inode;
- hardlink adds one entry and one link;
- the attribute methods change no count.

The counting uses `FiniteSetTheorems` (`FS_Subset`, `FS_AddElement`,
`FS_RemoveElement`), over the finite set `Inodes \X Names`. That set is
finite because of the assumption `NamesAssumption`.

Only rmdir needs `SingleMount`. With stale views, rmdir drops a file that
other entries still name; the `stale_rmdir` run shows this.

## Proofs (FuseAdapterProofs)

- **`CacheOwned`**: `Spec => []CacheOwnedByHandle`, for every size and
  bound.

`CacheOwnedByHandle` is inductive as it stands, so `HandleInv` is just that
property. There is one lemma per action. The facts behind them:
- `Put` adds exactly its key, and `Restrict` keeps exactly the given set
  (lemmas `DomainInsert` and `DomainRestrict`).
- A speculative fetch inserts only for a handle that passed `check_read`.
- `release` (`deallocate_file_handle`) drops the handle and its cached read
  together.

## Proofs (FuseCacheProofs)

- **`TypeCorrect`**: `Spec => []TypeOK`.
- **`CacheSound`**: `Spec => []CacheConsistent`.

Both hold for every size and bound. They come from one inductive invariant,
`CacheInv == TypeOK /\ Entries`. The lemma `CacheInvIsChecked` shows this is
exactly `TypeOK /\ CacheConsistent`, the two invariants that the
`fuse_handles` run checks. `TypeOK` is needed because every
`SubSeq` fact rests on the lengths and offsets being naturals.

Each entry stays a slice of its snapshot:
- a fetch caches `SubSeq(content, o+1, o+l)` sliced again after the bytes it
  returned (lemmas `SliceOfSlice`, `SliceEntry`);
- a hit advances `file_offset` by the bytes it returns and drops them from
  `data` (`AdvanceEntry`);
- expiry only clears `fresh`, and keeps the data, offset and snapshot
  (`ExpireEntry`);
- write, truncate, chmod and remount leave the cache alone, or drop
  entries.

The reply records are shown to be in `Replies` field by field
(`ReplyIn`).

## Proofs (StorageNodeProofs)

- **`TypeCorrect`**: `Spec => []TypeOK`, for all constants. It goes
  through `TypeInv`, which adds that each request's phase belongs to its
  kind.
- **`LinearReads`**: with `MaxElections = 0`,
  `Spec => []ReadSeesAckedWrites`.
- **`Refinement`**: with `MaxElections = 0` and no fsck in `Ops`,
  `Spec => RefinesLinearStore`.

**`LinearReads`** rests on the inductive invariant `ReadInv`:
- `CommitOrder`: the leader's commit index is the whole log, and every
  node satisfies applied ≤ commit ≤ the leader's commit;
- `AckOrder`:
  - `acked` is within the log;
  - a waiting write's index is in the log;
  - a request's floor is at most `acked`;
  - a synced read's barrier is at least its floor.

The argument is short. The leader query returns the whole log, which is
at least every floor. `sync` waits for the local apply pointer to reach
that barrier. The election hypothesis is what the stale-leader run shows
to be necessary: a new leader's commit index breaks `CommitOrder`.

**`Refinement`** maps every step to an abstract one:
- `Commit` is `CommitWrite`;
- `Receive` is `Invoke`;
- `AckWrite` is `ReturnWrite`;
- a read's `Serve` is `ReturnRead`, with `k` the local apply pointer,
  which `ReadInv` puts between the floor and the log's length;
- `Fail` is `Fail`;
- every other step leaves the abstract state alone.

fsck is excluded because the fsck run shows it can answer Corrupted,
which `LinearStore` does not allow.

## Only model-checked

- `NoDanglingEntries` and `StickyBitProtectsEntries` with
  `SingleMount = FALSE` do not hold (`stale_rmdir`; mkdir over a sticky
  entry).
- `Subtree` is a recursive function used only in guards and in
  `NamedDirsReachable`; no proof depends on it.
- `RequestsComplete` is a liveness property under fairness. TLAPS cannot
  prove it, so it is left to TLC.
- Linearizable reads across elections do not hold (see
  `stale_leader_read`).

Some properties are stated in `Metadata` but checked by no run:
- `EntryKindMatches`: create records a symlink as a file
  (metadata_storage.rs:785);
- `SizeWithinMax`: write has no `MAX_FILE_SIZE` check (line 747);
- `NamedDirsReachable`: rename has no ancestor check (line 541).

Each of these defects is visible in a single method.

## Not modelled

- **Raft internals.** The raft manager is not in this tree: terms, votes
  and log repair are not modelled. `StorageNode` models its effect from
  spec §4.3 (one committed log, applied in order on every node; a new
  leader's commit index that can lag). `Metadata` assumes one committed
  request at a time.
- **`GetLeaderRequest`** only reads the leader.
- **Wire encoding** (flatbuffers, TCP framing). This is pure I/O.
- **`opendir`/`releasedir` and `create`'s handle.** These are the same
  handle-table operations as `open`/`release`. `create` gives rights from
  the flags without an access check.
- **Read-only handlers** (`lookup`, `getattr`, `readdir`, xattr reads).
  They change no state. `lookup` panics on a parent that is not a
  directory (metadata_storage.rs:110); this is listed as a hazard.
- **`src/src/fleetfs/core.rs`.** This is a legacy hyper HTTP server
  (`DistributedFile`). Its handlers truncate, write, list, read and unlink
  files directly under a local data directory, and forward writes to peers
  through `PeerClient`. It is a separate, older data path. It shares no
  state with the store, the storage node or the FUSE adapter, and nothing
  in this tree declares the module. It is not modelled.
