----------------------------- MODULE StorageNode -----------------------------
(***************************************************************************)
(* The request pipeline of a fleetfs storage node (src/src/storage_node.rs,*)
(* Node::run, handler, raft_message_handler, fsck) over the replicated log *)
(* it relies on.                                                           *)
(*                                                                         *)
(* Node::run reads frames from each connection in order and sends each     *)
(* down one of three paths: raft frames to the raft manager, writes to     *)
(* RaftManager::propose, and everything else to the read path, which asks  *)
(* the leader for its latest commit index, waits for the local apply       *)
(* pointer to reach it (RaftManager::sync) and then runs handler against   *)
(* the local store.  The runtime is single-threaded, but these futures of  *)
(* different connections interleave at every await, which the actions     *)
(* below do.                                                               *)
(*                                                                         *)
(* The raft manager is not in this source tree.  It is modelled from the   *)
(* log interface of the spec (section 4.3): a committed log that is the    *)
(* same on every replica, the commit index each node's raft knows, the     *)
(* apply pointer of each node, and the leader.  A new leader knows only    *)
(* the commit index it had as a follower until it commits an entry of its *)
(* own term.                                                               *)
(*                                                                         *)
(* Data abstraction: an entry is the client whose write it is, and the     *)
(* state a node serves is determined by how many entries it has applied,   *)
(* so a read returns that number (its version), and a checksum of the data *)
(* directory is the version too.                                           *)
(***************************************************************************)
EXTENDS Integers, Sequences, FiniteSets

CONSTANTS
    Nodes,         \* the storage nodes (context.peers plus the node itself)
    Clients,       \* client threads, each with its own connection
    Ops,           \* the kinds of request the clients send
    InitLeader,    \* the leader when the model starts
    MaxReq,        \* bound on the number of requests sent
    MaxElections   \* bound on the number of leader changes

ASSUME NodesAssumption == Nodes # {} /\ InitLeader \in Nodes
ASSUME ClientsAssumption == Clients # {}
ASSUME OpsAssumption == Ops \subseteq {"write", "read", "fsck"}
ASSUME BoundsAssumption == MaxReq \in Nat /\ MaxElections \in Nat

VARIABLES
    log,        \* the committed entries, in log order
    commit,     \* commit[n]: the commit index node n's raft knows
    applied,    \* applied[n]: entries node n's apply loop has executed
    leader,     \* the node raft currently has as leader
    elections,  \* leader changes so far
    rop,        \* rop[c]: the kind of client c's request in flight, or "idle"
    rnode,      \* rnode[c]: the node client c is connected to
    phase,      \* phase[c]: where that request is in Node::run
    rindex,     \* rindex[c]: a write's log index, or a read's barrier index
    floor,      \* floor[c]: writes acknowledged when the request arrived
    fver,       \* fver[c]: the local checksum an fsck took
    peer,       \* peer[c][p]: the checksum request an fsck sent to peer p
    reply,      \* reply[c]: the last response sent to client c
    acked,      \* the highest log index whose write has been answered
    sent        \* requests sent so far

raftVars == <<log, commit, applied, leader, elections>>
reqVars == <<rop, rnode, phase, rindex, floor, fver, peer>>
vars == <<raftVars, reqVars, reply, acked, sent>>

Phases == {"none", "propose", "wait", "query", "sync", "peers"}
PeerReqs == [st : {"query", "sync", "done"}, index : Nat, ver : Nat]
Replies == [op : {"none", "write", "read", "fsck"},
            status : {"ok", "Uncategorized", "Corrupted"},
            ver : Nat, floor : Nat]

NoPeer == [st |-> "done", index |-> 0, ver |-> 0]

TypeOK ==
    /\ log \in Seq(Clients)
    /\ commit \in [Nodes -> Nat] /\ applied \in [Nodes -> Nat]
    /\ leader \in Nodes /\ elections \in 0..MaxElections
    /\ rop \in [Clients -> {"idle"} \cup Ops] /\ rnode \in [Clients -> Nodes]
    /\ phase \in [Clients -> Phases]
    /\ rindex \in [Clients -> Nat] /\ floor \in [Clients -> Nat]
    /\ fver \in [Clients -> Nat] /\ peer \in [Clients -> [Nodes -> PeerReqs]]
    /\ reply \in [Clients -> Replies]
    /\ acked \in Nat /\ sent \in 0..MaxReq

Init ==
    /\ log = <<>>
    /\ commit = [n \in Nodes |-> 0]
    /\ applied = [n \in Nodes |-> 0]
    /\ leader = InitLeader
    /\ elections = 0
    /\ rop = [c \in Clients |-> "idle"]
    /\ rnode = [c \in Clients |-> InitLeader]
    /\ phase = [c \in Clients |-> "none"]
    /\ rindex = [c \in Clients |-> 0]
    /\ floor = [c \in Clients |-> 0]
    /\ fver = [c \in Clients |-> 0]
    /\ peer = [c \in Clients |-> [p \in Nodes |-> NoPeer]]
    /\ reply = [c \in Clients |-> [op |-> "none", status |-> "ok", ver |-> 0,
                                   floor |-> 0]]
    /\ acked = 0
    /\ sent = 0

\* The response frame is written back and the connection reads its next
\* frame.
Respond(c, op, status, ver) ==
    /\ reply' = [reply EXCEPT ![c] = [op |-> op, status |-> status, ver |-> ver,
                                      floor |-> floor[c]]]
    /\ rop' = [rop EXCEPT ![c] = "idle"]
    /\ phase' = [phase EXCEPT ![c] = "none"]
    /\ UNCHANGED <<rnode, rindex, floor, fver, peer>>

-----------------------------------------------------------------------------
(* The log (RaftManager, not in this tree).                                *)

\* Mutant: the entry records the proposing node instead of the request.
CommitLogsNode(c) ==
    /\ rop[c] = "write" /\ phase[c] = "propose"
    /\ log' = Append(log, rnode[c])
    /\ commit' = [commit EXCEPT ![leader] = Len(log) + 1]
    /\ phase' = [phase EXCEPT ![c] = "wait"]
    /\ rindex' = [rindex EXCEPT ![c] = Len(log) + 1]
    /\ UNCHANGED <<applied, leader, elections, rop, rnode, floor, fver, peer,
                   reply, acked, sent>>

\* Mutant: the proposer is told the index before its entry (off by one).
CommitIndexOffByOne(c) ==
    /\ rop[c] = "write" /\ phase[c] = "propose"
    /\ log' = Append(log, c)
    /\ commit' = [commit EXCEPT ![leader] = Len(log) + 1]
    /\ phase' = [phase EXCEPT ![c] = "wait"]
    /\ rindex' = [rindex EXCEPT ![c] = Len(log)]
    /\ UNCHANGED <<applied, leader, elections, rop, rnode, floor, fver, peer,
                   reply, acked, sent>>

\* The leader appends a proposed write and a majority accepts it: the
\* leader's commit index covers it and the proposer's future learns its
\* index.
Commit(c) ==
    /\ rop[c] = "write" /\ phase[c] = "propose"
    /\ log' = Append(log, c)
    /\ commit' = [commit EXCEPT ![leader] = Len(log) + 1]
    /\ phase' = [phase EXCEPT ![c] = "wait"]
    /\ rindex' = [rindex EXCEPT ![c] = Len(log) + 1]
    /\ UNCHANGED <<applied, leader, elections, rop, rnode, floor, fver, peer,
                   reply, acked, sent>>

\* A raft frame from the leader (RaftRequest: apply_messages) carries its
\* commit index to node n.
LearnCommit(n) ==
    /\ commit[n] < commit[leader]
    /\ commit' = [commit EXCEPT ![n] = commit[leader]]
    /\ UNCHANGED <<log, applied, leader, elections, reqVars, reply, acked, sent>>

\* Mutant: the apply loop stops one entry short of the commit index.
ApplyStopsShort(n) ==
    /\ applied[n] < commit[n] - 1
    /\ applied' = [applied EXCEPT ![n] = applied[n] + 1]
    /\ UNCHANGED <<log, commit, leader, elections, reqVars, reply, acked, sent>>

\* The apply loop of node n executes the next committed entry.
Apply(n) ==
    /\ applied[n] < commit[n]
    /\ applied' = [applied EXCEPT ![n] = applied[n] + 1]
    /\ UNCHANGED <<log, commit, leader, elections, reqVars, reply, acked, sent>>

\* An election timer fires on a background tick and n becomes leader.  Raft
\* elects only a node holding every committed entry; its commit index is
\* what it knew as a follower.
Elect(n) ==
    /\ elections < MaxElections /\ n # leader
    /\ leader' = n
    /\ elections' = elections + 1
    /\ UNCHANGED <<log, commit, applied, reqVars, reply, acked, sent>>

\* The leader commits an entry of its own term, which commits everything
\* before it.
LeaderCatchUp ==
    /\ commit[leader] < Len(log)
    /\ commit' = [commit EXCEPT ![leader] = Len(log)]
    /\ UNCHANGED <<log, applied, leader, elections, reqVars, reply, acked, sent>>

-----------------------------------------------------------------------------
(* The request pipeline (storage_node.rs).                                 *)

\* A client sends a frame to node n.  Node::run classifies it: a write is
\* proposed to raft, anything else takes the read path, which first asks
\* the leader for its commit index.
Receive(c, n, op) ==
    /\ rop[c] = "idle" /\ sent < MaxReq
    /\ rop' = [rop EXCEPT ![c] = op]
    /\ rnode' = [rnode EXCEPT ![c] = n]
    /\ phase' = [phase EXCEPT ![c] = IF op = "write" THEN "propose" ELSE "query"]
    /\ floor' = [floor EXCEPT ![c] = acked]
    /\ sent' = sent + 1
    /\ UNCHANGED <<raftVars, rindex, fver, peer, reply, acked>>

\* The proposer's future resolves once its own apply loop has executed the
\* entry, and the response frame is written back.
AckWrite(c) ==
    /\ rop[c] = "write" /\ phase[c] = "wait"
    /\ applied[rnode[c]] >= rindex[c]
    /\ acked' = IF rindex[c] > acked THEN rindex[c] ELSE acked
    /\ Respond(c, "write", "ok", rindex[c])
    /\ UNCHANGED <<raftVars, sent>>

\* The leader answers LatestCommitRequest with its local commit index.
LatestCommit == commit[leader]

\* get_latest_commit_from_leader resolves: the read path now waits for the
\* local apply pointer to reach that index (sync).
QueryLeader(c) ==
    /\ rop[c] \in {"read", "fsck"} /\ phase[c] = "query"
    /\ phase' = [phase EXCEPT ![c] = "sync"]
    /\ rindex' = [rindex EXCEPT ![c] = LatestCommit]
    /\ UNCHANGED <<raftVars, rop, rnode, floor, fver, peer, reply, acked, sent>>

\* checksum(data_dir) on node n: the data directory after applied[n]
\* entries.
Checksum(n) == applied[n]

\* handler runs the read against the local store.  For
\* FilesystemCheckRequest, fsck takes the local checksum at once and sends
\* a FilesystemChecksumRequest to every peer.
Handle(c) ==
    /\ rop[c] \in {"read", "fsck"} /\ phase[c] = "sync"
    /\ \/ /\ rop[c] = "read"
          /\ Respond(c, "read", "ok", applied[rnode[c]])
       \/ /\ rop[c] = "fsck"
          /\ phase' = [phase EXCEPT ![c] = "peers"]
          /\ fver' = [fver EXCEPT ![c] = Checksum(rnode[c])]
          /\ peer' = [peer EXCEPT ![c] = [p \in Nodes |->
                         IF p = rnode[c] THEN NoPeer
                         ELSE [st |-> "query", index |-> 0, ver |-> 0]]]
          /\ UNCHANGED <<rop, rnode, rindex, floor, reply>>
    /\ UNCHANGED <<raftVars, acked, sent>>

\* Mutant: the read is handled without waiting for sync.
ServeNoSync(c) == Handle(c)

\* sync resolves once the local apply pointer reaches the leader's commit
\* index, and the request is handled.
Serve(c) ==
    /\ applied[rnode[c]] >= rindex[c]
    /\ Handle(c)

\* A peer's FilesystemChecksumRequest is a read frame: the peer in turn asks
\* the leader for its commit index ...
PeerQuery(c, p) ==
    /\ phase[c] = "peers" /\ peer[c][p].st = "query"
    /\ peer' = [peer EXCEPT ![c][p] = [st |-> "sync", index |-> LatestCommit,
                                       ver |-> 0]]
    /\ UNCHANGED <<raftVars, rop, rnode, phase, rindex, floor, fver, reply,
                   acked, sent>>

\* ... and answers with its checksum once its apply pointer reaches it.
PeerChecksum(c, p) ==
    /\ phase[c] = "peers" /\ peer[c][p].st = "sync"
    /\ applied[p] >= peer[c][p].index
    /\ peer' = [peer EXCEPT ![c][p] = [st |-> "done", index |-> peer[c][p].index,
                                       ver |-> Checksum(p)]]
    /\ UNCHANGED <<raftVars, rop, rnode, phase, rindex, floor, fver, reply,
                   acked, sent>>

\* join_all resolves: fsck answers Corrupted if any peer's checksum differs
\* from the local one, and an empty response otherwise.
FsckDone(c) ==
    /\ phase[c] = "peers"
    /\ \A p \in Nodes : peer[c][p].st = "done"
    /\ Respond(c, "fsck",
               IF \E p \in Nodes \ {rnode[c]} : peer[c][p].ver # fver[c]
               THEN "Corrupted" ELSE "ok", fver[c])
    /\ UNCHANGED <<raftVars, acked, sent>>

\* A failed proposal, leader query or peer request: the error is mapped to
\* Uncategorized and sent as an ErrorResponse.  A failed proposal leaves the
\* log untouched.
Fail(c) ==
    /\ \/ phase[c] \in {"propose", "query"}
       \/ phase[c] = "peers" /\ \E p \in Nodes : peer[c][p].st = "query"
    /\ Respond(c, rop[c], "Uncategorized", 0)
    /\ UNCHANGED <<raftVars, acked, sent>>

-----------------------------------------------------------------------------
RaftNext ==
    \/ \E c \in Clients : Commit(c)
    \/ \E n \in Nodes : LearnCommit(n) \/ Apply(n) \/ Elect(n)
    \/ LeaderCatchUp

PipelineNext ==
    \E c \in Clients :
        \/ \E n \in Nodes, op \in Ops : Receive(c, n, op)
        \/ AckWrite(c) \/ QueryLeader(c) \/ Serve(c) \/ FsckDone(c) \/ Fail(c)
        \/ \E p \in Nodes : PeerQuery(c, p) \/ PeerChecksum(c, p)

Next == RaftNext \/ PipelineNext

\* The background tick (every 100 ms) keeps raft's heartbeats and commits
\* going, the apply loop consumes every committed entry, and the single
\* runtime thread polls every ready future: each of these steps, once
\* enabled, is taken.  Clients sending, errors and elections are not
\* forced.
Fairness ==
    /\ \A c \in Clients : WF_vars(Commit(c)) /\ WF_vars(AckWrite(c))
                          /\ WF_vars(QueryLeader(c)) /\ WF_vars(Serve(c))
                          /\ WF_vars(FsckDone(c))
                          /\ \A p \in Nodes : WF_vars(PeerQuery(c, p))
                                              /\ WF_vars(PeerChecksum(c, p))
    /\ \A n \in Nodes : WF_vars(LearnCommit(n)) /\ WF_vars(Apply(n))
    /\ WF_vars(LeaderCatchUp)

Spec == Init /\ [][Next]_vars /\ Fairness

-----------------------------------------------------------------------------
(* Properties.                                                             *)

\* Linearizable reads (spec 4.3 and 5): a read answered ok reflects every
\* write that had been acknowledged to any client before the read reached
\* its node.  The read path's leader query and sync exist to ensure this
\* on a follower that lags.
ReadSeesAckedWrites ==
    \A c \in Clients :
        reply[c].op = "read" /\ reply[c].status = "ok" => reply[c].ver >= reply[c].floor

\* fsck reports Corrupted only when replicas hold different data.  Every
\* replica applies the same log, so a Corrupted answer is a false alarm:
\* the local and the peers' checksums were taken at different points of
\* the log.
FsckOnlyOnDivergence ==
    \A c \in Clients : reply[c].op = "fsck" => reply[c].status # "Corrupted"

\* Every request is answered: the proposer's future, the leader query, the
\* sync and the peer checksums all resolve, under the fairness above.
RequestsComplete ==
    \A c \in Clients : rop[c] # "idle" ~> rop[c] = "idle"

-----------------------------------------------------------------------------
(* Refinement of the abstract store.                                       *)

\* The abstract request of a client: a write counts as in the log once its
\* proposal is committed; the node, the phase and the barrier index are
\* the pipeline's own.
AbstractReq(c) ==
    [op |-> rop[c],
     index |-> IF phase[c] = "wait" THEN rindex[c] ELSE 0,
     floor |-> IF rop[c] = "idle" THEN 0 ELSE floor[c]]

LS == INSTANCE LinearStore WITH req <- [c \in Clients |-> AbstractReq(c)]

\* The pipeline implements the linearizable store of LinearStore: every
\* step of a node, of raft or of a client is a step of the abstract store
\* or leaves it unchanged.
RefinesLinearStore == LS!Spec

=============================================================================
