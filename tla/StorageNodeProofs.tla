------------------------- MODULE StorageNodeProofs -------------------------
(***************************************************************************)
(* Proofs about the storage node's request pipeline: type correctness for *)
(* every value of the constants; while the leader does not change, that    *)
(* every read sees every acknowledged write; and when clients send no      *)
(* fsck either, that the pipeline implements the abstract store            *)
(* LinearStore.                                                            *)
(***************************************************************************)
EXTENDS StorageNode, TLAPS

-----------------------------------------------------------------------------
(* Type correctness.                                                       *)

\* The phases a request of each kind goes through in Node::run.
PhasesOf(op) ==
    IF op = "write" THEN {"propose", "wait"}
    ELSE IF op = "read" THEN {"query", "sync"}
    ELSE IF op = "fsck" THEN {"query", "sync", "peers"}
    ELSE {"none"}

\* TypeOK with the phase of each request matching its kind.
TypeInv == TypeOK /\ \A c \in Clients : phase[c] \in PhasesOf(rop[c])

LEMMA TypeInit == Init => TypeInv
BY NodesAssumption, BoundsAssumption DEF Init, TypeInv, TypeOK, Replies, PhasesOf, NoPeer,
   PeerReqs, Phases

\* Respond answers with a reply of the right type and makes the request
\* idle.
LEMMA RespondType ==
    ASSUME TypeInv, NEW c \in Clients,
           NEW op \in {"write", "read", "fsck"},
           NEW st \in {"ok", "Uncategorized", "Corrupted"}, NEW v \in Nat,
           Respond(c, op, st, v)
    PROVE  /\ reply' \in [Clients -> Replies]
           /\ rop' \in [Clients -> {"idle"} \cup Ops]
           /\ phase' \in [Clients -> Phases]
           /\ \A d \in Clients : phase'[d] \in PhasesOf(rop'[d])
           /\ UNCHANGED <<rnode, rindex, floor, fver, peer>>
BY DEF Respond, TypeInv, TypeOK, Replies, PhasesOf, Phases

LEMMA TypeNext == TypeInv /\ [Next]_vars => TypeInv'
<1> SUFFICES ASSUME TypeInv, [Next]_vars PROVE TypeInv'
  OBVIOUS
<1>1. ASSUME NEW c \in Clients, Commit(c) PROVE TypeInv'
  BY <1>1 DEF Commit, TypeInv, TypeOK, PhasesOf, Phases
<1>2. ASSUME NEW n \in Nodes, LearnCommit(n) PROVE TypeInv'
  BY <1>2 DEF LearnCommit, TypeInv, TypeOK, reqVars
<1>3. ASSUME NEW n \in Nodes, Apply(n) PROVE TypeInv'
  BY <1>3 DEF Apply, TypeInv, TypeOK, reqVars
<1>4. ASSUME NEW n \in Nodes, Elect(n) PROVE TypeInv'
  BY <1>4, BoundsAssumption DEF Elect, TypeInv, TypeOK, reqVars
<1>5. CASE LeaderCatchUp
  BY <1>5 DEF LeaderCatchUp, TypeInv, TypeOK, reqVars
<1>6. ASSUME NEW c \in Clients, NEW n \in Nodes, NEW op \in Ops, Receive(c, n, op)
      PROVE TypeInv'
  <2>1. TypeOK'
    BY <1>6, OpsAssumption, BoundsAssumption DEF Receive, TypeInv, TypeOK, raftVars, Phases
  <2>2. phase'[c] \in PhasesOf(rop'[c])
    BY <1>6, OpsAssumption DEF Receive, TypeInv, TypeOK, PhasesOf
  <2>3. \A d \in Clients \ {c} : phase'[d] \in PhasesOf(rop'[d])
    BY <1>6 DEF Receive, TypeInv, TypeOK
  <2>. QED BY <2>1, <2>2, <2>3 DEF TypeInv
<1>7. ASSUME NEW c \in Clients, AckWrite(c) PROVE TypeInv'
  BY <1>7, RespondType DEF AckWrite, TypeInv, TypeOK, raftVars
<1>8. ASSUME NEW c \in Clients, QueryLeader(c) PROVE TypeInv'
  BY <1>8 DEF QueryLeader, LatestCommit, TypeInv, TypeOK, raftVars, PhasesOf, Phases
<1>9. ASSUME NEW c \in Clients, Serve(c) PROVE TypeInv'
  <2>1. CASE rop[c] = "read" /\ Respond(c, "read", "ok", applied[rnode[c]])
    BY <1>9, <2>1, RespondType DEF Serve, Handle, TypeInv, TypeOK, raftVars
  <2>2. CASE /\ rop[c] = "fsck"
             /\ phase' = [phase EXCEPT ![c] = "peers"]
             /\ fver' = [fver EXCEPT ![c] = Checksum(rnode[c])]
             /\ peer' = [peer EXCEPT ![c] = [p \in Nodes |->
                            IF p = rnode[c] THEN NoPeer
                            ELSE [st |-> "query", index |-> 0, ver |-> 0]]]
             /\ UNCHANGED <<rop, rnode, rindex, floor, reply>>
    BY <1>9, <2>2 DEF Serve, Handle, Checksum, TypeInv, TypeOK, raftVars, PeerReqs, NoPeer,
       PhasesOf, Phases
  <2>. QED BY <1>9, <2>1, <2>2 DEF Serve, Handle
<1>10. ASSUME NEW c \in Clients, NEW p \in Nodes, PeerQuery(c, p) PROVE TypeInv'
  BY <1>10 DEF PeerQuery, LatestCommit, TypeInv, TypeOK, raftVars, PeerReqs
<1>11. ASSUME NEW c \in Clients, NEW p \in Nodes, PeerChecksum(c, p) PROVE TypeInv'
  BY <1>11 DEF PeerChecksum, Checksum, TypeInv, TypeOK, raftVars, PeerReqs
<1>12. ASSUME NEW c \in Clients, FsckDone(c) PROVE TypeInv'
  BY <1>12, RespondType DEF FsckDone, TypeInv, TypeOK, raftVars
<1>13. ASSUME NEW c \in Clients, Fail(c) PROVE TypeInv'
  <2>1. rop[c] \in {"write", "read", "fsck"}
    <3>1. phase[c] # "none"
      BY <1>13 DEF Fail
    <3>. QED BY <3>1, OpsAssumption DEF TypeInv, TypeOK, PhasesOf
  <2>. QED BY <1>13, <2>1, RespondType DEF Fail, TypeInv, TypeOK, raftVars
<1>14. CASE UNCHANGED vars
  BY <1>14 DEF vars, raftVars, reqVars, TypeInv, TypeOK
<1>. QED BY <1>1, <1>2, <1>3, <1>4, <1>5, <1>6, <1>7, <1>8, <1>9, <1>10,
            <1>11, <1>12, <1>13, <1>14 DEF Next, RaftNext, PipelineNext

\* The pipeline's state keeps its types, for every number of nodes,
\* clients and bounds (Node::run's requests, replies and peer requests).
THEOREM TypeCorrect == Spec => []TypeOK
<1>1. Spec => []TypeInv
  BY TypeInit, TypeNext, PTL DEF Spec
<1>. QED BY <1>1, PTL DEF TypeInv

-----------------------------------------------------------------------------
(* Linearizable reads while the leader does not change.                    *)

\* The leader's commit index covers the whole log, every node's commit
\* index is behind the leader's, and every apply loop is behind its commit
\* index.
CommitOrder ==
    /\ commit[leader] = Len(log)
    /\ \A n \in Nodes : applied[n] <= commit[n] /\ commit[n] <= commit[leader]

\* An acknowledged write is in the log, a waiting proposer knows an index
\* in the log, and a request in flight must see at most what was
\* acknowledged; a read past its leader query waits for at least that.
AckOrder ==
    /\ acked <= Len(log)
    /\ \A c \in Clients :
        /\ phase[c] = "wait" => rindex[c] \in 1..Len(log)
        /\ rop[c] # "idle" => floor[c] <= acked
        /\ phase[c] = "sync" => floor[c] <= rindex[c]

\* The inductive invariant behind ReadSeesAckedWrites.
ReadInv == TypeInv /\ CommitOrder /\ AckOrder /\ ReadSeesAckedWrites


LEMMA ReadInit == Init => ReadInv
BY TypeInit, NodesAssumption DEF Init, ReadInv, CommitOrder, AckOrder,
   ReadSeesAckedWrites

\* A step of a fixed leader keeps ReadInv.
LEMMA ReadNext ==
    ASSUME MaxElections = 0
    PROVE  ReadInv /\ [Next]_vars => ReadInv'
<1> SUFFICES ASSUME ReadInv, [Next]_vars PROVE ReadInv'
  OBVIOUS
<1>0. TypeInv /\ TypeInv' /\ TypeOK /\ TypeOK'
  BY TypeNext DEF ReadInv, TypeInv
<1>1. ASSUME NEW c \in Clients, Commit(c) PROVE ReadInv'
  BY <1>0, <1>1 DEF Commit, ReadInv, CommitOrder, AckOrder, ReadSeesAckedWrites,
     TypeOK
<1>2. ASSUME NEW n \in Nodes, LearnCommit(n) PROVE ReadInv'
  BY <1>0, <1>2 DEF LearnCommit, ReadInv, CommitOrder, AckOrder,
     ReadSeesAckedWrites, TypeOK, reqVars
<1>3. ASSUME NEW n \in Nodes, Apply(n) PROVE ReadInv'
  BY <1>0, <1>3 DEF Apply, ReadInv, CommitOrder, AckOrder, ReadSeesAckedWrites,
     TypeOK, reqVars
<1>4. ASSUME NEW n \in Nodes, Elect(n) PROVE ReadInv'
  BY <1>0, <1>4 DEF Elect, TypeOK
<1>5. CASE LeaderCatchUp
  BY <1>0, <1>5 DEF LeaderCatchUp, ReadInv, CommitOrder
<1>6. ASSUME NEW c \in Clients, NEW n \in Nodes, NEW op \in Ops, Receive(c, n, op)
      PROVE ReadInv'
  BY <1>0, <1>6 DEF Receive, ReadInv, CommitOrder, AckOrder, ReadSeesAckedWrites,
     TypeOK, raftVars
<1>7. ASSUME NEW c \in Clients, AckWrite(c) PROVE ReadInv'
  <2>1. CommitOrder'
    BY <1>0, <1>7 DEF AckWrite, ReadInv, CommitOrder, TypeOK, raftVars
  <2>2. acked' <= Len(log') /\ acked <= acked'
    BY <1>0, <1>7 DEF AckWrite, ReadInv, AckOrder, TypeOK, raftVars
  <2>3. AckOrder'
    BY <1>0, <1>7, <2>2 DEF AckWrite, Respond, ReadInv, AckOrder, TypeOK, raftVars
  <2>4. ReadSeesAckedWrites'
    BY <1>0, <1>7 DEF AckWrite, Respond, ReadInv, ReadSeesAckedWrites, TypeOK
  <2>. QED BY <1>0, <2>1, <2>3, <2>4 DEF ReadInv
<1>8. ASSUME NEW c \in Clients, QueryLeader(c) PROVE ReadInv'
  BY <1>0, <1>8 DEF QueryLeader, LatestCommit, ReadInv, CommitOrder, AckOrder,
     ReadSeesAckedWrites, TypeOK, raftVars
<1>9. ASSUME NEW c \in Clients, Serve(c) PROVE ReadInv'
  <2>1. CommitOrder' /\ UNCHANGED <<log, acked>>
    BY <1>0, <1>9 DEF Serve, Handle, ReadInv, CommitOrder, TypeOK, raftVars
  <2>2. CASE rop[c] = "read" /\ Respond(c, "read", "ok", applied[rnode[c]])
    <3>0. phase[c] = "sync" /\ applied[rnode[c]] >= rindex[c]
      BY <1>9 DEF Serve, Handle
    <3>1. applied[rnode[c]] >= floor[c]
      BY <3>0 DEF ReadInv, AckOrder, TypeInv, TypeOK
    <3>2. ReadSeesAckedWrites'
      BY <2>2, <3>1 DEF Respond, ReadInv, ReadSeesAckedWrites, TypeInv, TypeOK
    <3>3. AckOrder'
      BY <2>1, <2>2 DEF Respond, ReadInv, AckOrder, TypeInv, TypeOK
    <3>. QED BY <1>0, <2>1, <3>2, <3>3 DEF ReadInv
  <2>3. CASE /\ rop[c] = "fsck"
             /\ phase' = [phase EXCEPT ![c] = "peers"]
             /\ UNCHANGED <<rop, rnode, rindex, floor, reply>>
    <3>1. AckOrder'
      BY <2>1, <2>3 DEF ReadInv, AckOrder, TypeInv, TypeOK
    <3>2. ReadSeesAckedWrites'
      BY <2>3 DEF ReadInv, ReadSeesAckedWrites
    <3>. QED BY <1>0, <2>1, <3>1, <3>2 DEF ReadInv
  <2>. QED BY <1>9, <2>2, <2>3 DEF Serve, Handle
<1>10. ASSUME NEW c \in Clients, NEW p \in Nodes, PeerQuery(c, p) PROVE ReadInv'
  BY <1>0, <1>10 DEF PeerQuery, ReadInv, CommitOrder, AckOrder,
     ReadSeesAckedWrites, TypeOK, raftVars
<1>11. ASSUME NEW c \in Clients, NEW p \in Nodes, PeerChecksum(c, p) PROVE ReadInv'
  BY <1>0, <1>11 DEF PeerChecksum, ReadInv, CommitOrder, AckOrder,
     ReadSeesAckedWrites, TypeOK, raftVars
<1>12. ASSUME NEW c \in Clients, FsckDone(c) PROVE ReadInv'
  BY <1>0, <1>12 DEF FsckDone, Respond, ReadInv, CommitOrder, AckOrder,
     ReadSeesAckedWrites, TypeOK, raftVars
<1>13. ASSUME NEW c \in Clients, Fail(c) PROVE ReadInv'
  BY <1>0, <1>13 DEF Fail, Respond, ReadInv, CommitOrder, AckOrder,
     ReadSeesAckedWrites, TypeOK, raftVars
<1>14. CASE UNCHANGED vars
  BY <1>14 DEF vars, raftVars, reqVars, ReadInv, TypeInv, TypeOK, CommitOrder,
     AckOrder, ReadSeesAckedWrites
<1>. QED BY <1>1, <1>2, <1>3, <1>4, <1>5, <1>6, <1>7, <1>8, <1>9, <1>10,
            <1>11, <1>12, <1>13, <1>14 DEF Next, RaftNext, PipelineNext

\* While the leader never changes, every read the pipeline answers ok
\* reflects every write acknowledged before the read reached its node, for
\* every number of nodes, clients and requests: the leader query returns
\* the whole log, and sync waits for the local apply loop to reach it.
THEOREM LinearReads ==
    ASSUME MaxElections = 0
    PROVE  Spec => []ReadSeesAckedWrites
<1>1. Spec => []ReadInv
  BY ReadInit, ReadNext, PTL DEF Spec
<1>. QED BY <1>1, PTL DEF ReadInv

-----------------------------------------------------------------------------
(* The pipeline implements LinearStore while the leader does not change    *)
(* and clients send no fsck.                                               *)

\* Without fsck, the phase of a request tells its kind.
LEMMA PhaseKind ==
    ASSUME TypeInv, "fsck" \notin Ops, NEW c \in Clients
    PROVE  /\ phase[c] \in {"propose", "wait"} <=> rop[c] = "write"
           /\ phase[c] \in {"query", "sync"} <=> rop[c] = "read"
           /\ phase[c] = "none" <=> rop[c] = "idle"
           /\ phase[c] # "peers"
BY OpsAssumption DEF TypeInv, TypeOK, PhasesOf

\* Every step of the pipeline is a step of LinearStore or leaves the
\* abstract state alone.
LEMMA RefineNext ==
    ASSUME MaxElections = 0, "fsck" \notin Ops
    PROVE  ReadInv /\ [Next]_vars => [LS!Next]_LS!vars
<1> DEFINE AR == [d \in Clients |-> AbstractReq(d)]
<1> SUFFICES ASSUME ReadInv, [Next]_vars PROVE [LS!Next]_LS!vars
  OBVIOUS
<1>1. ASSUME NEW c \in Clients, Commit(c) PROVE LS!CommitWrite(c)
  <2>1. rop[c] = "write" /\ phase[c] = "propose" /\ AR[c].index = 0
    BY <1>1 DEF Commit, AbstractReq
  <2>2. AR' = [AR EXCEPT ![c] = [op |-> "write", index |-> Len(log) + 1,
                                  floor |-> AR[c].floor]]
    BY <1>1, <2>1 DEF Commit, AbstractReq, ReadInv, TypeInv, TypeOK
  <2>. QED BY <1>1, <2>1, <2>2 DEF Commit, LS!CommitWrite, AbstractReq
<1>2. ASSUME NEW c \in Clients, NEW n \in Nodes, NEW op \in Ops, Receive(c, n, op)
      PROVE LS!Invoke(c, op)
  <2>1. op # "idle" /\ op \in {"write", "read"}
    BY OpsAssumption
  <2>2. AR' = [AR EXCEPT ![c] = [op |-> op, index |-> 0, floor |-> acked]]
    BY <1>2, <2>1 DEF Receive, AbstractReq, ReadInv, TypeInv, TypeOK
  <2>. QED BY <1>2, <2>2 DEF Receive, LS!Invoke, AbstractReq, raftVars
<1>3. ASSUME NEW c \in Clients, AckWrite(c) PROVE LS!ReturnWrite(c)
  <2>1. AR[c].op = "write" /\ AR[c].index = rindex[c] /\ AR[c].floor = floor[c]
    BY <1>3 DEF AckWrite, AbstractReq
  <2>2. rindex[c] > 0
    BY <1>3 DEF AckWrite, ReadInv, AckOrder, TypeInv, TypeOK
  <2>3. AR' = [AR EXCEPT ![c] = LS!IdleReq]
    BY <1>3 DEF AckWrite, Respond, AbstractReq, LS!IdleReq, ReadInv, TypeInv,
       TypeOK
  <2>. QED BY <1>3, <2>1, <2>2, <2>3 DEF AckWrite, Respond, LS!ReturnWrite,
          LS!Return, raftVars
<1>4. ASSUME NEW c \in Clients, Serve(c) PROVE LS!ReturnRead(c)
  <2>1. rop[c] = "read" /\ phase[c] = "sync"
    BY <1>4, PhaseKind DEF Serve, Handle, ReadInv
  <2>2. Respond(c, "read", "ok", applied[rnode[c]]) /\ UNCHANGED <<log, acked>>
    BY <1>4, <2>1 DEF Serve, Handle, raftVars
  <2>3. applied[rnode[c]] \in floor[c]..Len(log)
    BY <1>4, <2>1 DEF Serve, ReadInv, AckOrder, CommitOrder, TypeInv, TypeOK
  <2>4. AR[c].op = "read" /\ AR[c].floor = floor[c]
    BY <2>1 DEF AbstractReq
  <2>5. AR' = [AR EXCEPT ![c] = LS!IdleReq]
    BY <2>2 DEF Respond, AbstractReq, LS!IdleReq, ReadInv, TypeInv, TypeOK
  <2>. QED BY <2>2, <2>3, <2>4, <2>5 DEF Respond, LS!ReturnRead, LS!Return
<1>5. ASSUME NEW c \in Clients, Fail(c) PROVE LS!Fail(c)
  <2>1. /\ phase[c] \in {"propose", "query"}
        /\ rop[c] \in {"write", "read"}
    BY <1>5, PhaseKind DEF Fail, ReadInv
  <2>3. AR[c].op = rop[c] /\ AR[c].index = 0 /\ AR[c].floor = floor[c]
    BY <2>1 DEF AbstractReq
  <2>2. AR' = [AR EXCEPT ![c] = LS!IdleReq]
    BY <1>5 DEF Fail, Respond, AbstractReq, LS!IdleReq, ReadInv, TypeInv, TypeOK
  <2>. QED BY <1>5, <2>1, <2>2, <2>3 DEF Fail, Respond, LS!Fail, LS!Return, raftVars
<1>6. ASSUME NEW c \in Clients, QueryLeader(c) PROVE UNCHANGED LS!vars
  <2>1. AR' = AR
    BY <1>6 DEF QueryLeader, AbstractReq, ReadInv, TypeInv, TypeOK
  <2>. QED BY <1>6, <2>1 DEF QueryLeader, LS!vars, raftVars
<1>7. ASSUME NEW c \in Clients,
             \/ \E p \in Nodes : PeerQuery(c, p) \/ PeerChecksum(c, p)
             \/ FsckDone(c)
      PROVE  FALSE
  <2>1. phase[c] = "peers"
    BY <1>7 DEF PeerQuery, PeerChecksum, FsckDone
  <2>. QED BY <2>1, PhaseKind DEF ReadInv
<1>8. ASSUME UNCHANGED <<log, reqVars, reply, acked>> PROVE UNCHANGED LS!vars
  BY <1>8 DEF reqVars, LS!vars, AbstractReq
<1>9. CASE RaftNext
  <2>1. ASSUME NEW c \in Clients, Commit(c) PROVE [LS!Next]_LS!vars
    BY <1>1, <2>1 DEF LS!Next
  <2>2. ASSUME NEW n \in Nodes,
               LearnCommit(n) \/ Apply(n) \/ Elect(n) \/ LeaderCatchUp
        PROVE  [LS!Next]_LS!vars
    <3>1. UNCHANGED <<log, reqVars, reply, acked>>
      BY <2>2 DEF LearnCommit, Apply, Elect, LeaderCatchUp, ReadInv, CommitOrder,
         TypeInv, TypeOK
    <3>. QED BY <1>8, <3>1
  <2>. QED BY <1>9, <2>1, <2>2, NodesAssumption DEF RaftNext
<1>10. CASE PipelineNext
  BY <1>10, <1>2, <1>3, <1>4, <1>5, <1>6, <1>7 DEF PipelineNext, LS!Next
<1>11. CASE UNCHANGED vars
  BY <1>8, <1>11 DEF vars, raftVars, reqVars
<1>. QED BY <1>9, <1>10, <1>11 DEF Next

\* The initial state of the pipeline is an initial state of LinearStore.
LEMMA RefineInit == Init => LS!Init
BY DEF Init, LS!Init, AbstractReq, LS!IdleReq

\* While the leader never changes and clients send only writes and reads,
\* the storage node's pipeline (proposal through raft, the leader query,
\* sync, the apply loop and the response) implements the linearizable store
\* LinearStore, for every number of nodes, clients and requests.
THEOREM Refinement ==
    ASSUME MaxElections = 0, "fsck" \notin Ops
    PROVE  Spec => RefinesLinearStore
<1>1. Spec => []ReadInv
  BY ReadInit, ReadNext, PTL DEF Spec
<1>2. ReadInv /\ [Next]_vars => [LS!Next]_LS!vars
  BY RefineNext
<1>. QED BY <1>1, <1>2, RefineInit, PTL DEF Spec, RefinesLinearStore, LS!Spec

=============================================================================
