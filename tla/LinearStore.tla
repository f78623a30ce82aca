----------------------------- MODULE LinearStore -----------------------------
(***************************************************************************)
(* What the storage cluster promises its clients (spec sections 4.3 and    *)
(* 5): writes are put in one total order, the log, and take effect at the *)
(* moment they enter it; a read returns the state after some prefix of the *)
(* log that holds every write acknowledged before the read was sent; an    *)
(* fsck of replicas that agree answers ok.  Each client has at most one    *)
(* request in flight (the client blocks on its socket).  A state is        *)
(* represented by the length of the log prefix it results from.           *)
(***************************************************************************)
EXTENDS Integers, Sequences

CONSTANTS Clients, Ops

VARIABLES log, req, reply, acked

vars == <<log, req, reply, acked>>

IdleReq == [op |-> "idle", index |-> 0, floor |-> 0]

Init ==
    /\ log = <<>>
    /\ req = [c \in Clients |-> IdleReq]
    /\ reply = [c \in Clients |-> [op |-> "none", status |-> "ok", ver |-> 0,
                                   floor |-> 0]]
    /\ acked = 0

Return(c, op, status, ver) ==
    /\ reply' = [reply EXCEPT ![c] = [op |-> op, status |-> status, ver |-> ver,
                                      floor |-> req[c].floor]]
    /\ req' = [req EXCEPT ![c] = IdleReq]

\* A client sends a request; it must see every write acknowledged so far.
Invoke(c, op) ==
    /\ req[c].op = "idle"
    /\ req' = [req EXCEPT ![c] = [op |-> op, index |-> 0, floor |-> acked]]
    /\ UNCHANGED <<log, reply, acked>>

\* A pending write takes its place in the log.
CommitWrite(c) ==
    /\ req[c].op = "write" /\ req[c].index = 0
    /\ log' = Append(log, c)
    /\ req' = [req EXCEPT ![c] = [op |-> "write", index |-> Len(log) + 1,
                                  floor |-> req[c].floor]]
    /\ UNCHANGED <<reply, acked>>

ReturnWrite(c) ==
    /\ req[c].op = "write" /\ req[c].index > 0
    /\ acked' = IF req[c].index > acked THEN req[c].index ELSE acked
    /\ Return(c, "write", "ok", req[c].index)
    /\ UNCHANGED log

\* A read returns the state after k entries, for a k between what it must
\* see and what is committed.
ReturnRead(c) ==
    /\ req[c].op = "read"
    /\ \E k \in req[c].floor..Len(log) : Return(c, "read", "ok", k)
    /\ UNCHANGED <<log, acked>>

ReturnFsck(c) ==
    /\ req[c].op = "fsck"
    /\ \E k \in req[c].floor..Len(log) : Return(c, "fsck", "ok", k)
    /\ UNCHANGED <<log, acked>>

\* A request may fail with an error, a write only before it is in the log.
Fail(c) ==
    /\ \/ req[c].op \in {"read", "fsck"}
       \/ req[c].op = "write" /\ req[c].index = 0
    /\ Return(c, req[c].op, "Uncategorized", 0)
    /\ UNCHANGED <<log, acked>>

Next ==
    \E c \in Clients :
        \/ \E op \in Ops : Invoke(c, op)
        \/ CommitWrite(c) \/ ReturnWrite(c) \/ ReturnRead(c) \/ ReturnFsck(c)
        \/ Fail(c)

Spec == Init /\ [][Next]_vars

=============================================================================
