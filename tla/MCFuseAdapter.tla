---------------------------- MODULE MCFuseAdapter ----------------------------
(* A small instance of FuseAdapter: two processes, two byte values, a file *)
(* of at most three bytes, reads of one or two bytes against a maximum     *)
(* read of two and a speculative fetch of four, so that a fetch can be     *)
(* cached, hit, cut short at EOF, or miss.                                 *)
EXTENDS FuseAdapter, TLC

CONSTANTS p1, p2, v1, v2

MCProcs == {p1, p2}
MCValues == {v1, v2}

MCSymmetry == Permutations(MCProcs) \cup Permutations(MCValues)
====
