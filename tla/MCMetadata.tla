---------------------------- MODULE MCMetadata ----------------------------
(* Small instances of the metadata store for TLC.                          *)
EXTENDS Metadata, TLC

CONSTANTS n1, n2, k1

\* 0o755: only the owner writes.
M755 == [owner |-> {"r", "w", "x"}, group |-> {"r", "x"},
         other |-> {"r", "x"}, sticky |-> FALSE]
\* 0o1777: everybody writes, the sticky bit protects entries.
M1777 == [owner |-> {"r", "w", "x"}, group |-> {"r", "w", "x"},
          other |-> {"r", "w", "x"}, sticky |-> TRUE]

MCNames == {n1, n2}
MCModes == {M755, M1777}
MCUids == {0, 1}
MCUids3 == {0, 1, 2}
MCGids == {0}
MCXattrKeys == {k1}
\* Names are interchangeable: no action or property tells n1 from n2.
NameSymmetry == Permutations(MCNames)
=============================================================================
