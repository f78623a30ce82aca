---------------------------- MODULE MCStorageNode ----------------------------
(* Model values for checking StorageNode.                                  *)
EXTENDS StorageNode, TLC

CONSTANTS m1, m2, m3, c1, c2

MCNodes == {m1, m2, m3}
MCClients == {c1, c2}

=============================================================================
