--------------------------- MODULE MCDaemonCatalog ---------------------------
(* Small instances of DaemonCatalog.                                       *)
EXTENDS DaemonCatalog, TLC

CONSTANTS c1, c2

TwoClients == {c1, c2}
ClientSymmetry == Permutations(TwoClients)

=============================================================================
