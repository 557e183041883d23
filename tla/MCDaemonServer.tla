--------------------------- MODULE MCDaemonServer ---------------------------
(* Instances of DaemonServer for TLC.                                      *)
EXTENDS DaemonServer, TLC

CONSTANTS c1, c2

\* Connections are interchangeable.
ConnSymmetry == Permutations({c1, c2})

=============================================================================
