---------------------------- MODULE MCDaemonClaim ----------------------------
(* Instances of DaemonClaim for TLC.                                       *)
EXTENDS DaemonClaim

CONSTANTS d1, d2, d3

=============================================================================
