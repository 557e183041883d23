----------------------------- MODULE MCAurBuild -----------------------------
(* AurBuild for TLC. *)
EXTENDS AurBuild

CONSTANTS r1, r2, b1, b2
=============================================================================
