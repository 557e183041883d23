----------------------------- MODULE MCIpcClient -----------------------------
(* Instances of IpcClient for TLC.                                         *)
EXTENDS IpcClient

=============================================================================
