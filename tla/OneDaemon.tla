------------------------------ MODULE OneDaemon ------------------------------
(***************************************************************************)
(* What the singleton claim of omgd promises to its clients: at most one   *)
(* daemon listens, whoever connects to the socket path reaches that one,   *)
(* and a daemon that is up can only become unreachable, never replaced.    *)
(***************************************************************************)
CONSTANTS Daemons, None

VARIABLES
  up,     \* the daemons that listen
  reach   \* the daemon a client that connects to the path reaches, or None

vars == <<up, reach>>

Init == up = {} /\ reach = None

Open(p) == up = {} /\ up' = {p} /\ reach' = p

\* The socket node disappears under its daemon.
Lose == reach # None /\ reach' = None /\ up' = up

Close(p) == up = {p} /\ up' = {} /\ reach' = None

Next == Lose \/ \E p \in Daemons : Open(p) \/ Close(p)

Spec == Init /\ [][Next]_vars

=============================================================================
