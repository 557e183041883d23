----------------------------- MODULE DaemonClaim -----------------------------
(***************************************************************************)
(* main() of omgd: the exclusive flock, the probe and removal of a stale   *)
(* socket, bind, the guard that removes the socket node at exit, and the   *)
(* release of the claim, run by several processes that start, stop and are *)
(* killed in any order while outsiders may remove the socket node.         *)
(*                                                                         *)
(* The lock file itself is assumed to stay in place: flock(2) locks the    *)
(* inode, and nothing in the repository removes the file.                  *)
(***************************************************************************)
EXTENDS Naturals

CONSTANTS
  Daemons,  \* processes running omgd for one socket path
  None,     \* no process
  Inodes    \* inode numbers the file system may give to the socket node

ASSUME ClaimConstants == None \notin Daemons /\ Inodes \subseteq Nat \ {0}

VARIABLES
  pc,        \* per process: control point in main()
  holder,    \* process whose descriptor holds the flock
  node,      \* inode at the socket path, 0 when there is none
  owner,     \* process that bound that node, None when that was killed
  listener,  \* per process: inode its listener is bound to, 0 when closed
  guard,     \* per process: inode recorded by SocketCleanup, 0 without guard
  legacy,    \* a daemon of a version without the claim answers on the node
  refused,   \* processes whose bind found the path taken
  hindered   \* processes whose cleanup a check or a system call stopped

vars == <<pc, holder, node, owner, listener, guard, legacy, refused,
          hindered>>

Points == {"off", "init", "probe", "ping", "inspect", "unlink", "bind", "guard",
           "chmod", "serve", "check", "remove", "release"}
\* From bind to the end of SocketCleanup::drop.
Bound == {"guard", "chmod", "serve", "check", "remove"}

\* A node may be left over: from a daemon that was killed, or of an older
\* version that still answers.
Init ==
  /\ pc = [p \in Daemons |-> "off"] /\ holder = None
  /\ node \in Inodes \cup {0} /\ owner = None
  /\ listener = [p \in Daemons |-> 0] /\ guard = [p \in Daemons |-> 0]
  /\ legacy \in {FALSE, node # 0} /\ refused = {} /\ hindered = {}

Goto(p, l) == pc' = [pc EXCEPT ![p] = l]

\* The node disappears from the path; a listener may go on without it.
Unlinked == node' = 0 /\ owner' = None /\ legacy' = FALSE

-----------------------------------------------------------------------------
(* Claim and probe.                                                        *)

\* A new process: what an earlier one left behind is nobody's.
Started(p) ==
  /\ Goto(p, "init") /\ refused' = refused \ {p} /\ hindered' = hindered \ {p}
  /\ owner' = IF owner = p THEN None ELSE owner

\* Mutation: the claim is shared.
ClaimShared(p) ==
  /\ pc[p] = "off" /\ holder' = p
  /\ Started(p)
  /\ UNCHANGED <<node, listener, guard, legacy>>

\* claim_daemon_lock; with the lock taken the process ends at once.
Claim(p) ==
  /\ pc[p] = "off" /\ holder = None
  /\ holder' = p
  /\ Started(p)
  /\ UNCHANGED <<node, listener, guard, legacy>>

\* DaemonState::new
InitializeState(p) ==
  /\ pc[p] = "init"
  /\ \E l \in {"probe", "release"} : Goto(p, l)
  /\ UNCHANGED <<holder, node, owner, listener, guard, legacy, refused, hindered>>

Probe(p) ==
  /\ pc[p] = "probe"
  /\ Goto(p, IF node = 0 THEN "bind" ELSE "ping")
  /\ UNCHANGED <<holder, node, owner, listener, guard, legacy, refused, hindered>>

\* connect_to and ping.  A live daemon may still fail to answer in time.
PingAnswered(p) ==
  /\ pc[p] = "ping" /\ node # 0
  /\ legacy \/ \E q \in Daemons : listener[q] = node
  /\ Goto(p, "release")
  /\ UNCHANGED <<holder, node, owner, listener, guard, legacy, refused, hindered>>

PingFails(p) ==
  /\ pc[p] = "ping"
  /\ Goto(p, "inspect")
  /\ UNCHANGED <<holder, node, owner, listener, guard, legacy, refused, hindered>>

\* Mutation: what is at the path is left for bind to replace.
InspectOnly(p) ==
  /\ pc[p] = "inspect"
  /\ \/ node # 0 /\ Goto(p, "bind")
     \/ Goto(p, "release")
  /\ UNCHANGED <<holder, node, owner, listener, guard, legacy, refused, hindered>>

\* remove_stale_socket: the path must be a socket of ours.
Inspect(p) ==
  /\ pc[p] = "inspect"
  /\ \/ node # 0 /\ Goto(p, "unlink")
     \/ Goto(p, "release")
  /\ UNCHANGED <<holder, node, owner, listener, guard, legacy, refused, hindered>>

Unlink(p) ==
  /\ pc[p] = "unlink"
  /\ IF node = 0
     THEN Goto(p, "release") /\ UNCHANGED <<node, owner, legacy>>
     ELSE Goto(p, "bind") /\ Unlinked
  /\ UNCHANGED <<holder, listener, guard, refused, hindered>>

-----------------------------------------------------------------------------
(* Bind and serve.                                                         *)

\* A bound socket keeps its inode in use even when the node was removed.
Bind(p) ==
  /\ pc[p] = "bind"
  /\ IF node # 0
     THEN /\ Goto(p, "release") /\ refused' = refused \cup {p}  \* EADDRINUSE
          /\ UNCHANGED <<node, owner, listener>>
     ELSE /\ \E i \in Inodes :
               /\ \A q \in Daemons : listener[q] # i
               /\ node' = i /\ listener' = [listener EXCEPT ![p] = i]
          /\ owner' = p /\ Goto(p, "guard") /\ UNCHANGED refused
  /\ UNCHANGED <<holder, guard, legacy, hindered>>

\* From here on the process does nothing about its node any more.
GiveUp(p) == hindered' = hindered \cup {p} /\ Goto(p, "release")

\* SocketCleanup::new fails when the node has gone or cannot be inspected;
\* then there is no guard.
Guard(p) ==
  /\ pc[p] = "guard"
  /\ \/ /\ node # 0 /\ guard' = [guard EXCEPT ![p] = node]
        /\ Goto(p, "chmod") /\ UNCHANGED hindered
     \/ GiveUp(p) /\ UNCHANGED guard
  /\ UNCHANGED <<holder, node, owner, listener, legacy, refused>>

\* set_permissions, by path; an error drops the guard.
Chmod(p) ==
  /\ pc[p] = "chmod"
  /\ \/ node # 0 /\ Goto(p, "serve")
     \/ Goto(p, "check")
  /\ UNCHANGED <<holder, node, owner, listener, guard, legacy, refused, hindered>>

\* Mutation: the claim is dropped before the socket is cleaned up.
StopServingReleases(p) ==
  /\ pc[p] = "serve"
  /\ listener' = [listener EXCEPT ![p] = 0] /\ Goto(p, "check")
  /\ holder' = IF holder = p THEN None ELSE holder
  /\ UNCHANGED <<node, owner, guard, legacy, refused, hindered>>

\* server::run drops the listener, then drains (DaemonServer).
StopServing(p) ==
  /\ pc[p] = "serve"
  /\ listener' = [listener EXCEPT ![p] = 0] /\ Goto(p, "check")
  /\ UNCHANGED <<holder, node, owner, guard, legacy, refused, hindered>>

-----------------------------------------------------------------------------
(* SocketCleanup::drop, then the claim: locals drop in reverse order.      *)

\* Mutation: main() returns early and leaves the guard's work undone.
CleanupSkipped(p) ==
  /\ pc[p] = "check"
  /\ Goto(p, "release")
  /\ UNCHANGED <<holder, node, owner, listener, guard, legacy, refused, hindered>>

\* The cleanup is skipped when the directory is no longer private or the node
\* cannot be inspected; else the path must still lead to the inode this
\* process bound.
CleanupCheck(p) ==
  /\ pc[p] = "check"
  /\ \/ GiveUp(p)
     \/ /\ Goto(p, IF node # 0 /\ node = guard[p] THEN "remove" ELSE "release")
        /\ UNCHANGED hindered
  /\ UNCHANGED <<holder, node, owner, listener, guard, legacy, refused>>

\* remove_file; an error is a warning.
CleanupRemove(p) ==
  /\ pc[p] = "remove"
  /\ \/ Unlinked /\ Goto(p, "release") /\ UNCHANGED hindered
     \/ GiveUp(p) /\ UNCHANGED <<node, owner, legacy>>
  /\ UNCHANGED <<holder, listener, guard, refused>>

\* The process is gone; its descriptors, the flock included, are closed.
Exited(p) ==
  /\ Goto(p, "off")
  /\ holder' = IF holder = p THEN None ELSE holder
  /\ listener' = [listener EXCEPT ![p] = 0]
  /\ guard' = [guard EXCEPT ![p] = 0]

Release(p) ==
  /\ pc[p] = "release" /\ Exited(p)
  /\ UNCHANGED <<node, owner, legacy, refused, hindered>>

-----------------------------------------------------------------------------
(* The world.                                                              *)

\* SIGKILL, or a signal before its handler is installed: the node stays.
Killed(p) ==
  /\ pc[p] # "off" /\ Exited(p)
  /\ owner' = IF owner = p THEN None ELSE owner
  /\ UNCHANGED <<node, legacy, refused, hindered>>

LegacyDies ==
  /\ legacy /\ legacy' = FALSE
  /\ UNCHANGED <<pc, holder, node, owner, listener, guard, refused, hindered>>

SocketRemoved ==
  /\ node # 0 /\ Unlinked
  /\ UNCHANGED <<pc, holder, listener, guard, refused, hindered>>

-----------------------------------------------------------------------------
Start(p) ==
  \/ Claim(p) \/ InitializeState(p) \/ Probe(p) \/ PingAnswered(p)
  \/ PingFails(p) \/ Inspect(p) \/ Unlink(p)

Run(p) == Bind(p) \/ Guard(p) \/ Chmod(p) \/ StopServing(p)

Stop(p) == CleanupCheck(p) \/ CleanupRemove(p) \/ Release(p) \/ Killed(p)

Next ==
  \/ LegacyDies \/ SocketRemoved
  \/ \E p \in Daemons : Start(p) \/ Run(p) \/ Stop(p)

Spec == Init /\ [][Next]_vars

-----------------------------------------------------------------------------
(* Properties.                                                             *)

TypeOK ==
  /\ pc \in [Daemons -> Points]
  /\ holder \in Daemons \cup {None} /\ owner \in Daemons \cup {None}
  /\ node \in Inodes \cup {0}
  /\ listener \in [Daemons -> Inodes \cup {0}]
  /\ guard \in [Daemons -> Inodes \cup {0}]
  /\ legacy \in BOOLEAN /\ refused \subseteq Daemons /\ hindered \subseteq Daemons

\* "no TOCTOU where a second start deletes a live daemon's socket": the node
\* a daemon listens on goes away only by a step of its own or of an outsider,
\* never by the probe or the late cleanup of another omgd.
LiveSocketKept ==
  [][\A p \in Daemons :
       listener[p] # 0 /\ node = listener[p] /\ node' # node
         => SocketRemoved \/ pc'[p] # pc[p]]_vars

\* "a dead daemon never leaves a stale socket behind", as far as it is true: a
\* process that ends by itself, on whatever path, leaves its node only when a
\* system call or the check of the directory stopped its cleanup, never
\* because it took its own node for somebody else's or left before the guard.
NoStaleAfterExit ==
  owner # None => pc[owner] \in Bound \/ owner \in hindered

\* The claim and the removal together make the path free: bind is refused
\* to nobody.
BindSucceeds == refused = {}

\* The clients' view.
Up == {p \in Daemons : listener[p] # 0}
Reach == IF owner # None /\ node # 0 /\ listener[owner] = node THEN owner ELSE None

Abstract == INSTANCE OneDaemon WITH up <- Up, reach <- Reach

\* omgd processes implement OneDaemon: one listens at a time, and clients
\* reach it or nobody.
ImplementsOneDaemon == Abstract!Spec

=============================================================================
