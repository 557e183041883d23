---------------------------- MODULE RuntimeStore ----------------------------
(***************************************************************************)
(* The versions directory of one runtime (runtimes/common.rs and the       *)
(* managers that use it): processes of the same user install, activate and *)
(* remove versions at the same time, and may fail or be killed anywhere.   *)
(*                                                                         *)
(* A version directory is the set of its parts: the launcher, everything   *)
(* else, and the marker of an install that is not finished.  A staging     *)
(* directory is private to its process until it is renamed, so it is part  *)
(* of the process's control point.  Removing a directory removes its parts *)
(* one by one, in any order.                                               *)
(***************************************************************************)
EXTENDS Naturals

CONSTANTS
  Procs,     \* omg processes
  Versions,  \* version names
  Nobody,    \* no process, no version
  Managers   \* subset of AllManagers: the runtimes to look at

AllManagers == {"plain", "pi", "php", "swift", "erlang", "rust"}

ASSUME StoreConstants == Nobody \notin Procs \cup Versions /\ Managers \subseteq AllManagers

VARIABLES
  manager,      \* whose versions directory this is
  tree,         \* per version: its directory
  current,      \* target of the symlink "current"
  lease,        \* holder of .mutation.lock
  installLease, \* per version: holder of .install-<version>.lock
  proc,         \* per process: control point, version, and the copy of its tree
  good,         \* versions published whole, checked, and untouched since
  cut           \* versions whose removal was cut short or ran without the lease

storeVars == <<manager, tree, current, lease, installLease, proc, good, cut>>

Parts == {"launcher", "rest", "pending"}
Directory == [there : BOOLEAN, parts : SUBSET Parts]
NoDirectory == [there |-> FALSE, parts |-> {}]
Removing == {"clear", "cleanup", "remove"}
Points == {"idle", "stage", "publish", "exchange", "setup", "smoke", "use", "link"} \cup Removing

\* is_valid_version_dir
Valid(v) == tree[v].there /\ "pending" \notin tree[v].parts
HasLauncher(v) == "launcher" \in tree[v].parts

At(p, point) == proc[p].at = point
Goto(p, point) == proc' = [proc EXCEPT ![p].at = point]
Begin(p, v, point) == proc' = [proc EXCEPT ![p] = [at |-> point, version |-> v, copy |-> {}]]

\* A process ends its call: its files are closed, which drops its leases.
Finish(p) ==
  /\ proc' = [proc EXCEPT ![p] = [at |-> "idle", version |-> Nobody, copy |-> {}]]
  /\ lease' = IF lease = p THEN Nobody ELSE lease
  /\ installLease' = [v \in Versions |->
                        IF installLease[v] = p THEN Nobody ELSE installLease[v]]

StoreInit ==
  /\ manager \in Managers
  /\ tree = [v \in Versions |-> NoDirectory] /\ current = Nobody
  /\ lease = Nobody /\ installLease = [v \in Versions |-> Nobody]
  /\ proc = [p \in Procs |-> [at |-> "idle", version |-> Nobody, copy |-> {}]]
  /\ good = {} /\ cut = {}

-----------------------------------------------------------------------------
(* install, up to the download.                                            *)

\* node.rs and the managers like it
InstallPlain(p, v) ==
  /\ manager \in {"plain", "pi"} /\ At(p, "idle")
  /\ Begin(p, v, IF Valid(v) THEN "use" ELSE "stage")
  /\ UNCHANGED <<manager, tree, current, lease, installLease, good, cut>>

\* php.rs installs again over a valid directory and refuses any other one.
InstallPhp(p, v) ==
  /\ manager = "php" /\ At(p, "idle")
  /\ tree[v].there => Valid(v)
  /\ Begin(p, v, "stage")
  /\ UNCHANGED <<manager, tree, current, lease, installLease, good, cut>>

\* swift.rs and erlang.rs take the lease of the version and clear what is not ready.
InstallLeased(p, v) ==
  /\ manager \in {"swift", "erlang"} /\ At(p, "idle") /\ installLease[v] = Nobody
  /\ installLease' = [installLease EXCEPT ![v] = p]
  /\ Begin(p, v, CASE Valid(v) /\ HasLauncher(v) -> "use"
                   [] tree[v].there /\ ~(Valid(v) /\ HasLauncher(v)) -> "clear"
                   [] OTHER -> "stage")
  /\ UNCHANGED <<manager, tree, current, lease, good, cut>>

\* rust.rs holds the mutation lease throughout; a rolling channel is refreshed.
InstallRust(p, v) ==
  /\ manager = "rust" /\ At(p, "idle") /\ lease = Nobody
  /\ lease' = p
  /\ \/ Valid(v) /\ Begin(p, v, "use")
     \/ Begin(p, v, "stage")
  /\ UNCHANGED <<manager, tree, current, installLease, good, cut>>

\* rust.rs adds components to a copy of the published tree, whatever is left of it
\* beside the metadata (ensure_toolchain, apply_incremental_from_manifest).
ExtendRust(p, v) ==
  /\ manager = "rust" /\ At(p, "idle") /\ lease = Nobody
  /\ Valid(v) /\ "rest" \in tree[v].parts
  /\ lease' = p
  /\ proc' = [proc EXCEPT ![p] = [at |-> "exchange", version |-> v, copy |-> tree[v].parts]]
  /\ UNCHANGED <<manager, tree, current, installLease, good, cut>>

-----------------------------------------------------------------------------
(* Staging and publication.                                                *)

\* begin_staged_install, download, checksum, extraction and the checks of the
\* staged tree.
Stage(p) ==
  /\ At(p, "stage") /\ Goto(p, "publish")
  /\ UNCHANGED <<manager, tree, current, lease, installLease, good, cut>>

\* Mutation: the pending marker is not staged.
StagedPartsUnmarked == IF manager = "erlang" THEN {"rest"} ELSE {"launcher", "rest"}

\* The pending marker of erlang.rs is staged with the tree.
StagedParts == IF manager = "erlang" THEN {"rest", "pending"} ELSE {"launcher", "rest"}

Placed(p) ==
  LET v == proc[p].version IN
  /\ tree' = [tree EXCEPT ![v] = [there |-> TRUE, parts |-> StagedParts]]
  /\ IF manager = "erlang" THEN UNCHANGED <<good, cut>>
     ELSE good' = good \cup {v} /\ cut' = cut \ {v}
  /\ UNCHANGED <<manager, current, installLease>>

\* complete_staged_install: the rename refuses a path that has appeared.
CompleteStagedInstall(p) ==
  /\ At(p, "publish") /\ lease \in {Nobody, p} /\ ~tree[proc[p].version].there
  /\ Placed(p) /\ Goto(p, IF manager = "erlang" THEN "setup" ELSE "use")
  /\ UNCHANGED lease

\* replace_staged_install: the two trees change places in one rename.
ReplaceStagedInstall(p) ==
  /\ At(p, "publish") /\ manager \in {"php", "rust"} /\ lease \in {Nobody, p}
  /\ Valid(proc[p].version)
  /\ Placed(p) /\ Goto(p, "use")
  /\ UNCHANGED lease

\* The extended copy takes the place of the tree that it was made from.
PublishCopy(p) ==
  /\ At(p, "exchange") /\ lease = p /\ Valid(proc[p].version)
  /\ tree' = [tree EXCEPT ![proc[p].version].parts = proc[p].copy] /\ Finish(p)
  /\ UNCHANGED <<manager, current, good, cut>>

\* run_install_script works in the published directory.
Setup(p) ==
  LET v == proc[p].version IN
  /\ At(p, "setup")
  /\ \/ /\ tree' = [tree EXCEPT ![v].parts = @ \cup {"launcher"}]
        /\ Goto(p, "smoke") \/ Goto(p, "cleanup")
     \/ UNCHANGED tree /\ Goto(p, "cleanup")
  /\ UNCHANGED <<manager, current, lease, installLease, good, cut>>

\* smoke_erl, then the marker of the unfinished install is removed.
Smoke(p) ==
  LET v == proc[p].version IN
  /\ At(p, "smoke")
  /\ \/ /\ tree' = [tree EXCEPT ![v].parts = @ \ {"pending"}]
        /\ good' = good \cup {v} /\ cut' = cut \ {v} /\ Goto(p, "use")
     \/ UNCHANGED <<tree, good, cut>> /\ Goto(p, "cleanup")
  /\ UNCHANGED <<manager, current, lease, installLease>>

-----------------------------------------------------------------------------
(* use_version and uninstall.                                              *)

StartUse(p, v) ==
  /\ At(p, "idle") /\ manager # "rust" /\ Begin(p, v, "use")
  /\ UNCHANGED <<manager, tree, current, lease, installLease, good, cut>>

\* activate_version: the launcher is looked up under the lease, which pi.rs
\* takes only afterwards.
Use(p) ==
  /\ At(p, "use") /\ HasLauncher(proc[p].version)
  /\ IF manager = "pi" THEN UNCHANGED lease ELSE lease \in {Nobody, p} /\ lease' = p
  /\ Goto(p, "link")
  /\ UNCHANGED <<manager, tree, current, installLease, good, cut>>

\* set_current_version: a new symlink is renamed over the old one.
Link(p) ==
  /\ At(p, "link") /\ lease \in {Nobody, p} /\ Valid(proc[p].version)
  /\ current' = proc[p].version /\ Finish(p)
  /\ UNCHANGED <<manager, tree, good, cut>>

\* Mutation: the active version is not refused.
UninstallActive(p, v) ==
  /\ At(p, "idle") /\ lease = Nobody /\ Valid(v)
  /\ lease' = p /\ Begin(p, v, "remove")
  /\ UNCHANGED <<manager, tree, current, installLease, good, cut>>

\* uninstall_version refuses the active version and keeps the lease.
Uninstall(p, v) ==
  /\ At(p, "idle") /\ lease = Nobody /\ Valid(v) /\ current # v
  /\ lease' = p /\ Begin(p, v, "remove")
  /\ UNCHANGED <<manager, tree, current, installLease, good, cut>>

\* remove_dir_all, of an uninstall or of a broken install
RemovePart(p) ==
  LET v == proc[p].version IN
  /\ proc[p].at \in Removing
  /\ \E part \in tree[v].parts : tree' = [tree EXCEPT ![v].parts = @ \ {part}]
  /\ good' = good \ {v}
  /\ cut' = IF At(p, "remove") THEN cut ELSE cut \cup {v}
  /\ UNCHANGED <<manager, current, lease, installLease, proc>>

RemoveDirectory(p) ==
  LET v == proc[p].version IN
  /\ proc[p].at \in Removing /\ tree[v].there /\ tree[v].parts = {}
  /\ tree' = [tree EXCEPT ![v] = NoDirectory]
  /\ cut' = IF At(p, "remove") THEN cut \ {v} ELSE cut
  /\ IF At(p, "clear") THEN Goto(p, "stage") /\ UNCHANGED <<lease, installLease>>
                       ELSE Finish(p)
  /\ UNCHANGED <<manager, current, good>>

\* An error, a refused check or lease, or a kill.
Stop(p) ==
  /\ ~At(p, "idle") /\ Finish(p)
  /\ cut' = IF proc[p].at \in Removing /\ tree[proc[p].version].there
            THEN cut \cup {proc[p].version} ELSE cut
  /\ UNCHANGED <<manager, tree, current, good>>

-----------------------------------------------------------------------------
StoreStep(p) ==
  \/ Stage(p) \/ CompleteStagedInstall(p) \/ ReplaceStagedInstall(p) \/ PublishCopy(p)
  \/ Setup(p) \/ Smoke(p) \/ Use(p) \/ Link(p) \/ RemovePart(p) \/ RemoveDirectory(p) \/ Stop(p)

StoreNext ==
  \E p \in Procs :
    \/ StoreStep(p)
    \/ \E v \in Versions :
         \/ InstallPlain(p, v) \/ InstallPhp(p, v) \/ InstallLeased(p, v)
         \/ InstallRust(p, v) \/ ExtendRust(p, v) \/ StartUse(p, v) \/ Uninstall(p, v)

StoreSpec == StoreInit /\ [][StoreNext]_storeVars

-----------------------------------------------------------------------------
(* Properties.                                                             *)

\* Every variable has its type.
StoreTypeOK ==
  /\ manager \in Managers /\ tree \in [Versions -> Directory]
  /\ current \in Versions \cup {Nobody} /\ lease \in Procs \cup {Nobody}
  /\ installLease \in [Versions -> Procs \cup {Nobody}]
  /\ proc \in [Procs -> [at : Points, version : Versions \cup {Nobody}, copy : SUBSET Parts]]
  /\ good \subseteq Versions /\ cut \subseteq Versions

Whole(v) == Valid(v) /\ {"launcher", "rest"} \subseteq tree[v].parts
BeingRemoved(v) == \E p \in Procs : proc[p].at \in Removing /\ proc[p].version = v

\* What the listing and the fast path of install take for an installed version
\* was published whole and passed its checks, whoever installed, replaced or
\* died meanwhile, except while it is being removed or after a removal that was
\* cut short (is_valid_version_dir, list_installed_versions).  For the version
\* behind "current" only the latter is an excuse (set_current_version,
\* uninstall_version).
LooksInstalledIsWhole ==
  \A v \in Versions :
     Valid(v) \/ v = current
       => (Whole(v) /\ v \in good) \/ v \in cut \/ (BeingRemoved(v) /\ v # current)

\* No process damages a good version while it is selected, whatever it read
\* before the selection (uninstall_version, the recovery of swift.rs and erlang.rs).
GoodActiveSurvives ==
  [][\A v \in Versions :
       current = v /\ current' = v /\ v \in good => v \in good' /\ Whole(v)']_storeVars
=============================================================================
