------------------------------ MODULE Updater -------------------------------
(***************************************************************************)
(* Unattended updates: the script malmberg-update.sh that both setup       *)
(* programs install (malmberg_core/provision.py) and a timer starts, never *)
(* twice at a time, and the service it restarts, which systemd starts      *)
(* again whenever it fails.                                                *)
(*                                                                         *)
(* One command of the script is one action; the power may go at any point. *)
(*                                                                         *)
(* Abstractions.  A commit is a number; it comes up or not once its        *)
(* dependencies are installed.  A service that does not come up is active  *)
(* for a moment after each of its starts, so the health check, which asks  *)
(* every three seconds whether it is active, may be told yes.              *)
(***************************************************************************)
EXTENDS Naturals

CONSTANTS
    Tip,        \* bound: the last commit pushed
    Good,       \* the commits that come up
    Needs,      \* [1 .. Tip -> the dependencies of a commit]
    MaxCuts     \* bound: power losses

ASSUME UpdaterAssumption == Tip \in Nat \ {0} /\ 1 \in Good /\ 0 \notin Good

VARIABLES
    pushed,     \* the branch on GitHub
    remote,     \* origin/<branch> as last fetched
    head,       \* the checkout
    deps,       \* what uv has installed
    running,    \* the service: what it was last started on, [rev, deps]
    script,     \* [at, phase, local]
    excuses,    \* history: what went wrong since the service was last found well
    cuts

updaterVars == <<pushed, remote, head, deps, running, script, excuses, cuts>>

Works(proc) == proc.rev \in Good /\ proc.deps = Needs[proc.rev]
OnDisk == [rev |-> head, deps |-> deps]
Stopped == [rev |-> 0, deps |-> deps]
Rest == [at |-> "rest", phase |-> "new", local |-> head]

Push ==
    /\ pushed < Tip
    /\ pushed' = pushed + 1
    /\ UNCHANGED <<remote, head, deps, running, script, excuses, cuts>>

(* The timer fires: git fetch, and nothing more if HEAD is what was fetched. *)
Fetch ==
    /\ script.at = "rest"
    /\ remote' = pushed
    /\ script' = IF head = pushed THEN script
                 ELSE [at |-> "reset", phase |-> "new", local |-> head]
    /\ UNCHANGED <<pushed, head, deps, running, excuses, cuts>>

(* deploy: git reset --hard to the new revision, or to the old one. *)
Reset ==
    /\ script.at = "reset"
    /\ head' = IF script.phase = "new" THEN remote ELSE script.local
    /\ script' = [script EXCEPT !.at = "sync"]
    /\ UNCHANGED <<pushed, remote, deps, running, excuses, cuts>>

(* deploy: uv sync; its failure is logged and otherwise ignored. *)
Sync ==
    /\ script.at = "sync"
    /\ \/ deps' = Needs[head] /\ UNCHANGED excuses
       \/ UNCHANGED deps /\ excuses' = excuses \cup {"unsynced"}
    /\ script' = [script EXCEPT !.at = "restart"]
    /\ UNCHANGED <<pushed, remote, head, running, cuts>>

(* deploy: systemctl restart. *)
RestartService ==
    /\ script.at = "restart"
    /\ running' = OnDisk
    /\ script' = [script EXCEPT !.at = "check"]
    /\ UNCHANGED <<pushed, remote, head, deps, excuses, cuts>>

(* git, chown or the restart itself fails, the last with the service        *)
(* stopped: set -e ends the script there.                                   *)
Quit ==
    /\ script.at \in {"reset", "restart"}
    /\ script' = Rest
    /\ running' \in {running} \cup (IF script.at = "restart" THEN {Stopped} ELSE {})
    /\ excuses' = excuses \cup {"quit"}
    /\ UNCHANGED <<pushed, remote, head, deps, cuts>>

(* systemd starts a service that failed again, on what is there by then. *)
SelfRestart ==
    /\ ~Works(running)
    /\ running' = OnDisk
    /\ UNCHANGED <<pushed, remote, head, deps, script, excuses, cuts>>

(* A slip of Unwell: the script looks the old revision up only now.         *)
UnwellForgetful ==
    IF script.phase = "new" THEN [at |-> "reset", phase |-> "back", local |-> head]
    ELSE Rest

(* What the script does when the service did not come up: the old revision  *)
(* is deployed; if that does not come up either, it is said in the log.     *)
Unwell ==
    IF script.phase = "new" THEN [script EXCEPT !.at = "reset", !.phase = "back"]
    ELSE Rest

(* healthy: up to twelve looks at whether the service is active. *)
Check ==
    /\ script.at = "check"
    /\ \E active \in BOOLEAN :
         /\ Works(running) => active
         /\ script' = IF active THEN Rest ELSE Unwell
         /\ excuses' = IF Works(running) THEN {}
                       ELSE IF active THEN excuses \cup {"fooled"} ELSE excuses
    /\ UNCHANGED <<pushed, remote, head, deps, running, cuts>>

(* The machine boots: the service is enabled, the script starts from rest.  *)
PowerLoss ==
    /\ cuts < MaxCuts
    /\ cuts' = cuts + 1
    /\ running' = OnDisk
    /\ script' = Rest
    /\ excuses' = IF script.at = "rest" THEN excuses ELSE excuses \cup {"cut"}
    /\ UNCHANGED <<pushed, remote, head, deps>>

-----------------------------------------------------------------------------
UpdaterInit ==
    /\ pushed = 1 /\ remote = 1 /\ head = 1
    /\ deps = Needs[1]
    /\ running = OnDisk
    /\ script = Rest
    /\ excuses = {}
    /\ cuts = 0

UpdaterNext == Push \/ Fetch \/ Reset \/ Sync \/ RestartService \/ Check
               \/ Quit \/ SelfRestart \/ PowerLoss

UpdaterSpec == UpdaterInit /\ [][UpdaterNext]_updaterVars

-----------------------------------------------------------------------------
(* Between two updates the service is up, on whatever mixture of good and   *)
(* bad commits, unless since it was last found well dependencies could not  *)
(* be installed, the script ended or the power went in the middle of an     *)
(* update, or a look at the service fell on a moment it was active          *)
(* (provision.py:31-72).                                                    *)
UpBetweenUpdates ==
    script.at = "rest" /\ excuses = {} => Works(running)

(* "If the service fails to come up on the new revision, it rolls back      *)
(* automatically so a bad commit never leaves a headless machine crash-     *)
(* looping" (provision.py:31-32): an updater that has nothing more to do    *)
(* leaves a service that works.                                             *)
NeverLeftDown ==
    script.at = "rest" /\ head = pushed => Works(running)
=============================================================================
