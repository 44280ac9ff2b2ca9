----------------------------- MODULE Workspaces -----------------------------
(***************************************************************************)
(* The life of a workspace (app/services/workspace_manager.py): a row of   *)
(* the database, a worktree on disk, its registration in the repository,   *)
(* the processes that run in it, their output directories and the payload  *)
(* of its change sets.  create_workspace and discard_workspace run on the  *)
(* event loop, so nothing else of the loop happens between their steps;    *)
(* threads that prepare a process do, as do crashes.  While the server is  *)
(* down, the supervisor may discard expired workspaces                     *)
(* (reconcile_runtime_state in app/services/supervisor.py).                *)
(*                                                                         *)
(* A request of run_pwsh holds the lock of its workspace until it is       *)
(* answered; a client that cancels it releases the lock, but its thread    *)
(* goes on (app/services/tool_registry.py).                                *)
(***************************************************************************)
EXTENDS Integers, FiniteSets

CONSTANTS
  Workspaces,      \* workspace ids, each generated once
  Jobs,            \* requests that start a process
  Nobody,          \* no holder of a lock
  AutoDiscard,     \* service.cleanup.auto_discard_clean_expired
  MaxActive,       \* workspace.max_active_per_project
  MaxFaults,       \* bound: failing file operations and git commands
  MaxCrashes       \* bound: crashes of the server

ASSUME WorkspacesAssumption ==
  /\ Nobody \notin Jobs \cup Workspaces /\ "loop" \notin Jobs /\ Nobody # "loop"
  /\ AutoDiscard \in BOOLEAN
  /\ MaxActive \in Nat \ {0} /\ MaxFaults \in Nat /\ MaxCrashes \in Nat

VARIABLES
  rows,          \* workspaces with a row
  tree,          \* the worktree: "none", "whole", "partial"
  registered,    \* worktrees git knows of
  edits,         \* workspaces with changes that are not committed
  open, payload, \* with a change set in progress; with a payload of an ended one
  born,          \* ids that were generated (history)
  step, home,    \* where each job is, and the workspace it is for
  jobRow,        \* jobs with a row in processes
  outputs,       \* jobs with an output directory
  lock,          \* the holder of each workspace's lock
  abandoned,     \* jobs cut from their request: cancelled, or by a crash (history)
  act,           \* the operation on the event loop
  wanted,        \* workspaces a client asks to discard until it is done
  expired,       \* not accessed for workspace.ttl_hours
  interrupted,   \* workspaces with a process the crash interrupted
  project,       \* projects.yaml still has the project
  up, crashes, faults,
  lost           \* worktrees whose creation was cut before their row (history)

disk == <<tree, registered, edits, payload, outputs>>
data == <<rows, open, jobRow>>
jobs == <<step, home, lock, abandoned>>
server == <<act, wanted, up, crashes, interrupted>>
rest == <<born, expired, project, faults, lost>>
vars == <<disk, data, jobs, server, rest>>

-----------------------------------------------------------------------------

Idle == [op |-> "none", of |-> Nobody, at |-> "none"]
LoopFree == up /\ act = Idle
Of(w) == {j \in Jobs : home[j] = w}
Alive == {"starting", "running"}
Living(w) == {j \in Of(w) : step[j] \in Alive}
InUse(w) == \E j \in Of(w) : step[j] \in Alive \cup {"orphan"}

Init ==
  /\ rows = {} /\ tree = [w \in Workspaces |-> "none"] /\ registered = {}
  /\ edits = {} /\ open = {} /\ payload = {} /\ born = {}
  /\ step = [j \in Jobs |-> "idle"] /\ home = [j \in Jobs |-> Nobody]
  /\ jobRow = {} /\ outputs = {} /\ lock = [w \in Workspaces |-> Nobody]
  /\ abandoned = {} /\ act = Idle /\ wanted = {} /\ expired = {} /\ interrupted = {}
  /\ project = TRUE /\ up = TRUE /\ crashes = 0 /\ faults = 0 /\ lost = {}

Go(w, at) == act' = [op |-> act.op, of |-> w, at |-> at]
Finish == act' = Idle
Fault == faults < MaxFaults /\ faults' = faults + 1
SameFaults == faults' = faults

-----------------------------------------------------------------------------
(* create_workspace: the limit and the worktree ...                        *)
AddTree(w) ==
  /\ LoopFree /\ project /\ w \notin born
  /\ Cardinality(rows) < MaxActive
  /\ born' = born \cup {w}
  /\ \/ /\ tree' = [tree EXCEPT ![w] = "whole"] /\ registered' = registered \cup {w}
        /\ act' = [op |-> "create", of |-> w, at |-> "insert"] /\ SameFaults
     \/ Fault /\ UNCHANGED <<tree, registered, act>>      \* git worktree add failed
  /\ UNCHANGED <<edits, payload, outputs, data, jobs, wanted, up, crashes, interrupted,
                 expired, project, lost>>

(* ... and its row, unless rev-parse fails in the new worktree.            *)
InsertRow ==
  /\ act.op = "create"
  /\ \/ rows' = rows \cup {act.of} /\ SameFaults /\ lost' = lost
     \/ Fault /\ lost' = lost \cup {act.of} /\ rows' = rows
  /\ Finish
  /\ UNCHANGED <<disk, open, jobRow, jobs, wanted, up, crashes, interrupted, born, expired,
                 project>>

-----------------------------------------------------------------------------
(* discard_workspace.  The request waits for the workspace's lock; a       *)
(* workspace without a row, or with a change set that is not terminal, is  *)
(* refused.                                                                *)
Discardable(w) == w \in rows /\ w \notin open

DiscardWhole(w) ==
  /\ LoopFree /\ w \in wanted /\ lock[w] = Nobody
  /\ Discardable(w) /\ tree[w] = "whole"
  /\ act' = [op |-> "discard", of |-> w, at |-> "cancel"]
  /\ UNCHANGED <<disk, data, jobs, wanted, up, crashes, interrupted, rest>>

Discard(w) ==
  /\ LoopFree /\ w \in wanted /\ lock[w] = Nobody
  /\ Discardable(w)
  /\ act' = [op |-> "discard", of |-> w, at |-> "cancel"]
  /\ UNCHANGED <<disk, data, jobs, wanted, up, crashes, interrupted, rest>>

At(a) == act.op = "discard" /\ act.at = a

(* cancel_all_for_workspace: the processes that are registered as running; *)
(* jobs that are queued or about to be registered are not.                 *)
CancelAll ==
  /\ At("cancel")
  /\ step' = [j \in Jobs |-> IF home[j] = act.of /\ step[j] = "running"
                             THEN "ended" ELSE step[j]]
  /\ Go(act.of, "remove")
  /\ UNCHANGED <<disk, data, home, lock, abandoned, wanted, up, crashes, interrupted, rest>>

(* git worktree remove --force, else prune and rmtree; files in use keep a *)
(* part of the tree, with or without its registration.  A project that is  *)
(* no longer registered has only its directory removed.                    *)
Removed(w) ==
  /\ tree' = [tree EXCEPT ![w] = "none"]
  /\ registered' = IF project THEN registered \ {w} ELSE registered
  /\ edits' = edits \ {w}

RemoveUnverified ==
  /\ At("remove")
  /\ LET w == act.of IN
     \/ /\ Removed(w) /\ Go(w, "files") /\ SameFaults
     \/ /\ Fault /\ tree' = [tree EXCEPT ![w] = IF @ = "none" THEN @ ELSE "partial"]
        /\ Go(w, "files") /\ UNCHANGED <<registered, edits>>
  /\ UNCHANGED <<payload, outputs, data, jobs, wanted, up, crashes, interrupted, born, expired,
                 project, lost>>

(* The row goes only when path and registration are gone.                  *)
RemoveTree ==
  /\ At("remove")
  /\ LET w == act.of IN
     \/ /\ Removed(w) /\ Go(w, "files") /\ SameFaults
     \/ /\ \/ tree[w] # "none" /\ InUse(w) /\ SameFaults
           \/ Fault
        /\ tree' = [tree EXCEPT ![w] = IF @ = "none" THEN @ ELSE "partial"]
        /\ registered' \in {registered, IF project THEN registered \ {w} ELSE registered}
        /\ IF tree'[w] = "none" /\ (w \notin registered' \/ ~ project)
           THEN Go(w, "files") ELSE Finish
        /\ edits' = edits
  /\ UNCHANGED <<payload, outputs, data, jobs, wanted, up, crashes, interrupted, born, expired,
                 project, lost>>

(* delete_outputs_for_workspace takes the directories of the rows that     *)
(* exist, delete_terminal_data those of the change sets.                   *)
DropFiles ==
  /\ At("files")
  /\ \/ /\ outputs' = outputs \ (Of(act.of) \cap jobRow)
        /\ payload' = payload \ {act.of}
        /\ Go(act.of, "rows") /\ SameFaults
     \/ Fault /\ Finish /\ UNCHANGED <<outputs, payload>>   \* rmtree raises OSError
  /\ UNCHANGED <<tree, registered, edits, data, jobs, wanted, up, crashes, interrupted, born,
                 expired, project, lost>>

(* delete_workspace, one transaction.                                      *)
DropRows ==
  /\ At("rows")
  /\ rows' = rows \ {act.of}
  /\ jobRow' = jobRow \ Of(act.of)
  /\ Finish
  /\ UNCHANGED <<disk, open, jobs, wanted, up, crashes, interrupted, rest>>

-----------------------------------------------------------------------------
(* A request that runs a process: it takes the lock and finds its          *)
(* workspace ...                                                           *)
Ask(j, w) ==
  /\ LoopFree /\ step[j] = "idle" /\ lock[w] = Nobody /\ w \in rows
  /\ step' = [step EXCEPT ![j] = "asked"] /\ home' = [home EXCEPT ![j] = w]
  /\ lock' = [lock EXCEPT ![w] = j]
  /\ expired' = expired \ {w}
  /\ UNCHANGED <<disk, data, abandoned, server, born, project, faults, lost>>

(* ... then, in a thread, spawn() makes the output directory and inserts   *)
(* the row, which fails without the workspace's row (a foreign key) ...    *)
Prepare(j) ==
  /\ step[j] = "asked"
  /\ outputs' = outputs \cup {j}
  /\ IF home[j] \in rows
     THEN jobRow' = jobRow \cup {j} /\ step' = [step EXCEPT ![j] = "queued"]
     ELSE jobRow' = jobRow /\ step' = [step EXCEPT ![j] = "ended"]
  /\ UNCHANGED <<tree, registered, edits, payload, rows, open, home, lock, abandoned, server,
                 rest>>

(* ... waits for a lease (one process writes to a workspace at a time), is *)
(* started if its output and its working directory are there ...           *)
Launch(j) ==
  /\ step[j] = "queued" /\ Living(home[j]) = {}
  /\ step' = [step EXCEPT ![j] = IF j \in outputs /\ tree[home[j]] # "none"
                                 THEN "starting" ELSE "ended"]
  /\ UNCHANGED <<disk, data, home, lock, abandoned, server, rest>>

(* ... and registered among the running processes.                         *)
Register(j) ==
  /\ step[j] = "starting"
  /\ step' = [step EXCEPT ![j] = "running"]
  /\ UNCHANGED <<disk, data, home, lock, abandoned, server, rest>>

(* It changes files until it ends, also after its request was answered.    *)
Edit(j) ==
  /\ step[j] \in {"running", "orphan"} /\ tree[home[j]] = "whole"
  /\ edits' = edits \cup {home[j]}
  /\ UNCHANGED <<tree, registered, payload, outputs, data, jobs, server, rest>>

End(j) ==
  /\ step[j] \in {"queued", "running", "orphan"}
  /\ step' = [step EXCEPT ![j] = "ended"]
  /\ UNCHANGED <<disk, data, home, lock, abandoned, server, rest>>

Unlock(j) == lock' = [w \in Workspaces |-> IF lock[w] = j THEN Nobody ELSE lock[w]]

Answer(j) ==
  /\ LoopFree /\ step[j] \in {"running", "ended"}
  /\ \E w \in Workspaces : lock[w] = j
  /\ Unlock(j)
  /\ UNCHANGED <<disk, data, step, home, abandoned, server, rest>>

Abandon(j) ==
  /\ LoopFree
  /\ \E w \in Workspaces : lock[w] = j
  /\ Unlock(j) /\ abandoned' = abandoned \cup {j}
  /\ UNCHANGED <<disk, data, step, home, server, rest>>

-----------------------------------------------------------------------------
(* A change set is begun under the workspace's lock; it ends committed,    *)
(* rolled back or expired, and leaves a directory.                         *)
Begin(w) ==
  /\ LoopFree /\ lock[w] = Nobody /\ w \in rows /\ tree[w] = "whole" /\ w \notin open
  /\ open' = open \cup {w} /\ expired' = expired \ {w}
  /\ UNCHANGED <<disk, rows, jobRow, jobs, server, born, project, faults, lost>>

EndSet(w) ==
  /\ LoopFree /\ lock[w] = Nobody /\ w \in open
  /\ open' = open \ {w} /\ payload' = payload \cup {w}
  /\ edits' \in {edits, edits \cup {w}}
  /\ UNCHANGED <<tree, registered, outputs, rows, jobRow, jobs, server, rest>>

-----------------------------------------------------------------------------

(* Processes may outlive the server; a request that was about to make its  *)
(* output directory may leave it without a row.                            *)
Crash ==
  /\ up /\ crashes < MaxCrashes
  /\ up' = FALSE /\ crashes' = crashes + 1 /\ act' = Idle
  /\ lost' = IF act.op = "create" THEN lost \cup {act.of} ELSE lost
  /\ interrupted' = {home[j] : j \in {i \in jobRow : step[i] \in {"queued"} \cup Alive}}
  /\ \E survivors \in SUBSET {j \in Jobs : step[j] \in Alive},
        cut \in SUBSET {j \in Jobs : step[j] = "asked"} :
       /\ step' = [j \in Jobs |-> IF step[j] = "idle" THEN "idle"
                                  ELSE IF j \in survivors THEN "orphan" ELSE "ended"]
       /\ outputs' = outputs \cup cut
       /\ abandoned' = abandoned \cup survivors \cup cut
  /\ lock' = [w \in Workspaces |-> Nobody]
  /\ UNCHANGED <<tree, registered, edits, payload, data, home, wanted, born, expired, project,
                 faults>>

(* reconcile_runtime_state with auto_discard_clean_expired.                *)
EligibleUnclean(w) ==
  /\ AutoDiscard /\ w \in rows \cap expired \cap registered /\ tree[w] = "whole" /\ project
  /\ w \notin interrupted

Eligible(w) ==
  /\ AutoDiscard /\ w \in rows \cap expired \cap registered /\ tree[w] = "whole" /\ project
  /\ w \notin interrupted /\ w \notin edits

Reconcile(w) ==
  /\ ~ up /\ Eligible(w) /\ Discardable(w)
  /\ \/ /\ Removed(w) /\ rows' = rows \ {w} /\ jobRow' = jobRow \ Of(w)
        /\ outputs' = outputs \ (Of(w) \cap jobRow) /\ payload' = payload \ {w}
        /\ SameFaults
     \/ /\ Fault /\ tree' = [tree EXCEPT ![w] = "partial"]     \* it stays as it is
        /\ registered' \in {registered, registered \ {w}}
        /\ UNCHANGED <<edits, payload, outputs, rows, jobRow>>
  /\ UNCHANGED <<open, jobs, server, born, expired, project, lost>>

(* The server is started; it adopts the processes that it can identify.    *)
(* Discarding a workspace with a change set in progress raises ValueError, *)
(* which ends the supervisor before it starts the server, each time.       *)
StartFails == ~ up /\ \E w \in Workspaces : Eligible(w) /\ w \in open

Restart ==
  /\ ~ up /\ \A w \in Workspaces : ~ Eligible(w)
  /\ up' = TRUE /\ interrupted' = {}
  /\ \E adopted \in SUBSET {j \in jobRow : step[j] = "orphan"} :
       step' = [j \in Jobs |-> IF j \in adopted THEN "running" ELSE step[j]]
  /\ UNCHANGED <<disk, data, home, lock, abandoned, act, wanted, crashes, rest>>

-----------------------------------------------------------------------------
(* The client asks for a workspace to be discarded; time passes; the       *)
(* project is taken out of projects.yaml, or put back.                     *)
Want(w) ==
  /\ w \in rows /\ w \notin wanted
  /\ wanted' = wanted \cup {w}
  /\ UNCHANGED <<disk, data, jobs, act, up, crashes, interrupted, rest>>

Expire(w) ==
  /\ w \in rows \ expired
  /\ expired' = expired \cup {w}
  /\ UNCHANGED <<disk, data, jobs, server, born, project, faults, lost>>

ProjectChanges ==
  /\ project' = ~ project
  /\ UNCHANGED <<disk, data, jobs, server, born, expired, faults, lost>>

Discarding == CancelAll \/ RemoveTree \/ DropFiles \/ DropRows

Next ==
  \/ InsertRow \/ Discarding \/ Crash \/ Restart \/ ProjectChanges
  \/ \E w \in Workspaces :
       \/ AddTree(w) \/ Discard(w) \/ Begin(w) \/ EndSet(w) \/ Reconcile(w)
       \/ Want(w) \/ Expire(w) \/ \E j \in Jobs : Ask(j, w)
  \/ \E j \in Jobs : Prepare(j) \/ Launch(j) \/ Register(j) \/ Edit(j) \/ End(j)
                     \/ Answer(j) \/ Abandon(j)

Spec == Init /\ [][Next]_vars

(* The program goes on, requests end, and a client that is refused or gets *)
(* an error asks again.                                                    *)
FairSpec ==
  /\ Spec
  /\ WF_vars(InsertRow) /\ WF_vars(Discarding) /\ SF_vars(Restart)
  /\ \A w \in Workspaces : SF_vars(Discard(w)) /\ SF_vars(Reconcile(w))
  /\ \A j \in Jobs : WF_vars(Prepare(j) \/ Launch(j) \/ Register(j)) /\ WF_vars(End(j))
                     /\ SF_vars(Answer(j))

-----------------------------------------------------------------------------

TypeOK ==
  /\ rows \subseteq Workspaces /\ registered \subseteq Workspaces
  /\ tree \in [Workspaces -> {"none", "whole", "partial"}]
  /\ edits \cup open \cup payload \cup born \cup wanted \cup expired \cup lost \subseteq Workspaces
  /\ interrupted \subseteq Workspaces
  /\ step \in [Jobs -> {"idle", "asked", "queued", "starting", "running", "orphan",
                       "ended"}]
  /\ home \in [Jobs -> Workspaces \cup {Nobody}]
  /\ jobRow \cup outputs \cup abandoned \subseteq Jobs
  /\ lock \in [Workspaces -> Jobs \cup {Nobody}]
  /\ act \in [op : {"none", "create", "discard"}, of : Workspaces \cup {Nobody},
              at : {"none", "insert", "cancel", "remove", "files", "rows"}]
  /\ project \in BOOLEAN /\ up \in BOOLEAN
  /\ crashes \in 0 .. MaxCrashes /\ faults \in 0 .. MaxFaults

(* A worktree on disk always has a row by which it can be discarded, but   *)
(* for one whose creation was cut short between the two.                   *)
TreesHaveRows ==
  \A w \in Workspaces :
    tree[w] # "none" /\ w \notin rows => w \in lost \/ act.of = w

(* Nothing is left of a workspace that was discarded: no change set, no    *)
(* payload, no row of a process; and no output directory and no process,   *)
(* but for those that a crash or a cancelled request left to themselves.   *)
DiscardedIsGone ==
  \A w \in born \ (rows \cup lost) : act.of # w =>
    /\ tree[w] = "none" /\ w \notin open \cup payload \cup edits
    /\ \A j \in Of(w) :
         /\ j \notin jobRow
         /\ j \in outputs \/ step[j] \in Alive => j \in abandoned

NothingIsForgotten == TypeOK /\ TreesHaveRows /\ DiscardedIsGone

(* The supervisor never takes away a change set in progress, nor files     *)
(* that are not committed, nor a workspace in which the crash interrupted  *)
(* a process.                                                              *)
CleanupLosesNothing ==
  [][\A w \in Workspaces : ~ up /\ w \in rows \ rows' =>
       w \notin edits \cup open \cup interrupted /\ tree'[w] = "none"]_vars

(* Every step of discard_workspace can fail or be cut by a crash; asking   *)
(* again always leads on, whatever was left of the files, the registration *)
(* and the rows, unless a change set is in progress or the supervisor      *)
(* cannot start.                                                           *)
DiscardsSucceed ==
  \A w \in Workspaces : w \in wanted ~> w \notin rows \/ w \in open \/ StartFails
=============================================================================
