-------------------------- MODULE ProcessLifecycle --------------------------
(***************************************************************************)
(* The life of a managed process: ProcessManager.spawn and                 *)
(* spawn_interactive, the watchdog thread, get_result, cancel, shutdown    *)
(* (app/services/process_manager.py), the transactions of the event store  *)
(* that change a process record (app/services/event_store.py), and the     *)
(* reconciliation of the records after a crash of the server               *)
(* (app/services/process_recovery.py).                                     *)
(*                                                                         *)
(* Records and events survive a crash of the server, and so do the OS      *)
(* processes; the running table, the leases and all threads do not.  The   *)
(* scheduler appears as AdmissionControl, which it implements.             *)
(***************************************************************************)
EXTENDS Integers, FiniteSets, Sequences

CONSTANTS
  Procs,               \* process ids, one call of spawn() each
  Workspaces,
  Home,                \* the workspace of each process
  Access,              \* "read" for run_check, "write" for the other tools
  Checks,              \* the processes of run_check
  GlobalLimit, PerWorkspaceLimit,
  NoKey, NoRequest,
  MaxOutput,           \* bound: bytes a process may write
  MaxCrashes           \* bound: crashes of the server

ASSUME ProcsAssumption ==
  /\ Home \in [Procs -> Workspaces]
  /\ Access \in [Procs -> {"read", "write"}]
  /\ Checks \subseteq Procs
  /\ GlobalLimit \in Nat /\ PerWorkspaceLimit \in Nat
  /\ \A w \in Workspaces, m \in {"read", "write"} : NoKey # [resource |-> w, mode |-> m]
  /\ MaxOutput \in Nat /\ MaxCrashes \in Nat

VARIABLES
  record,      \* processes.status, or "none"
  identity,    \* processes.process_creation_identity is stored
  log,         \* types of the events of each process; a terminal status
               \* stands for process.exited with that status
  spans,       \* offset_start and offset_end of its process.output events
  os,          \* the OS process: "none", "alive", or how it ended
  size,        \* bytes in its output file
  phase,       \* the server: "down", "recovering" or "serving"
  todo,        \* records recover_processes has not looked at
  shut,        \* shutdown(): "no", "draining" or "done"
  spawn,       \* where the call of spawn() is
  lease,       \* mode of the scheduler lease of the process, or "none"
  table,       \* keys of self._running
  watch,       \* where the watchdog thread is
  finish,      \* where the owner of the completion is, and its status
  drained,     \* completions owned by shutdown()
  done,        \* processes whose _completed event is set
  offset,      \* rp.output_offsets
  sawWatch, sawFinish,   \* what _emit_output_events read, in either thread
  crashes

durable == <<record, identity, log, spans>>
os_vars == <<os, size>>
server == <<phase, todo, shut, crashes>>
volatile == <<spawn, lease, table, watch, finish, drained, done, offset, sawWatch, sawFinish>>
vars == <<durable, os_vars, server, volatile>>

Terminal ==
  {"passed", "failed", "timed_out", "cancelled", "resource_exhausted",
   "interrupted", "lost", "recovery_required"}
Incomplete == {"queued", "running"}

-----------------------------------------------------------------------------
(* The scheduler.                                                          *)

LeaseRequest(p, mode) ==
  [workspace |-> Home[p], key |-> [resource |-> Home[p], mode |-> mode]]

Leased == {p \in Procs : lease[p] # "none"}

Slots == INSTANCE AdmissionControl WITH
  Callers <- Procs, Requests <- {LeaseRequest(p, m) : p \in Procs, m \in {"read", "write"}},
  wanted <- [p \in Procs |-> IF p \in Leased THEN LeaseRequest(p, lease[p]) ELSE NoRequest],
  admitted <- Leased

-----------------------------------------------------------------------------
(* EventStore.transition_process: one transaction, nothing happens to a    *)
(* record that is terminal.                                                *)
Transition(p, status) ==
  IF record[p] \in Terminal THEN UNCHANGED <<record, log>>
  ELSE /\ record' = [record EXCEPT ![p] = status]
       /\ log' = [log EXCEPT ![p] = Append(@, status)]

AppendEvent(p, type) == log' = [log EXCEPT ![p] = Append(@, type)]

Idle == [step |-> "none", status |-> "none"]

(* _RunningProcess.claim_completion: the first caller owns the completion. *)
(* Mutant: it is claimed only when it is over.                             *)
ClaimedWhenDone(p) == p \in done

Claimed(p) == finish[p].step # "none" \/ p \in done

Claim(p, first, status) ==
  /\ ~ Claimed(p)
  /\ finish' = [finish EXCEPT ![p] = [step |-> first, status |-> status]]

Goto(p, step) == finish' = [finish EXCEPT ![p].step = step]

-----------------------------------------------------------------------------

Init ==
  /\ record = [p \in Procs |-> "none"]
  /\ identity = [p \in Procs |-> FALSE]
  /\ log = [p \in Procs |-> <<>>]
  /\ spans = [p \in Procs |-> <<>>]
  /\ os = [p \in Procs |-> "none"]
  /\ size = [p \in Procs |-> 0]
  /\ phase = "serving" /\ todo = {} /\ shut = "no" /\ crashes = 0
  /\ spawn = [p \in Procs |-> "idle"]
  /\ lease = [p \in Procs |-> "none"]
  /\ table = {}
  /\ watch = [p \in Procs |-> "off"]
  /\ finish = [p \in Procs |-> Idle]
  /\ drained = {} /\ done = {}
  /\ offset = [p \in Procs |-> 0]
  /\ sawWatch = [p \in Procs |-> <<0, 0>>]
  /\ sawFinish = [p \in Procs |-> <<0, 0>>]

SpawnGoes(p, from, to) ==
  /\ spawn[p] = from
  /\ spawn' = [spawn EXCEPT ![p] = to]

(* spawn(): insert_process.                                                *)
Insert(p) ==
  /\ phase = "serving" /\ SpawnGoes(p, "idle", "inserted")
  /\ record' = [record EXCEPT ![p] = "queued"]
  /\ UNCHANGED <<identity, log, spans, os_vars, server, lease, table, watch,
                 finish, drained, done, offset, sawWatch, sawFinish>>

(* spawn(): the tool.queued event.                                         *)
Announce(p) ==
  /\ SpawnGoes(p, "inserted", "queued")
  /\ AppendEvent(p, "tool.queued")
  /\ UNCHANGED <<record, identity, spans, os_vars, server, lease, table, watch,
                 finish, drained, done, offset, sawWatch, sawFinish>>

(* _acquire_lease reads _shutting_down before it enters the queue.         *)
JoinQueue(p) ==
  /\ shut = "no" /\ SpawnGoes(p, "queued", "waiting")
  /\ UNCHANGED <<durable, os_vars, server, lease, table, watch, finish, drained,
                 done, offset, sawWatch, sawFinish>>

(* ... and raises, as it does when the queue wait times out: the record    *)
(* ends as failed.                                                         *)
NotAdmitted(p) ==
  /\ \/ shut # "no" /\ SpawnGoes(p, "queued", "over")
     \/ SpawnGoes(p, "waiting", "over")
  /\ Transition(p, "failed")
  /\ UNCHANGED <<identity, spans, os_vars, server, lease, table, watch,
                 finish, drained, done, offset, sawWatch, sawFinish>>

GetLease(p) ==
  /\ SpawnGoes(p, "waiting", "leased")
  /\ Slots!Fits(LeaseRequest(p, Access[p]))
  /\ lease' = [lease EXCEPT ![p] = Access[p]]
  /\ UNCHANGED <<durable, os_vars, server, table, watch, finish, drained,
                 done, offset, sawWatch, sawFinish>>

(* Popen, or ConPTY.                                                       *)
Launch(p) ==
  /\ SpawnGoes(p, "leased", "launched")
  /\ os' = [os EXCEPT ![p] = "alive"]
  /\ UNCHANGED <<durable, size, server, lease, table, watch, finish, drained,
                 done, offset, sawWatch, sawFinish>>

(* The output files or the executable cannot be opened, or the terminal    *)
(* cannot be created: the record ends, then the lease is released.         *)
LaunchFails(p) ==
  /\ SpawnGoes(p, "leased", "refused")
  /\ Transition(p, "failed")
  /\ UNCHANGED <<identity, spans, os_vars, server, lease, table, watch,
                 finish, drained, done, offset, sawWatch, sawFinish>>

(* Mutant: the error path forgets the lease. *)
KeepRefused(p) ==
  /\ SpawnGoes(p, "refused", "over")
  /\ UNCHANGED <<durable, os_vars, server, lease, table, watch, finish, drained,
                 done, offset, sawWatch, sawFinish>>

ReleaseRefused(p) ==
  /\ SpawnGoes(p, "refused", "over")
  /\ lease' = [lease EXCEPT ![p] = "none"]
  /\ UNCHANGED <<durable, os_vars, server, table, watch, finish, drained,
                 done, offset, sawWatch, sawFinish>>

(* EventStore.start_process: running, whatever the record said before.     *)
MarkStarted(p) ==
  /\ SpawnGoes(p, "launched", "started")
  /\ record' = [record EXCEPT ![p] = "running"]
  /\ AppendEvent(p, "tool.started")
  /\ UNCHANGED <<identity, spans, os_vars, server, lease, table, watch,
                 finish, drained, done, offset, sawWatch, sawFinish>>

(* update_process_runtime stores the creation identity, if there is one.   *)
Identify(p) ==
  /\ SpawnGoes(p, "started", "identified")
  /\ \E known \in BOOLEAN : identity' = [identity EXCEPT ![p] = known]
  /\ UNCHANGED <<record, log, spans, os_vars, server, lease, table, watch,
                 finish, drained, done, offset, sawWatch, sawFinish>>

(* The process enters self._running ...                                    *)
Publish(p) ==
  /\ SpawnGoes(p, "identified", "published")
  /\ table' = table \cup {p}
  /\ UNCHANGED <<durable, os_vars, server, lease, watch, finish, drained,
                 done, offset, sawWatch, sawFinish>>

(* ... and spawn() returns with the watchdog running.                      *)
StartWatchdog(p) ==
  /\ SpawnGoes(p, "published", "over")
  /\ watch' = [watch EXCEPT ![p] = "watching"]
  /\ UNCHANGED <<durable, os_vars, server, lease, table, finish, drained,
                 done, offset, sawWatch, sawFinish>>

-----------------------------------------------------------------------------
(* The OS process.                                                         *)

Output(p) ==
  /\ os[p] = "alive" /\ size[p] < MaxOutput
  /\ size' = [size EXCEPT ![p] = @ + 1]
  /\ UNCHANGED <<durable, os, server, volatile>>

Exit(p) ==
  /\ os[p] = "alive"
  /\ \E code \in {"zero", "nonzero"} : os' = [os EXCEPT ![p] = code]
  /\ UNCHANGED <<durable, size, server, volatile>>

Ended(p) == os[p] \in {"zero", "nonzero"}

-----------------------------------------------------------------------------
(* The watchdog.                                                           *)

(* _finalize; the exit code of an adopted process is always -1.            *)
ExitStatus(p) ==
  IF os[p] = "zero" /\ spawn[p] # "adopted" THEN "passed" ELSE "failed"

(* The wait returns because the process ended, or a caller holds the       *)
(* completion already and the thread leaves without it.  Mutant: the last  *)
(* output is not emitted.                                                  *)
WatchExitSilently(p) ==
  /\ watch[p] = "watching" /\ Ended(p)
  /\ watch' = [watch EXCEPT ![p] = "off"]
  /\ IF Claimed(p) THEN UNCHANGED finish ELSE Claim(p, "record", ExitStatus(p))
  /\ UNCHANGED <<durable, os_vars, server, spawn, lease, table, drained, done,
                 offset, sawWatch, sawFinish>>

WatchExit(p) ==
  /\ watch[p] = "watching" /\ Ended(p)
  /\ watch' = [watch EXCEPT ![p] = "off"]
  /\ IF Claimed(p) THEN UNCHANGED finish ELSE Claim(p, "emit", ExitStatus(p))
  /\ UNCHANGED <<durable, os_vars, server, spawn, lease, table, drained, done,
                 offset, sawWatch, sawFinish>>

(* The deadline has passed: _terminate_running.  Mutant: the watchdog      *)
(* leaves without it.                                                      *)
WatchGivesUp(p) ==
  /\ watch[p] = "watching"
  /\ watch' = [watch EXCEPT ![p] = "off"]
  /\ UNCHANGED <<durable, os_vars, server, spawn, lease, table, finish, drained, done,
                 offset, sawWatch, sawFinish>>

WatchTimeout(p) ==
  /\ watch[p] = "watching"
  /\ watch' = [watch EXCEPT ![p] = "off"]
  /\ IF Claimed(p) THEN UNCHANGED finish ELSE Claim(p, "kill", "timed_out")
  /\ UNCHANGED <<durable, os_vars, server, spawn, lease, table, drained, done,
                 offset, sawWatch, sawFinish>>

(* The wait slice is over and the process did not end in it.               *)
WatchSlice(p) ==
  /\ watch[p] = "watching" /\ os[p] = "alive"
  /\ watch' = [watch EXCEPT ![p] = "sampling"]
  /\ UNCHANGED <<durable, os_vars, server, spawn, lease, table, finish, drained,
                 done, offset, sawWatch, sawFinish>>

(* _emit_output_events reads its last offset and the size of the file ...  *)
WatchRead(p) ==
  /\ watch[p] = "sampling"
  /\ watch' = [watch EXCEPT ![p] = "emitting"]
  /\ sawWatch' = [sawWatch EXCEPT ![p] = <<offset[p], size[p]>>]
  /\ UNCHANGED <<durable, os_vars, server, spawn, lease, table, finish, drained,
                 done, offset, sawFinish>>

(* ... then appends the event and stores the offset.                       *)
Emit(p, saw) ==
  IF saw[1] = saw[2] THEN UNCHANGED <<log, spans, offset>>
  ELSE /\ AppendEvent(p, "process.output")
       /\ spans' = [spans EXCEPT ![p] = Append(@, saw)]
       /\ offset' = [offset EXCEPT ![p] = saw[2]]

WatchEmit(p) ==
  /\ watch[p] = "emitting"
  /\ watch' = [watch EXCEPT ![p] = "sampled"]
  /\ Emit(p, sawWatch[p])
  /\ UNCHANGED <<record, identity, os_vars, server, spawn, lease, table, finish,
                 drained, done, sawWatch, sawFinish>>

(* No ceiling is exceeded: the loop goes on.                               *)
WatchAgain(p) ==
  /\ watch[p] = "sampled"
  /\ watch' = [watch EXCEPT ![p] = "watching"]
  /\ UNCHANGED <<durable, os_vars, server, spawn, lease, table, finish, drained,
                 done, offset, sawWatch, sawFinish>>

(* An output or disk ceiling is exceeded: _terminate_running.              *)
WatchViolation(p) ==
  /\ watch[p] = "sampled"
  /\ watch' = [watch EXCEPT ![p] = "off"]
  /\ IF Claimed(p) THEN UNCHANGED finish ELSE Claim(p, "kill", "resource_exhausted")
  /\ UNCHANGED <<durable, os_vars, server, spawn, lease, table, drained, done,
                 offset, sawWatch, sawFinish>>

-----------------------------------------------------------------------------
(* Clients.                                                                *)

(* get_result: _check_exit finalizes a process that has ended.             *)
CheckExit(p) ==
  /\ p \in table /\ Ended(p)
  /\ Claim(p, "emit", ExitStatus(p))
  /\ UNCHANGED <<durable, os_vars, server, spawn, lease, table, watch, drained,
                 done, offset, sawWatch, sawFinish>>

Cancel(p) ==
  /\ p \in table
  /\ Claim(p, "kill", "cancelled")
  /\ UNCHANGED <<durable, os_vars, server, spawn, lease, table, watch, drained,
                 done, offset, sawWatch, sawFinish>>

(* shutdown() claims every completion that nobody owns, under the lock of  *)
(* the table.                                                              *)
BeginShutdown ==
  /\ phase = "serving" /\ shut = "no"
  /\ drained' = {p \in table : ~ Claimed(p)}
  /\ shut' = "draining"
  /\ finish' = [p \in Procs |->
                  IF p \in drained' THEN [step |-> "kill", status |-> "interrupted"]
                  ELSE finish[p]]
  /\ UNCHANGED <<durable, os_vars, phase, todo, crashes, spawn, lease, table,
                 watch, done, offset, sawWatch, sawFinish>>

(* ... it interrupts and kills all of them first, then completes them one  *)
(* after the other.                                                        *)
MayComplete(p) ==
  p \in drained =>
    \A q \in drained \ {p} : finish[q].step \in {"none", "emit"}

EndShutdown ==
  /\ shut = "draining"
  /\ \A p \in drained : finish[p].step = "none"
  /\ shut' = "done"
  /\ UNCHANGED <<durable, os_vars, phase, todo, crashes, volatile>>

-----------------------------------------------------------------------------
(* The owner of the completion, in any of these threads.                   *)

(* _kill_tree, then terminate(); both may fail.                            *)
FinishKill(p) ==
  /\ finish[p].step = "kill" /\ Goto(p, "emit")
  /\ os' \in {os, [os EXCEPT ![p] = IF @ = "alive" THEN "nonzero" ELSE @]}
  /\ UNCHANGED <<durable, size, server, spawn, lease, table, watch, drained,
                 done, offset, sawWatch, sawFinish>>

FinishRead(p) ==
  /\ finish[p].step = "emit" /\ MayComplete(p) /\ Goto(p, "emitting")
  /\ sawFinish' = [sawFinish EXCEPT ![p] = <<offset[p], size[p]>>]
  /\ UNCHANGED <<durable, os_vars, server, spawn, lease, table, watch, drained,
                 done, offset, sawWatch>>

FinishEmit(p) ==
  /\ finish[p].step = "emitting" /\ Goto(p, "record")
  /\ Emit(p, sawFinish[p])
  /\ UNCHANGED <<record, identity, os_vars, server, spawn, lease, table, watch,
                 drained, done, sawWatch, sawFinish>>

(* _transition_record, first part.  Mutant: check.completed comes first.   *)
ReportFirst(p) ==
  /\ finish[p].step = "record" /\ Goto(p, "done")
  /\ record' = [record EXCEPT ![p] = finish[p].status]
  /\ log' = [log EXCEPT ![p] = @ \o <<"check.completed", finish[p].status>>]
  /\ UNCHANGED <<identity, spans, os_vars, server, spawn, lease, table, watch,
                 drained, done, offset, sawWatch, sawFinish>>

FinishRecord(p) ==
  /\ finish[p].step = "record"
  /\ Goto(p, IF p \in Checks THEN "report" ELSE "done")
  /\ Transition(p, finish[p].status)
  /\ UNCHANGED <<identity, spans, os_vars, server, spawn, lease, table, watch,
                 drained, done, offset, sawWatch, sawFinish>>

(* _transition_record appends check.completed in a second transaction.     *)
FinishReport(p) ==
  /\ finish[p].step = "report" /\ Goto(p, "done")
  /\ AppendEvent(p, "check.completed")
  /\ UNCHANGED <<record, identity, spans, os_vars, server, spawn, lease, table,
                 watch, drained, done, offset, sawWatch, sawFinish>>

(* mark_done.                                                              *)
FinishDone(p) ==
  /\ finish[p].step = "done" /\ Goto(p, "pop")
  /\ done' = done \cup {p}
  /\ UNCHANGED <<durable, os_vars, server, spawn, lease, table, watch, drained,
                 offset, sawWatch, sawFinish>>

FinishPop(p) ==
  /\ finish[p].step = "pop" /\ Goto(p, "release")
  /\ table' = table \ {p}
  /\ UNCHANGED <<durable, os_vars, server, spawn, lease, watch, drained, done,
                 offset, sawWatch, sawFinish>>

(* release_slot.                                                           *)
FinishRelease(p) ==
  /\ finish[p].step = "release"
  /\ finish' = [finish EXCEPT ![p] = Idle]
  /\ lease' = [lease EXCEPT ![p] = "none"]
  /\ UNCHANGED <<durable, os_vars, server, spawn, table, watch, drained, done,
                 offset, sawWatch, sawFinish>>

-----------------------------------------------------------------------------
(* The server crashes, or exits after shutdown(); what it keeps in memory  *)
(* is lost.                                                                *)
Crash ==
  /\ phase # "down" /\ crashes < MaxCrashes
  /\ phase' = "down" /\ todo' = {} /\ shut' = "no" /\ crashes' = crashes + 1
  /\ spawn' = [p \in Procs |-> IF spawn[p] = "idle" THEN "idle" ELSE "over"]
  /\ lease' = [p \in Procs |-> "none"]
  /\ table' = {}
  /\ watch' = [p \in Procs |-> "off"]
  /\ finish' = [p \in Procs |-> Idle]
  /\ drained' = {} /\ done' = {}
  /\ offset' = [p \in Procs |-> 0]
  /\ sawWatch' = [p \in Procs |-> <<0, 0>>]
  /\ sawFinish' = [p \in Procs |-> <<0, 0>>]
  /\ UNCHANGED <<durable, os_vars>>

(* list_incomplete_processes.  Mutant: the queued records are forgotten.   *)
RunningOnly == {p \in Procs : record[p] = "running"}

Unfinished == {p \in Procs : record[p] \in Incomplete}

(* create_app calls recover_processes before it serves requests.           *)
Restart ==
  /\ phase = "down"
  /\ phase' = "recovering"
  /\ todo' = Unfinished
  /\ UNCHANGED <<durable, os_vars, shut, crashes, volatile>>

(* What recover_processes may see of a record it does not adopt: a queued  *)
(* record; a live process whose identity was not stored; a process that is *)
(* gone; another process under the same pid.                               *)
Dispositions(p) ==
  IF record[p] = "queued" THEN {"interrupted"}
  ELSE IF os[p] = "alive" THEN (IF identity[p] THEN {} ELSE {"recovery_required"})
  ELSE {"interrupted", IF identity[p] THEN "lost" ELSE "recovery_required"}

RecoverTerminal(p) ==
  /\ phase = "recovering" /\ p \in todo
  /\ \E status \in Dispositions(p) : Transition(p, status)
  /\ todo' = todo \ {p}
  /\ UNCHANGED <<identity, spans, os_vars, phase, shut, crashes, volatile>>

(* A starting supervisor runs recover_processes too, before it starts the  *)
(* server and without a process manager: no event is appended, and a       *)
(* record whose process it could adopt stays as it is.                     *)
SupervisorRecovers(p) ==
  /\ phase = "down" /\ p \in Unfinished
  /\ \E status \in Dispositions(p) : record' = [record EXCEPT ![p] = status]
  /\ UNCHANGED <<identity, log, spans, os_vars, server, volatile>>

(* adopt_recovered_process: same identity, and a lease without waiting.    *)
(* The mode of the process is not on record: a writer's key is asked for.  *)
Adoptable(p) ==
  /\ phase = "recovering" /\ p \in todo
  /\ record[p] = "running" /\ identity[p]

(* Mutant: a reader's key is asked for.                                    *)
AdoptionModeRead(p) == "read"

AdoptionMode(p) == "write"

Adopt(p) ==
  /\ Adoptable(p) /\ os[p] = "alive"
  /\ Slots!Fits(LeaseRequest(p, AdoptionMode(p)))
  /\ todo' = todo \ {p}
  /\ lease' = [lease EXCEPT ![p] = AdoptionMode(p)]
  /\ table' = table \cup {p}
  /\ spawn' = [spawn EXCEPT ![p] = "adopted"]
  /\ watch' = [watch EXCEPT ![p] = "watching"]
  /\ offset' = [offset EXCEPT ![p] = size[p]]
  /\ AppendEvent(p, "tool.started")
  /\ UNCHANGED <<record, identity, spans, os_vars, phase, shut, crashes,
                 finish, drained, done, sawWatch, sawFinish>>

(* No lease is free, or the process ended just now.                        *)
AdoptionFails(p) ==
  /\ Adoptable(p)
  /\ Ended(p) \/ ~ Slots!Fits(LeaseRequest(p, AdoptionMode(p)))
  /\ Transition(p, "recovery_required")
  /\ todo' = todo \ {p}
  /\ UNCHANGED <<identity, spans, os_vars, phase, shut, crashes, volatile>>

Serve ==
  /\ phase = "recovering" /\ todo = {}
  /\ phase' = "serving"
  /\ UNCHANGED <<durable, os_vars, todo, shut, crashes, volatile>>

-----------------------------------------------------------------------------

SpawnStep(p) ==
  \/ Announce(p) \/ JoinQueue(p) \/ NotAdmitted(p) \/ GetLease(p)
  \/ Launch(p) \/ LaunchFails(p) \/ ReleaseRefused(p)
  \/ MarkStarted(p) \/ Identify(p) \/ Publish(p) \/ StartWatchdog(p)

SampleStep(p) == WatchSlice(p) \/ WatchRead(p) \/ WatchEmit(p) \/ WatchAgain(p) \/ WatchViolation(p)

FinishStep(p) ==
  \/ FinishKill(p) \/ FinishRead(p) \/ FinishEmit(p) \/ FinishRecord(p)
  \/ FinishReport(p) \/ FinishDone(p) \/ FinishPop(p) \/ FinishRelease(p)

RecoverStep(p) == RecoverTerminal(p) \/ Adopt(p) \/ AdoptionFails(p)

Next ==
  \/ \E p \in Procs :
       \/ Insert(p) \/ SpawnStep(p) \/ Output(p) \/ Exit(p)
       \/ SampleStep(p) \/ WatchExit(p) \/ WatchTimeout(p)
       \/ CheckExit(p) \/ Cancel(p) \/ FinishStep(p) \/ RecoverStep(p)
       \/ SupervisorRecovers(p)
  \/ BeginShutdown \/ EndShutdown
  \/ Crash \/ Restart \/ Serve

Spec == Init /\ [][Next]_vars

(* No thread of a running server stops for ever; the deadline of a watchdog*)
(* passes (it is read at every turn of its loop); the supervisor restarts  *)
(* the server.                                                             *)
Fairness ==
  /\ \A p \in Procs :
       /\ WF_vars(SpawnStep(p)) /\ WF_vars(SampleStep(p)) /\ WF_vars(WatchExit(p))
       /\ SF_vars(WatchTimeout(p)) /\ WF_vars(FinishStep(p)) /\ WF_vars(RecoverStep(p))
  /\ WF_vars(EndShutdown) /\ WF_vars(Restart) /\ WF_vars(Serve)

FairSpec == Spec /\ Fairness

-----------------------------------------------------------------------------

SpawnStates ==
  {"idle", "inserted", "queued", "waiting", "leased", "launched", "started",
   "identified", "published", "refused", "over", "adopted"}
Steps == {"none", "kill", "emit", "emitting", "record", "report", "done", "pop", "release"}
Ranges == (0 .. MaxOutput) \X (0 .. MaxOutput)
EventTypes == Terminal \cup {"tool.queued", "tool.started", "process.output", "check.completed"}

TypeOK ==
  /\ record \in [Procs -> {"none"} \cup Incomplete \cup Terminal]
  /\ identity \in [Procs -> BOOLEAN]
  /\ log \in [Procs -> Seq(EventTypes)] /\ spans \in [Procs -> Seq(Ranges)]
  /\ os \in [Procs -> {"none", "alive", "zero", "nonzero"}]
  /\ size \in [Procs -> 0 .. MaxOutput] /\ offset \in [Procs -> 0 .. MaxOutput]
  /\ phase \in {"down", "recovering", "serving"} /\ todo \subseteq Procs
  /\ shut \in {"no", "draining", "done"} /\ crashes \in 0 .. MaxCrashes
  /\ spawn \in [Procs -> SpawnStates]
  /\ lease \in [Procs -> {"none", "read", "write"}]
  /\ table \subseteq Procs /\ drained \subseteq Procs /\ done \subseteq Procs
  /\ watch \in [Procs -> {"off", "watching", "sampling", "emitting", "sampled"}]
  /\ finish \in [Procs -> [step : Steps, status : {"none"} \cup Terminal]]
  /\ sawWatch \in [Procs -> Ranges] /\ sawFinish \in [Procs -> Ranges]

(* wait_for_terminal returns when _completed is set and reads the record   *)
(* then: it is terminal, whichever thread finished the process.            *)
WaitersSeeTerminal == \A p \in done : record[p] \in Terminal

(* The record and the event log tell the same story whatever finishes the  *)
(* process (exit, deadline, ceiling, cancel, shutdown, recovery) and       *)
(* wherever the server crashed, also to those who wait for the end: at     *)
(* most one process.exited, and only with the status of a terminal record; *)
(* no start after it, no check.completed before it.                        *)
LogMatchesRecord ==
  TypeOK /\ WaitersSeeTerminal /\ \A p \in Procs :
    /\ \A i \in DOMAIN log[p] : log[p][i] \in Terminal =>
         /\ log[p][i] = record[p]
         /\ \A j \in DOMAIN log[p] :
              i < j => log[p][j] \in {"process.output", "check.completed"}
    /\ \A j \in DOMAIN log[p] :
         log[p][j] = "check.completed" => \E i \in 1 .. j : log[p][i] \in Terminal

InSpawn == {"inserted", "queued", "waiting", "leased", "launched", "started",
            "identified", "published", "refused"}

(* A record that is not terminal always has somebody who will end it: the  *)
(* call of spawn(), the watchdog, or the owner of the completion; after a  *)
(* restart none is left over.                                              *)
NobodyForgotten ==
  phase = "serving" =>
    \A p \in Procs : record[p] \in Incomplete =>
      \/ spawn[p] \in InSpawn
      \/ p \in table /\ (watch[p] # "off" \/ finish[p].step # "none")

(* Every lease has an owner that will release it, and every process in the *)
(* running table holds one, over all error paths and races of completions. *)
LeasesAccounted ==
  Leased = table
           \cup {p \in Procs : spawn[p] \in InSpawn \ {"inserted", "queued", "waiting"}
                                /\ p \notin done}
           \cup {p \in Procs : finish[p].step = "release"}

(* The live processes the server manages, adopted ones included, respect   *)
(* the quotas, and a tool that writes never shares its workspace.          *)
Managed ==
  {p \in Procs : /\ os[p] = "alive"
                 /\ p \in table \/ spawn[p] \in {"launched", "started", "identified"}}

ManagedAreAdmitted ==
  /\ Cardinality(Managed) <= GlobalLimit
  /\ \A w \in Workspaces : Cardinality({p \in Managed : Home[p] = w}) <= PerWorkspaceLimit
  /\ \A p, q \in Managed :
       p # q /\ Home[p] = Home[q] => Access[p] = "read" /\ Access[q] = "read"

(* A process that lives on although the server does not manage it (the     *)
(* kill failed, or it survived a crash and was not adopted) is never on    *)
(* record as ended by itself or lost.                                      *)
OrphansAreReported ==
  phase = "serving" =>
    \A p \in Procs : os[p] = "alive" /\ p \notin Managed =>
      record[p] \in {"interrupted", "recovery_required", "cancelled", "timed_out",
                     "resource_exhausted"}

(* Neither the end of a process nor one that never ends is forgotten.      *)
NobodyIsLost == NobodyForgotten /\ OrphansAreReported

(* When a process that was never adopted has ended by itself, every byte   *)
(* it wrote is in the range of a process.output event, although two        *)
(* threads may emit at the same time and then overlap.                     *)
Adopted(p) ==
  \E i, j \in DOMAIN log[p] : i < j /\ log[p][i] = "tool.started" /\ log[p][j] = "tool.started"

OutputIsAnnounced ==
  \A p \in Procs : record[p] \in {"passed", "failed"} /\ ~ Adopted(p) =>
    \A n \in 0 .. size[p] - 1 :
      \E i \in DOMAIN spans[p] : spans[p][i][1] <= n /\ n < spans[p][i][2]

(* A client sees nothing of threads, races, crashes and recovery: the      *)
(* record and the log change as ProcessRecord allows.  A record never      *)
(* leaves a terminal status, also not through the late start of a process, *)
(* and the result of a check is announced once.                            *)
Recorded == INSTANCE ProcessRecord

ImplementsRecord == Recorded!Spec

(* Every accepted process reaches a terminal record, through crashes and   *)
(* restarts of the server, even if it never ends by itself.                *)
EventuallyTerminal ==
  \A p \in Procs : record[p] \in Incomplete ~> record[p] \in Terminal
=============================================================================
