----------------------------- MODULE Acceptance -----------------------------
(***************************************************************************)
(* The plan of a workspace, the evidence its steps cite and the report     *)
(* that says whether the work is ready to be accepted: the plan tools      *)
(* (app/tools/plans.py, app/services/workspace_plan.py and the plan        *)
(* transactions of app/storage/database.py) and get_workspace_report       *)
(* (app/tools/reports.py).                                                 *)
(*                                                                         *)
(* These tools run on the event loop, each from its first to its last      *)
(* step; processes are started and ended by threads, and change files,     *)
(* while the report collects what it says.                                 *)
(***************************************************************************)
EXTENDS Integers, FiniteSets, Sequences

CONSTANTS
  Clients, Steps,
  Offered,         \* what clients send for each step: a status and its evidence
  TestSteps,       \* steps whose text _TEST_STEP_RE matches
  Runs,            \* processes of the workspace
  CheckOf,         \* the check a process is a run of, or NoCheck
  Required,        \* checks of the project
  NoCheck, NoPlan, NoRun,
  MaxRevision      \* bound: revisions of the plan

(* A step's evidence names processes and checks.  Pending stands for the   *)
(* statuses blocked and cancelled as well: none of them is completed.      *)
Items == UNION {UNION {e.evidence : e \in Offered[s]} : s \in Steps}
StepEntries == [status : {"pending", "in_progress", "completed"}, evidence : SUBSET Items]
PlanRecords ==
  [revision : 1 .. MaxRevision, steps : UNION {[S -> StepEntries] : S \in SUBSET Steps}]

ASSUME AcceptanceAssumption ==
  /\ TestSteps \subseteq Steps /\ NoCheck \notin Required /\ NoRun \notin Runs
  /\ \A s \in Steps : Offered[s] \subseteq StepEntries
  /\ \A i \in Items : i.type = "process_id" => i.id \in Runs
  /\ NoPlan \notin PlanRecords
  /\ MaxRevision \in Nat \ {0}

VARIABLES
  plan,            \* NoPlan or the revision and the steps
  view,            \* what each client was last told of it
  unseen,          \* clients whose view misses a change that kept the revision (history)
  run,             \* the state of each process
  started,         \* processes by started_at
  tree,            \* what git diff --check says of the worktree
  main,            \* the main repository since the workspace was created
  report           \* what the report has collected

planning == <<plan, view, unseen>>
working == <<run, started, tree>>
vars == <<planning, working, main, report>>

-----------------------------------------------------------------------------

Checks == {CheckOf[r] : r \in Runs} \ {NoCheck}
Active == {"queued", "running"}
Recorded == {r \in Runs : run[r] \notin {"none", "asked"}}

(* What update_plan may be sent.                                           *)
Plans ==
  {steps \in UNION {[S -> UNION {Offered[s] : s \in S}] : S \in SUBSET Steps \ {{}}} :
     \A s \in DOMAIN steps : steps[s] \in Offered[s]}

(* _validate_evidence: a process that is cited exists; a check is not      *)
(* looked for.                                                             *)
Valid(evidence) == \A i \in evidence : i.type = "process_id" => i.id \in Recorded

AtMostOneInProgress(steps) ==
  \A s, t \in DOMAIN steps :
    steps[s].status = "in_progress" /\ steps[t].status = "in_progress" => s = t

NoReport == [at |-> "none", diff |-> "", rows |-> {}, latest |-> [c \in {} |-> NoRun],
             got |-> [r \in {} |-> ""], main |-> "", ready |-> FALSE, alive |-> {}]
LoopFree == report = NoReport

Init ==
  /\ plan = NoPlan /\ view = [c \in Clients |-> NoPlan] /\ unseen = {}
  /\ run = [r \in Runs |-> "none"] /\ started = <<>>
  /\ tree = "clean" /\ main = "same" /\ report = NoReport

-----------------------------------------------------------------------------
(* The answer of a plan tool is the whole plan; it may be lost.            *)
Told(c) == view' = [view EXCEPT ![c] = plan'] /\ unseen' = unseen \ {c}

Lost(c) == UNCHANGED view

GetPlan(c) ==
  /\ LoopFree /\ UNCHANGED plan /\ Told(c)
  /\ UNCHANGED <<working, main, report>>

(* update_plan: replace_plan in one transaction.  A client that knows no   *)
(* plan sends no revision, one that knows a plan that plan's; anything but *)
(* the current one is a conflict.                                          *)
Expected(c) ==
  /\ view[c] # NoPlan /\ view[c].revision = plan.revision
  /\ plan.revision < MaxRevision

ReplacePlan(c, steps) ==
  IF plan = NoPlan
  THEN view[c] = NoPlan /\ plan' = [revision |-> 1, steps |-> steps]
  ELSE Expected(c) /\ plan' = [revision |-> plan.revision + 1, steps |-> steps]

UpdatePlan(c, steps) ==
  /\ LoopFree
  /\ \A s \in DOMAIN steps : Valid(steps[s].evidence)
  /\ AtMostOneInProgress(steps)
  /\ ReplacePlan(c, steps)
  /\ Told(c) \/ (Lost(c) /\ unseen' = unseen)
  /\ UNCHANGED <<working, main, report>>

(* update_step_status: one step, with the evidence that is given or else   *)
(* the old one.  Without expected_revision the revision stays.             *)
SameInProgress(s) == plan.steps[s].status = "in_progress"

OtherInProgress(s) ==
  \E t \in DOMAIN plan.steps \ {s} : plan.steps[t].status = "in_progress"

SetStep(c, s, entry, guarded) ==
  /\ s \in DOMAIN plan.steps
  /\ entry.status = "in_progress" => ~ OtherInProgress(s)
  /\ guarded => Expected(c)
  /\ plan' = [plan EXCEPT !.steps[s] = entry, !.revision = IF guarded THEN @ + 1 ELSE @]

UpdateStep(c, s, entry, guarded) ==
  /\ LoopFree /\ plan # NoPlan /\ s \in DOMAIN plan.steps
  /\ Valid(entry.evidence)
  /\ SetStep(c, s, [entry EXCEPT !.evidence = IF @ = {} THEN plan.steps[s].evidence ELSE @],
             guarded)
  /\ LET missed == IF guarded THEN unseen ELSE {d \in Clients : view[d] # NoPlan}
     IN \/ view' = [view EXCEPT ![c] = plan'] /\ unseen' = missed \ {c}
        \/ Lost(c) /\ unseen' = missed
  /\ UNCHANGED <<working, main, report>>

-----------------------------------------------------------------------------
(* run_pwsh and run_check: the request, in a thread the record, the start, *)
(* the end; a process may end before it starts (no lease, no executable).  *)
Move(r, from, to) == run[r] = from /\ run' = [run EXCEPT ![r] = to]

Ask(r) ==
  /\ LoopFree /\ Move(r, "none", "asked")
  /\ UNCHANGED <<planning, started, tree, main, report>>

Record(r) ==
  /\ Move(r, "asked", "queued")
  /\ UNCHANGED <<planning, started, tree, main, report>>

Start(r) ==
  /\ Move(r, "queued", "running") /\ started' = Append(started, r)
  /\ report' = IF LoopFree THEN report ELSE [report EXCEPT !.alive = @ \cup {r}]
  /\ UNCHANGED <<planning, tree, main>>

EndRun(r) ==
  /\ run[r] \in Active
  /\ \/ run[r] = "running" /\ Move(r, "running", "passed")
     \/ Move(r, run[r], "failed")
  /\ UNCHANGED <<planning, started, tree, main, report>>

Edit(r) ==
  /\ run[r] = "running" /\ tree' \in {"clean", "bad"}
  /\ UNCHANGED <<planning, run, started, main, report>>

MainMoves ==
  /\ main = "same" /\ main' = "changed"
  /\ UNCHANGED <<planning, working, report>>

-----------------------------------------------------------------------------
(* get_workspace_report: git diff --check ...                              *)
At(a) == report.at = a

Begin ==
  /\ LoopFree
  /\ report' = [report EXCEPT !.at = "list", !.diff = tree,
                  !.alive = {r \in Runs : run[r] = "running"}]
  /\ UNCHANGED <<planning, working, main>>

(* ... list_processes, newest first: those that never started come last,   *)
(* by their random ids.  The first run of a check in that order counts.    *)
Newer(q, r) ==
  \E i, j \in DOMAIN started : started[i] = r /\ started[j] = q /\ i < j

HasStarted(r) == \E i \in DOMAIN started : started[i] = r

OldestRuns(c) ==
  {r \in Recorded : CheckOf[r] = c /\ \A q \in Recorded : CheckOf[q] = c => ~ Newer(r, q)}

LatestRuns(c) ==
  LET all == {r \in Recorded : CheckOf[r] = c}
      ran == {r \in all : HasStarted(r)}
  IN IF ran = {} THEN all ELSE {r \in ran : \A q \in ran : ~ Newer(q, r)}

List ==
  /\ At("list")
  /\ LET known == {c \in Checks : LatestRuns(c) # {}}
     IN \E latest \in [known -> Recorded] :
          /\ \A c \in known : latest[c] \in LatestRuns(c)
          /\ report' = [report EXCEPT !.at = "read", !.rows = Recorded, !.latest = latest]
  /\ UNCHANGED <<planning, working, main>>

(* ... then the result of each of them, as it is when its turn comes ...   *)
Read(r) ==
  /\ At("read") /\ r \in report.rows \ DOMAIN report.got
  /\ report' = [report EXCEPT !.got = [q \in DOMAIN @ \cup {r} |->
                                         IF q = r THEN run[r] ELSE @[q]]]
  /\ UNCHANGED <<planning, working, main>>

(* ... the main repository ...                                             *)
ProjectStatus ==
  /\ At("read") /\ DOMAIN report.got = report.rows
  /\ report' = [report EXCEPT !.at = "judge", !.main = main]
  /\ UNCHANGED <<planning, working, main>>

(* ... and the plan, with the evidence of completed test steps.            *)
Passed(item) ==
  IF item.type = "process_id" THEN run[item.id] = "passed"
  ELSE \E r \in Runs : CheckOf[r] = item.id /\ run[r] = "passed"

PlanComplete ==
  /\ plan # NoPlan
  /\ \A s \in DOMAIN plan.steps :
       /\ plan.steps[s].status = "completed"
       /\ s \in TestSteps => \E i \in plan.steps[s].evidence : Passed(i)

NoneActive == \A r \in report.rows : report.got[r] \notin Active

ChecksPassed ==
  /\ Required \subseteq DOMAIN report.latest
  /\ \A c \in DOMAIN report.latest : report.got[report.latest[c]] = "passed"

Judge ==
  /\ At("judge")
  /\ report' = [report EXCEPT !.at = "done",
                  !.ready = /\ NoneActive /\ ChecksPassed /\ PlanComplete
                            /\ report.diff = "clean" /\ report.main = "same"]
  /\ UNCHANGED <<planning, working, main>>

Return ==
  /\ At("done") /\ report' = NoReport
  /\ UNCHANGED <<planning, working, main>>

Next ==
  \/ \E c \in Clients :
       \/ GetPlan(c)
       \/ \E steps \in Plans : UpdatePlan(c, steps)
       \/ \E s \in Steps : \E e \in Offered[s], g \in BOOLEAN : UpdateStep(c, s, e, g)
  \/ \E r \in Runs : Ask(r) \/ Record(r) \/ Start(r) \/ EndRun(r) \/ Edit(r) \/ Read(r)
  \/ MainMoves \/ Begin \/ List \/ ProjectStatus \/ Judge \/ Return

Spec == Init /\ [][Next]_vars

-----------------------------------------------------------------------------

TypeOK ==
  /\ plan \in PlanRecords \cup {NoPlan} /\ view \in [Clients -> PlanRecords \cup {NoPlan}]
  /\ unseen \subseteq Clients
  /\ run \in [Runs -> {"none", "asked", "queued", "running", "passed", "failed"}]
  /\ tree \in {"clean", "bad"} /\ main \in {"same", "changed"}
  /\ report.rows \cup report.alive \subseteq Runs

(* A revision stands for one content of the plan: a client whose revision  *)
(* is accepted replaces the plan that it saw, unless a step was updated    *)
(* without expected_revision meanwhile.                                    *)
RevisionNamesContent ==
  \A c \in Clients \ unseen :
    plan # NoPlan /\ view[c] # NoPlan /\ view[c].revision = plan.revision => view[c] = plan

(* Whatever the clients send in whatever order, one step is in progress,   *)
(* and no client overwrites work that its revision did not show it.        *)
PlanIsConsistent ==
  /\ TypeOK /\ RevisionNamesContent
  /\ plan # NoPlan => AtMostOneInProgress(plan.steps)

(* When a report says acceptance_ready, the plan is complete and its tests *)
(* passed; no process known to the report still goes on; the newest run of *)
(* each required check, but for runs that the report did not see start,    *)
(* has passed; and the files are as git diff --check saw them unless a     *)
(* process ran while the report was made.                                  *)
ReadyIsEarned ==
  At("done") /\ report.ready =>
    /\ PlanComplete
    /\ \A r \in report.rows : run[r] \notin Active
    /\ \A c \in Required :
         \E r \in Runs :
           /\ CheckOf[r] = c /\ run[r] = "passed"
           /\ \A q \in Runs : CheckOf[q] = c /\ Newer(q, r) => q \in report.alive
    /\ tree = "bad" => report.alive # {}
=============================================================================
