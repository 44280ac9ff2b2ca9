--------------------------- MODULE Results_proofs ---------------------------
(***************************************************************************)
(* Proofs about what a client is shown of the results of its work.         *)
(*                                                                         *)
(* Acceptance: no client replaces a plan that its revision does not name,  *)
(* and a report that says acceptance_ready is right, for any clients,      *)
(* steps, runs and checks.  Artifacts: one artifact for each path and      *)
(* content, and nothing served with another content, for any files,        *)
(* threads and writes.                                                     *)
(***************************************************************************)
EXTENDS Acceptance, Artifacts, TLAPS

(* Acceptance.                                                             *)

States == {"none", "asked", "queued", "running", "passed", "failed"}

Reports ==
  [at : {"none", "list", "read", "judge", "done"}, diff : {"", "clean", "bad"},
   rows : SUBSET Runs, latest : UNION {[C -> Runs] : C \in SUBSET Checks},
   got : UNION {[R -> States] : R \in SUBSET Runs}, main : {"", "same", "changed"},
   ready : BOOLEAN, alive : SUBSET Runs]

(* Views are never newer than the plan.                                    *)
PlanInv ==
  /\ plan \in PlanRecords \cup {NoPlan}
  /\ view \in [Clients -> PlanRecords \cup {NoPlan}]
  /\ unseen \subseteq Clients
  /\ \A c \in Clients : view[c] # NoPlan => plan # NoPlan /\ view[c].revision <= plan.revision
  /\ RevisionNamesContent
  /\ plan # NoPlan => AtMostOneInProgress(plan.steps)

WorkInv ==
  /\ run \in [Runs -> States] /\ started \in Seq(Runs)
  /\ \A r \in Runs : HasStarted(r) => r \in Recorded
  /\ tree \in {"clean", "bad"} /\ main \in {"same", "changed"}

(* The report knows every process that ran since it began, and with it     *)
(* whoever may have changed files since git diff --check.                  *)
AliveInv ==
  report.at # "none" =>
    /\ \A r \in Runs : run[r] = "running" => r \in report.alive
    /\ report.diff = "clean" /\ tree = "bad" => report.alive # {}

(* An end that was read is still true.                                     *)
ReadInv ==
  /\ report.rows \subseteq Recorded
  /\ \A r \in DOMAIN report.got : report.got[r] \notin Active =>
       report.got[r] \in {"passed", "failed"} /\ run[r] = report.got[r]
  /\ report.at \in {"judge", "done"} => DOMAIN report.got = report.rows

(* A run of a check that is newer than the one in the report was started   *)
(* since.                                                                  *)
LatestInv ==
  \A c \in DOMAIN report.latest :
    /\ report.latest[c] \in report.rows /\ CheckOf[report.latest[c]] = c
    /\ \A q \in Runs : CheckOf[q] = c /\ Newer(q, report.latest[c]) => q \in report.alive

JudgeInv ==
  report.at = "done" /\ report.ready =>
    NoneActive /\ ChecksPassed /\ PlanComplete /\ report.diff = "clean"

ReportInv == report \in Reports /\ AliveInv /\ ReadInv /\ LatestInv /\ JudgeInv

IInv == PlanInv /\ WorkInv /\ ReportInv

-----------------------------------------------------------------------------
(* The plan.                                                               *)
LEMMA PlansTyped ==
  ASSUME NEW steps \in Plans
  PROVE  steps \in UNION {[S -> StepEntries] : S \in SUBSET Steps}
<1>1. PICK S \in SUBSET Steps : steps \in [S -> UNION {Offered[s] : s \in S}]
  BY DEF Plans
<1>2. \A s \in S : steps[s] \in StepEntries
  BY <1>1, AcceptanceAssumption DEF Plans
<1>3. steps \in [S -> StepEntries]
  BY <1>1, <1>2
<1> QED BY <1>3

LEMMA GetPlanInv ==
  ASSUME PlanInv, NEW c \in Clients, GetPlan(c)
  PROVE  PlanInv'
<1>1. plan' = plan /\ view' = [view EXCEPT ![c] = plan] /\ unseen' = unseen \ {c}
  BY DEF GetPlan, Told
<1>2. RevisionNamesContent'
  BY <1>1 DEF PlanInv, RevisionNamesContent
<1>3. \A d \in Clients : view'[d] # NoPlan => plan' # NoPlan /\ view'[d].revision <= plan'.revision
  BY <1>1 DEF PlanInv, PlanRecords
<1>4. plan' # NoPlan => AtMostOneInProgress(plan'.steps)
  BY <1>1 DEF PlanInv
<1> QED BY <1>1, <1>2, <1>3, <1>4 DEF PlanInv

(* A plan with a new revision: only the client that made it may have it.   *)
LEMMA NewRevision ==
  ASSUME PlanInv, NEW c \in Clients, NEW p \in PlanRecords, plan' = p,
         plan # NoPlan => p.revision = plan.revision + 1,
         AtMostOneInProgress(p.steps),
         \/ view' = [view EXCEPT ![c] = plan'] /\ unseen' = unseen \ {c}
         \/ view' = view /\ unseen' = unseen
  PROVE  PlanInv'
<1>1. p # NoPlan
  BY AcceptanceAssumption
<1>2. \A d \in Clients : view'[d] = p \/ view'[d] = view[d]
  BY DEF PlanInv
<1>3. view' \in [Clients -> PlanRecords \cup {NoPlan}] /\ unseen' \subseteq Clients
  BY DEF PlanInv
<1>4. ASSUME NEW d \in Clients, view'[d] # NoPlan
      PROVE  view'[d].revision <= p.revision /\ (view'[d].revision = p.revision => view'[d] = p)
  <2>1. CASE view'[d] = p
    BY <2>1 DEF PlanRecords
  <2>2. CASE view'[d] = view[d]
    <3>1. plan # NoPlan /\ view[d].revision <= plan.revision
      BY <1>4, <2>2 DEF PlanInv
    <3>2. view[d] \in PlanRecords /\ plan \in PlanRecords
      BY <1>4, <2>2, <3>1 DEF PlanInv
    <3>3. p.revision = plan.revision + 1
      BY <3>1
    <3> QED BY <2>2, <3>1, <3>2, <3>3 DEF PlanRecords
  <2> QED BY <1>2, <2>1, <2>2
<1>5. RevisionNamesContent'
  BY <1>4 DEF RevisionNamesContent
<1> QED BY <1>1, <1>3, <1>4, <1>5 DEF PlanInv

LEMMA UpdatePlanInv ==
  ASSUME PlanInv, NEW c \in Clients, NEW steps \in Plans, UpdatePlan(c, steps)
  PROVE  PlanInv'
<1>1. /\ AtMostOneInProgress(steps) /\ ReplacePlan(c, steps)
      /\ \/ view' = [view EXCEPT ![c] = plan'] /\ unseen' = unseen \ {c}
         \/ view' = view /\ unseen' = unseen
  BY DEF UpdatePlan, Told, Lost
<1> DEFINE p == [revision |-> IF plan = NoPlan THEN 1 ELSE plan.revision + 1, steps |-> steps]
<1>2. plan' = p /\ (plan # NoPlan => plan.revision < MaxRevision)
  BY <1>1 DEF ReplacePlan, Expected
<1>3. p.revision \in 1 .. MaxRevision
  BY <1>2, AcceptanceAssumption DEF PlanInv, PlanRecords
<1>4. p \in PlanRecords
  BY <1>3, PlansTyped DEF PlanRecords
<1>5. plan # NoPlan => p.revision = plan.revision + 1
  OBVIOUS
<1>6. AtMostOneInProgress(p.steps)
  BY <1>1
<1> HIDE DEF p
<1> QED BY <1>1, <1>2, <1>4, <1>5, <1>6, NewRevision

(* One step changes, and there is still one in progress.                   *)
LEMMA SetStepTyped ==
  ASSUME PlanInv, plan # NoPlan, NEW c \in Clients, NEW s, NEW entry \in StepEntries,
         NEW guarded \in BOOLEAN, SetStep(c, s, entry, guarded)
  PROVE  /\ plan' \in PlanRecords /\ AtMostOneInProgress(plan'.steps)
         /\ plan'.revision = IF guarded THEN plan.revision + 1 ELSE plan.revision
<1>1. plan \in PlanRecords /\ s \in DOMAIN plan.steps /\ AtMostOneInProgress(plan.steps)
  BY DEF PlanInv, SetStep
<1>2. PICK S \in SUBSET Steps : plan.steps \in [S -> StepEntries]
  BY <1>1 DEF PlanRecords
<1> DEFINE steps == [plan.steps EXCEPT ![s] = entry]
           n == IF guarded THEN plan.revision + 1 ELSE plan.revision
<1>3. plan' = [plan EXCEPT !.steps = steps, !.revision = n]
  BY DEF SetStep
<1>4. steps \in [S -> StepEntries]
  BY <1>2
<1>5. n \in 1 .. MaxRevision
  BY <1>1, AcceptanceAssumption DEF SetStep, Expected, PlanRecords
<1>6. AtMostOneInProgress(steps)
  <2> SUFFICES ASSUME NEW t \in S, NEW u \in S, steps[t].status = "in_progress",
                      steps[u].status = "in_progress", t # u
               PROVE  FALSE
    BY <1>4 DEF AtMostOneInProgress
  <2>1. CASE t # s /\ u # s
    BY <1>1, <1>2, <2>1 DEF AtMostOneInProgress
  <2>2. CASE t = s \/ u = s
    BY <1>1, <1>2, <2>2 DEF SetStep, OtherInProgress
  <2> QED BY <2>1, <2>2
<1> HIDE DEF steps, n
<1>7. plan'.steps = steps /\ plan'.revision = n /\ plan' \in PlanRecords
  BY <1>1, <1>3, <1>4, <1>5 DEF PlanRecords
<1> QED BY <1>6, <1>7 DEF n

LEMMA UpdateStepInv ==
  ASSUME PlanInv, NEW c \in Clients, NEW s \in Steps, NEW e \in Offered[s],
         NEW guarded \in BOOLEAN, UpdateStep(c, s, e, guarded)
  PROVE  PlanInv'
<1> DEFINE entry == [e EXCEPT !.evidence = IF @ = {} THEN plan.steps[s].evidence ELSE @]
           missed == IF guarded THEN unseen ELSE {d \in Clients : view[d] # NoPlan}
<1>1. plan # NoPlan /\ s \in DOMAIN plan.steps /\ SetStep(c, s, entry, guarded)
  BY DEF UpdateStep
<1>2. \/ view' = [view EXCEPT ![c] = plan'] /\ unseen' = missed \ {c}
      \/ view' = view /\ unseen' = missed
  BY DEF UpdateStep, Lost
<1>3. e \in StepEntries
  BY AcceptanceAssumption
<1>4. plan.steps[s] \in StepEntries
  BY <1>1 DEF PlanInv, PlanRecords
<1>5. entry \in StepEntries
  BY <1>3, <1>4 DEF StepEntries
<1>6. /\ plan' \in PlanRecords /\ AtMostOneInProgress(plan'.steps)
      /\ plan'.revision = IF guarded THEN plan.revision + 1 ELSE plan.revision
  BY <1>1, <1>5, SetStepTyped
<1> HIDE DEF entry
<1>7. CASE guarded
  BY <1>2, <1>6, <1>7, NewRevision
<1>8. CASE ~ guarded
  <2>1. plan' # NoPlan /\ plan'.revision = plan.revision
    BY <1>6, <1>8, AcceptanceAssumption
  <2>2. missed = {d \in Clients : view[d] # NoPlan}
    BY <1>8
  <2>3. view' \in [Clients -> PlanRecords \cup {NoPlan}] /\ unseen' \subseteq Clients
    BY <1>2, <1>6, <2>2 DEF PlanInv
  <2>4. \A d \in Clients : view'[d] # NoPlan => view'[d].revision <= plan'.revision
    BY <1>2, <1>6, <2>1 DEF PlanInv, PlanRecords
  <2>5. RevisionNamesContent'
    BY <1>2, <2>2 DEF PlanInv, RevisionNamesContent
  <2> QED BY <1>6, <2>1, <2>3, <2>4, <2>5 DEF PlanInv
<1> QED BY <1>7, <1>8

LEMMA NoReportOK ==
  /\ NoReport \in Reports /\ NoReport.at = "none" /\ NoReport.rows = {}
  /\ DOMAIN NoReport.latest = {} /\ DOMAIN NoReport.got = {}
<1>1. [c \in {} |-> NoRun] \in [{} -> Runs] /\ [r \in {} |-> ""] \in [{} -> States]
  OBVIOUS
<1>2. {} \in SUBSET Checks /\ {} \in SUBSET Runs
  OBVIOUS
<1> QED BY <1>1, <1>2 DEF NoReport, Reports

(* The event loop makes no report while a plan tool runs.                  *)
LEMMA ToolsKeepReport ==
  ASSUME WorkInv, ReportInv, LoopFree, UNCHANGED <<working, main, report>>
  PROVE  WorkInv' /\ ReportInv'
<1>1. report'.at # "done"
  BY DEF LoopFree, NoReport
<1>2. WorkInv' /\ AliveInv' /\ ReadInv' /\ LatestInv'
  BY DEF WorkInv, ReportInv, AliveInv, ReadInv, LatestInv, working, HasStarted, Recorded, Newer
<1> QED BY <1>1, <1>2 DEF ReportInv, JudgeInv

-----------------------------------------------------------------------------
(* The processes.  What was passed stays passed, and with it the plan.     *)
LEMMA PlanStaysComplete ==
  ASSUME PlanInv, WorkInv, PlanComplete, UNCHANGED planning,
         \A r \in Runs : run[r] = "passed" => run'[r] = "passed"
  PROVE  PlanComplete'
<1>1. plan \in PlanRecords /\ plan # NoPlan /\ plan' = plan
  BY DEF PlanComplete, PlanInv, planning
<1>2. ASSUME NEW s \in DOMAIN plan.steps, NEW i \in plan.steps[s].evidence, Passed(i)
      PROVE  Passed(i)'
  <2>1. i \in Items
    BY <1>1 DEF PlanRecords, StepEntries
  <2>2. i.type = "process_id" => i.id \in Runs
    BY <2>1, AcceptanceAssumption
  <2> QED BY <1>2, <2>2 DEF Passed
<1> QED BY <1>1, <1>2 DEF PlanComplete

(* A process that moves on: one that has ended does not.                   *)
LEMMA MoveInv ==
  ASSUME IInv, NEW r \in Runs, NEW from \in States, NEW to \in States, Move(r, from, to),
         <<from, to>> \in {<<"none", "asked">>, <<"asked", "queued">>, <<"queued", "failed">>,
                           <<"running", "passed">>, <<"running", "failed">>},
         UNCHANGED <<planning, started, tree, main, report>>
  PROVE  IInv'
<1>1. PlanInv'
  BY DEF IInv, PlanInv, planning, RevisionNamesContent
<1>2. /\ run' \in [Runs -> States]
      /\ \A q \in Runs : run'[q] = IF q = r THEN to ELSE run[q]
      /\ run[r] = from
  BY DEF IInv, WorkInv, Move
<1>3. \A q \in Runs : run[q] \in {"passed", "failed"} => run'[q] = run[q]
  BY <1>2
<1>4. Recorded \subseteq Recorded'
  BY <1>2 DEF Recorded
<1>5. WorkInv'
  BY <1>2, <1>4 DEF IInv, WorkInv, HasStarted
<1>6. AliveInv'
  BY <1>2 DEF IInv, ReportInv, AliveInv
<1>7. ReadInv'
  <2>1. \A q \in DOMAIN report.got : q \in Runs
    BY DEF IInv, ReportInv, Reports
  <2> QED BY <1>3, <1>4, <2>1 DEF IInv, ReportInv, ReadInv
<1>8. LatestInv'
  BY DEF IInv, ReportInv, LatestInv, Newer
<1>9. JudgeInv'
  <2>1. PlanComplete => PlanComplete'
    BY <1>3, PlanStaysComplete DEF IInv
  <2> QED BY <2>1 DEF IInv, ReportInv, JudgeInv, NoneActive, ChecksPassed
<1> QED BY <1>1, <1>5, <1>6, <1>7, <1>8, <1>9 DEF IInv, ReportInv

LEMMA AskInv == ASSUME IInv, NEW r \in Runs, Ask(r) PROVE IInv'
BY MoveInv DEF Ask, States

LEMMA RecordInv == ASSUME IInv, NEW r \in Runs, Record(r) PROVE IInv'
BY MoveInv DEF Record, States

LEMMA EndRunInv == ASSUME IInv, NEW r \in Runs, EndRun(r) PROVE IInv'
<1>1. CASE Move(r, "running", "passed")
  BY <1>1, MoveInv DEF EndRun, States
<1>2. CASE run[r] = "running" /\ Move(r, run[r], "failed")
  BY <1>2, MoveInv DEF EndRun, States
<1>3. CASE run[r] = "queued" /\ Move(r, run[r], "failed")
  BY <1>3, MoveInv DEF EndRun, States
<1> QED BY <1>1, <1>2, <1>3 DEF EndRun, Active

(* A process that starts while a report is made is one the report knows,   *)
(* and only such a one is newer than the runs in the report.               *)
LEMMA StartInv == ASSUME IInv, NEW r \in Runs, Start(r) PROVE IInv'
<1>1. /\ run[r] = "queued" /\ run' = [run EXCEPT ![r] = "running"]
      /\ started' = Append(started, r)
      /\ report' = IF LoopFree THEN report ELSE [report EXCEPT !.alive = @ \cup {r}]
      /\ UNCHANGED <<planning, tree, main>>
  BY DEF Start, Move
<1>2. PlanInv'
  BY <1>1 DEF IInv, PlanInv, planning, RevisionNamesContent
<1>3. /\ run' \in [Runs -> States]
      /\ \A q \in Runs : run'[q] = IF q = r THEN "running" ELSE run[q]
  BY <1>1 DEF IInv, WorkInv, States
<1>4. \A q \in Runs : run[q] \in {"passed", "failed"} => run'[q] = run[q]
  BY <1>1, <1>3
<1>5. Recorded \subseteq Recorded' /\ r \in Recorded'
  BY <1>1, <1>3 DEF Recorded
<1>6. /\ started \in Seq(Runs) /\ started' \in Seq(Runs) /\ Len(started') = Len(started) + 1
      /\ \A i \in 1 .. Len(started) : started'[i] = started[i]
      /\ started'[Len(started) + 1] = r
  BY <1>1 DEF IInv, WorkInv
<1>7. WorkInv'
  <2>1. \A q \in Runs : HasStarted(q)' => q = r \/ HasStarted(q)
    BY <1>6 DEF HasStarted
  <2> QED BY <1>1, <1>3, <1>5, <1>6, <2>1 DEF IInv, WorkInv
<1>8. /\ report' \in Reports /\ report'.at = report.at /\ report'.rows = report.rows
      /\ report'.got = report.got /\ report'.latest = report.latest
      /\ report'.diff = report.diff /\ report'.ready = report.ready
      /\ report.alive \subseteq report'.alive
      /\ report' # NoReport => r \in report'.alive
  <2>1. report \in Reports
    BY DEF IInv, ReportInv
  <2>2. CASE LoopFree
    BY <1>1, <2>1, <2>2 DEF LoopFree
  <2>3. CASE ~ LoopFree
    BY <1>1, <2>1, <2>3 DEF Reports
  <2> QED BY <2>2, <2>3
<1>9. AliveInv'
  <2>1. report.at # "none" => r \in report'.alive
    BY <1>8, NoReportOK
  <2> QED BY <1>1, <1>3, <1>8, <2>1 DEF IInv, ReportInv, AliveInv
<1>10. ReadInv'
  <2>1. \A q \in DOMAIN report.got : q \in Runs
    BY DEF IInv, ReportInv, Reports
  <2> QED BY <1>4, <1>5, <1>8, <2>1 DEF IInv, ReportInv, ReadInv
<1>11. LatestInv'
  <2>1. CASE report' = NoReport
    BY <2>1 DEF NoReport, LatestInv
  <2>2. CASE report' # NoReport
    <3>1. \A q, x \in Runs : Newer(q, x)' => q = r \/ Newer(q, x)
      <4> SUFFICES ASSUME NEW q \in Runs, NEW x \in Runs, NEW i \in DOMAIN started',
                          NEW j \in DOMAIN started', started'[i] = x, started'[j] = q, i < j,
                          q # r
                   PROVE  Newer(q, x)
        BY DEF Newer
      <4>1. j \in 1 .. Len(started) /\ i \in 1 .. Len(started)
        BY <1>6
      <4> QED BY <1>6, <4>1 DEF Newer
    <3>2. \A c \in DOMAIN report.latest : report.latest[c] \in Runs
      BY DEF IInv, ReportInv, Reports, LatestInv
    <3> QED BY <1>8, <2>2, <3>1, <3>2 DEF IInv, ReportInv, LatestInv
  <2> QED BY <2>1, <2>2
<1>12. JudgeInv'
  <2>1. PlanComplete => PlanComplete'
    BY <1>1, <1>4, PlanStaysComplete DEF IInv
  <2> QED BY <1>8, <2>1 DEF IInv, ReportInv, JudgeInv, NoneActive, ChecksPassed
<1> QED BY <1>2, <1>7, <1>8, <1>9, <1>10, <1>11, <1>12 DEF IInv, ReportInv

LEMMA EditInv == ASSUME IInv, NEW r \in Runs, Edit(r) PROVE IInv'
<1>1. run[r] = "running" /\ tree' \in {"clean", "bad"} /\ UNCHANGED <<planning, run, started, main, report>>
  BY DEF Edit
<1>2. PlanInv' /\ WorkInv'
  BY <1>1 DEF IInv, PlanInv, planning, RevisionNamesContent, WorkInv, HasStarted, Recorded
<1>3. AliveInv'
  BY <1>1 DEF IInv, ReportInv, AliveInv
<1>4. ReadInv' /\ LatestInv'
  BY <1>1 DEF IInv, ReportInv, ReadInv, LatestInv, Recorded, Newer
<1>5. JudgeInv'
  <2>1. PlanComplete => PlanComplete'
    BY <1>1, PlanStaysComplete DEF IInv
  <2> QED BY <1>1, <2>1 DEF IInv, ReportInv, JudgeInv, NoneActive, ChecksPassed
<1> QED BY <1>1, <1>2, <1>3, <1>4, <1>5 DEF IInv, ReportInv

LEMMA MainInv == ASSUME IInv, MainMoves PROVE IInv'
<1>1. main' \in {"same", "changed"} /\ UNCHANGED <<planning, working, report>>
  BY DEF MainMoves
<1>2. PlanInv' /\ WorkInv'
  BY <1>1 DEF IInv, PlanInv, planning, working, RevisionNamesContent, WorkInv, HasStarted, Recorded
<1>3. AliveInv' /\ ReadInv' /\ LatestInv'
  BY <1>1 DEF IInv, ReportInv, AliveInv, ReadInv, LatestInv, working, Recorded, Newer
<1>4. JudgeInv'
  <2>1. PlanComplete => PlanComplete'
    BY <1>1, PlanStaysComplete DEF IInv, working
  <2> QED BY <1>1, <2>1 DEF IInv, ReportInv, JudgeInv, NoneActive, ChecksPassed
<1> QED BY <1>1, <1>2, <1>3, <1>4 DEF IInv, ReportInv

-----------------------------------------------------------------------------
(* The report.                                                             *)
LEMMA ReportFrame ==
  ASSUME PlanInv, WorkInv, UNCHANGED <<planning, working, main>>
  PROVE  PlanInv' /\ WorkInv'
BY DEF PlanInv, planning, working, RevisionNamesContent, WorkInv, HasStarted, Recorded

LEMMA BeginInv == ASSUME IInv, Begin PROVE IInv'
<1>1. /\ report = NoReport /\ UNCHANGED <<planning, working, main>>
      /\ report' = [report EXCEPT !.at = "list", !.diff = tree,
                      !.alive = {r \in Runs : run[r] = "running"}]
  BY DEF Begin, LoopFree
<1>2. PlanInv' /\ WorkInv'
  BY <1>1, ReportFrame DEF IInv
<1>3. /\ report' \in Reports /\ report'.at = "list" /\ report'.diff = tree /\ report'.rows = {}
      /\ report'.alive = {r \in Runs : run[r] = "running"}
      /\ DOMAIN report'.latest = {} /\ DOMAIN report'.got = {}
  BY <1>1 DEF IInv, WorkInv, ReportInv, Reports, NoReport
<1>4. AliveInv' /\ ReadInv' /\ LatestInv' /\ JudgeInv'
  BY <1>1, <1>3 DEF AliveInv, ReadInv, LatestInv, JudgeInv, working, Recorded
<1> QED BY <1>2, <1>3, <1>4 DEF IInv, ReportInv

(* The run that is listed as the latest of its check has no newer one.     *)
LEMMA LatestIsLatest ==
  ASSUME WorkInv, NEW c, NEW r \in LatestRuns(c)
  PROVE  /\ r \in Recorded /\ CheckOf[r] = c
         /\ \A q \in Runs : CheckOf[q] = c => ~ Newer(q, r)
<1>1. r \in Recorded /\ CheckOf[r] = c
  BY DEF LatestRuns
<1>2. ASSUME NEW q \in Runs, CheckOf[q] = c, Newer(q, r) PROVE FALSE
  <2>1. HasStarted(q) /\ HasStarted(r)
    BY <1>2 DEF Newer, HasStarted
  <2>2. q \in Recorded
    BY <2>1 DEF WorkInv
  <2> QED BY <1>1, <1>2, <2>1, <2>2 DEF LatestRuns
<1> QED BY <1>1, <1>2

LEMMA ListInv == ASSUME IInv, List PROVE IInv'
<1> DEFINE known == {c \in Checks : LatestRuns(c) # {}}
<1>1. PICK latest \in [known -> Recorded] :
        /\ \A c \in known : latest[c] \in LatestRuns(c)
        /\ report' = [report EXCEPT !.at = "read", !.rows = Recorded, !.latest = latest]
  BY DEF List
<1>2. report.at = "list" /\ UNCHANGED <<planning, working, main>>
  BY DEF List, At
<1>3. PlanInv' /\ WorkInv'
  BY <1>2, ReportFrame DEF IInv
<1>4. Recorded \subseteq Runs /\ Recorded' = Recorded
  BY <1>2 DEF Recorded, working
<1>5. latest \in UNION {[C -> Runs] : C \in SUBSET Checks}
  <2>1. latest \in [known -> Runs] /\ known \in SUBSET Checks
    BY <1>4
  <2> HIDE DEF known
  <2> QED BY <2>1
<1>6. /\ report' \in Reports /\ report'.at = "read" /\ report'.rows = Recorded
      /\ report'.latest = latest /\ report'.alive = report.alive /\ report'.diff = report.diff
      /\ report'.got = report.got
  BY <1>1, <1>4, <1>5 DEF IInv, ReportInv, Reports
<1>7. AliveInv'
  BY <1>2, <1>6 DEF IInv, ReportInv, AliveInv, working
<1>8. ReadInv'
  BY <1>2, <1>4, <1>6 DEF IInv, ReportInv, ReadInv, working
<1>9. LatestInv'
  <2>1. DOMAIN latest = known
    OBVIOUS
  <2>2. \A c \in known : /\ latest[c] \in Recorded /\ CheckOf[latest[c]] = c
                         /\ \A q \in Runs : CheckOf[q] = c => ~ Newer(q, latest[c])
    BY <1>1, LatestIsLatest DEF IInv
  <2>3. \A q, x \in Runs : Newer(q, x)' <=> Newer(q, x)
    BY <1>2 DEF Newer, working
  <2> HIDE DEF known
  <2> QED BY <1>4, <1>6, <2>1, <2>2, <2>3 DEF LatestInv
<1>10. JudgeInv'
  BY <1>6 DEF JudgeInv
<1> QED BY <1>3, <1>6, <1>7, <1>8, <1>9, <1>10 DEF IInv, ReportInv

LEMMA ReadStepInv == ASSUME IInv, NEW r \in Runs, Read(r) PROVE IInv'
<1> DEFINE got == [q \in DOMAIN report.got \cup {r} |-> IF q = r THEN run[r] ELSE report.got[q]]
<1>1. /\ report.at = "read" /\ r \in report.rows /\ UNCHANGED <<planning, working, main>>
      /\ report' = [report EXCEPT !.got = got]
  BY DEF Read, At
<1>2. PlanInv' /\ WorkInv'
  BY <1>1, ReportFrame DEF IInv
<1>3. PICK R \in SUBSET Runs : report.got \in [R -> States]
  BY DEF IInv, ReportInv, Reports
<1>4. got \in [R \cup {r} -> States]
  BY <1>3 DEF IInv, WorkInv
<1>5. got \in UNION {[S -> States] : S \in SUBSET Runs}
  <2>1. R \cup {r} \in SUBSET Runs
    OBVIOUS
  <2> HIDE DEF got
  <2> QED BY <1>4, <2>1
<1>6. \A q \in DOMAIN got : got[q] \notin Active =>
        got[q] \in {"passed", "failed"} /\ run[q] = got[q]
  <2>1. run[r] \in {"queued", "running", "passed", "failed"}
    BY <1>1 DEF IInv, WorkInv, ReportInv, ReadInv, Recorded, States
  <2>2. ASSUME NEW q \in R \cup {r}, got[q] \notin Active
        PROVE  got[q] \in {"passed", "failed"} /\ run[q] = got[q]
    <3>1. CASE q = r
      BY <2>1, <2>2, <3>1 DEF Active
    <3>2. CASE q # r
      BY <1>3, <2>2, <3>2 DEF IInv, ReportInv, ReadInv
    <3> QED BY <3>1, <3>2
  <2> QED BY <1>4, <2>2
<1> HIDE DEF got
<1>7. /\ report' \in Reports /\ report'.at = "read" /\ report'.rows = report.rows
      /\ report'.latest = report.latest /\ report'.alive = report.alive
      /\ report'.diff = report.diff /\ report'.got = got
  BY <1>1, <1>5 DEF IInv, ReportInv, Reports
<1>8. AliveInv' /\ ReadInv' /\ LatestInv' /\ JudgeInv'
  BY <1>1, <1>6, <1>7 DEF IInv, ReportInv, AliveInv, ReadInv, LatestInv, JudgeInv, working, Recorded, Newer
<1> QED BY <1>2, <1>7, <1>8 DEF IInv, ReportInv

LEMMA ProjectInv == ASSUME IInv, ProjectStatus PROVE IInv'
<1>1. /\ report.at = "read" /\ DOMAIN report.got = report.rows
      /\ report' = [report EXCEPT !.at = "judge", !.main = main]
      /\ UNCHANGED <<planning, working, main>>
  BY DEF ProjectStatus, At
<1>2. PlanInv' /\ WorkInv'
  BY <1>1, ReportFrame DEF IInv
<1>3. /\ report' \in Reports /\ report'.at = "judge" /\ report'.rows = report.rows
      /\ report'.latest = report.latest /\ report'.alive = report.alive
      /\ report'.diff = report.diff /\ report'.got = report.got
  BY <1>1 DEF IInv, WorkInv, ReportInv, Reports
<1>4. AliveInv' /\ ReadInv' /\ LatestInv' /\ JudgeInv'
  BY <1>1, <1>3 DEF IInv, ReportInv, AliveInv, ReadInv, LatestInv, JudgeInv, working, Recorded, Newer
<1> QED BY <1>2, <1>3, <1>4 DEF IInv, ReportInv

LEMMA JudgeStepInv == ASSUME IInv, Judge PROVE IInv'
<1> DEFINE verdict == NoneActive /\ ChecksPassed /\ PlanComplete /\ report.diff = "clean"
                      /\ report.main = "same"
<1>1. /\ report.at = "judge" /\ UNCHANGED <<planning, working, main>>
      /\ report' = [report EXCEPT !.at = "done", !.ready = verdict]
  BY DEF Judge, At
<1>2. PlanInv' /\ WorkInv'
  BY <1>1, ReportFrame DEF IInv
<1>3. verdict \in BOOLEAN
  OBVIOUS
<1>4. verdict => NoneActive /\ ChecksPassed /\ PlanComplete /\ report.diff = "clean"
  OBVIOUS
<1> HIDE DEF verdict
<1>5. /\ report' \in Reports /\ report'.at = "done" /\ report'.rows = report.rows
      /\ report'.latest = report.latest /\ report'.alive = report.alive
      /\ report'.diff = report.diff /\ report'.got = report.got /\ report'.ready = verdict
  BY <1>1, <1>3 DEF IInv, ReportInv, Reports
<1>6. AliveInv' /\ ReadInv' /\ LatestInv'
  BY <1>1, <1>5 DEF IInv, ReportInv, AliveInv, ReadInv, LatestInv, working, Recorded, Newer
<1>7. JudgeInv'
  <2>1. PlanComplete => PlanComplete'
    BY <1>1, PlanStaysComplete DEF IInv, working
  <2>2. NoneActive => NoneActive'
    BY <1>5 DEF NoneActive
  <2>3. ChecksPassed => ChecksPassed'
    BY <1>5 DEF ChecksPassed
  <2> QED BY <1>4, <1>5, <2>1, <2>2, <2>3 DEF JudgeInv
<1> QED BY <1>2, <1>5, <1>6, <1>7 DEF IInv, ReportInv

LEMMA ReturnInv == ASSUME IInv, Return PROVE IInv'
<1>1. report' = NoReport /\ UNCHANGED <<planning, working, main>>
  BY DEF Return
<1>2. PlanInv' /\ WorkInv'
  BY <1>1, ReportFrame DEF IInv
<1>3. AliveInv' /\ ReadInv' /\ LatestInv' /\ JudgeInv'
  BY <1>1, NoReportOK DEF AliveInv, ReadInv, LatestInv, JudgeInv
<1> QED BY <1>1, <1>2, <1>3, NoReportOK DEF IInv, ReportInv

-----------------------------------------------------------------------------

LEMMA InitInv == Init => IInv
<1> SUFFICES ASSUME Init PROVE IInv
  OBVIOUS
<1>1. PlanInv
  BY DEF Init, PlanInv, RevisionNamesContent
<1>2. WorkInv
  BY DEF Init, WorkInv, States, HasStarted
<1>3. AliveInv /\ ReadInv /\ LatestInv /\ JudgeInv
  BY NoReportOK DEF Init, AliveInv, ReadInv, LatestInv, JudgeInv
<1> QED BY <1>1, <1>2, <1>3, NoReportOK DEF Init, IInv, ReportInv

LEMMA StepInv == IInv /\ [Next]_vars => IInv'
<1> SUFFICES ASSUME IInv, [Next]_vars PROVE IInv'
  OBVIOUS
<1>1. ASSUME NEW c \in Clients, GetPlan(c) PROVE IInv'
  BY <1>1, GetPlanInv, ToolsKeepReport DEF IInv, GetPlan
<1>2. ASSUME NEW c \in Clients, NEW steps \in Plans, UpdatePlan(c, steps) PROVE IInv'
  BY <1>2, UpdatePlanInv, ToolsKeepReport DEF IInv, UpdatePlan
<1>3. ASSUME NEW c \in Clients, NEW s \in Steps, NEW e \in Offered[s], NEW g \in BOOLEAN,
             UpdateStep(c, s, e, g)
      PROVE  IInv'
  BY <1>3, UpdateStepInv, ToolsKeepReport DEF IInv, UpdateStep
<1>4. ASSUME NEW r \in Runs, Ask(r) \/ Record(r) \/ Start(r) \/ EndRun(r) \/ Edit(r) \/ Read(r)
      PROVE  IInv'
  BY <1>4, AskInv, RecordInv, StartInv, EndRunInv, EditInv, ReadStepInv
<1>5. CASE MainMoves \/ Begin \/ List \/ ProjectStatus \/ Judge \/ Return
  BY <1>5, MainInv, BeginInv, ListInv, ProjectInv, JudgeStepInv, ReturnInv
<1>6. CASE UNCHANGED vars
  <2>1. PlanInv' /\ WorkInv'
    BY <1>6, ReportFrame DEF vars, IInv
  <2>2. AliveInv' /\ ReadInv' /\ LatestInv'
    BY <1>6 DEF vars, working, IInv, ReportInv, AliveInv, ReadInv, LatestInv, Recorded, Newer
  <2>3. JudgeInv'
    <3>1. PlanComplete => PlanComplete'
      BY <1>6, PlanStaysComplete DEF vars, working, IInv
    <3> QED BY <1>6, <3>1 DEF vars, IInv, ReportInv, JudgeInv, NoneActive, ChecksPassed
  <2> QED BY <1>6, <2>1, <2>2, <2>3 DEF vars, IInv, ReportInv
<1> QED BY <1>1, <1>2, <1>3, <1>4, <1>5, <1>6 DEF Next

LEMMA InvImpliesPlan == IInv => PlanIsConsistent
BY DEF IInv, PlanInv, WorkInv, States, ReportInv, Reports, PlanIsConsistent, TypeOK

LEMMA InvImpliesReady == IInv => ReadyIsEarned
<1> SUFFICES ASSUME IInv, report.at = "done", report.ready
             PROVE  /\ PlanComplete
                    /\ \A r \in report.rows : run[r] \notin Active
                    /\ \A c \in Required :
                         \E r \in Runs :
                           /\ CheckOf[r] = c /\ run[r] = "passed"
                           /\ \A q \in Runs : CheckOf[q] = c /\ Newer(q, r) => q \in report.alive
                    /\ tree = "bad" => report.alive # {}
  BY DEF ReadyIsEarned, At
<1>1. NoneActive /\ ChecksPassed /\ PlanComplete /\ report.diff = "clean"
  BY DEF IInv, ReportInv, JudgeInv
<1>2. DOMAIN report.got = report.rows
  BY DEF IInv, ReportInv, ReadInv
<1>3. \A r \in report.rows : run[r] = report.got[r] /\ run[r] \in {"passed", "failed"}
  BY <1>1, <1>2 DEF IInv, ReportInv, ReadInv, NoneActive
<1>4. ASSUME NEW c \in Required
      PROVE  /\ report.latest[c] \in Runs /\ CheckOf[report.latest[c]] = c
             /\ run[report.latest[c]] = "passed"
             /\ \A q \in Runs : CheckOf[q] = c /\ Newer(q, report.latest[c]) => q \in report.alive
  <2>1. c \in DOMAIN report.latest /\ report.got[report.latest[c]] = "passed"
    BY <1>1 DEF ChecksPassed
  <2>2. /\ report.latest[c] \in report.rows /\ CheckOf[report.latest[c]] = c
        /\ \A q \in Runs : CheckOf[q] = c /\ Newer(q, report.latest[c]) => q \in report.alive
    BY <2>1 DEF IInv, ReportInv, LatestInv
  <2>3. report.latest[c] \in Runs
    BY <2>2 DEF IInv, ReportInv, Reports
  <2> QED BY <1>3, <2>1, <2>2, <2>3
<1>5. tree = "bad" => report.alive # {}
  BY <1>1 DEF IInv, ReportInv, AliveInv
<1>6. \A r \in report.rows : run[r] \notin Active
  BY <1>3 DEF Active
<1> QED BY <1>1, <1>4, <1>5, <1>6

(* One step of a plan is in progress, and a client whose revision is       *)
(* accepted replaces the plan it saw, but after an update of a step        *)
(* without expected_revision (replace_plan, update_plan_step).             *)
THEOREM PlanStaysConsistent == Spec => []PlanIsConsistent
BY InitInv, StepInv, InvImpliesPlan, PTL DEF Spec

(* What get_workspace_report calls acceptance_ready is complete, tested    *)
(* and quiet, but for the processes that ran while it was made.            *)
THEOREM ReadyStaysEarned == Spec => []ReadyIsEarned
BY InitInv, StepInv, InvImpliesReady, PTL DEF Spec

-----------------------------------------------------------------------------
(* Artifacts.                                                              *)

ScanSteps == {"idle", "look", "hash", "register"}

(* The record of a scanner; one that has something to do has a file.       *)
Scans ==
  [at : ScanSteps, index : 0 .. Len(Files), total : Nat, found : Nat, hash : Contents \cup {NoFile}]

ScanOK(t) ==
  /\ scan[t] \in Scans /\ scan[t].total <= MaxSize
  /\ scan[t].at = "look" => scan[t].index # 0
  /\ scan[t].at # "idle" /\ scan[t].index = 0 => OutputOf[t] # NoFile
  /\ scan[t].at = "register" => scan[t].hash \in Contents

ScansOK == scan \in [Scanners -> Scans] /\ \A t \in Scanners : ScanOK(t)

CopiesOK == copies \in [Paths \X Contents -> 0 .. 1]

(* An image that is being viewed still is what was hashed, or the view     *)
(* knows that it was written.                                              *)
ViewOK ==
  \/ viewing = None
  \/ /\ viewing.row # NoFile
     /\ viewing \in [row : Paths \X Contents, content : {NoFile}, moved : BOOLEAN]
     /\ viewing.moved \/ file[viewing.row[1]] = viewing.row[2]

ServedOK == served # None /\ served.content # served.row[2] => served.moved

ArtifactsIInv ==
  /\ file \in [Paths -> {NoFile} \cup Contents]
  /\ writes \in 0 .. MaxWrites
  /\ CopiesOK /\ ScansOK /\ ViewOK /\ ServedOK

-----------------------------------------------------------------------------

LEMMA LenFiles == Len(Files) \in Nat /\ DOMAIN Files = 1 .. Len(Files)
BY ArtifactsAssumption

(* The file a scanner is about is one of the paths.                        *)
LEMMA PathKnown ==
  ASSUME ArtifactsIInv, NEW t \in Scanners, scan[t].at # "idle"
  PROVE  PathAt(t) \in Paths
<1>1. CASE scan[t].index = 0
  BY <1>1, ArtifactsAssumption DEF ArtifactsIInv, ScansOK, ScanOK, PathAt, Paths
<1>2. CASE scan[t].index # 0
  <2>1. scan[t].index \in DOMAIN Files
    BY <1>2, LenFiles DEF ArtifactsIInv, ScansOK, ScanOK, Scans
  <2> QED BY <1>2, <2>1 DEF PathAt, Paths
<1> QED BY <1>1, <1>2

(* What Onward returns is the record of a scanner that rests or looks at   *)
(* a file.                                                                 *)
LEMMA OnwardOK ==
  ASSUME NEW s \in Scans, s.total <= MaxSize
  PROVE  /\ Onward(s) \in Scans /\ Onward(s).total <= MaxSize
         /\ \/ Onward(s).at = "idle"
            \/ Onward(s).at = "look" /\ Onward(s).index # 0
<1>1. Resting \in Scans /\ Resting.total <= MaxSize /\ Resting.at = "idle"
  BY LenFiles, ArtifactsAssumption DEF Resting, Scans, ScanSteps
<1>2. CASE s.index = Len(Files) \/ s.found >= MaxDiscover
  BY <1>1, <1>2 DEF Onward
<1>3. CASE ~ (s.index = Len(Files) \/ s.found >= MaxDiscover)
  <2>1. Onward(s) = [s EXCEPT !.at = "look", !.index = @ + 1, !.hash = NoFile]
    BY <1>3 DEF Onward
  <2>2. s.index + 1 \in 0 .. Len(Files) /\ s.index + 1 # 0
    BY <1>3, LenFiles DEF Scans
  <2> QED BY <2>1, <2>2 DEF Scans, ScanSteps
<1> QED BY <1>2, <1>3

(* A scanner that is put onward keeps the records of all scanners.         *)
LEMMA PutOK ==
  ASSUME ScansOK, NEW t \in Scanners, NEW s \in Scans, Put(t, s), s.total <= MaxSize,
         s.at = "look" => s.index # 0,
         s.at # "idle" /\ s.index = 0 => OutputOf[t] # NoFile,
         s.at = "register" => s.hash \in Contents
  PROVE  ScansOK'
<1>1. scan' \in [Scanners -> Scans]
  BY DEF Put, ScansOK
<1>2. ASSUME NEW u \in Scanners PROVE ScanOK(u)'
  <2>1. scan'[u] = IF u = t THEN s ELSE scan[u]
    BY DEF Put, ScansOK
  <2>2. ScanOK(u)
    BY DEF ScansOK
  <2> QED BY <2>1, <2>2 DEF ScanOK
<1> QED BY <1>1, <1>2 DEF ScansOK

LEMMA GoesOnward ==
  ASSUME ScansOK, NEW t \in Scanners, NEW s \in Scans, s.total <= MaxSize, Put(t, Onward(s))
  PROVE  ScansOK'
BY OnwardOK, PutOK, Zenon

-----------------------------------------------------------------------------
(* One lemma for each kind of step.                                        *)
LEMMA ArtifactsInitInv == ArtifactsInit => ArtifactsIInv
<1> SUFFICES ASSUME ArtifactsInit PROVE ArtifactsIInv
  OBVIOUS
<1>1. Resting \in Scans /\ Resting.total <= MaxSize /\ Resting.at = "idle"
  BY LenFiles, ArtifactsAssumption DEF Resting, Scans, ScanSteps
<1>2. ScansOK
  BY <1>1 DEF ArtifactsInit, ScansOK, ScanOK
<1>3. CopiesOK
  BY DEF ArtifactsInit, CopiesOK
<1>4. writes \in 0 .. MaxWrites
  BY ArtifactsAssumption DEF ArtifactsInit
<1> QED BY <1>2, <1>3, <1>4 DEF ArtifactsInit, ArtifactsIInv, ViewOK, ServedOK

LEMMA WriteInv ==
  ASSUME ArtifactsIInv, NEW p \in Paths, NEW c \in {NoFile} \cup Contents, Write(p, c)
  PROVE  ArtifactsIInv'
<1>1. file' \in [Paths -> {NoFile} \cup Contents] /\ writes' \in 0 .. MaxWrites
  BY ArtifactsAssumption DEF ArtifactsIInv, Write
<1>2. CopiesOK' /\ ScansOK' /\ ServedOK'
  BY DEF ArtifactsIInv, Write, CopiesOK, ScansOK, ScanOK, ServedOK
<1>3. ViewOK'
  <2>1. CASE viewing = None
    BY <2>1 DEF Write, ViewOK, None
  <2>2. CASE viewing # None /\ viewing.row[1] = p
    <3>1. viewing.row # NoFile /\ viewing.row \in Paths \X Contents
      BY <2>2 DEF ArtifactsIInv, ViewOK
    <3>2. viewing' = [viewing EXCEPT !.moved = TRUE]
      BY <2>2, <3>1 DEF Write
    <3>3. /\ viewing' \in [row : Paths \X Contents, content : {NoFile}, moved : BOOLEAN]
          /\ viewing'.row = viewing.row /\ viewing'.moved
      BY <2>2, <3>2 DEF ArtifactsIInv, ViewOK
    <3> QED BY <3>1, <3>3 DEF ViewOK
  <2>3. CASE viewing # None /\ viewing.row[1] # p
    <3>1. viewing' = viewing /\ viewing.row[1] \in Paths
      BY <2>3 DEF ArtifactsIInv, ViewOK, Write
    <3>2. file'[viewing.row[1]] = file[viewing.row[1]]
      BY <2>3, <3>1 DEF ArtifactsIInv, Write
    <3> QED BY <2>3, <3>1, <3>2 DEF ArtifactsIInv, ViewOK
  <2> QED BY <2>1, <2>2, <2>3
<1> QED BY <1>1, <1>2, <1>3 DEF ArtifactsIInv

LEMMA BeginScanInv ==
  ASSUME ArtifactsIInv, NEW t \in Scanners, BeginScan(t)
  PROVE  ArtifactsIInv'
<1>1. Resting \in Scans /\ Resting.total <= MaxSize
  BY LenFiles, ArtifactsAssumption DEF Resting, Scans, ScanSteps
<1>2. ScansOK'
  <2>1. CASE OutputOf[t] # NoFile /\ file[OutputOf[t]] # NoFile
    <3> DEFINE s == [Resting EXCEPT !.at = "hash"]
    <3>1. s \in Scans /\ s.at = "hash" /\ s.total <= MaxSize
      BY <1>1 DEF Scans, ScanSteps, Resting
    <3>2. Put(t, s)
      BY <2>1 DEF BeginScan
    <3> QED BY <2>1, <3>1, <3>2, PutOK DEF ArtifactsIInv
  <2>2. CASE ~ (OutputOf[t] # NoFile /\ file[OutputOf[t]] # NoFile)
    BY <1>1, <2>2, GoesOnward DEF ArtifactsIInv, BeginScan
  <2> QED BY <2>1, <2>2
<1> QED BY <1>2 DEF ArtifactsIInv, BeginScan, CopiesOK, ViewOK, ServedOK

LEMMA SkipInv ==
  ASSUME ArtifactsIInv, NEW t \in Scanners, Skip(t)
  PROVE  ArtifactsIInv'
<1>1. ScansOK'
  BY GoesOnward DEF ArtifactsIInv, Skip, ScansOK, ScanOK
<1> QED BY <1>1 DEF ArtifactsIInv, Skip, CopiesOK, ViewOK, ServedOK

LEMMA MeasureInv ==
  ASSUME ArtifactsIInv, NEW t \in Scanners, Measure(t)
  PROVE  ArtifactsIInv'
<1> DEFINE c == file[PathAt(t)]
           s == scan[t]
           next == [s EXCEPT !.at = "hash", !.total = @ + Size[c]]
<1>1. s \in Scans /\ s.total <= MaxSize /\ s.index # 0 /\ s.at = "look"
  BY DEF ArtifactsIInv, ScansOK, ScanOK, Measure
<1>2. CASE c = NoFile \/ Size[c] = 0
  <2>1. ScansOK'
    BY <1>1, <1>2, GoesOnward DEF ArtifactsIInv, Measure
  <2> QED BY <2>1 DEF ArtifactsIInv, Measure, CopiesOK, ViewOK, ServedOK
<1>3. CASE ~ (c = NoFile \/ Size[c] = 0) /\ s.total + Size[c] > MaxSize
  <2>1. Resting \in Scans /\ Resting.total <= MaxSize /\ Resting.at = "idle"
    BY LenFiles, ArtifactsAssumption DEF Resting, Scans, ScanSteps
  <2>2. ScansOK'
    BY <1>3, <2>1, PutOK DEF ArtifactsIInv, Measure
  <2> QED BY <2>2 DEF ArtifactsIInv, Measure, CopiesOK, ViewOK, ServedOK
<1>4. CASE ~ (c = NoFile \/ Size[c] = 0) /\ ~ (s.total + Size[c] > MaxSize)
  <2>1. PathAt(t) \in Paths
    BY <1>1, PathKnown
  <2>2. Size[c] \in Nat
    BY <1>4, <2>1, ArtifactsAssumption DEF ArtifactsIInv
  <2>3. next \in Scans /\ next.total <= MaxSize /\ next.at = "hash" /\ next.index # 0
    <3>1. s.total + Size[c] \in Nat /\ s.total + Size[c] <= MaxSize
      BY <1>1, <1>4, <2>2, ArtifactsAssumption DEF Scans
    <3> QED BY <1>1, <3>1 DEF Scans, ScanSteps
  <2>4. Put(t, next)
    BY <1>4 DEF Measure
  <2>5. ScansOK'
    BY <2>3, <2>4, PutOK DEF ArtifactsIInv
  <2> QED BY <2>5 DEF ArtifactsIInv, Measure, CopiesOK, ViewOK, ServedOK
<1> QED BY <1>2, <1>3, <1>4

LEMMA HashInv ==
  ASSUME ArtifactsIInv, NEW t \in Scanners, Hash(t)
  PROVE  ArtifactsIInv'
<1> DEFINE s == scan[t]
           next == [s EXCEPT !.at = "register", !.hash = file[PathAt(t)]]
<1>1. s \in Scans /\ s.total <= MaxSize /\ s.at = "hash"
  BY DEF ArtifactsIInv, ScansOK, ScanOK, Hash
<1>2. CASE file[PathAt(t)] = NoFile
  <2>1. ScansOK'
    BY <1>1, <1>2, GoesOnward DEF ArtifactsIInv, Hash
  <2> QED BY <2>1 DEF ArtifactsIInv, Hash, CopiesOK, ViewOK, ServedOK
<1>3. CASE file[PathAt(t)] # NoFile
  <2>1. file[PathAt(t)] \in Contents
    BY <1>1, <1>3, PathKnown DEF ArtifactsIInv
  <2>2. /\ next \in Scans /\ next.total <= MaxSize /\ next.at = "register"
        /\ next.hash \in Contents /\ next.index = s.index
    BY <1>1, <2>1 DEF Scans, ScanSteps
  <2>3. Put(t, next)
    BY <1>3 DEF Hash
  <2>4. s.index = 0 => OutputOf[t] # NoFile
    BY <1>1 DEF ArtifactsIInv, ScansOK, ScanOK
  <2>5. ScansOK'
    BY <2>2, <2>3, <2>4, PutOK DEF ArtifactsIInv
  <2> QED BY <2>5 DEF ArtifactsIInv, Hash, CopiesOK, ViewOK, ServedOK
<1> QED BY <1>2, <1>3

(* The check under the lock keeps the second artifact out.                 *)
LEMMA RegisterInv ==
  ASSUME ArtifactsIInv, NEW t \in Scanners, Register(t)
  PROVE  ArtifactsIInv'
<1> DEFINE s == scan[t]
           next == [s EXCEPT !.found = IF s.index = 0 THEN @ ELSE @ + 1]
<1>1. s \in Scans /\ s.total <= MaxSize /\ s.hash \in Contents /\ PathAt(t) \in Paths
  BY PathKnown DEF ArtifactsIInv, ScansOK, ScanOK, Register
<1>2. CopiesOK'
  BY <1>1 DEF ArtifactsIInv, CopiesOK, Register, Inserted
<1>3. next \in Scans /\ next.total <= MaxSize
  BY <1>1 DEF Scans
<1>4. ScansOK'
  BY <1>3, GoesOnward DEF ArtifactsIInv, Register
<1> QED BY <1>2, <1>4 DEF ArtifactsIInv, Register, ViewOK, ServedOK

LEMMA ReadArtifactInv ==
  ASSUME ArtifactsIInv, NEW r \in Paths \X Contents, ReadArtifact(r)
  PROVE  ArtifactsIInv'
<1>1. ServedOK'
  BY DEF ReadArtifact, ServedOK
<1> QED BY <1>1 DEF ArtifactsIInv, ReadArtifact, CopiesOK, ScansOK, ScanOK, ViewOK

LEMMA ViewInv ==
  ASSUME ArtifactsIInv, NEW r \in Paths \X Contents, ViewArtifact(r)
  PROVE  ArtifactsIInv'
<1>1. viewing' = [row |-> r, content |-> NoFile, moved |-> FALSE] /\ file'[r[1]] = r[2]
  BY DEF ViewArtifact
<1>2. ViewOK'
  BY <1>1 DEF ViewOK, None
<1> QED BY <1>2 DEF ArtifactsIInv, ViewArtifact, CopiesOK, ScansOK, ScanOK, ServedOK

LEMMA ViewImageInv ==
  ASSUME ArtifactsIInv, ViewImage
  PROVE  ArtifactsIInv'
<1>1. ServedOK'
  <2>1. CASE file[viewing.row[1]] = NoFile
    BY <2>1 DEF ArtifactsIInv, ViewImage, ServedOK
  <2>2. CASE file[viewing.row[1]] # NoFile
    <3>1. viewing \in [row : Paths \X Contents, content : {NoFile}, moved : BOOLEAN]
      BY DEF ArtifactsIInv, ViewOK, ViewImage
    <3>2. /\ served'.row = viewing.row /\ served'.content = file[viewing.row[1]]
          /\ served'.moved = viewing.moved
      BY <2>2, <3>1 DEF ViewImage
    <3>3. viewing.moved \/ file[viewing.row[1]] = viewing.row[2]
      BY DEF ArtifactsIInv, ViewOK, ViewImage
    <3> QED BY <3>2, <3>3 DEF ServedOK
  <2> QED BY <2>1, <2>2
<1>2. ViewOK'
  BY DEF ViewImage, ViewOK
<1> QED BY <1>1, <1>2 DEF ArtifactsIInv, ViewImage, CopiesOK, ScansOK, ScanOK

LEMMA ArtifactsStepInv == ArtifactsIInv /\ [ArtifactsNext]_artifacts_vars => ArtifactsIInv'
<1> SUFFICES ASSUME ArtifactsIInv, [ArtifactsNext]_artifacts_vars PROVE ArtifactsIInv'
  OBVIOUS
<1>1. CASE \E p \in Paths, c \in {NoFile} \cup Contents : Write(p, c)
  BY <1>1, WriteInv
<1>2. CASE \E t \in Scanners : BeginScan(t) \/ Scan(t)
  BY <1>2, BeginScanInv, SkipInv, MeasureInv, HashInv, RegisterInv DEF Scan
<1>3. CASE \E r \in Paths \X Contents : ReadArtifact(r) \/ ViewArtifact(r)
  BY <1>3, ReadArtifactInv, ViewInv
<1>4. CASE ViewImage
  BY <1>4, ViewImageInv
<1>5. CASE UNCHANGED artifacts_vars
  BY <1>5 DEF artifacts_vars, ArtifactsIInv, CopiesOK, ScansOK, ScanOK, ViewOK, ServedOK
<1> QED BY <1>1, <1>2, <1>3, <1>4, <1>5 DEF ArtifactsNext

LEMMA InvImplies == ArtifactsIInv => OneArtifactEach
<1> SUFFICES ASSUME ArtifactsIInv PROVE OneArtifactEach
  OBVIOUS
<1>1. copies \in [Paths \X Contents -> 0 .. 2]
  BY DEF ArtifactsIInv, CopiesOK
<1>2. \A t \in Scanners : scan[t].index \in 0 .. Len(Files) /\ scan[t].total <= MaxSize
  BY DEF ArtifactsIInv, ScansOK, ScanOK, Scans
<1>3. \A r \in Paths \X Contents : copies[r] <= 1
  BY DEF ArtifactsIInv, CopiesOK
<1> QED BY <1>1, <1>2, <1>3 DEF ArtifactsIInv, OneArtifactEach, ArtifactsTypeOK, ServedOK

(* However many threads scan the same files and however they are written   *)
(* meanwhile, register_artifact makes one artifact of a path and content,  *)
(* and read_artifact and view_artifact serve no other content than that of *)
(* the row, but for an image written between the check and the answer.     *)
THEOREM ArtifactsAreUnique == ArtifactsSpec => []OneArtifactEach
BY ArtifactsInitInv, ArtifactsStepInv, InvImplies, PTL DEF ArtifactsSpec
=============================================================================
