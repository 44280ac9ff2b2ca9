----------------------- MODULE ProcessLifecycle_proofs -----------------------
(***************************************************************************)
(* Proofs about ProcessLifecycle, for any processes, quotas and bounds.    *)
(*                                                                         *)
(* Every invariant but the quotas speaks of one process at a time, so the  *)
(* inductive invariant is a state predicate of each process (ProcInv) and  *)
(* a step of one process is shown to leave the others alone (FrameStep).   *)
(* It has three layers: where the threads of a process can be (Control),   *)
(* what its log then holds (LogInv), and which bytes are announced         *)
(* (CoverInv).  SlotsInv is what the scheduler grants.                     *)
(***************************************************************************)
EXTENDS ProcessLifecycle, FiniteSetTheorems, SequenceTheorems, TLAPS

-----------------------------------------------------------------------------
(* The inductive invariant.                                                *)

Before == {"inserted", "queued", "waiting", "leased", "launched"}
Holding == InSpawn \ {"inserted", "queued", "waiting"}
Stopping == {"kill", "emit", "emitting", "record"}
ByItself == {"passed", "failed"}
Forced == {"timed_out", "resource_exhausted", "cancelled", "interrupted"}

(* What spawn() has done so far, by the place it is at. *)
SpawnInv(p) ==
  /\ record[p] = "none" <=> spawn[p] = "idle"
  /\ spawn[p] \in Before => record[p] = "queued"
  /\ spawn[p] \in {"started", "identified"} => record[p] = "running"
  /\ spawn[p] = "refused" => record[p] = "failed"
  /\ spawn[p] \in {"idle", "inserted", "queued", "waiting", "leased", "refused"} => os[p] = "none"
  /\ os[p] = "none" => size[p] = 0
  /\ spawn[p] \in InSpawn => phase = "serving" /\ p \notin todo
  /\ spawn[p] = "idle" \/ spawn[p] \in InSpawn \ {"published"} =>
       p \notin table /\ p \notin done /\ watch[p] = "off" /\ finish[p].step = "none"
  /\ spawn[p] = "published" => watch[p] = "off" /\ (p \in table \/ p \in done)

(* What is left in memory while the server is down, and of a record that   *)
(* recovery has not looked at.                                             *)
DownInv(p) ==
  /\ phase = "down" =>
       /\ spawn[p] \in {"idle", "over"} /\ p \notin todo /\ p \notin table /\ p \notin done
       /\ watch[p] = "off" /\ finish[p].step = "none" /\ lease[p] = "none"
  /\ p \in todo =>
       /\ phase = "recovering" /\ record[p] \in Incomplete /\ spawn[p] = "over"
       /\ p \notin table /\ p \notin done
       /\ watch[p] = "off" /\ finish[p].step = "none" /\ lease[p] = "none"

(* How far the owner of the completion is, and what it has done.           *)
FinishInv(p) ==
  /\ finish[p].step \in Stopping => record[p] = "running" /\ p \in table /\ p \notin done
  /\ finish[p].step \in {"report", "done"} => record[p] \in Terminal /\ p \in table /\ p \notin done
  /\ finish[p].step = "pop" => p \in table /\ p \in done
  /\ finish[p].step = "release" => p \notin table /\ p \in done
  /\ finish[p].step = "none" /\ p \in table => p \notin done /\ record[p] = "running"
  /\ p \in done => record[p] \in Terminal
  /\ p \in table => spawn[p] \in {"published", "over", "adopted"}
  /\ watch[p] # "off" => p \in table \/ p \in done

(* Who holds a lease. *)
LeaseInv(p) ==
  /\ lease[p] # "none" <=>
       p \in table \/ (spawn[p] \in Holding /\ p \notin done) \/ finish[p].step = "release"
  /\ lease[p] = "read" => Access[p] = "read"

(* Who will end a record, and how it ends. *)
EndInv(p) ==
  /\ phase # "down" /\ record[p] \in Incomplete =>
       \/ p \in todo
       \/ spawn[p] \in InSpawn
       \/ p \in table /\ (watch[p] # "off" \/ finish[p].step # "none")
  /\ record[p] \in Terminal /\ os[p] = "alive" => record[p] \in Forced \cup {"recovery_required"}
  /\ finish[p].step = "kill" => finish[p].status \in Forced
  /\ finish[p].step \in Stopping =>
       finish[p].status \in Forced \/ (finish[p].status \in ByItself /\ Ended(p))

Control(p) == SpawnInv(p) /\ DownInv(p) /\ FinishInv(p) /\ LeaseInv(p) /\ EndInv(p)

(* The log of a process whose record is r. *)
HasTerminal(l) == \E i \in DOMAIN l : l[i] \in Terminal
HasStart(l) == \E i \in DOMAIN l : l[i] = "tool.started"
TwoStarts(l) == \E i, j \in DOMAIN l : i < j /\ l[i] = "tool.started" /\ l[j] = "tool.started"

GoodLog(l, r) ==
  /\ \A i \in DOMAIN l : l[i] \in Terminal =>
       /\ l[i] = r
       /\ \A j \in DOMAIN l : i < j => l[j] \in {"process.output", "check.completed"}
  /\ \A j \in DOMAIN l :
       l[j] = "check.completed" => \E i \in 1 .. j : l[i] \in Terminal

LogInv(p) ==
  /\ GoodLog(log[p], record[p])
  /\ record[p] = "running" => HasStart(log[p])
  /\ finish[p].step = "report" => HasTerminal(log[p])
  /\ spawn[p] = "adopted" => TwoStarts(log[p])

(* The first n bytes are in the ranges of s. *)
Covered(s, n) ==
  \A m \in 0 .. n - 1 : \E i \in DOMAIN s : s[i][1] <= m /\ m < s[i][2]

(* What a thread read before it emits is covered already, so that what it  *)
(* stores is.                                                              *)
CoverInv(p) ==
  /\ finish[p].step = "emitting" /\ finish[p].status \in ByItself => sawFinish[p][2] = size[p]
  /\ ~ TwoStarts(log[p]) =>
       /\ Covered(spans[p], offset[p])
       /\ watch[p] = "emitting" => Covered(spans[p], sawWatch[p][1])
       /\ finish[p].step = "emitting" => Covered(spans[p], sawFinish[p][1])
       /\ finish[p].step = "record" /\ finish[p].status \in ByItself => Covered(spans[p], size[p])
       /\ record[p] \in ByItself => Covered(spans[p], size[p])

ProcInv(p) == Control(p) /\ LogInv(p) /\ CoverInv(p)

(* The quotas, and a workspace has one writer or readers only. *)
SlotsInv ==
  /\ IsFiniteSet(Leased)
  /\ Cardinality(Leased) <= GlobalLimit
  /\ \A w \in Workspaces : Cardinality({p \in Leased : Home[p] = w}) <= PerWorkspaceLimit
  /\ \A p, q \in Leased : p # q /\ Home[p] = Home[q] => lease[p] = "read" /\ lease[q] = "read"

IInv == TypeOK /\ SlotsInv /\ \A p \in Procs : ProcInv(p)

-----------------------------------------------------------------------------
(* Steps.                                                                  *)

ProcStep(p) ==
  \/ Insert(p) \/ SpawnStep(p) \/ Output(p) \/ Exit(p)
  \/ SampleStep(p) \/ WatchExit(p) \/ WatchTimeout(p)
  \/ CheckExit(p) \/ Cancel(p) \/ FinishStep(p) \/ RecoverStep(p)
  \/ SupervisorRecovers(p)

LEMMA Logs ==
  ASSUME NEW S, NEW s \in Seq(S), NEW e \in S
  PROVE  /\ Append(s, e) \in Seq(S)
         /\ DOMAIN s = 1 .. Len(s) /\ Len(s) \in Nat
         /\ DOMAIN Append(s, e) = 1 .. Len(s) + 1
         /\ \A i \in 1 .. Len(s) : Append(s, e)[i] = s[i]
         /\ Append(s, e)[Len(s) + 1] = e
BY AppendProperties, LenProperties

LEMMA Appended ==
  ASSUME TypeOK, NEW p \in Procs, NEW e \in EventTypes, AppendEvent(p, e)
  PROVE  log' \in [Procs -> Seq(EventTypes)]
<1>1. Append(log[p], e) \in Seq(EventTypes)
  BY Logs DEF TypeOK
<1> QED
  BY <1>1 DEF TypeOK, AppendEvent

LEMMA Transitions ==
  ASSUME TypeOK, NEW p \in Procs, NEW status \in Terminal, Transition(p, status)
  PROVE  /\ record' \in [Procs -> {"none"} \cup Incomplete \cup Terminal]
         /\ log' \in [Procs -> Seq(EventTypes)]
<1>1. Append(log[p], status) \in Seq(EventTypes)
  BY Logs DEF TypeOK, EventTypes
<1> QED
  BY <1>1 DEF TypeOK, Transition

LEMMA Emitted ==
  ASSUME TypeOK, NEW p \in Procs, NEW saw \in Ranges, Emit(p, saw)
  PROVE  /\ log' \in [Procs -> Seq(EventTypes)]
         /\ spans' \in [Procs -> Seq(Ranges)]
         /\ offset' \in [Procs -> 0 .. MaxOutput]
<1>1. /\ Append(spans[p], saw) \in Seq(Ranges)
      /\ Append(log[p], "process.output") \in Seq(EventTypes)
  BY Logs DEF TypeOK, EventTypes
<1>2. saw[2] \in 0 .. MaxOutput
  BY DEF Ranges
<1>3. CASE saw[1] = saw[2]
  BY <1>3 DEF TypeOK, Emit
<1>4. CASE saw[1] # saw[2]
  <2>1. /\ log' = [log EXCEPT ![p] = Append(@, "process.output")]
        /\ spans' = [spans EXCEPT ![p] = Append(@, saw)]
        /\ offset' = [offset EXCEPT ![p] = saw[2]]
    BY <1>4 DEF Emit, AppendEvent
  <2> QED
    BY <2>1, <1>1, <1>2 DEF TypeOK
<1> QED
  BY <1>3, <1>4

LEMMA Claims ==
  ASSUME TypeOK, NEW p \in Procs, NEW first \in Steps, NEW status \in Terminal,
         UNCHANGED finish \/ Claim(p, first, status)
  PROVE  finish' \in [Procs -> [step : Steps, status : {"none"} \cup Terminal]]
<1>1. [step |-> first, status |-> status] \in [step : Steps, status : {"none"} \cup Terminal]
  OBVIOUS
<1> QED
  BY <1>1 DEF TypeOK, Claim

LEMMA ExitClaims ==
  ASSUME TypeOK, NEW p \in Procs, UNCHANGED finish \/ Claim(p, "emit", ExitStatus(p))
  PROVE  finish' \in [Procs -> [step : Steps, status : {"none"} \cup Terminal]]
<1>1. ExitStatus(p) \in Terminal /\ "emit" \in Steps
  BY DEF ExitStatus, Terminal, Steps
<1> QED
  BY <1>1, Claims

LEMMA Moves ==
  ASSUME TypeOK, NEW p \in Procs, NEW step \in Steps, Goto(p, step)
  PROVE  finish' \in [Procs -> [step : Steps, status : {"none"} \cup Terminal]]
<1>1. [finish[p] EXCEPT !.step = step] \in [step : Steps, status : {"none"} \cup Terminal]
  BY DEF TypeOK
<1> QED
  BY <1>1 DEF TypeOK, Goto

LEMMA TypeStep ==
  ASSUME TypeOK, NEW p \in Procs, EndInv(p), ProcStep(p)
  PROVE  TypeOK'
<1> USE ProcsAssumption
<1> USE DEF TypeOK, durable, os_vars, server, volatile, SpawnGoes, Goto, Claim, Idle, SpawnStates,
            Steps, Terminal, Incomplete, EventTypes
<1>1. CASE Insert(p)
  BY <1>1 DEF Insert
<1>2. CASE Announce(p)
  BY <1>2, Appended DEF Announce
<1>3. CASE JoinQueue(p)
  BY <1>3 DEF JoinQueue
<1>4. CASE NotAdmitted(p)
  BY <1>4, Transitions DEF NotAdmitted
<1>5. CASE GetLease(p)
  BY <1>5 DEF GetLease
<1>6. CASE Launch(p)
  BY <1>6 DEF Launch
<1>7. CASE LaunchFails(p)
  BY <1>7, Transitions DEF LaunchFails
<1>8. CASE ReleaseRefused(p)
  BY <1>8 DEF ReleaseRefused
<1>9. CASE MarkStarted(p)
  BY <1>9, Appended DEF MarkStarted
<1>10. CASE Identify(p)
  <2>1. PICK known \in BOOLEAN : identity' = [identity EXCEPT ![p] = known]
    BY <1>10 DEF Identify
  <2>2. identity' \in [Procs -> BOOLEAN]
    BY <2>1
  <2> QED
    BY <1>10, <2>2 DEF Identify
<1>11. CASE Publish(p)
  BY <1>11 DEF Publish
<1>12. CASE StartWatchdog(p)
  BY <1>12 DEF StartWatchdog
<1>13. CASE Output(p)
  BY <1>13 DEF Output
<1>14. CASE Exit(p)
  BY <1>14 DEF Exit
<1>15. CASE WatchSlice(p)
  BY <1>15 DEF WatchSlice
<1>16. CASE WatchRead(p)
  <2>1. <<offset[p], size[p]>> \in Ranges
    BY DEF Ranges
  <2> QED
    BY <1>16, <2>1 DEF WatchRead
<1>17. CASE WatchEmit(p)
  BY <1>17, Emitted DEF WatchEmit
<1>18. CASE WatchAgain(p)
  BY <1>18 DEF WatchAgain
<1>19. CASE WatchViolation(p)
  <2>2. UNCHANGED finish \/ Claim(p, "kill", "resource_exhausted")
    BY <1>19 DEF WatchViolation
  <2>3. finish' \in [Procs -> [step : Steps, status : {"none"} \cup Terminal]]
    BY <2>2, Claims
  <2> QED
    BY <1>19, <2>3 DEF WatchViolation
<1>20. CASE WatchExit(p)
  <2>2. UNCHANGED finish \/ Claim(p, "emit", ExitStatus(p))
    BY <1>20 DEF WatchExit
  <2>3. finish' \in [Procs -> [step : Steps, status : {"none"} \cup Terminal]]
    BY <2>2, ExitClaims
  <2> QED
    BY <1>20, <2>3 DEF WatchExit
<1>21. CASE WatchTimeout(p)
  <2>2. UNCHANGED finish \/ Claim(p, "kill", "timed_out")
    BY <1>21 DEF WatchTimeout
  <2>3. finish' \in [Procs -> [step : Steps, status : {"none"} \cup Terminal]]
    BY <2>2, Claims
  <2> QED
    BY <1>21, <2>3 DEF WatchTimeout
<1>22. CASE CheckExit(p)
  <2>2. UNCHANGED finish \/ Claim(p, "emit", ExitStatus(p))
    BY <1>22 DEF CheckExit
  <2>3. finish' \in [Procs -> [step : Steps, status : {"none"} \cup Terminal]]
    BY <2>2, ExitClaims
  <2> QED
    BY <1>22, <2>3 DEF CheckExit
<1>23. CASE Cancel(p)
  BY <1>23 DEF Cancel
<1>24. CASE FinishKill(p)
  <2>1. Goto(p, "emit")
    BY <1>24 DEF FinishKill
  <2>2. finish' \in [Procs -> [step : Steps, status : {"none"} \cup Terminal]]
    BY <2>1, Moves
  <2>3. os' \in [Procs -> {"none", "alive", "zero", "nonzero"}]
    <3>1. \/ os' = os
          \/ os' = [os EXCEPT ![p] = IF @ = "alive" THEN "nonzero" ELSE @]
      BY <1>24 DEF FinishKill
    <3>2. (IF os[p] = "alive" THEN "nonzero" ELSE os[p]) \in {"none", "alive", "zero", "nonzero"}
      OBVIOUS
    <3> QED
      BY <3>1, <3>2
  <2> QED
    BY <1>24, <2>2, <2>3 DEF FinishKill
<1>25. CASE FinishRead(p)
  <2>1. Goto(p, "emitting")
    BY <1>25 DEF FinishRead
  <2>2. finish' \in [Procs -> [step : Steps, status : {"none"} \cup Terminal]]
    BY <2>1, Moves
  <2>3. <<offset[p], size[p]>> \in Ranges
    BY DEF Ranges
  <2> QED
    BY <1>25, <2>2, <2>3 DEF FinishRead
<1>26. CASE FinishEmit(p)
  <2>1. Goto(p, "record")
    BY <1>26 DEF FinishEmit
  <2>2. finish' \in [Procs -> [step : Steps, status : {"none"} \cup Terminal]]
    BY <2>1, Moves
  <2>3. sawFinish[p] \in Ranges /\ Emit(p, sawFinish[p])
    BY <1>26 DEF FinishEmit
  <2>4. /\ log' \in [Procs -> Seq(EventTypes)] /\ spans' \in [Procs -> Seq(Ranges)]
        /\ offset' \in [Procs -> 0 .. MaxOutput]
    BY <2>3, Emitted
  <2> QED
    BY <1>26, <2>2, <2>4 DEF FinishEmit
<1>27. CASE FinishRecord(p)
  <2>1. Goto(p, "report") \/ Goto(p, "done")
    BY <1>27 DEF FinishRecord
  <2>2. finish' \in [Procs -> [step : Steps, status : {"none"} \cup Terminal]]
    BY <2>1, Moves
  <2>3. finish[p].status \in Terminal /\ Transition(p, finish[p].status)
    BY <1>27 DEF FinishRecord, EndInv, Stopping, Forced, ByItself
  <2>4. /\ record' \in [Procs -> {"none"} \cup Incomplete \cup Terminal]
        /\ log' \in [Procs -> Seq(EventTypes)]
    BY <2>3, Transitions
  <2> QED
    BY <1>27, <2>2, <2>4 DEF FinishRecord
<1>28. CASE FinishReport(p)
  <2>1. Goto(p, "done")
    BY <1>28 DEF FinishReport
  <2>2. finish' \in [Procs -> [step : Steps, status : {"none"} \cup Terminal]]
    BY <2>1, Moves
  <2>3. log' \in [Procs -> Seq(EventTypes)]
    BY <1>28, Appended DEF FinishReport
  <2> QED
    BY <1>28, <2>2, <2>3 DEF FinishReport
<1>29. CASE FinishDone(p)
  <2>1. Goto(p, "pop")
    BY <1>29 DEF FinishDone
  <2>2. finish' \in [Procs -> [step : Steps, status : {"none"} \cup Terminal]]
    BY <2>1, Moves
  <2> QED
    BY <1>29, <2>2 DEF FinishDone
<1>30. CASE FinishPop(p)
  <2>1. Goto(p, "release")
    BY <1>30 DEF FinishPop
  <2>2. finish' \in [Procs -> [step : Steps, status : {"none"} \cup Terminal]]
    BY <2>1, Moves
  <2>3. table' \subseteq Procs
    BY <1>30 DEF FinishPop
  <2> QED
    BY <1>30, <2>2, <2>3 DEF FinishPop
<1>31. CASE FinishRelease(p)
  <2>1. /\ finish' \in [Procs -> [step : Steps, status : {"none"} \cup Terminal]]
        /\ lease' \in [Procs -> {"none", "read", "write"}]
    BY <1>31 DEF FinishRelease
  <2> QED
    BY <1>31, <2>1 DEF FinishRelease
<1>32. CASE RecoverTerminal(p)
  <2>1. PICK status \in Dispositions(p) : Transition(p, status)
    BY <1>32 DEF RecoverTerminal
  <2>2. status \in Terminal
    BY <2>1 DEF Dispositions
  <2> QED
    BY <1>32, <2>1, <2>2, Transitions DEF RecoverTerminal
<1>33. CASE Adopt(p)
  <2>1. log' \in [Procs -> Seq(EventTypes)]
    BY <1>33, Appended DEF Adopt
  <2> QED
    BY <1>33, <2>1 DEF Adopt, AdoptionMode
<1>34. CASE AdoptionFails(p)
  BY <1>34, Transitions DEF AdoptionFails
<1>35. CASE SupervisorRecovers(p)
  <2>1. PICK status \in Dispositions(p) : record' = [record EXCEPT ![p] = status]
    BY <1>35 DEF SupervisorRecovers
  <2>2. status \in Terminal
    BY <2>1 DEF Dispositions
  <2> QED
    BY <1>35, <2>1, <2>2 DEF SupervisorRecovers
<1> QED
  BY <1>1, <1>2, <1>3, <1>4, <1>5, <1>6, <1>7, <1>8, <1>9, <1>10, <1>11, <1>12, <1>13, <1>14, <1>15, <1>16, <1>17, <1>18, <1>19, <1>20, <1>21, <1>22, <1>23, <1>24, <1>25, <1>26, <1>27, <1>28, <1>29, <1>30, <1>31, <1>32, <1>33, <1>34, <1>35
     DEF ProcStep, SpawnStep, SampleStep, FinishStep, RecoverStep

-----------------------------------------------------------------------------
(* A step of one process leaves what the invariant says of the others.     *)

Same(q) ==
  /\ record'[q] = record[q] /\ log'[q] = log[q] /\ spans'[q] = spans[q]
  /\ os'[q] = os[q] /\ size'[q] = size[q]
  /\ phase' = phase /\ (q \in todo' <=> q \in todo)
  /\ spawn'[q] = spawn[q] /\ lease'[q] = lease[q] /\ watch'[q] = watch[q] /\ finish'[q] = finish[q]
  /\ (q \in table' <=> q \in table) /\ (q \in done' <=> q \in done)
  /\ offset'[q] = offset[q] /\ sawWatch'[q] = sawWatch[q] /\ sawFinish'[q] = sawFinish[q]

LEMMA FrameStep ==
  ASSUME TypeOK, NEW p \in Procs, ProcStep(p), NEW q \in Procs \ {p}
  PROVE  Same(q)
<1> USE DEF TypeOK, durable, os_vars, server, volatile, SpawnGoes, Goto, Claim, Transition,
            AppendEvent, Emit, Same
<1>1. CASE Insert(p)
  BY <1>1 DEF Insert
<1>2. CASE Announce(p)
  BY <1>2 DEF Announce
<1>3. CASE JoinQueue(p)
  BY <1>3 DEF JoinQueue
<1>4. CASE NotAdmitted(p)
  BY <1>4 DEF NotAdmitted
<1>5. CASE GetLease(p)
  BY <1>5 DEF GetLease
<1>6. CASE Launch(p)
  BY <1>6 DEF Launch
<1>7. CASE LaunchFails(p)
  BY <1>7 DEF LaunchFails
<1>8. CASE ReleaseRefused(p)
  BY <1>8 DEF ReleaseRefused
<1>9. CASE MarkStarted(p)
  BY <1>9 DEF MarkStarted
<1>10. CASE Identify(p)
  BY <1>10 DEF Identify
<1>11. CASE Publish(p)
  BY <1>11 DEF Publish
<1>12. CASE StartWatchdog(p)
  BY <1>12 DEF StartWatchdog
<1>13. CASE Output(p)
  BY <1>13 DEF Output
<1>14. CASE Exit(p)
  BY <1>14 DEF Exit
<1>15. CASE WatchSlice(p)
  BY <1>15 DEF WatchSlice
<1>16. CASE WatchRead(p)
  BY <1>16 DEF WatchRead
<1>17. CASE WatchEmit(p)
  BY <1>17 DEF WatchEmit
<1>18. CASE WatchAgain(p)
  BY <1>18 DEF WatchAgain
<1>19. CASE WatchViolation(p)
  BY <1>19 DEF WatchViolation
<1>20. CASE WatchExit(p)
  BY <1>20 DEF WatchExit
<1>21. CASE WatchTimeout(p)
  BY <1>21 DEF WatchTimeout
<1>22. CASE CheckExit(p)
  BY <1>22 DEF CheckExit
<1>23. CASE Cancel(p)
  BY <1>23 DEF Cancel
<1>24. CASE FinishKill(p)
  BY <1>24 DEF FinishKill
<1>25. CASE FinishRead(p)
  BY <1>25 DEF FinishRead
<1>26. CASE FinishEmit(p)
  BY <1>26 DEF FinishEmit
<1>27. CASE FinishRecord(p)
  BY <1>27 DEF FinishRecord
<1>28. CASE FinishReport(p)
  BY <1>28 DEF FinishReport
<1>29. CASE FinishDone(p)
  BY <1>29 DEF FinishDone
<1>30. CASE FinishPop(p)
  BY <1>30 DEF FinishPop
<1>31. CASE FinishRelease(p)
  BY <1>31 DEF FinishRelease, Idle
<1>32. CASE RecoverTerminal(p)
  BY <1>32 DEF RecoverTerminal
<1>33. CASE Adopt(p)
  BY <1>33 DEF Adopt
<1>34. CASE AdoptionFails(p)
  BY <1>34 DEF AdoptionFails
<1>35. CASE SupervisorRecovers(p)
  BY <1>35 DEF SupervisorRecovers
<1> QED
  BY <1>1, <1>2, <1>3, <1>4, <1>5, <1>6, <1>7, <1>8, <1>9, <1>10, <1>11, <1>12, <1>13, <1>14, <1>15, <1>16, <1>17, <1>18, <1>19, <1>20, <1>21, <1>22, <1>23, <1>24, <1>25, <1>26, <1>27, <1>28, <1>29, <1>30, <1>31, <1>32, <1>33, <1>34, <1>35
     DEF ProcStep, SpawnStep, SampleStep, FinishStep, RecoverStep

LEMMA FrameInv ==
  ASSUME NEW q \in Procs, ProcInv(q), Same(q)
  PROVE  ProcInv(q)'
<1>1. Control(q)'
  BY DEF ProcInv, Control, SpawnInv, DownInv, FinishInv, LeaseInv, EndInv, Ended, Same
<1>2. LogInv(q)'
  BY DEF ProcInv, LogInv, Same
<1>3. CoverInv(q)'
  BY DEF ProcInv, CoverInv, Same
<1> QED
  BY <1>1, <1>2, <1>3 DEF ProcInv

LEMMA ControlStep ==
  ASSUME TypeOK, NEW p \in Procs, Control(p), ProcStep(p)
  PROVE  Control(p)'
<1> USE DEF TypeOK, durable, os_vars, server, volatile, SpawnGoes, Goto, Claim, Claimed, Transition,
            Idle, SpawnStates, Steps, Terminal, Incomplete, Before, Holding, Stopping, ByItself,
            Forced, InSpawn,
            Control, SpawnInv, DownInv, FinishInv, LeaseInv, EndInv, Ended
<1>1. CASE Insert(p)
  BY <1>1 DEF Insert
<1>2. CASE Announce(p)
  BY <1>2 DEF Announce
<1>3. CASE JoinQueue(p)
  BY <1>3 DEF JoinQueue
<1>4. CASE NotAdmitted(p)
  BY <1>4 DEF NotAdmitted
<1>5. CASE GetLease(p)
  BY <1>5, ProcsAssumption DEF GetLease
<1>6. CASE Launch(p)
  BY <1>6 DEF Launch
<1>7. CASE LaunchFails(p)
  BY <1>7 DEF LaunchFails
<1>8. CASE ReleaseRefused(p)
  BY <1>8 DEF ReleaseRefused
<1>9. CASE MarkStarted(p)
  BY <1>9 DEF MarkStarted
<1>10. CASE Identify(p)
  BY <1>10 DEF Identify
<1>11. CASE Publish(p)
  BY <1>11 DEF Publish
<1>12. CASE StartWatchdog(p)
  BY <1>12 DEF StartWatchdog
<1>13. CASE Output(p)
  BY <1>13 DEF Output
<1>14. CASE Exit(p)
  BY <1>14 DEF Exit
<1>15. CASE WatchSlice(p)
  BY <1>15 DEF WatchSlice
<1>16. CASE WatchRead(p)
  BY <1>16 DEF WatchRead
<1>17. CASE WatchEmit(p)
  BY <1>17 DEF WatchEmit
<1>18. CASE WatchAgain(p)
  BY <1>18 DEF WatchAgain
<1>19. CASE WatchViolation(p)
  BY <1>19 DEF WatchViolation
<1>20. CASE WatchExit(p)
  BY <1>20 DEF WatchExit, ExitStatus
<1>21. CASE WatchTimeout(p)
  BY <1>21 DEF WatchTimeout
<1>22. CASE CheckExit(p)
  BY <1>22 DEF CheckExit, ExitStatus
<1>23. CASE Cancel(p)
  BY <1>23 DEF Cancel
<1>24. CASE FinishKill(p)
  BY <1>24 DEF FinishKill
<1>25. CASE FinishRead(p)
  BY <1>25 DEF FinishRead
<1>26. CASE FinishEmit(p)
  BY <1>26 DEF FinishEmit
<1>27. CASE FinishRecord(p)
  BY <1>27 DEF FinishRecord
<1>28. CASE FinishReport(p)
  BY <1>28 DEF FinishReport
<1>29. CASE FinishDone(p)
  BY <1>29 DEF FinishDone
<1>30. CASE FinishPop(p)
  BY <1>30 DEF FinishPop
<1>31. CASE FinishRelease(p)
  BY <1>31 DEF FinishRelease, Idle
<1>32. CASE RecoverTerminal(p)
  BY <1>32 DEF RecoverTerminal, Dispositions
<1>33. CASE Adopt(p)
  BY <1>33 DEF Adopt, Adoptable, AdoptionMode
<1>34. CASE AdoptionFails(p)
  BY <1>34 DEF AdoptionFails, Adoptable
<1>35. CASE SupervisorRecovers(p)
  BY <1>35 DEF SupervisorRecovers, Dispositions, Unfinished
<1> QED
  BY <1>1, <1>2, <1>3, <1>4, <1>5, <1>6, <1>7, <1>8, <1>9, <1>10, <1>11, <1>12, <1>13, <1>14, <1>15, <1>16, <1>17, <1>18, <1>19, <1>20, <1>21, <1>22, <1>23, <1>24, <1>25, <1>26, <1>27, <1>28, <1>29, <1>30, <1>31, <1>32, <1>33, <1>34, <1>35
     DEF ProcStep, SpawnStep, SampleStep, FinishStep, RecoverStep

-----------------------------------------------------------------------------
(* The log.                                                                *)

(* What one more event does to a log. *)
LEMMA AppendStarts ==
  ASSUME NEW l \in Seq(EventTypes), NEW e \in EventTypes
  PROVE  /\ HasStart(l) => HasStart(Append(l, e))
         /\ TwoStarts(l) => TwoStarts(Append(l, e))
         /\ HasTerminal(l) => HasTerminal(Append(l, e))
         /\ e = "tool.started" => HasStart(Append(l, e))
         /\ e = "tool.started" /\ HasStart(l) => TwoStarts(Append(l, e))
         /\ e \in Terminal => HasTerminal(Append(l, e))
<1> DEFINE t == Append(l, e)
<1>1. /\ DOMAIN l = 1 .. Len(l) /\ Len(l) \in Nat
      /\ DOMAIN t = 1 .. Len(l) + 1
      /\ \A i \in 1 .. Len(l) : t[i] = l[i]
      /\ t[Len(l) + 1] = e
  BY Logs
<1> HIDE DEF t
<1>2. (HasStart(l) => HasStart(t)) /\ (HasTerminal(l) => HasTerminal(t))
  BY <1>1 DEF HasStart, HasTerminal
<1>3. TwoStarts(l) => TwoStarts(t)
  BY <1>1 DEF TwoStarts
<1>4. Len(l) + 1 \in DOMAIN t
  BY <1>1
<1>5. (e = "tool.started" => HasStart(t)) /\ (e \in Terminal => HasTerminal(t))
  BY <1>1, <1>4 DEF HasStart, HasTerminal
<1>6. e = "tool.started" /\ HasStart(l) => TwoStarts(t)
  <2> SUFFICES ASSUME e = "tool.started", NEW i \in DOMAIN l, l[i] = "tool.started"
               PROVE  TwoStarts(t)
    BY DEF HasStart
  <2>1. i \in DOMAIN t /\ i < Len(l) + 1 /\ t[i] = "tool.started" /\ t[Len(l) + 1] = "tool.started"
    BY <1>1
  <2> QED
    BY <2>1, <1>4 DEF TwoStarts
<1> QED
  BY <1>2, <1>3, <1>5, <1>6 DEF t

LEMMA AppendGood ==
  ASSUME NEW l \in Seq(EventTypes), NEW e \in EventTypes, NEW r, GoodLog(l, r)
  PROVE  /\ r \notin Terminal => \A q : GoodLog(l, q)
         /\ r \notin Terminal /\ e \in {"tool.queued", "tool.started"} =>
              \A q : GoodLog(Append(l, e), q)
         /\ r \notin Terminal /\ e \in Terminal => GoodLog(Append(l, e), e)
         /\ e = "process.output" => GoodLog(Append(l, e), r)
         /\ e = "check.completed" /\ HasTerminal(l) => GoodLog(Append(l, e), r)
<1> DEFINE t == Append(l, e)
<1>1. /\ DOMAIN l = 1 .. Len(l) /\ Len(l) \in Nat
      /\ DOMAIN t = 1 .. Len(l) + 1
      /\ \A i \in 1 .. Len(l) : t[i] = l[i]
      /\ t[Len(l) + 1] = e
  BY Logs
<1> HIDE DEF t
<1>2. ASSUME r \notin Terminal
      PROVE  \A i \in 1 .. Len(l) : l[i] \notin Terminal /\ l[i] # "check.completed"
  BY <1>1, <1>2 DEF GoodLog
<1>3. r \notin Terminal => \A q : GoodLog(l, q)
  BY <1>1, <1>2 DEF GoodLog
<1>4. ASSUME r \notin Terminal, e \in {"tool.queued", "tool.started"}, NEW q
      PROVE  GoodLog(t, q)
  <2>1. e \notin Terminal /\ e # "check.completed"
    BY <1>4 DEF Terminal
  <2> QED
    BY <1>1, <1>2, <1>4, <2>1 DEF GoodLog
<1>5. ASSUME r \notin Terminal, e \in Terminal
      PROVE  GoodLog(t, e)
  <2>1. e # "check.completed"
    BY <1>5 DEF Terminal
  <2> QED
    BY <1>1, <1>2, <1>5, <2>1 DEF GoodLog
<1>6. ASSUME e = "process.output"
      PROVE  GoodLog(t, r)
  <2>1. e \notin Terminal /\ e # "check.completed"
    BY <1>6 DEF Terminal
  <2> QED
    BY <1>1, <1>6, <2>1 DEF GoodLog
<1>7. ASSUME e = "check.completed", HasTerminal(l)
      PROVE  GoodLog(t, r)
  <2>1. e \notin Terminal
    BY <1>7 DEF Terminal
  <2>2. PICK i \in 1 .. Len(l) : t[i] \in Terminal
    BY <1>1, <1>7 DEF HasTerminal
  <2> QED
    BY <1>1, <1>7, <2>1, <2>2 DEF GoodLog
<1> QED
  BY <1>3, <1>4, <1>5, <1>6, <1>7 DEF t

LEMMA TransitionLog ==
  ASSUME TypeOK, NEW p \in Procs, NEW status \in Terminal, Transition(p, status),
         record[p] \notin Terminal, GoodLog(log[p], record[p])
  PROVE  /\ record'[p] = status
         /\ GoodLog(log'[p], status)
         /\ HasTerminal(log'[p])
         /\ TwoStarts(log[p]) => TwoStarts(log'[p])
<1>1. log[p] \in Seq(EventTypes) /\ status \in EventTypes
  BY DEF TypeOK, EventTypes
<1>2. record'[p] = status /\ log'[p] = Append(log[p], status)
  BY DEF TypeOK, Transition
<1> QED
  BY <1>1, <1>2, AppendGood, AppendStarts

LEMMA EmitLog ==
  ASSUME TypeOK, NEW p \in Procs, NEW saw, Emit(p, saw), GoodLog(log[p], record[p])
  PROVE  /\ GoodLog(log'[p], record[p])
         /\ HasStart(log[p]) => HasStart(log'[p])
         /\ TwoStarts(log[p]) => TwoStarts(log'[p])
         /\ HasTerminal(log[p]) => HasTerminal(log'[p])
<1>1. log[p] \in Seq(EventTypes) /\ "process.output" \in EventTypes
  BY DEF TypeOK, EventTypes
<1>2. log'[p] = log[p] \/ log'[p] = Append(log[p], "process.output")
  BY DEF TypeOK, Emit, AppendEvent
<1> QED
  BY <1>1, <1>2, AppendGood, AppendStarts

LEMMA LogStep ==
  ASSUME TypeOK, NEW p \in Procs, Control(p), LogInv(p), ProcStep(p)
  PROVE  LogInv(p)'
<1>0. log[p] \in Seq(EventTypes) /\ {"tool.queued", "tool.started", "check.completed"} \subseteq EventTypes
  BY DEF TypeOK, EventTypes
<1> USE DEF TypeOK, durable, os_vars, server, volatile, SpawnGoes, Goto, Claim, LogInv
<1>1. CASE Insert(p)
  <2>1. record[p] = "none" /\ "none" \notin Terminal /\ record'[p] = "queued" /\ log'[p] = log[p]
    BY <1>1 DEF Insert, Control, SpawnInv, Terminal
  <2>2. GoodLog(log'[p], record'[p])
    BY <2>1, <1>0, AppendGood
  <2> QED
    BY <1>1, <2>1, <2>2 DEF Insert
<1>2. CASE Announce(p)
  <2>1. record[p] = "queued" /\ "queued" \notin Terminal /\ log'[p] = Append(log[p], "tool.queued")
    BY <1>2 DEF Announce, AppendEvent, Control, SpawnInv, Before, Terminal
  <2>2. GoodLog(log'[p], record[p])
    BY <2>1, <1>0, AppendGood
  <2>3. spawn'[p] = "queued" /\ record'[p] = record[p] /\ finish'[p] = finish[p]
    BY <1>2 DEF Announce
  <2>4. finish[p].step = "none"
    BY <1>2 DEF Announce, Control, SpawnInv, InSpawn
  <2> QED
    BY <2>1, <2>2, <2>3, <2>4
<1>3. CASE JoinQueue(p)
  BY <1>3 DEF JoinQueue
<1>4. CASE NotAdmitted(p)
  <2>1. record[p] = "queued" /\ record[p] \notin Terminal /\ "failed" \in Terminal /\ finish[p].step = "none"
    BY <1>4 DEF NotAdmitted, Control, SpawnInv, Before, InSpawn, Terminal
  <2>2. record'[p] = "failed" /\ GoodLog(log'[p], "failed")
    BY <1>4, <2>1, TransitionLog DEF NotAdmitted
  <2>3. spawn'[p] = "over" /\ finish'[p] = finish[p]
    BY <1>4 DEF NotAdmitted
  <2> QED
    BY <2>1, <2>2, <2>3
<1>5. CASE GetLease(p)
  BY <1>5 DEF GetLease
<1>6. CASE Launch(p)
  BY <1>6 DEF Launch
<1>7. CASE LaunchFails(p)
  <2>1. record[p] = "queued" /\ record[p] \notin Terminal /\ "failed" \in Terminal /\ finish[p].step = "none"
    BY <1>7 DEF LaunchFails, Control, SpawnInv, Before, InSpawn, Terminal
  <2>2. record'[p] = "failed" /\ GoodLog(log'[p], "failed")
    BY <1>7, <2>1, TransitionLog DEF LaunchFails
  <2>3. spawn'[p] = "refused" /\ finish'[p] = finish[p]
    BY <1>7 DEF LaunchFails
  <2> QED
    BY <2>1, <2>2, <2>3
<1>8. CASE ReleaseRefused(p)
  BY <1>8 DEF ReleaseRefused
<1>9. CASE MarkStarted(p)
  <2>1. record[p] = "queued" /\ record[p] \notin Terminal /\ finish[p].step = "none"
    BY <1>9 DEF MarkStarted, Control, SpawnInv, Before, InSpawn, Terminal
  <2>2. log'[p] = Append(log[p], "tool.started") /\ spawn'[p] = "started" /\ finish'[p] = finish[p]
    BY <1>9 DEF MarkStarted, AppendEvent
  <2>3. GoodLog(log'[p], record'[p]) /\ HasStart(log'[p])
    BY <2>1, <2>2, <1>0, AppendGood, AppendStarts
  <2> QED
    BY <2>1, <2>2, <2>3
<1>10. CASE Identify(p)
  BY <1>10 DEF Identify
<1>11. CASE Publish(p)
  BY <1>11 DEF Publish
<1>12. CASE StartWatchdog(p)
  BY <1>12 DEF StartWatchdog
<1>13. CASE Output(p)
  BY <1>13 DEF Output
<1>14. CASE Exit(p)
  BY <1>14 DEF Exit
<1>15. CASE WatchSlice(p)
  BY <1>15 DEF WatchSlice
<1>16. CASE WatchRead(p)
  BY <1>16 DEF WatchRead
<1>17. CASE WatchEmit(p)
  <2>1. Emit(p, sawWatch[p])
    BY <1>17 DEF WatchEmit
  <2> QED
    BY <1>17, <2>1, EmitLog DEF WatchEmit
<1>18. CASE WatchAgain(p)
  BY <1>18 DEF WatchAgain
<1>19. CASE WatchViolation(p)
  BY <1>19 DEF WatchViolation
<1>20. CASE WatchExit(p)
  BY <1>20 DEF WatchExit
<1>21. CASE WatchTimeout(p)
  BY <1>21 DEF WatchTimeout
<1>22. CASE CheckExit(p)
  BY <1>22 DEF CheckExit
<1>23. CASE Cancel(p)
  BY <1>23 DEF Cancel
<1>24. CASE FinishKill(p)
  BY <1>24 DEF FinishKill
<1>25. CASE FinishRead(p)
  BY <1>25 DEF FinishRead
<1>26. CASE FinishEmit(p)
  <2>1. Emit(p, sawFinish[p]) /\ finish'[p].step = "record"
    BY <1>26 DEF FinishEmit
  <2> QED
    BY <1>26, <2>1, EmitLog DEF FinishEmit
<1>27. CASE FinishRecord(p)
  <2>1. /\ record[p] \notin Terminal /\ finish[p].status \in Terminal /\ finish[p].status # "running"
        /\ Transition(p, finish[p].status) /\ spawn'[p] = spawn[p]
    BY <1>27 DEF FinishRecord, Control, FinishInv, EndInv, Stopping, Forced, ByItself, Terminal
  <2>2. /\ record'[p] = finish[p].status /\ GoodLog(log'[p], finish[p].status)
        /\ HasTerminal(log'[p]) /\ (TwoStarts(log[p]) => TwoStarts(log'[p]))
    BY <2>1, TransitionLog
  <2> QED
    BY <2>1, <2>2
<1>28. CASE FinishReport(p)
  <2>1. /\ log'[p] = Append(log[p], "check.completed") /\ HasTerminal(log[p])
        /\ record'[p] = record[p] /\ spawn'[p] = spawn[p] /\ finish'[p].step = "done"
    BY <1>28 DEF FinishReport, AppendEvent
  <2>2. GoodLog(log'[p], record[p])
    BY <2>1, <1>0, AppendGood
  <2> QED
    BY <2>1, <2>2, <1>0, AppendStarts
<1>29. CASE FinishDone(p)
  BY <1>29 DEF FinishDone
<1>30. CASE FinishPop(p)
  BY <1>30 DEF FinishPop
<1>31. CASE FinishRelease(p)
  BY <1>31 DEF FinishRelease, Idle
<1>32. CASE RecoverTerminal(p)
  <2>1. PICK status \in Dispositions(p) : Transition(p, status)
    BY <1>32 DEF RecoverTerminal
  <2>2. /\ status \in Terminal /\ status # "running" /\ record[p] \notin Terminal
        /\ finish[p].step = "none" /\ spawn[p] = "over"
    BY <1>32, <2>1 DEF RecoverTerminal, Dispositions, Control, DownInv, Incomplete, Terminal
  <2>3. record'[p] = status /\ GoodLog(log'[p], status)
    BY <2>1, <2>2, TransitionLog
  <2>4. spawn'[p] = spawn[p] /\ finish'[p] = finish[p]
    BY <1>32 DEF RecoverTerminal
  <2> QED
    BY <2>2, <2>3, <2>4
<1>33. CASE Adopt(p)
  <2>1. /\ record[p] = "running" /\ "running" \notin Terminal /\ finish[p].step = "none"
        /\ log'[p] = Append(log[p], "tool.started") /\ record'[p] = record[p] /\ finish'[p] = finish[p]
    BY <1>33 DEF Adopt, Adoptable, AppendEvent, Control, DownInv, Terminal
  <2>2. GoodLog(log'[p], record'[p]) /\ HasStart(log'[p]) /\ TwoStarts(log'[p])
    BY <2>1, <1>0, AppendGood, AppendStarts
  <2> QED
    BY <2>1, <2>2
<1>34. CASE AdoptionFails(p)
  <2>1. /\ "recovery_required" \in Terminal /\ record[p] \notin Terminal
        /\ finish[p].step = "none" /\ spawn[p] = "over"
    BY <1>34 DEF AdoptionFails, Adoptable, Control, DownInv, Terminal
  <2>2. record'[p] = "recovery_required" /\ GoodLog(log'[p], "recovery_required")
    BY <1>34, <2>1, TransitionLog DEF AdoptionFails
  <2>3. spawn'[p] = spawn[p] /\ finish'[p] = finish[p]
    BY <1>34 DEF AdoptionFails
  <2> QED
    BY <2>1, <2>2, <2>3
<1>35. CASE SupervisorRecovers(p)
  <2>1. PICK status \in Dispositions(p) : record' = [record EXCEPT ![p] = status]
    BY <1>35 DEF SupervisorRecovers
  <2>2. /\ status # "running" /\ record'[p] = status /\ record[p] \notin Terminal
        /\ log'[p] = log[p] /\ spawn'[p] = spawn[p] /\ finish'[p] = finish[p]
    BY <1>35, <2>1 DEF SupervisorRecovers, Dispositions, Unfinished, Incomplete, Terminal
  <2>3. GoodLog(log'[p], record'[p])
    BY <2>2, <1>0, AppendGood
  <2> QED
    BY <2>1, <2>2, <2>3
<1> QED
  BY <1>1, <1>2, <1>3, <1>4, <1>5, <1>6, <1>7, <1>8, <1>9, <1>10, <1>11, <1>12, <1>13, <1>14, <1>15, <1>16, <1>17, <1>18, <1>19, <1>20, <1>21, <1>22, <1>23, <1>24, <1>25, <1>26, <1>27, <1>28, <1>29, <1>30, <1>31, <1>32, <1>33, <1>34, <1>35
     DEF ProcStep, SpawnStep, SampleStep, FinishStep, RecoverStep

-----------------------------------------------------------------------------
(* The output.                                                             *)

(* Emitting what was read past covered bytes covers what was read.         *)
LEMMA EmitCovers ==
  ASSUME TypeOK, NEW p \in Procs, NEW saw \in Ranges, Emit(p, saw)
  PROVE  /\ \A n \in Nat : Covered(spans[p], n) => Covered(spans'[p], n)
         /\ Covered(spans[p], saw[1]) => Covered(spans'[p], saw[2])
<1> USE ProcsAssumption
<1>0. spans[p] \in Seq(Ranges) /\ saw[1] \in Nat /\ saw[2] \in Nat
  BY DEF TypeOK, Ranges
<1>1. CASE saw[1] = saw[2]
  <2>1. spans'[p] = spans[p]
    BY <1>1 DEF Emit
  <2> QED
    BY <2>1, <1>1
<1>2. CASE saw[1] # saw[2]
  <2> DEFINE s == spans[p]
             t == Append(s, saw)
  <2>1. spans'[p] = t
    BY <1>2 DEF Emit, TypeOK
  <2>2. /\ DOMAIN s = 1 .. Len(s) /\ Len(s) \in Nat
        /\ DOMAIN t = 1 .. Len(s) + 1
        /\ \A i \in 1 .. Len(s) : t[i] = s[i]
        /\ t[Len(s) + 1] = saw
    BY <1>0, Logs
  <2> HIDE DEF s, t
  <2>3. ASSUME NEW n \in Nat, Covered(s, n)
        PROVE  Covered(t, n)
    <3> SUFFICES ASSUME NEW m \in 0 .. n - 1
                 PROVE  \E i \in DOMAIN t : t[i][1] <= m /\ m < t[i][2]
      BY DEF Covered
    <3>1. PICK i \in DOMAIN s : s[i][1] <= m /\ m < s[i][2]
      BY <2>3 DEF Covered
    <3> QED
      BY <3>1, <2>2
  <2>4. ASSUME Covered(s, saw[1])
        PROVE  Covered(t, saw[2])
    <3> SUFFICES ASSUME NEW m \in 0 .. saw[2] - 1
                 PROVE  \E i \in DOMAIN t : t[i][1] <= m /\ m < t[i][2]
      BY DEF Covered
    <3>1. CASE m < saw[1]
      <4>1. m \in 0 .. saw[1] - 1
        BY <3>1, <1>0
      <4>2. PICK i \in DOMAIN s : s[i][1] <= m /\ m < s[i][2]
        BY <4>1, <2>4 DEF Covered
      <4> QED
        BY <4>2, <2>2
    <3>2. CASE saw[1] <= m
      <4>1. Len(s) + 1 \in DOMAIN t /\ m < saw[2]
        BY <2>2, <1>0
      <4> QED
        BY <4>1, <3>2, <2>2
    <3> QED
      BY <3>1, <3>2, <1>0
  <2> QED
    BY <2>1, <2>3, <2>4 DEF s, t
<1> QED
  BY <1>1, <1>2

LEMMA NothingToCover ==
  ASSUME NEW s
  PROVE  Covered(s, 0)
BY DEF Covered

LEMMA CoverStep ==
  ASSUME TypeOK, NEW p \in Procs, Control(p), LogInv(p), CoverInv(p), ProcStep(p)
  PROVE  CoverInv(p)'
<1>0. /\ log[p] \in Seq(EventTypes)
      /\ {"tool.queued", "tool.started", "check.completed"} \subseteq EventTypes
      /\ size[p] \in Nat /\ offset[p] \in Nat
      /\ sawWatch[p] \in Ranges /\ sawFinish[p] \in Ranges
      /\ sawWatch[p][1] \in Nat /\ sawFinish[p][1] \in Nat
  BY ProcsAssumption DEF TypeOK, EventTypes, Ranges
<1> USE DEF TypeOK, durable, os_vars, server, volatile, SpawnGoes, Goto, Claim, ByItself, CoverInv
<1>1. CASE Insert(p)
  BY <1>1 DEF Insert
<1>2. CASE Announce(p)
  <2>1. TwoStarts(log[p]) => TwoStarts(log'[p])
    BY <1>2, <1>0, AppendStarts DEF Announce, AppendEvent
  <2> QED
    BY <1>2, <2>1 DEF Announce
<1>3. CASE JoinQueue(p)
  BY <1>3 DEF JoinQueue
<1>4. CASE NotAdmitted(p)
  <2>1. /\ record[p] \notin Terminal /\ "failed" \in Terminal /\ finish[p].step = "none" /\ size[p] = 0
        /\ watch[p] = "off"
    BY <1>4 DEF NotAdmitted, Control, SpawnInv, Before, InSpawn, Terminal
  <2>2. TwoStarts(log[p]) => TwoStarts(log'[p])
    BY <1>4, <2>1, TransitionLog DEF NotAdmitted, LogInv
  <2> QED
    BY <1>4, <2>1, <2>2, NothingToCover DEF NotAdmitted
<1>5. CASE GetLease(p)
  BY <1>5 DEF GetLease
<1>6. CASE Launch(p)
  BY <1>6 DEF Launch
<1>7. CASE LaunchFails(p)
  <2>1. /\ record[p] \notin Terminal /\ "failed" \in Terminal /\ finish[p].step = "none" /\ size[p] = 0
        /\ watch[p] = "off"
    BY <1>7 DEF LaunchFails, Control, SpawnInv, Before, InSpawn, Terminal
  <2>2. TwoStarts(log[p]) => TwoStarts(log'[p])
    BY <1>7, <2>1, TransitionLog DEF LaunchFails, LogInv
  <2> QED
    BY <1>7, <2>1, <2>2, NothingToCover DEF LaunchFails
<1>8. CASE ReleaseRefused(p)
  BY <1>8 DEF ReleaseRefused
<1>9. CASE MarkStarted(p)
  <2>1. TwoStarts(log[p]) => TwoStarts(log'[p])
    BY <1>9, <1>0, AppendStarts DEF MarkStarted, AppendEvent
  <2> QED
    BY <1>9, <2>1 DEF MarkStarted
<1>10. CASE Identify(p)
  BY <1>10 DEF Identify
<1>11. CASE Publish(p)
  BY <1>11 DEF Publish
<1>12. CASE StartWatchdog(p)
  BY <1>12 DEF StartWatchdog
<1>13. CASE Output(p)
  <2>1. /\ record[p] \notin ByItself
        /\ finish[p].step \in {"emitting", "record"} => finish[p].status \notin ByItself
    BY <1>13 DEF Output, Control, EndInv, Ended, Stopping, Forced, Terminal
  <2> QED
    BY <1>13, <2>1 DEF Output
<1>14. CASE Exit(p)
  BY <1>14 DEF Exit
<1>15. CASE WatchSlice(p)
  BY <1>15 DEF WatchSlice
<1>16. CASE WatchRead(p)
  BY <1>16 DEF WatchRead
<1>17. CASE WatchEmit(p)
  <2>1. Emit(p, sawWatch[p])
    BY <1>17 DEF WatchEmit
  <2>2. /\ \A n \in Nat : Covered(spans[p], n) => Covered(spans'[p], n)
        /\ Covered(spans[p], sawWatch[p][1]) => Covered(spans'[p], sawWatch[p][2])
    BY <2>1, <1>0, EmitCovers
  <2>3. TwoStarts(log[p]) => TwoStarts(log'[p])
    BY <2>1, EmitLog DEF LogInv
  <2>4. offset'[p] = sawWatch[p][2] \/ offset'[p] = offset[p]
    BY <2>1 DEF Emit
  <2>5. /\ watch[p] = "emitting" /\ watch'[p] = "sampled" /\ finish'[p] = finish[p]
        /\ record'[p] = record[p] /\ size'[p] = size[p] /\ sawFinish'[p] = sawFinish[p]
    BY <1>17 DEF WatchEmit
  <2> HIDE DEF TypeOK
  <2> QED
    BY <2>2, <2>3, <2>4, <2>5, <1>0
<1>18. CASE WatchAgain(p)
  BY <1>18 DEF WatchAgain
<1>19. CASE WatchViolation(p)
  BY <1>19 DEF WatchViolation
<1>20. CASE WatchExit(p)
  BY <1>20 DEF WatchExit
<1>21. CASE WatchTimeout(p)
  BY <1>21 DEF WatchTimeout
<1>22. CASE CheckExit(p)
  BY <1>22 DEF CheckExit
<1>23. CASE Cancel(p)
  BY <1>23 DEF Cancel
<1>24. CASE FinishKill(p)
  BY <1>24 DEF FinishKill
<1>25. CASE FinishRead(p)
  <2>1. /\ finish[p].step = "emit" /\ finish'[p].step = "emitting"
        /\ finish'[p].status = finish[p].status
        /\ sawFinish'[p][1] = offset[p] /\ sawFinish'[p][2] = size[p]
    BY <1>25 DEF FinishRead
  <2> QED
    BY <1>25, <2>1 DEF FinishRead
<1>26. CASE FinishEmit(p)
  <2>1. Emit(p, sawFinish[p])
    BY <1>26 DEF FinishEmit
  <2>2. /\ \A n \in Nat : Covered(spans[p], n) => Covered(spans'[p], n)
        /\ Covered(spans[p], sawFinish[p][1]) => Covered(spans'[p], sawFinish[p][2])
    BY <2>1, <1>0, EmitCovers
  <2>3. TwoStarts(log[p]) => TwoStarts(log'[p])
    BY <2>1, EmitLog DEF LogInv
  <2>4. offset'[p] = sawFinish[p][2] \/ offset'[p] = offset[p]
    BY <2>1 DEF Emit
  <2>5. /\ finish[p].step = "emitting" /\ finish'[p].step = "record"
        /\ finish'[p].status = finish[p].status /\ watch'[p] = watch[p]
        /\ record'[p] = record[p] /\ size'[p] = size[p] /\ sawWatch'[p] = sawWatch[p]
    BY <1>26 DEF FinishEmit
  <2> HIDE DEF TypeOK
  <2> QED
    BY <2>2, <2>3, <2>4, <2>5, <1>0
<1>27. CASE FinishRecord(p)
  <2>1. /\ record[p] \notin Terminal /\ finish[p].status \in Terminal
        /\ Transition(p, finish[p].status) /\ finish[p].step = "record"
        /\ finish'[p].step \in {"report", "done"}
    BY <1>27 DEF FinishRecord, Control, FinishInv, EndInv, Stopping, Forced, Terminal
  <2>2. record'[p] = finish[p].status /\ (TwoStarts(log[p]) => TwoStarts(log'[p]))
    BY <2>1, TransitionLog DEF LogInv
  <2> QED
    BY <1>27, <2>1, <2>2 DEF FinishRecord
<1>28. CASE FinishReport(p)
  <2>1. TwoStarts(log[p]) => TwoStarts(log'[p])
    BY <1>28, <1>0, AppendStarts DEF FinishReport, AppendEvent
  <2> QED
    BY <1>28, <2>1 DEF FinishReport
<1>29. CASE FinishDone(p)
  BY <1>29 DEF FinishDone
<1>30. CASE FinishPop(p)
  BY <1>30 DEF FinishPop
<1>31. CASE FinishRelease(p)
  BY <1>31 DEF FinishRelease, Idle
<1>32. CASE RecoverTerminal(p)
  <2>1. PICK status \in Dispositions(p) : Transition(p, status)
    BY <1>32 DEF RecoverTerminal
  <2>2. status \in Terminal \ ByItself /\ record[p] \notin Terminal
    BY <1>32, <2>1 DEF RecoverTerminal, Dispositions, Control, DownInv, Incomplete, Terminal
  <2>3. record'[p] = status /\ (TwoStarts(log[p]) => TwoStarts(log'[p]))
    BY <2>1, <2>2, TransitionLog DEF LogInv
  <2> QED
    BY <1>32, <2>2, <2>3 DEF RecoverTerminal
<1>33. CASE Adopt(p)
  <2>1. /\ record[p] = "running" /\ finish[p].step = "none" /\ finish'[p] = finish[p]
        /\ log'[p] = Append(log[p], "tool.started")
    BY <1>33 DEF Adopt, Adoptable, AppendEvent, Control, DownInv
  <2>2. TwoStarts(log'[p])
    BY <2>1, <1>0, AppendStarts DEF LogInv
  <2> QED
    BY <2>1, <2>2
<1>34. CASE AdoptionFails(p)
  <2>1. "recovery_required" \in Terminal \ ByItself /\ record[p] \notin Terminal
    BY <1>34 DEF AdoptionFails, Adoptable, Control, DownInv, Terminal
  <2>2. record'[p] = "recovery_required" /\ (TwoStarts(log[p]) => TwoStarts(log'[p]))
    BY <1>34, <2>1, TransitionLog DEF AdoptionFails, LogInv
  <2> QED
    BY <1>34, <2>1, <2>2 DEF AdoptionFails
<1>35. CASE SupervisorRecovers(p)
  <2>1. PICK status \in Dispositions(p) : record' = [record EXCEPT ![p] = status]
    BY <1>35 DEF SupervisorRecovers
  <2>2. record'[p] = status /\ status \notin ByItself
    BY <1>35, <2>1 DEF SupervisorRecovers, Dispositions
  <2> QED
    BY <1>35, <2>2 DEF SupervisorRecovers
<1> QED
  BY <1>1, <1>2, <1>3, <1>4, <1>5, <1>6, <1>7, <1>8, <1>9, <1>10, <1>11, <1>12, <1>13, <1>14, <1>15, <1>16, <1>17, <1>18, <1>19, <1>20, <1>21, <1>22, <1>23, <1>24, <1>25, <1>26, <1>27, <1>28, <1>29, <1>30, <1>31, <1>32, <1>33, <1>34, <1>35
     DEF ProcStep, SpawnStep, SampleStep, FinishStep, RecoverStep

-----------------------------------------------------------------------------
(* The leases.                                                             *)

LEMMA SameCardinality == \A S : Slots!Cardinality(S) = Cardinality(S)
BY Zenon DEF Cardinality, Slots!Cardinality

(* What the scheduler has looked at when it grants a lease. *)
LEMMA Granted ==
  ASSUME TypeOK, NEW p \in Procs, NEW m \in {"read", "write"}, Slots!Fits(LeaseRequest(p, m))
  PROVE  /\ Cardinality(Leased) < GlobalLimit
         /\ Cardinality({q \in Leased : Home[q] = Home[p]}) < PerWorkspaceLimit
         /\ \A q \in Leased : Home[q] = Home[p] => lease[q] = "read" /\ m = "read"
<1> USE ProcsAssumption
<1> DEFINE wanted == [q \in Procs |-> IF q \in Leased THEN LeaseRequest(q, lease[q]) ELSE NoRequest]
<1>1. \A q \in Leased : q \in Procs /\ lease[q] \in {"read", "write"} /\ wanted[q] = LeaseRequest(q, lease[q])
  BY DEF TypeOK, Leased
<1>2. {q \in Leased : wanted[q].workspace = LeaseRequest(p, m).workspace}
        = {q \in Leased : Home[q] = Home[p]}
  BY <1>1 DEF LeaseRequest
<1>3. \A q \in Leased : ~ Slots!Clash(LeaseRequest(p, m).key, wanted[q].key)
  BY DEF Slots!Fits
<1>4. ASSUME NEW q \in Leased, Home[q] = Home[p]
      PROVE  lease[q] = "read" /\ m = "read"
  <2>1. Home[p] \in Workspaces /\ Home[q] \in Workspaces
    BY <1>1
  <2>2. /\ LeaseRequest(p, m).key = [resource |-> Home[p], mode |-> m]
        /\ wanted[q].key = [resource |-> Home[p], mode |-> lease[q]]
    BY <1>1, <1>4 DEF LeaseRequest
  <2>3. LeaseRequest(p, m).key # NoKey /\ wanted[q].key # NoKey
    BY <1>1, <2>1, <2>2
  <2>4. "write" \notin {m, lease[q]}
    BY <1>3, <2>2, <2>3 DEF Slots!Clash
  <2> QED
    BY <2>4, <1>1
<1>5. /\ Cardinality(Leased) < GlobalLimit
      /\ Cardinality({q \in Leased : wanted[q].workspace = LeaseRequest(p, m).workspace})
           < PerWorkspaceLimit
  BY SameCardinality DEF Slots!Fits
<1> HIDE DEF wanted
<1>6. Cardinality({q \in Leased : Home[q] = Home[p]}) < PerWorkspaceLimit
  BY <1>2, <1>5
<1> QED
  BY <1>4, <1>5, <1>6

LEMMA SlotsShrink ==
  ASSUME SlotsInv, \A q \in Procs : lease'[q] = lease[q] \/ lease'[q] = "none"
  PROVE  SlotsInv'
<1> USE ProcsAssumption
<1>1. Leased' \subseteq Leased /\ \A q \in Leased' : lease'[q] = lease[q]
  BY DEF Leased
<1>2. IsFiniteSet(Leased') /\ Cardinality(Leased') <= GlobalLimit
  <2>1. IsFiniteSet(Leased') /\ Cardinality(Leased') <= Cardinality(Leased)
    BY <1>1, FS_Subset DEF SlotsInv
  <2> QED
    BY <2>1, FS_CardinalityType DEF SlotsInv
<1>3. ASSUME NEW w \in Workspaces
      PROVE  Cardinality({p \in Leased' : Home[p] = w}) <= PerWorkspaceLimit
  <2> DEFINE old == {p \in Leased : Home[p] = w}
             new == {p \in Leased' : Home[p] = w}
  <2>1. new \subseteq old /\ old \subseteq Leased
    BY <1>1
  <2>2. IsFiniteSet(old) /\ Cardinality(old) <= PerWorkspaceLimit
    BY <2>1, FS_Subset DEF SlotsInv
  <2> HIDE DEF old, new
  <2>3. IsFiniteSet(new) /\ Cardinality(new) <= Cardinality(old)
    BY <2>1, <2>2, FS_Subset
  <2>4. Cardinality(new) <= PerWorkspaceLimit
    BY <2>2, <2>3, FS_CardinalityType
  <2> QED
    BY <2>4 DEF new
<1> QED
  BY <1>1, <1>2, <1>3 DEF SlotsInv

LEMMA SlotsGrow ==
  ASSUME TypeOK, SlotsInv, NEW p \in Procs, NEW m \in {"read", "write"}, lease[p] = "none",
         Slots!Fits(LeaseRequest(p, m)), lease' = [lease EXCEPT ![p] = m]
  PROVE  SlotsInv'
<1> USE ProcsAssumption
<1>1. /\ Leased' = Leased \cup {p} /\ p \notin Leased /\ lease'[p] = m
      /\ \A q \in Leased : lease'[q] = lease[q]
  BY DEF TypeOK, Leased
<1>2. /\ Cardinality(Leased) < GlobalLimit
      /\ Cardinality({q \in Leased : Home[q] = Home[p]}) < PerWorkspaceLimit
      /\ \A q \in Leased : Home[q] = Home[p] => lease[q] = "read" /\ m = "read"
  BY Granted
<1>3. IsFiniteSet(Leased') /\ Cardinality(Leased') <= GlobalLimit
  <2>1. IsFiniteSet(Leased') /\ Cardinality(Leased') = Cardinality(Leased) + 1
    BY <1>1, FS_AddElement DEF SlotsInv
  <2> QED
    BY <2>1, <1>2, FS_CardinalityType DEF SlotsInv
<1>4. ASSUME NEW w \in Workspaces
      PROVE  Cardinality({q \in Leased' : Home[q] = w}) <= PerWorkspaceLimit
  <2> DEFINE old == {q \in Leased : Home[q] = w}
             new == {q \in Leased' : Home[q] = w}
  <2>1. IsFiniteSet(old) /\ Cardinality(old) <= PerWorkspaceLimit /\ p \notin old
    BY <1>1, FS_Subset DEF SlotsInv
  <2>2. CASE Home[p] = w
    <3>1. new = old \cup {p} /\ Cardinality(old) < PerWorkspaceLimit
      BY <1>1, <1>2, <2>2
    <3> HIDE DEF old, new
    <3>2. Cardinality(new) = Cardinality(old) + 1 /\ Cardinality(old) \in Nat
      BY <2>1, <3>1, FS_AddElement, FS_CardinalityType
    <3>3. Cardinality(new) <= PerWorkspaceLimit
      BY <3>1, <3>2
    <3> QED
      BY <3>3 DEF new
  <2>3. CASE Home[p] # w
    <3>1. new = old
      BY <1>1, <2>3
    <3> QED
      BY <3>1, <2>1
  <2> QED
    BY <2>2, <2>3
<1>5. \A q, r \in Leased' : q # r /\ Home[q] = Home[r] => lease'[q] = "read" /\ lease'[r] = "read"
  BY <1>1, <1>2 DEF SlotsInv
<1> QED
  BY <1>3, <1>4, <1>5 DEF SlotsInv

LEMMA SlotsStep ==
  ASSUME TypeOK, SlotsInv, NEW p \in Procs, Control(p), ProcStep(p)
  PROVE  SlotsInv'
<1>1. CASE GetLease(p)
  <2>1. lease[p] = "none"
    BY <1>1 DEF GetLease, SpawnGoes, TypeOK, Control, SpawnInv, LeaseInv, InSpawn, Holding
  <2>2. Access[p] \in {"read", "write"}
    BY ProcsAssumption
  <2> QED
    BY <1>1, <2>1, <2>2, SlotsGrow DEF GetLease
<1>2. CASE Adopt(p)
  <2>1. lease[p] = "none"
    BY <1>2 DEF Adopt, Adoptable, Control, DownInv
  <2> QED
    BY <1>2, <2>1, SlotsGrow DEF Adopt, AdoptionMode
<1>3. CASE ~ GetLease(p) /\ ~ Adopt(p)
  <2>1. \/ UNCHANGED lease
        \/ lease' = [lease EXCEPT ![p] = "none"]
    BY <1>3 DEF ProcStep, SpawnStep, SampleStep, FinishStep, RecoverStep, volatile,
        Insert, Announce, JoinQueue, NotAdmitted, Launch, LaunchFails, ReleaseRefused, MarkStarted,
        Identify, Publish, StartWatchdog, Output, Exit, WatchSlice, WatchRead, WatchEmit,
        WatchAgain, WatchViolation, WatchExit, WatchTimeout, CheckExit, Cancel, FinishKill,
        FinishRead, FinishEmit, FinishRecord, FinishReport, FinishDone, FinishPop, FinishRelease,
        RecoverTerminal, AdoptionFails, SupervisorRecovers
  <2>2. \A q \in Procs : lease'[q] = lease[q] \/ lease'[q] = "none"
    BY <2>1 DEF TypeOK
  <2> QED
    BY <2>2, SlotsShrink
<1> QED
  BY <1>1, <1>2, <1>3

-----------------------------------------------------------------------------
(* The steps of the server, and the invariant.                             *)

LEMMA InitInv ==
  ASSUME Init
  PROVE  IInv
<1> USE ProcsAssumption
<1>1. TypeOK
  <2>1. <<>> \in Seq(EventTypes) /\ <<>> \in Seq(Ranges) /\ <<0, 0>> \in Ranges
    BY DEF Ranges
  <2> QED
    BY <2>1 DEF Init, TypeOK, Idle, SpawnStates, Steps
<1>2. SlotsInv
  <2>1. Leased = {}
    BY DEF Init, Leased
  <2>2. \A w \in Workspaces : {p \in Leased : Home[p] = w} = {}
    BY <2>1
  <2> QED
    BY <2>1, <2>2, FS_EmptySet DEF SlotsInv
<1>3. ASSUME NEW p \in Procs
      PROVE  ProcInv(p)
  <2>1. Control(p)
    BY DEF Init, Idle, Control, SpawnInv, DownInv, FinishInv, LeaseInv, EndInv, Before, InSpawn,
        Holding, Stopping, Terminal, Incomplete
  <2>2. LogInv(p)
    BY DEF Init, Idle, LogInv, GoodLog
  <2>3. CoverInv(p)
    BY NothingToCover DEF Init, Idle, CoverInv, ByItself
  <2> QED
    BY <2>1, <2>2, <2>3 DEF ProcInv
<1> QED
  BY <1>1, <1>2, <1>3 DEF IInv

LEMMA ProcStepInv ==
  ASSUME IInv, NEW p \in Procs, ProcStep(p)
  PROVE  IInv'
<1>1. TypeOK'
  BY TypeStep DEF IInv, ProcInv, Control
<1>2. SlotsInv'
  BY SlotsStep DEF IInv, ProcInv
<1>3. ProcInv(p)'
  BY ControlStep, LogStep, CoverStep DEF IInv, ProcInv
<1>4. ASSUME NEW q \in Procs \ {p}
      PROVE  ProcInv(q)'
  BY FrameStep, FrameInv DEF IInv
<1> QED
  BY <1>1, <1>2, <1>3, <1>4 DEF IInv

LEMMA ServerStepInv ==
  ASSUME IInv, BeginShutdown \/ EndShutdown \/ Crash \/ Restart \/ Serve
  PROVE  IInv'
<1> USE ProcsAssumption
<1>1. TypeOK'
  <2>1. TypeOK /\ <<0, 0>> \in Ranges
    BY DEF IInv, Ranges
  <2>2. CASE BeginShutdown
    <3>1. [step |-> "kill", status |-> "interrupted"] \in [step : Steps, status : {"none"} \cup Terminal]
      BY DEF Steps, Terminal
    <3> QED
      BY <2>1, <2>2, <3>1 DEF TypeOK, BeginShutdown, durable, os_vars
  <2>3. CASE EndShutdown
    BY <2>1, <2>3 DEF TypeOK, EndShutdown, durable, os_vars, volatile
  <2>4. CASE Crash
    BY <2>1, <2>4 DEF TypeOK, Crash, durable, os_vars, Idle, Steps, SpawnStates
  <2>5. CASE Restart
    BY <2>1, <2>5 DEF TypeOK, Restart, durable, os_vars, volatile, Unfinished
  <2>6. CASE Serve
    BY <2>1, <2>6 DEF TypeOK, Serve, durable, os_vars, volatile
  <2> QED
    BY <2>2, <2>3, <2>4, <2>5, <2>6
<1>2. SlotsInv'
  <2>1. \A q \in Procs : lease'[q] = lease[q] \/ lease'[q] = "none"
    BY DEF BeginShutdown, EndShutdown, Crash, Restart, Serve, volatile
  <2> QED
    BY <2>1, SlotsShrink DEF IInv
<1>3. ASSUME NEW p \in Procs
      PROVE  ProcInv(p)'
  <2>0. TypeOK /\ Control(p) /\ LogInv(p) /\ CoverInv(p)
    BY DEF IInv, ProcInv
  <2>1. CASE BeginShutdown
    <3>1. \/ finish'[p] = finish[p]
          \/ /\ finish'[p] = [step |-> "kill", status |-> "interrupted"]
             /\ finish[p].step = "none" /\ p \in table /\ p \notin done
      BY <2>0, <2>1 DEF BeginShutdown, Claimed, TypeOK
    <3>2. Control(p)'
      BY <2>0, <2>1, <3>1 DEF BeginShutdown, durable, os_vars, Control, SpawnInv, DownInv, FinishInv,
          LeaseInv, EndInv, Ended, Before, InSpawn, Holding, Stopping, Forced
    <3>3. LogInv(p)' /\ CoverInv(p)'
      BY <2>0, <2>1, <3>1 DEF BeginShutdown, durable, os_vars, LogInv, CoverInv
    <3> QED
      BY <3>2, <3>3 DEF ProcInv
  <2>2. CASE EndShutdown
    BY <2>2, FrameInv DEF EndShutdown, durable, os_vars, volatile, Same, IInv
  <2>3. CASE Crash
    <3>1. Control(p)'
      BY <2>0, <2>3 DEF Crash, durable, os_vars, Idle, TypeOK, Control, SpawnInv, DownInv, FinishInv,
          LeaseInv, EndInv, Ended, Before, InSpawn, Holding, Stopping, SpawnStates
    <3>2. LogInv(p)'
      BY <2>0, <2>3 DEF Crash, durable, Idle, LogInv
    <3>3. CoverInv(p)'
      BY <2>0, <2>3, NothingToCover DEF Crash, durable, os_vars, Idle, CoverInv
    <3> QED
      BY <3>1, <3>2, <3>3 DEF ProcInv
  <2>4. CASE Restart
    <3>1. Control(p)'
      BY <2>0, <2>4 DEF Restart, durable, os_vars, volatile, TypeOK, Control, SpawnInv, DownInv,
          FinishInv, LeaseInv, EndInv, Ended, Before, InSpawn, Holding, Stopping, Unfinished, Incomplete
    <3>2. LogInv(p)' /\ CoverInv(p)'
      BY <2>0, <2>4 DEF Restart, durable, os_vars, volatile, LogInv, CoverInv
    <3> QED
      BY <3>1, <3>2 DEF ProcInv
  <2>5. CASE Serve
    <3>1. Control(p)'
      BY <2>0, <2>5 DEF Serve, durable, os_vars, volatile, Control, SpawnInv, DownInv,
          FinishInv, LeaseInv, EndInv, Ended
    <3>2. LogInv(p)' /\ CoverInv(p)'
      BY <2>0, <2>5 DEF Serve, durable, os_vars, volatile, LogInv, CoverInv
    <3> QED
      BY <3>1, <3>2 DEF ProcInv
  <2> QED
    BY <2>1, <2>2, <2>3, <2>4, <2>5
<1> QED
  BY <1>1, <1>2, <1>3 DEF IInv

LEMMA StutterInv ==
  ASSUME IInv, UNCHANGED vars
  PROVE  IInv'
<1> USE DEF vars, durable, os_vars, server, volatile, IInv
<1>1. TypeOK'
  BY DEF TypeOK
<1>2. SlotsInv'
  BY SlotsShrink
<1>3. \A p \in Procs : ProcInv(p)'
  BY FrameInv DEF Same
<1> QED
  BY <1>1, <1>2, <1>3

LEMMA StepInv ==
  ASSUME IInv, [Next]_vars
  PROVE  IInv'
<1>1. CASE \E p \in Procs : ProcStep(p)
  BY <1>1, ProcStepInv
<1>2. CASE BeginShutdown \/ EndShutdown \/ Crash \/ Restart \/ Serve
  BY <1>2, ServerStepInv
<1>3. CASE UNCHANGED vars
  BY <1>3, StutterInv
<1> QED
  BY <1>1, <1>2, <1>3 DEF Next, ProcStep

LEMMA Invariance == Spec => []IInv
BY InitInv, StepInv, PTL DEF Spec

-----------------------------------------------------------------------------
(* The theorems.                                                           *)

(* Every step leaves every variable in its type, whatever the processes,   *)
(* the quotas and the bounds.                                              *)
THEOREM TypeCorrect == Spec => []TypeOK
<1>1. IInv => TypeOK
  BY DEF IInv
<1> QED
  BY <1>1, Invariance, PTL

(* The event log and the record of a process agree, however it ends and    *)
(* wherever the server crashes, and whoever is woken by its completion     *)
(* reads a terminal record.                                                *)
THEOREM LogIsTrue == Spec => []LogMatchesRecord
<1>1. IInv => WaitersSeeTerminal
  BY DEF IInv, ProcInv, Control, FinishInv, TypeOK, WaitersSeeTerminal
<1>2. IInv /\ WaitersSeeTerminal => LogMatchesRecord
  BY DEF IInv, ProcInv, LogInv, GoodLog, LogMatchesRecord
<1> QED
  BY <1>1, <1>2, Invariance, PTL

(* A record that is not terminal has somebody who will end it, and a       *)
(* process that lives on unmanaged is on record as such.                   *)
THEOREM NobodyIsEverLost == Spec => []NobodyIsLost
<1>1. ASSUME IInv
      PROVE  NobodyForgotten
  <2> SUFFICES ASSUME phase = "serving", NEW p \in Procs, record[p] \in Incomplete
               PROVE  \/ spawn[p] \in InSpawn
                      \/ p \in table /\ (watch[p] # "off" \/ finish[p].step # "none")
    BY DEF NobodyForgotten
  <2> QED
    BY <1>1 DEF IInv, ProcInv, Control, EndInv, DownInv
<1>2. ASSUME IInv
      PROVE  OrphansAreReported
  <2> SUFFICES ASSUME phase = "serving", NEW p \in Procs, os[p] = "alive", p \notin Managed
               PROVE  record[p] \in {"interrupted", "recovery_required", "cancelled", "timed_out",
                                     "resource_exhausted"}
    BY DEF OrphansAreReported
  <2>1. p \notin table /\ spawn[p] \notin {"launched", "started", "identified"}
    BY DEF Managed
  <2>2. Control(p) /\ record[p] \in {"none"} \cup Incomplete \cup Terminal
    BY <1>2 DEF IInv, ProcInv, TypeOK
  <2>3. p \notin todo
    BY <2>2 DEF Control, DownInv
  <2>4. record[p] # "none"
    BY <2>2 DEF Control, SpawnInv
  <2>5. ASSUME record[p] \in Incomplete
        PROVE  FALSE
    <3>1. spawn[p] \in InSpawn
      BY <2>1, <2>2, <2>3, <2>5 DEF Control, EndInv
    <3>2. spawn[p] \in {"refused", "published"}
      BY <2>1, <2>2, <3>1 DEF Control, SpawnInv, InSpawn
    <3>3. record[p] \in Terminal
      BY <2>1, <2>2, <3>2 DEF Control, SpawnInv, FinishInv, Terminal
    <3> QED
      BY <2>5, <3>3 DEF Incomplete, Terminal
  <2>6. record[p] \in Terminal
    BY <2>2, <2>4, <2>5
  <2> QED
    BY <2>2, <2>6 DEF Control, EndInv, Forced
<1> QED
  BY <1>1, <1>2, Invariance, PTL DEF NobodyIsLost

(* Every byte of a process that ended by itself under the server that      *)
(* started it is announced, with two threads emitting at the same time.    *)
THEOREM OutputIsCovered == Spec => []OutputIsAnnounced
<1>1. ASSUME IInv
      PROVE  OutputIsAnnounced
  BY <1>1 DEF IInv, ProcInv, CoverInv, Covered, ByItself, Adopted, TwoStarts, OutputIsAnnounced
<1> QED
  BY <1>1, Invariance, PTL

(* A lease is held by exactly the processes that have an owner to release  *)
(* it: none leaks and none is released twice.                              *)
THEOREM LeasesAreAccounted == Spec => []LeasesAccounted
<1>1. ASSUME IInv
      PROVE  LeasesAccounted
  BY <1>1 DEF IInv, TypeOK, ProcInv, Control, LeaseInv, Holding, Leased, LeasesAccounted
<1> QED
  BY <1>1, Invariance, PTL

(* The live processes the server manages hold the leases the scheduler     *)
(* granted, so they respect its quotas, adopted ones included.             *)
THEOREM QuotasHold == Spec => []ManagedAreAdmitted
<1>1. ASSUME IInv
      PROVE  ManagedAreAdmitted
  <2> USE ProcsAssumption
  <2>1. Managed \subseteq Leased
    BY <1>1 DEF IInv, ProcInv, Control, SpawnInv, LeaseInv, Holding, InSpawn, Managed, Leased
  <2>2. SlotsInv
    BY <1>1 DEF IInv
  <2>3. Cardinality(Managed) <= GlobalLimit
    <3>1. IsFiniteSet(Managed) /\ Cardinality(Managed) <= Cardinality(Leased)
      BY <2>1, <2>2, FS_Subset DEF SlotsInv
    <3> QED
      BY <3>1, <2>2, FS_CardinalityType DEF SlotsInv
  <2>4. ASSUME NEW w \in Workspaces
        PROVE  Cardinality({p \in Managed : Home[p] = w}) <= PerWorkspaceLimit
    <3> DEFINE live == {p \in Managed : Home[p] = w}
               held == {p \in Leased : Home[p] = w}
    <3>1. live \subseteq held /\ held \subseteq Leased
      BY <2>1
    <3>2. IsFiniteSet(held) /\ Cardinality(held) <= PerWorkspaceLimit
      BY <3>1, <2>2, FS_Subset DEF SlotsInv
    <3> HIDE DEF live, held
    <3>3. IsFiniteSet(live) /\ Cardinality(live) <= Cardinality(held)
      BY <3>1, <3>2, FS_Subset
    <3>4. Cardinality(live) <= PerWorkspaceLimit
      BY <3>2, <3>3, FS_CardinalityType
    <3> QED
      BY <3>4 DEF live
  <2>5. \A p, q \in Managed :
          p # q /\ Home[p] = Home[q] => Access[p] = "read" /\ Access[q] = "read"
    BY <1>1, <2>1, <2>2 DEF IInv, ProcInv, Control, LeaseInv, SlotsInv, Leased
  <2> QED
    BY <2>3, <2>4, <2>5 DEF ManagedAreAdmitted
<1> QED
  BY <1>1, Invariance, PTL

-----------------------------------------------------------------------------
(* ProcessLifecycle implements ProcessRecord.                              *)

NotReported(l) == \A i \in DOMAIN l : l[i] # "check.completed"

(* The events a process has when its threads are at a place: what was      *)
(* announced before it is started, that everybody who may announce output  *)
(* follows the start, and that a result to be reported was not reported.   *)
EventsInv(p) ==
  /\ spawn[p] \in {"idle", "inserted"} => log[p] = <<>>
  /\ spawn[p] \in {"queued", "waiting", "leased", "launched"} => log[p] = <<"tool.queued">>
  /\ spawn[p] \in {"started", "identified", "published"} \/ watch[p] # "off" => HasStart(log[p])
  /\ finish[p].step = "report" => p \in Checks /\ NotReported(log[p])

(* What a client sees of a step of a process. *)
Visible(p) ==
  \/ Recorded!Accept(p) \/ Recorded!Announce(p) \/ Recorded!Start(p) \/ Recorded!Resume(p)
  \/ Recorded!Output(p) \/ Recorded!End(p) \/ Recorded!EndUnannounced(p) \/ Recorded!Report(p)

Unseen == UNCHANGED <<record, log>>

LEMMA PutEvent ==
  ASSUME TypeOK, NEW p \in Procs, NEW e \in EventTypes, AppendEvent(p, e), record' = record
  PROVE  Recorded!Put(p, record[p], <<e>>)
<1>1. Append(log[p], e) = log[p] \o <<e>>
  BY AppendIsConcat DEF TypeOK
<1>2. record = [record EXCEPT ![p] = record[p]]
  BY DEF TypeOK
<1> QED
  BY <1>1, <1>2 DEF AppendEvent, Recorded!Put

LEMMA PutStatus ==
  ASSUME TypeOK, NEW p \in Procs, NEW status, record' = [record EXCEPT ![p] = status], log' = log
  PROVE  Recorded!Put(p, status, <<>>)
<1>1. log[p] \o <<>> = log[p]
  BY ConcatEmptySeq DEF TypeOK
<1>2. log = [log EXCEPT ![p] = log[p]]
  BY DEF TypeOK
<1> QED
  BY <1>1, <1>2 DEF Recorded!Put

LEMMA PutEnd ==
  ASSUME TypeOK, NEW p \in Procs, NEW status \in Terminal, Transition(p, status),
         record[p] \notin Terminal, status \in Recorded!Ends(p)
  PROVE  Recorded!End(p)
<1>1. Append(log[p], status) = log[p] \o <<status>>
  BY AppendIsConcat DEF TypeOK, EventTypes
<1>2. Recorded!Put(p, status, <<status>>)
  BY <1>1 DEF Transition, Recorded!Put
<1> QED
  BY <1>2 DEF Recorded!End

LEMMA EndsOf ==
  ASSUME NEW p \in Procs
  PROVE  /\ record[p] = "queued" => "interrupted" \in Recorded!Ends(p)
         /\ record[p] = "queued" /\ log[p] # <<>> => "failed" \in Recorded!Ends(p)
         /\ record[p] = "running" => Recorded!Ends(p) = Terminal
BY DEF Recorded!Ends, Terminal

LEMMA EmitSeen ==
  ASSUME TypeOK, NEW p \in Procs, NEW saw, Emit(p, saw), record' = record, HasStart(log[p])
  PROVE  /\ Unseen \/ Recorded!Output(p)
         /\ NotReported(log[p]) => NotReported(log'[p])
<1>0. log[p] \in Seq(EventTypes) /\ "process.output" \in EventTypes
  BY DEF TypeOK, EventTypes
<1>1. CASE saw[1] = saw[2]
  BY <1>1 DEF Emit, Unseen
<1>2. CASE saw[1] # saw[2]
  <2>1. AppendEvent(p, "process.output")
    BY <1>2 DEF Emit
  <2>2. Recorded!Output(p)
    BY <2>1, <1>0, PutEvent DEF Recorded!Output, Recorded!Happened, HasStart
  <2>3. log'[p] = Append(log[p], "process.output")
    BY <2>1 DEF AppendEvent, TypeOK
  <2>4. NotReported(log[p]) => NotReported(log'[p])
    BY <2>3, <1>0, Logs DEF NotReported
  <2> QED
    BY <2>2, <2>4
<1> QED
  BY <1>1, <1>2

(* Who has not ended has not reported. *)
LEMMA Unreported ==
  ASSUME TypeOK, NEW p \in Procs, LogInv(p), record[p] \notin Terminal
  PROVE  NotReported(log[p])
<1>1. /\ log[p] \in Seq(EventTypes) /\ GoodLog(log[p], record[p])
  BY DEF TypeOK, LogInv
<1>2. DOMAIN log[p] = 1 .. Len(log[p]) /\ Len(log[p]) \in Nat
  BY <1>1, LenProperties
<1> QED
  BY <1>1, <1>2 DEF GoodLog, NotReported

LEMMA EventsStep ==
  ASSUME TypeOK, NEW p \in Procs, Control(p), LogInv(p), EventsInv(p), ProcStep(p)
  PROVE  EventsInv(p)' /\ (Unseen \/ Visible(p))
<1>0. /\ log[p] \in Seq(EventTypes)
      /\ {"tool.queued", "tool.started", "check.completed"} \subseteq EventTypes
  BY DEF TypeOK, EventTypes
<1>00. <<"tool.queued">> # <<>>
  OBVIOUS
<1> USE DEF TypeOK, durable, os_vars, server, volatile, SpawnGoes, Goto, Claim, EventsInv, Unseen
<1>1. CASE Insert(p)
  <2>1. record[p] = "none" /\ finish[p].step = "none" /\ watch[p] = "off"
    BY <1>1 DEF Insert, Control, SpawnInv
  <2>2. Recorded!Accept(p)
    BY <1>1, <2>1, PutStatus DEF Insert, Recorded!Accept
  <2> QED
    BY <1>1, <2>1, <2>2 DEF Insert, Visible
<1>2. CASE Announce(p)
  <2>1. record[p] = "queued" /\ finish[p].step = "none" /\ watch[p] = "off"
    BY <1>2 DEF Announce, Control, SpawnInv, Before, InSpawn
  <2>2. log[p] = <<>> /\ log'[p] = Append(log[p], "tool.queued")
    BY <1>2 DEF Announce, AppendEvent
  <2>3. Recorded!Announce(p)
    BY <1>2, <1>0, <2>1, <2>2, PutEvent DEF Announce, Recorded!Announce
  <2>4. log'[p] = <<"tool.queued">>
    BY <2>2
  <2> QED
    BY <1>2, <2>1, <2>3, <2>4 DEF Announce, Visible
<1>3. CASE JoinQueue(p)
  BY <1>3 DEF JoinQueue
<1>4. CASE NotAdmitted(p)
  <2>0. log[p] # <<>>
    BY <1>4, <1>00 DEF NotAdmitted
  <2>1. /\ record[p] = "queued" /\ record[p] \notin Terminal /\ "failed" \in Terminal
        /\ finish[p].step = "none" /\ watch[p] = "off"
    BY <1>4 DEF NotAdmitted, Control, SpawnInv, Before, InSpawn, Terminal
  <2>2. Recorded!End(p)
    BY <1>4, <2>0, <2>1, EndsOf, PutEnd DEF NotAdmitted
  <2> QED
    BY <1>4, <2>1, <2>2 DEF NotAdmitted, Visible
<1>5. CASE GetLease(p)
  BY <1>5 DEF GetLease
<1>6. CASE Launch(p)
  BY <1>6 DEF Launch
<1>7. CASE LaunchFails(p)
  <2>0. log[p] # <<>>
    BY <1>7, <1>00 DEF LaunchFails
  <2>1. /\ record[p] = "queued" /\ record[p] \notin Terminal /\ "failed" \in Terminal
        /\ finish[p].step = "none" /\ watch[p] = "off"
    BY <1>7 DEF LaunchFails, Control, SpawnInv, Before, InSpawn, Terminal
  <2>2. Recorded!End(p)
    BY <1>7, <2>0, <2>1, EndsOf, PutEnd DEF LaunchFails
  <2> QED
    BY <1>7, <2>1, <2>2 DEF LaunchFails, Visible
<1>8. CASE ReleaseRefused(p)
  BY <1>8 DEF ReleaseRefused
<1>9. CASE MarkStarted(p)
  <2>1. /\ record[p] = "queued" /\ finish[p].step = "none" /\ watch[p] = "off"
        /\ log[p] = <<"tool.queued">>
    BY <1>9 DEF MarkStarted, Control, SpawnInv, Before, InSpawn
  <2>2. log'[p] = Append(log[p], "tool.started") /\ Append(log[p], "tool.started") = log[p] \o <<"tool.started">>
    BY <1>9, <1>0, AppendIsConcat DEF MarkStarted, AppendEvent
  <2>3. Recorded!Start(p)
    BY <1>9, <2>1, <2>2 DEF MarkStarted, AppendEvent, Recorded!Start, Recorded!Put
  <2>4. HasStart(log'[p])
    BY <2>2, <1>0, AppendStarts
  <2> QED
    BY <1>9, <2>1, <2>3, <2>4 DEF MarkStarted, Visible
<1>10. CASE Identify(p)
  BY <1>10 DEF Identify
<1>11. CASE Publish(p)
  BY <1>11 DEF Publish
<1>12. CASE StartWatchdog(p)
  BY <1>12 DEF StartWatchdog
<1>13. CASE Output(p)
  BY <1>13 DEF Output
<1>14. CASE Exit(p)
  BY <1>14 DEF Exit
<1>15. CASE WatchSlice(p)
  BY <1>15 DEF WatchSlice
<1>16. CASE WatchRead(p)
  BY <1>16 DEF WatchRead
<1>17. CASE WatchEmit(p)
  <2>1. Emit(p, sawWatch[p]) /\ record' = record /\ HasStart(log[p]) /\ watch[p] # "off"
    BY <1>17 DEF WatchEmit
  <2>2. spawn[p] \notin {"idle", "inserted", "queued", "waiting", "leased", "launched"}
    BY <2>1 DEF Control, SpawnInv, InSpawn
  <2> QED
    BY <1>17, <2>1, <2>2, EmitSeen, EmitLog DEF WatchEmit, Visible, LogInv
<1>18. CASE WatchAgain(p)
  BY <1>18 DEF WatchAgain
<1>19. CASE WatchViolation(p)
  BY <1>19 DEF WatchViolation
<1>20. CASE WatchExit(p)
  BY <1>20 DEF WatchExit
<1>21. CASE WatchTimeout(p)
  BY <1>21 DEF WatchTimeout
<1>22. CASE CheckExit(p)
  BY <1>22 DEF CheckExit
<1>23. CASE Cancel(p)
  BY <1>23 DEF Cancel
<1>24. CASE FinishKill(p)
  BY <1>24 DEF FinishKill
<1>25. CASE FinishRead(p)
  BY <1>25 DEF FinishRead
<1>26. CASE FinishEmit(p)
  <2>1. Emit(p, sawFinish[p]) /\ record' = record /\ finish'[p].step = "record" /\ finish[p].step = "emitting"
    BY <1>26 DEF FinishEmit
  <2>2. HasStart(log[p])
    BY <2>1 DEF Control, FinishInv, Stopping, LogInv
  <2>3. spawn[p] \notin {"idle", "inserted", "queued", "waiting", "leased", "launched"}
    BY <2>1 DEF Control, SpawnInv, InSpawn
  <2> QED
    BY <1>26, <2>1, <2>2, <2>3, EmitSeen, EmitLog DEF FinishEmit, Visible, LogInv
<1>27. CASE FinishRecord(p)
  <2>1. /\ record[p] = "running" /\ record[p] \notin Terminal /\ finish[p].status \in Terminal
        /\ Transition(p, finish[p].status) /\ spawn'[p] = spawn[p] /\ watch'[p] = watch[p]
    BY <1>27 DEF FinishRecord, Control, FinishInv, EndInv, Stopping, Forced, ByItself, Terminal
  <2>2. Recorded!End(p)
    BY <2>1, EndsOf, PutEnd
  <2>3. log'[p] = Append(log[p], finish[p].status) /\ finish[p].status \in EventTypes
    BY <2>1 DEF Transition, EventTypes
  <2>4. NotReported(log'[p])
    <3>1. NotReported(log[p]) /\ finish[p].status # "check.completed"
      BY <2>1, Unreported DEF Terminal
    <3> QED
      BY <2>3, <3>1, <1>0, Logs DEF NotReported
  <2>5. HasStart(log[p]) => HasStart(log'[p])
    BY <2>3, <1>0, AppendStarts
  <2>6. spawn[p] \notin {"idle", "inserted", "queued", "waiting", "leased", "launched"}
    BY <1>27 DEF FinishRecord, Control, SpawnInv, InSpawn
  <2>7. finish'[p].step = "report" => p \in Checks
    BY <1>27 DEF FinishRecord
  <2> QED
    BY <2>1, <2>2, <2>4, <2>5, <2>6, <2>7 DEF Visible
<1>28. CASE FinishReport(p)
  <2>1. /\ AppendEvent(p, "check.completed") /\ record' = record /\ HasTerminal(log[p])
        /\ p \in Checks /\ NotReported(log[p]) /\ finish[p].step = "report"
        /\ finish'[p].step = "done" /\ spawn'[p] = spawn[p] /\ watch'[p] = watch[p]
    BY <1>28 DEF FinishReport, LogInv
  <2>2. Recorded!Happened(p, record[p]) /\ ~ Recorded!Happened(p, "check.completed")
    BY <2>1 DEF LogInv, GoodLog, HasTerminal, NotReported, Recorded!Happened
  <2>3. Recorded!Report(p)
    BY <2>1, <2>2, <1>0, PutEvent DEF Recorded!Report
  <2>4. HasStart(log[p]) => HasStart(log'[p])
    BY <2>1, <1>0, AppendStarts DEF AppendEvent
  <2>5. spawn[p] \notin {"idle", "inserted", "queued", "waiting", "leased", "launched"}
    BY <2>1 DEF Control, SpawnInv, InSpawn
  <2> QED
    BY <2>1, <2>3, <2>4, <2>5 DEF Visible
<1>29. CASE FinishDone(p)
  BY <1>29 DEF FinishDone
<1>30. CASE FinishPop(p)
  BY <1>30 DEF FinishPop
<1>31. CASE FinishRelease(p)
  BY <1>31 DEF FinishRelease, Idle
<1>32. CASE RecoverTerminal(p)
  <2>1. PICK status \in Dispositions(p) : Transition(p, status)
    BY <1>32 DEF RecoverTerminal
  <2>2. /\ status \in Terminal /\ record[p] \in {"queued", "running"} /\ record[p] \notin Terminal
        /\ record[p] = "queued" => status = "interrupted"
        /\ finish[p].step = "none" /\ spawn[p] = "over" /\ watch[p] = "off"
    BY <1>32, <2>1 DEF RecoverTerminal, Dispositions, Control, DownInv, Incomplete, Terminal
  <2>3. Recorded!End(p)
    BY <2>1, <2>2, EndsOf, PutEnd
  <2> QED
    BY <1>32, <2>2, <2>3 DEF RecoverTerminal, Visible
<1>33. CASE Adopt(p)
  <2>1. /\ record[p] = "running" /\ finish[p].step = "none" /\ record' = record
        /\ AppendEvent(p, "tool.started") /\ finish'[p] = finish[p] /\ spawn'[p] = "adopted"
    BY <1>33 DEF Adopt, Adoptable, Control, DownInv
  <2>2. Recorded!Resume(p)
    BY <2>1, <1>0, PutEvent DEF Recorded!Resume
  <2>3. HasStart(log'[p])
    BY <2>1, <1>0, AppendStarts DEF AppendEvent
  <2> QED
    BY <2>1, <2>2, <2>3 DEF Visible
<1>34. CASE AdoptionFails(p)
  <2>1. /\ "recovery_required" \in Terminal /\ record[p] \notin Terminal /\ record[p] = "running"
        /\ finish[p].step = "none" /\ spawn[p] = "over" /\ watch[p] = "off"
    BY <1>34 DEF AdoptionFails, Adoptable, Control, DownInv, Terminal
  <2>2. Recorded!End(p)
    BY <1>34, <2>1, EndsOf, PutEnd DEF AdoptionFails
  <2> QED
    BY <1>34, <2>1, <2>2 DEF AdoptionFails, Visible
<1>35. CASE SupervisorRecovers(p)
  <2>1. PICK status \in Dispositions(p) : record' = [record EXCEPT ![p] = status]
    BY <1>35 DEF SupervisorRecovers
  <2>2. /\ status \in {"interrupted", "lost", "recovery_required"} /\ status \in Terminal
        /\ record[p] \in {"queued", "running"}
        /\ record[p] = "queued" => status = "interrupted"
        /\ log' = log /\ spawn'[p] = spawn[p] /\ finish'[p] = finish[p] /\ watch'[p] = watch[p]
    BY <1>35, <2>1 DEF SupervisorRecovers, Dispositions, Unfinished, Incomplete, Terminal
  <2>3. status \in Recorded!Ends(p)
    BY <2>2, EndsOf
  <2>4. Recorded!EndUnannounced(p)
    BY <2>1, <2>2, <2>3, PutStatus DEF Recorded!EndUnannounced
  <2> QED
    BY <2>2, <2>4 DEF Visible
<1> QED
  BY <1>1, <1>2, <1>3, <1>4, <1>5, <1>6, <1>7, <1>8, <1>9, <1>10, <1>11, <1>12, <1>13, <1>14, <1>15, <1>16, <1>17, <1>18, <1>19, <1>20, <1>21, <1>22, <1>23, <1>24, <1>25, <1>26, <1>27, <1>28, <1>29, <1>30, <1>31, <1>32, <1>33, <1>34, <1>35
     DEF ProcStep, SpawnStep, SampleStep, FinishStep, RecoverStep

EventsHold == \A p \in Procs : EventsInv(p)

LEMMA EventsInit ==
  ASSUME Init
  PROVE  EventsHold /\ Recorded!Init
<1>1. EventsHold
  BY DEF Init, EventsHold, EventsInv, Idle
<1>2. Recorded!Init
  BY DEF Init, Recorded!Init
<1> QED
  BY <1>1, <1>2

LEMMA EventsNext ==
  ASSUME IInv, EventsHold, [Next]_vars
  PROVE  EventsHold' /\ [Recorded!Next]_<<record, log>>
<1> USE DEF EventsHold
<1>1. CASE \E p \in Procs : ProcStep(p)
  <2>1. PICK p \in Procs : ProcStep(p)
    BY <1>1
  <2>2. EventsInv(p)' /\ (Unseen \/ Visible(p))
    BY <2>1, EventsStep DEF IInv, ProcInv
  <2>3. ASSUME NEW q \in Procs \ {p}
        PROVE  EventsInv(q)'
    <3>1. Same(q)
      BY <2>1, FrameStep DEF IInv
    <3> QED
      BY <3>1 DEF Same, EventsInv
  <2> QED
    BY <2>2, <2>3 DEF Unseen, Visible, Recorded!Next
<1>2. CASE BeginShutdown \/ EndShutdown \/ Crash \/ Restart \/ Serve
  <2>1. UNCHANGED <<record, log>>
    BY <1>2 DEF BeginShutdown, EndShutdown, Crash, Restart, Serve, durable
  <2>2. ASSUME NEW p \in Procs
        PROVE  EventsInv(p)'
    <3>1. TypeOK /\ EventsInv(p)
      BY DEF IInv
    <3>2. CASE BeginShutdown
      BY <3>1, <3>2 DEF BeginShutdown, durable, EventsInv, TypeOK
    <3>3. CASE EndShutdown
      BY <3>1, <3>3 DEF EndShutdown, durable, volatile, EventsInv
    <3>4. CASE Crash
      BY <3>1, <3>4 DEF Crash, durable, EventsInv, Idle
    <3>5. CASE Restart \/ Serve
      BY <3>1, <3>5 DEF Restart, Serve, durable, volatile, EventsInv
    <3> QED
      BY <1>2, <3>2, <3>3, <3>4, <3>5
  <2> QED
    BY <2>1, <2>2
<1>3. CASE UNCHANGED vars
  BY <1>3 DEF vars, durable, volatile, EventsInv
<1> QED
  BY <1>1, <1>2, <1>3 DEF Next, ProcStep

(* To a client the whole machinery looks like ProcessRecord: records and   *)
(* events change in its steps only, with any processes, quotas and bounds. *)
THEOREM LifecycleImplementsRecord == Spec => ImplementsRecord
<1>1. Init => EventsHold /\ Recorded!Init
  BY EventsInit
<1>2. IInv /\ EventsHold /\ [Next]_vars => EventsHold' /\ [Recorded!Next]_<<record, log>>
  BY EventsNext
<1> QED
  BY <1>1, <1>2, Invariance, PTL DEF Spec, ImplementsRecord, Recorded!Spec
=============================================================================
