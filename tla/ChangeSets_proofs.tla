------------------------- MODULE ChangeSets_proofs --------------------------
(***************************************************************************)
(* Proofs about ChangeSets: a change set is applied as a whole or not at   *)
(* all, a crash alone never leaves a state that recovery cannot prove, and *)
(* without foreign writes and failures ChangeSets implements AtomicChanges,*)
(* for any change sets, operations, files, crashes and failing writes.     *)
(***************************************************************************)
EXTENDS ChangeSets, TLAPS

(* The work tree is, or may have to be made, what it was at begin.         *)
Live(s) == status[s] \in Active \/ (call.set = s /\ call.step \in {"complete", "restore"})

(* The rollback directory holds the copy of the commit.                    *)
Kept(s) ==
  \/ status[s] = "committing"
  \/ call.set = s
       /\ call.step \in {"mark", "intent", "check", "apply", "write", "finish", "complete", "restore"}

ControlInv ==
  /\ call.step = "idle" => call = NoCall
  /\ server = "down" => call.step = "idle"
  /\ server = "recovering" => call.step \in {"idle", "restore"}
  /\ call.step = "staged" => status[call.set] \in {"open", "validated"}
  /\ call.step \in {"snapshot", "mark"} => status[call.set] = "validated"
  /\ call.step \in {"intent", "check", "apply", "write", "finish"} => status[call.set] = "committing"
  /\ call.step = "complete" => status[call.set] = "committed"
  /\ call.step = "restore" =>
       status[call.set] = "committing" \/ (status[call.set] = "committed" /\ failures > 0)
  /\ \A s, t \in Sets : Live(s) /\ Live(t) => s = t
  /\ \A s \in Sets : status[s] \in {"validated", "committing", "committed"} => after[s] # NotValidated
  /\ call.step \in {"write", "restore"} => pending \subseteq Touched(call.set)

(* What was recorded is in the staging directory, and in what is validated.*)
StageInv ==
  /\ \A s \in Sets :
       /\ staging[s] \subseteq Own(s)
       /\ after[s] # NotValidated => after[s] \subseteq Own(s) /\ ops[s] \subseteq after[s]
       /\ status[s] \in {"none", "open", "validated"} => ops[s] \subseteq staging[s]
  /\ call.step = "staged" =>
       /\ SetOf[call.op] = call.set
       /\ call.op \in staging[call.set] /\ call.op \notin ops[call.set]

(* The operations of other change sets in S.                               *)
Foreign(s, S) == {o \in S : o \in Ops /\ SetOf[o] # s}

(* Of the operations in the tree only those of the change set that is      *)
(* being committed change; the base, the copy and the image hold those of  *)
(* the others.                                                             *)
FileInv(s, f) ==
  /\ status[s] # "none" => base[s][f] \cap Own(s) = {}
  /\ Live(s) => Foreign(s, tree[f]) = Foreign(s, base[s][f])
  /\ status[s] \in {"none", "open", "validated", "rolled_back", "expired"} =>
       tree[f] \cap Own(s) = {}
  /\ Kept(s) =>
       /\ snapshot[f] \cap Own(s) = {}
       /\ f \in Touched(s) => Foreign(s, snapshot[f]) = Foreign(s, base[s][f])
  /\ call.step = "write" /\ call.set = s => Foreign(s, image[f]) = Foreign(s, base[s][f])

DoneInv(s) ==
  status[s] = "committed" \/ (call.step = "finish" /\ call.set = s) =>
    after[s] \subseteq Present \/ failures > 0

TreeInv == \A s \in Sets : DoneInv(s) /\ \A f \in Files : FileInv(s, f)

(* As long as nothing but crashes happened, the tree is the base but for   *)
(* what the commit has still to write or to restore.                       *)
CalmInv ==
  Calm =>
    /\ \A s \in Sets :
         /\ status[s] # "recovery_required"
         /\ status[s] \in {"open", "validated"} => tree = base[s]
         /\ Kept(s) => \A f \in Files : IF f \in Touched(s) THEN snapshot[f] = base[s][f]
                                                            ELSE tree[f] = base[s][f]
    /\ call.step = "restore" => \A f \in Files \ pending : tree[f] = base[call.set][f]

IInv == TypeOK /\ ControlInv /\ StageInv /\ TreeInv /\ CalmInv
-----------------------------------------------------------------------------

LEMMA NoCallTyped == NoCall \in [step : Steps, set : Sets] /\ NoCall.step = "idle"
BY OpsAssumption DEF NoCall, Steps

LEMMA OpsOK ==
  /\ \A o \in Ops : SetOf[o] \in Sets /\ FileOf[o] \in Files
  /\ \A S \in SUBSET Ops : NotValidated # S
  /\ MaxCrashes \in Nat /\ MaxFailures \in Nat /\ Externals \cap Ops = {}
BY OpsAssumption

LEMMA CallTyped ==
  ASSUME TypeOK
  PROVE  /\ call.step \in Steps \cup {"staged"} /\ call.set \in Sets
         /\ call.step = "staged" => call.op \in Ops
BY DEF TypeOK, Steps

LEMMA TouchedTyped ==
  ASSUME TypeOK, NEW s \in Sets, after[s] # NotValidated
  PROVE  Touched(s) \subseteq Files
BY OpsOK DEF TypeOK, Touched

LEMMA WithTyped ==
  ASSUME NEW t \in Trees, NEW E
  PROVE  With(t, E) \in Trees
BY DEF With, Trees, Edits

LEMMA EmptyTyped == [f \in Files |-> {}] \in Trees
BY DEF Trees

(* A call with a validated change set: what it touches are files.          *)
LEMMA CommitTouches ==
  ASSUME IInv, call.step \in Steps \ {"idle"}
  PROVE  /\ call.set \in Sets /\ after[call.set] # NotValidated
         /\ after[call.set] \in SUBSET Ops /\ Touched(call.set) \subseteq Files
<1>1. call.set \in Sets
  BY CallTyped DEF IInv
<1>2. status[call.set] \in {"validated", "committing", "committed"}
  BY DEF IInv, ControlInv, Steps
<1>3. after[call.set] # NotValidated
  BY <1>1, <1>2 DEF IInv, ControlInv
<1> QED BY <1>1, <1>3, TouchedTyped DEF IInv, TypeOK

LEMMA InitInv == Init => IInv
<1> SUFFICES ASSUME Init PROVE IInv
  OBVIOUS
<1> USE OpsAssumption DEF Init
<1>1. TypeOK
  <2>1. call \in [step : Steps, set : Sets]
    BY NoCallTyped
  <2>2. [f \in Files |-> {}] \in Trees
    BY EmptyTyped
  <2>3. 0 \in 0 .. MaxCrashes /\ 0 \in 0 .. MaxFailures
    OBVIOUS
  <2> QED BY <2>1, <2>2, <2>3 DEF TypeOK
<1>2. call.step = "idle"
  BY NoCallTyped
<1>3. ControlInv
  BY <1>2 DEF ControlInv, Live, Active
<1>4. StageInv
  BY <1>2 DEF StageInv
<1>5. TreeInv
  BY <1>2 DEF TreeInv, FileInv, DoneInv, Live, Kept, Active
<1>6. CalmInv
  BY <1>2 DEF CalmInv, Kept
<1> QED BY <1>1, <1>3, <1>4, <1>5, <1>6 DEF IInv

-----------------------------------------------------------------------------
(* The environment.                                                        *)

LEMMA ExternalInv ==
  ASSUME IInv, NEW x \in Externals, NEW f \in Files, External(x, f)
  PROVE  IInv'
<1>1. /\ external' = external \cup {x} /\ tree' = [tree EXCEPT ![f] = @ \cup {x}]
      /\ UNCHANGED <<status, ops, manifest, after, base, bumped, staging, snapshot, call,
                     pending, image, overdue, server, crashes, failures>>
  BY DEF External, database, control
<1>2. x \notin Ops /\ tree \in Trees
  BY OpsAssumption DEF IInv, TypeOK
<1>3. tree' \in Trees /\ \A g \in Files : tree'[g] \in {tree[g], tree[g] \cup {x}}
  BY <1>1, <1>2 DEF Trees, Edits
<1>4. TypeOK'
  BY <1>1, <1>3 DEF IInv, TypeOK
<1>5. ControlInv' /\ StageInv'
  BY <1>1 DEF IInv, ControlInv, StageInv, Live, Touched, Own
<1>6. TreeInv'
  <2>1. \A g \in Files, s \in Sets :
          Foreign(s, tree'[g]) = Foreign(s, tree[g]) /\ tree'[g] \cap Own(s) = tree[g] \cap Own(s)
    BY <1>2, <1>3 DEF Foreign, Own
  <2>2. Present \subseteq Present'
    BY <1>3 DEF Present
  <2>3. \A s \in Sets : (Live(s)' <=> Live(s)) /\ (Kept(s)' <=> Kept(s)) /\ Touched(s)' = Touched(s)
    BY <1>1 DEF Live, Kept, Touched
  <2>4. ASSUME NEW s \in Sets, NEW g \in Files PROVE FileInv(s, g)'
    <3>1. FileInv(s, g)
      BY DEF IInv, TreeInv
    <3> QED BY <1>1, <2>1, <2>3, <3>1 DEF FileInv, Foreign, Own
  <2>5. ASSUME NEW s \in Sets PROVE DoneInv(s)'
    BY <1>1, <2>2 DEF IInv, TreeInv, DoneInv
  <2> QED BY <2>4, <2>5 DEF TreeInv
<1>7. CalmInv'
  BY <1>1 DEF CalmInv, Calm
<1> QED BY <1>4, <1>5, <1>6, <1>7 DEF IInv

(* A step that writes no files and starts nothing keeps what is known of   *)
(* the files.                                                              *)
LEMMA TreeFrame ==
  ASSUME IInv, UNCHANGED <<base, tree, snapshot>>,
         \A s \in Sets :
           /\ status'[s] # "none" => status[s] # "none"
           /\ Live(s)' => Live(s)
           /\ Kept(s)' => Kept(s) /\ after'[s] = after[s]
           /\ status'[s] \in {"none", "open", "validated", "rolled_back", "expired"} =>
                status[s] \in {"none", "open", "validated", "rolled_back", "expired"}
           /\ DoneInv(s)',
         call'.step = "write" => call.step = "write" /\ call'.set = call.set /\ image' = image
  PROVE  TreeInv'
<1> SUFFICES ASSUME NEW s \in Sets, NEW f \in Files PROVE FileInv(s, f)'
  BY DEF TreeInv
<1>1. FileInv(s, f)
  BY DEF IInv, TreeInv
<1>2. Kept(s)' => Touched(s)' = Touched(s)
  BY DEF Touched
<1> QED BY <1>1, <1>2 DEF FileInv, Foreign, Own

LEMMA OverdueInv == ASSUME IInv, NEW s \in Sets, Overdue(s) PROVE IInv'
<1>1. /\ overdue' = overdue \cup {s}
      /\ UNCHANGED <<status, ops, manifest, after, base, bumped, staging, snapshot, tree, call,
                     pending, image, server, crashes, failures, external>>
  BY DEF Overdue, database, disk, control
<1>2. TypeOK'
  BY <1>1 DEF IInv, TypeOK
<1>3. ControlInv' /\ StageInv' /\ CalmInv'
  BY <1>1 DEF IInv, ControlInv, StageInv, CalmInv, Calm, Live, Kept, Touched, Own
<1>4. TreeInv'
  BY <1>1 DEF IInv, TreeInv, FileInv, DoneInv, Live, Kept, Touched, Own, Present, Foreign
<1> QED BY <1>2, <1>3, <1>4 DEF IInv

LEMMA CrashInv == ASSUME IInv, Crash PROVE IInv'
<1>1. /\ crashes < MaxCrashes /\ crashes' = crashes + 1 /\ server' = "down"
      /\ call' = NoCall /\ pending' = {} /\ image' = [f \in Files |-> {}]
      /\ UNCHANGED <<status, ops, manifest, after, base, bumped, staging, snapshot, tree,
                     overdue, failures, external>>
  BY DEF Crash, database, disk
<1>2. TypeOK'
  <2>1. crashes' \in 0 .. MaxCrashes
    BY <1>1, OpsOK DEF IInv, TypeOK
  <2> QED BY <1>1, <2>1, NoCallTyped, EmptyTyped DEF IInv, TypeOK
<1>3. call'.step = "idle"
  BY <1>1, NoCallTyped
<1>4. \A s \in Sets : (Live(s)' => Live(s)) /\ (Kept(s)' => Kept(s))
  BY <1>1, <1>3 DEF Live, Kept
<1>5. ControlInv' /\ StageInv'
  BY <1>1, <1>3, <1>4 DEF IInv, ControlInv, StageInv, Own
<1>6. TreeInv'
  <2>1. \A s \in Sets : DoneInv(s)'
    BY <1>1, <1>3 DEF IInv, TreeInv, DoneInv, Present
  <2> QED BY <1>1, <1>3, <1>4, <2>1, TreeFrame
<1>7. CalmInv'
  BY <1>1, <1>3, <1>4 DEF IInv, CalmInv, Calm, Touched
<1> QED BY <1>2, <1>5, <1>6, <1>7 DEF IInv

LEMMA RestartInv == ASSUME IInv, Restart PROVE IInv'
<1>1. /\ server = "down" /\ server' = "recovering"
      /\ UNCHANGED <<status, ops, manifest, after, base, bumped, staging, snapshot, tree, call,
                     pending, image, overdue, crashes, failures, external>>
  BY DEF Restart, database, disk, control
<1>2. TypeOK'
  BY <1>1 DEF IInv, TypeOK
<1>3. ControlInv' /\ StageInv' /\ CalmInv'
  BY <1>1 DEF IInv, ControlInv, StageInv, CalmInv, Calm, Live, Kept, Touched, Own
<1>4. TreeInv'
  BY <1>1 DEF IInv, TreeInv, FileInv, DoneInv, Live, Kept, Touched, Own, Present, Foreign
<1> QED BY <1>2, <1>3, <1>4 DEF IInv

(* cleanup_expired, and what it leaves alone.                              *)
LEMMA ServeInv == ASSUME IInv, Serve PROVE IInv'
<1> DEFINE expiring == {s \in overdue : status[s] \in {"open", "validated"}}
<1>1. /\ server' = "serving" /\ call = NoCall
      /\ status' = [s \in Sets |-> IF s \in expiring THEN "expired" ELSE status[s]]
      /\ staging' = [s \in Sets |-> IF s \in expiring THEN {} ELSE staging[s]]
      /\ UNCHANGED <<ops, manifest, after, base, bumped, snapshot, tree, call, pending, image,
                     overdue, crashes, failures, external>>
  BY DEF Serve, control
<1>2. call.step = "idle" /\ call'.step = "idle"
  BY <1>1, NoCallTyped
<1>3. \A s \in Sets :
        \/ status'[s] = status[s] /\ staging'[s] = staging[s]
        \/ status[s] \in {"open", "validated"} /\ status'[s] = "expired" /\ staging'[s] = {}
  BY <1>1
<1> HIDE DEF expiring
<1>4. TypeOK'
  <2>1. status' \in [Sets -> Active \cup {"none", "committed", "rolled_back", "expired"}]
    BY <1>1 DEF IInv, TypeOK
  <2>2. staging' \in [Sets -> SUBSET Ops]
    BY <1>1 DEF IInv, TypeOK
  <2> QED BY <1>1, <2>1, <2>2 DEF IInv, TypeOK
<1>5. \A s \in Sets : (Live(s)' => Live(s)) /\ (Kept(s)' => Kept(s))
  BY <1>1, <1>2, <1>3 DEF Live, Kept, Active
<1>6. ControlInv' /\ StageInv'
  BY <1>1, <1>2, <1>3, <1>5 DEF IInv, ControlInv, StageInv, Own
<1>7. TreeInv'
  <2>1. \A s \in Sets : DoneInv(s)'
    BY <1>1, <1>2, <1>3 DEF IInv, TreeInv, DoneInv, Present
  <2>2. \A s \in Sets : /\ status'[s] # "none" => status[s] # "none"
                        /\ status'[s] \in {"none", "open", "validated", "rolled_back", "expired"} =>
                             status[s] \in {"none", "open", "validated", "rolled_back", "expired"}
    BY <1>3
  <2> QED BY <1>1, <1>2, <1>5, <2>1, <2>2, TreeFrame
<1>8. CalmInv'
  BY <1>1, <1>2, <1>3, <1>5 DEF IInv, CalmInv, Calm, Touched
<1> QED BY <1>4, <1>6, <1>7, <1>8 DEF IInv

-----------------------------------------------------------------------------
(* Staging.                                                                *)

LEMMA IdleCall == ASSUME TypeOK, Idle PROVE call = NoCall /\ call.step = "idle" /\ server = "serving"
BY NoCallTyped DEF Idle

LEMMA BeginInv == ASSUME IInv, NEW s \in Sets, Begin(s) PROVE IInv'
<1>1. /\ call.step = "idle" /\ status[s] = "none" /\ (\A t \in Sets : status[t] \notin Active)
      /\ status' = [status EXCEPT ![s] = "open"] /\ base' = [base EXCEPT ![s] = tree]
      /\ UNCHANGED <<ops, manifest, after, bumped, staging, snapshot, tree, call, pending, image,
                     overdue, server, crashes, failures, external>>
  BY IdleCall DEF Begin, SetStatus, disk, control, environment, IInv
<1>2. /\ status'[s] = "open" /\ base'[s] = tree
      /\ \A t \in Sets : t # s => status'[t] = status[t] /\ base'[t] = base[t]
  BY <1>1 DEF IInv, TypeOK
<1>3. TypeOK'
  BY <1>1 DEF IInv, TypeOK, Active
<1>4. \A t \in Sets : /\ Live(t)' => t = s
                      /\ ~ Kept(t)'
                      /\ status'[t] \notin {"committing", "recovery_required"}
  BY <1>1, <1>2 DEF Live, Kept, Active
<1>5. ControlInv'
  BY <1>1, <1>2, <1>4 DEF IInv, ControlInv
<1>6. StageInv'
  BY <1>1, <1>2 DEF IInv, StageInv, Own
<1>7. TreeInv'
  <2> SUFFICES ASSUME NEW t \in Sets PROVE DoneInv(t)' /\ \A f \in Files : FileInv(t, f)'
    BY DEF TreeInv
  <2>1. DoneInv(t)'
    BY <1>1, <1>2 DEF IInv, TreeInv, DoneInv, Present
  <2>2. ASSUME NEW f \in Files PROVE FileInv(t, f)'
    <3>1. FileInv(t, f)
      BY DEF IInv, TreeInv
    <3> QED BY <1>1, <1>2, <1>4, <3>1 DEF FileInv, Own, Foreign
  <2> QED BY <2>1, <2>2
<1>8. CalmInv'
  BY <1>1, <1>2, <1>4 DEF IInv, CalmInv, Calm
<1> QED BY <1>3, <1>5, <1>6, <1>7, <1>8 DEF IInv

(* A change set that is open or validated ends, or stays so.               *)
LEMMA StatusInv ==
  ASSUME IInv, NEW s \in Sets, call.step = "idle", call' = call,
         status[s] \in {"open", "validated"},
         NEW v \in {"open", "validated", "expired", "rolled_back"}, SetStatus(s, v),
         NEW d \in SUBSET Own(s), staging' = [staging EXCEPT ![s] = d],
         v \in {"open", "validated"} => d = staging[s],
         NEW a \in {NotValidated} \cup SUBSET Own(s), after' = [after EXCEPT ![s] = a],
         a # NotValidated => ops[s] \subseteq a, v = "validated" => a # NotValidated,
         UNCHANGED <<ops, manifest, base, bumped, snapshot, tree, pending, image, environment>>
  PROVE  IInv'
<1>1. /\ status'[s] = v /\ after'[s] = a /\ staging'[s] = d
      /\ \A t \in Sets : t # s => /\ status'[t] = status[t] /\ after'[t] = after[t]
                                  /\ staging'[t] = staging[t]
      /\ UNCHANGED <<overdue, server, crashes, failures, external>>
  BY DEF IInv, TypeOK, SetStatus, environment
<1>2. TypeOK'
  <2>1. status' \in [Sets -> Active \cup {"none", "committed", "rolled_back", "expired"}]
    BY DEF IInv, TypeOK, SetStatus, Active
  <2>2. staging' \in [Sets -> SUBSET Ops] /\ after' \in [Sets -> {NotValidated} \cup SUBSET Ops]
    BY DEF IInv, TypeOK, Own
  <2> QED BY <1>1, <2>1, <2>2 DEF IInv, TypeOK
<1>3. \A t \in Sets : /\ Live(t)' => Live(t)
                      /\ Kept(t)' => Kept(t) /\ t # s
  BY <1>1 DEF Live, Kept, Active
<1>4. ControlInv'
  BY <1>1, <1>3 DEF IInv, ControlInv
<1>5. StageInv'
  BY <1>1 DEF IInv, StageInv, Own
<1>6. TreeInv'
  <2> SUFFICES ASSUME NEW t \in Sets PROVE DoneInv(t)' /\ \A f \in Files : FileInv(t, f)'
    BY DEF TreeInv
  <2>1. DoneInv(t)'
    BY <1>1 DEF IInv, TreeInv, DoneInv, Present
  <2>2. ASSUME NEW f \in Files PROVE FileInv(t, f)'
    <3>1. FileInv(t, f)
      BY DEF IInv, TreeInv
    <3>2. t # s => Touched(t)' = Touched(t)
      BY <1>1 DEF Touched
    <3> QED BY <1>1, <1>3, <3>1, <3>2 DEF FileInv, Own, Foreign
  <2> QED BY <2>1, <2>2
<1>7. CalmInv'
  <2> SUFFICES ASSUME Calm, NEW t \in Sets
               PROVE  /\ status'[t] # "recovery_required"
                      /\ status'[t] \in {"open", "validated"} => tree = base[t]
                      /\ Kept(t)' => \A f \in Files : IF f \in Touched(t)' THEN snapshot[f] = base[t][f]
                                                                           ELSE tree[f] = base[t][f]
    BY <1>1 DEF CalmInv, Calm
  <2>1. t # s => Touched(t)' = Touched(t)
    BY <1>1 DEF Touched
  <2> QED BY <1>1, <1>3, <2>1 DEF IInv, CalmInv
<1> QED BY <1>2, <1>4, <1>5, <1>6, <1>7 DEF IInv

LEMMA EndInv == ASSUME IInv, NEW s \in Sets, Expire(s) \/ Rollback(s) \/ Validate(s) PROVE IInv'
<1>1. /\ call.step = "idle" /\ call' = call /\ status[s] \in {"open", "validated"}
      /\ UNCHANGED <<ops, manifest, base, bumped, snapshot, tree, pending, image, environment>>
  BY IdleCall DEF Expire, Rollback, Validate, Usable, disk, control, IInv
<1>2. /\ staging[s] \in SUBSET Own(s) /\ after[s] \in {NotValidated} \cup SUBSET Own(s)
      /\ after[s] # NotValidated => ops[s] \subseteq after[s]
      /\ ops[s] \subseteq staging[s] /\ {} \in SUBSET Own(s)
  BY <1>1 DEF IInv, StageInv
<1>3. staging = [staging EXCEPT ![s] = staging[s]] /\ after = [after EXCEPT ![s] = after[s]]
  BY DEF IInv, TypeOK
<1>4. CASE Expire(s)
  <2>1. SetStatus(s, "expired") /\ staging' = [staging EXCEPT ![s] = {}] /\ after' = after
    BY <1>4 DEF Expire
  <2> QED BY <1>1, <1>2, <1>3, <2>1, StatusInv
<1>5. CASE Rollback(s)
  <2>1. /\ SetStatus(s, "rolled_back") /\ staging' = [staging EXCEPT ![s] = {}]
        /\ after' = [after EXCEPT ![s] = NotValidated]
    BY <1>5 DEF Rollback
  <2> QED BY <1>1, <1>2, <2>1, StatusInv
<1>6. CASE Validate(s)
  <2>1. staging' = staging
    BY <1>6 DEF Validate, disk
  <2>2. CASE SetStatus(s, "validated") /\ after' = [after EXCEPT ![s] = staging[s]]
    <3>1. staging[s] # NotValidated
      BY OpsOK DEF IInv, TypeOK
    <3> QED BY <1>1, <1>2, <1>3, <2>1, <2>2, <3>1, StatusInv
  <2>3. CASE SetStatus(s, "open") /\ after' = [after EXCEPT ![s] = NotValidated]
    BY <1>1, <1>2, <1>3, <2>1, <2>3, StatusInv
  <2> QED BY <1>6, <2>2, <2>3 DEF Validate
<1> QED BY <1>4, <1>5, <1>6

(* The operation is in the directory; then it is recorded or taken back.   *)
LEMMA StageApplyInv == ASSUME IInv, NEW o \in Ops, StageApply(o) PROVE IInv'
<1> DEFINE s == SetOf[o]
<1>1. /\ call.step = "idle" /\ server = "serving"
      /\ status[s] \in {"open", "validated"} /\ o \notin ops[s] \cup staging[s]
      /\ staging' = [staging EXCEPT ![s] = @ \cup {o}]
      /\ call' = [step |-> "staged", set |-> s, op |-> o]
      /\ UNCHANGED <<status, ops, manifest, after, base, bumped, snapshot, tree, pending, image,
                     overdue, server, crashes, failures, external>>
  BY IdleCall DEF StageApply, Usable, database, environment, IInv
<1>2. s \in Sets /\ o \in Own(s)
  BY OpsOK DEF Own
<1>3. call'.step = "staged" /\ call'.set = s /\ call'.op = o
  BY <1>1
<1> HIDE DEF s
<1>4. TypeOK'
  <2>1. call' \in [step : {"staged"}, set : Sets, op : Ops]
    BY <1>1, <1>2
  <2>2. staging' \in [Sets -> SUBSET Ops]
    BY <1>1, <1>2 DEF IInv, TypeOK
  <2> QED BY <1>1, <2>1, <2>2 DEF IInv, TypeOK
<1>5. \A t \in Sets : (Live(t)' => Live(t)) /\ (Kept(t)' => Kept(t))
  BY <1>1, <1>3 DEF Live, Kept
<1>6. ControlInv'
  BY <1>1, <1>3, <1>5 DEF IInv, ControlInv
<1>7. StageInv'
  <2>1. staging'[s] = staging[s] \cup {o} /\ \A t \in Sets : t # s => staging'[t] = staging[t]
    BY <1>1, <1>2 DEF IInv, TypeOK
  <2>2. SetOf[o] = s
    BY DEF s
  <2> QED BY <1>1, <1>2, <1>3, <2>1, <2>2 DEF IInv, StageInv, Own
<1>8. TreeInv'
  <2>1. \A t \in Sets : DoneInv(t)'
    BY <1>1, <1>3 DEF IInv, TreeInv, DoneInv, Present
  <2> QED BY <1>1, <1>3, <1>5, <2>1, TreeFrame
<1>9. CalmInv'
  BY <1>1, <1>3, <1>5 DEF IInv, CalmInv, Calm, Touched
<1> QED BY <1>4, <1>6, <1>7, <1>8, <1>9 DEF IInv

LEMMA StageEndInv ==
  ASSUME IInv, NEW o \in Ops, StageRecord(o) \/ StageFails(o)
  PROVE  IInv'
<1> DEFINE s == SetOf[o]
<1>1. /\ call = [step |-> "staged", set |-> s, op |-> o] /\ call' = NoCall
      /\ \/ /\ ops' = [ops EXCEPT ![s] = @ \cup {o}] /\ manifest' = [manifest EXCEPT ![s] = staging[s]]
            /\ status' = [status EXCEPT ![s] = "open"]
            /\ after' = [after EXCEPT ![s] = NotValidated] /\ staging' = staging
         \/ staging' = [staging EXCEPT ![s] = @ \ {o}] /\ UNCHANGED <<ops, manifest, status, after>>
      /\ UNCHANGED <<base, bumped, snapshot, tree, pending, image,
                     overdue, server, crashes, failures, external>>
  BY DEF StageRecord, StageFails, SetStatus, database, disk, environment
<1>2. /\ s \in Sets /\ o \in Own(s) /\ call.step = "staged" /\ call.set = s /\ call.op = o
      /\ call'.step = "idle"
  BY <1>1, OpsOK, NoCallTyped DEF Own
<1> HIDE DEF s
<1>3. /\ status[s] \in {"open", "validated"} /\ o \in staging[s] /\ o \notin ops[s]
      /\ server = "serving"
  BY <1>2 DEF IInv, ControlInv, StageInv, TypeOK
<1>4. /\ \A t \in Sets : t # s => /\ status'[t] = status[t] /\ after'[t] = after[t]
                                  /\ staging'[t] = staging[t] /\ ops'[t] = ops[t]
      /\ \/ /\ ops'[s] = ops[s] \cup {o} /\ status'[s] = "open" /\ after'[s] = NotValidated
            /\ staging'[s] = staging[s]
         \/ /\ staging'[s] = staging[s] \ {o} /\ ops'[s] = ops[s] /\ status'[s] = status[s]
            /\ after'[s] = after[s]
  BY <1>1, <1>2 DEF IInv, TypeOK
<1>5. TypeOK'
  <2>1. call' \in [step : Steps, set : Sets]
    BY <1>1, NoCallTyped
  <2>2. /\ status' \in [Sets -> Active \cup {"none", "committed", "rolled_back", "expired"}]
        /\ ops' \in [Sets -> SUBSET Ops] /\ manifest' \in [Sets -> SUBSET Ops]
        /\ after' \in [Sets -> {NotValidated} \cup SUBSET Ops] /\ staging' \in [Sets -> SUBSET Ops]
    BY <1>1, <1>2 DEF IInv, TypeOK, Active
  <2> QED BY <1>1, <2>1, <2>2 DEF IInv, TypeOK
<1>6. \A t \in Sets : /\ Live(t)' => Live(t)
                      /\ Kept(t)' => Kept(t) /\ t # s
  BY <1>2, <1>3, <1>4 DEF Live, Kept, Active
<1>7. ControlInv'
  BY <1>1, <1>2, <1>3, <1>4, <1>6 DEF IInv, ControlInv
<1>8. StageInv'
  BY <1>2, <1>3, <1>4 DEF IInv, StageInv, Own
<1>9. TreeInv'
  <2> SUFFICES ASSUME NEW t \in Sets PROVE DoneInv(t)' /\ \A f \in Files : FileInv(t, f)'
    BY DEF TreeInv
  <2>1. DoneInv(t)'
    BY <1>1, <1>2, <1>3, <1>4 DEF IInv, TreeInv, DoneInv, Present
  <2>2. ASSUME NEW f \in Files PROVE FileInv(t, f)'
    <3>1. FileInv(t, f)
      BY DEF IInv, TreeInv
    <3>2. t # s => Touched(t)' = Touched(t)
      BY <1>4 DEF Touched
    <3> QED BY <1>1, <1>2, <1>3, <1>4, <1>6, <3>1, <3>2 DEF FileInv, Own, Foreign
  <2> QED BY <2>1, <2>2
<1>10. CalmInv'
  <2> SUFFICES ASSUME Calm, NEW t \in Sets
               PROVE  /\ status'[t] # "recovery_required"
                      /\ status'[t] \in {"open", "validated"} => tree = base[t]
                      /\ Kept(t)' => \A f \in Files : IF f \in Touched(t)' THEN snapshot[f] = base[t][f]
                                                                           ELSE tree[f] = base[t][f]
    BY <1>1, <1>2 DEF CalmInv, Calm
  <2>1. t # s => Touched(t)' = Touched(t)
    BY <1>4 DEF Touched
  <2> QED BY <1>3, <1>4, <1>6, <2>1 DEF IInv, CalmInv
<1> QED BY <1>5, <1>7, <1>8, <1>9, <1>10 DEF IInv

-----------------------------------------------------------------------------
(* Commit, restore and recovery.                                           *)

CommitSteps == {"mark", "intent", "check", "apply", "write", "finish", "complete", "restore"}

(* The status that goes with a step.                                       *)
Matches(n, v, failed) ==
  /\ n \in {"snapshot", "mark"} => v = "validated"
  /\ n \in {"intent", "check", "apply", "write", "finish"} => v = "committing"
  /\ n = "complete" => v = "committed"
  /\ n = "restore" => v = "committing" \/ (v = "committed" /\ failed > 0)

(* A step of commit that writes no file of the work tree.                  *)
LEMMA MoveInv ==
  ASSUME IInv, NEW s \in Sets, Live(s), call.set = s \/ call.step = "idle",
         NEW v \in {"validated", "committing", "committed", "recovery_required"},
         status' = [status EXCEPT ![s] = v],
         status[s] \in {"validated", "committing", "committed"},
         v = "validated" => status[s] = "validated",
         NEW n \in Steps,
         call' = [step |-> n, set |-> s] \/ (call' = NoCall /\ n = "idle"),
         Matches(n, v, failures'),
         n = "idle" => call' = NoCall,
         server = "serving" \/ (server = "recovering" /\ n \in {"idle", "restore"}),
         pending' \subseteq Files, image' \in Trees, bumped' \subseteq Sets,
         failures' \in 0 .. MaxFailures, failures <= failures',
         UNCHANGED <<ops, manifest, after, base, staging, snapshot, tree,
                     overdue, server, crashes, external>>,
         v = "committing" \/ n \in CommitSteps => Kept(s),
         n = "write" => /\ pending' \subseteq Touched(s)
                        /\ \A f \in Files : Foreign(s, image'[f]) = Foreign(s, base[s][f]),
         n = "restore" => pending' = Touched(s),
         n \in {"complete", "restore"} \/ v # "committed" \/ n = "idle",
         v = "committed" \/ n = "finish" => after[s] \subseteq Present \/ failures' > 0,
         v = "recovery_required" => failures' > 0
  PROVE  IInv'
<1>1. /\ status'[s] = v /\ \A t \in Sets : t # s => status'[t] = status[t]
      /\ call'.step = n /\ (n # "idle" => call'.set = s)
  BY NoCallTyped DEF IInv, TypeOK
<1>2. failures \in Nat /\ failures' \in Nat
  BY OpsOK DEF IInv, TypeOK
<1>3. TypeOK'
  <2>1. status' \in [Sets -> Active \cup {"none", "committed", "rolled_back", "expired"}]
    BY DEF IInv, TypeOK, Active
  <2>2. call' \in [step : Steps, set : Sets]
    BY NoCallTyped
  <2> QED BY <2>1, <2>2 DEF IInv, TypeOK
<1>4. \A t \in Sets : /\ Live(t)' => Live(t)
                      /\ Kept(t)' => Kept(t)
                      /\ Touched(t)' = Touched(t)
  BY <1>1 DEF Live, Kept, CommitSteps, Touched
<1>5. ControlInv'
  <2>1. after[s] # NotValidated
    BY DEF IInv, ControlInv
  <2>2. n \in {"write", "restore"} => pending' \subseteq Touched(call.set)'
    <3>1. n # "idle" => Touched(call.set)' = Touched(s)
      BY <1>1 DEF Touched
    <3> QED BY <3>1
  <2>3. \A t, u \in Sets : Live(t)' /\ Live(u)' => t = u
    BY <1>4 DEF IInv, ControlInv
  <2>4. \A t \in Sets : status'[t] \in {"validated", "committing", "committed"} => after'[t] # NotValidated
    BY <1>1, <2>1 DEF IInv, ControlInv
  <2>5. /\ call'.step = "idle" => call' = NoCall
        /\ server' = "down" => call'.step = "idle"
        /\ server' = "recovering" => call'.step \in {"idle", "restore"}
        /\ call'.step # "staged"
    BY <1>1 DEF Steps
  <2>6. n # "idle" => status'[call'.set] = v
    BY <1>1
  <2> QED BY <1>1, <2>2, <2>3, <2>4, <2>5, <2>6 DEF ControlInv, Matches
<1>6. StageInv'
  BY <1>1 DEF IInv, StageInv, Own, Steps
<1>7. TreeInv'
  <2> SUFFICES ASSUME NEW t \in Sets PROVE DoneInv(t)' /\ \A f \in Files : FileInv(t, f)'
    BY DEF TreeInv
  <2>1. DoneInv(t)'
    BY <1>1, <1>2 DEF IInv, TreeInv, DoneInv, Present
  <2>2. ASSUME NEW f \in Files PROVE FileInv(t, f)'
    <3>1. FileInv(t, f)
      BY DEF IInv, TreeInv
    <3> QED BY <1>1, <1>4, <3>1 DEF FileInv, Own, Foreign
  <2> QED BY <2>1, <2>2
<1>8. CalmInv'
  <2> SUFFICES ASSUME external = {}, failures' = 0
               PROVE  /\ \A t \in Sets :
                           /\ status'[t] # "recovery_required"
                           /\ status'[t] \in {"open", "validated"} => tree = base[t]
                           /\ Kept(t)' => \A f \in Files : IF f \in Touched(t) THEN snapshot[f] = base[t][f]
                                                                               ELSE tree[f] = base[t][f]
                      /\ n = "restore" => \A f \in Files \ pending' : tree[f] = base[s][f]
    BY <1>1, <1>4 DEF CalmInv, Calm
  <2>1. Calm
    BY <1>2 DEF Calm
  <2> QED BY <1>1, <1>2, <1>4, <2>1 DEF IInv, CalmInv, CommitSteps
<1> QED BY <1>3, <1>5, <1>6, <1>7, <1>8 DEF IInv

(* What is known of a commit in progress.                                  *)
LEMMA CommitFacts ==
  ASSUME IInv, NEW s \in Sets, NEW n \in {"snapshot"} \cup CommitSteps, At(n, s)
  PROVE  /\ call.step = n /\ call.set = s /\ Live(s) /\ Matches(n, status[s], failures)
         /\ status[s] \in {"validated", "committing", "committed"}
         /\ status = [status EXCEPT ![s] = status[s]]
         /\ server = "serving" \/ (server = "recovering" /\ n = "restore")
         /\ n \in CommitSteps => Kept(s)
         /\ after[s] \in SUBSET Ops /\ Touched(s) \subseteq Files
         /\ failures \in 0 .. MaxFailures /\ image \in Trees /\ bumped \subseteq Sets
         /\ pending \subseteq Files
<1>1. call.step = n /\ call.set = s /\ n \in Steps \ {"idle"}
  BY DEF At, CommitSteps, Steps
<1>2. after[s] \in SUBSET Ops /\ Touched(s) \subseteq Files
  BY <1>1, CommitTouches
<1>3. Matches(n, status[s], failures) /\ Live(s) /\ (n \in CommitSteps => Kept(s))
  BY <1>1 DEF IInv, ControlInv, Matches, Live, Kept, Active, CommitSteps
<1>4. server = "serving" \/ (server = "recovering" /\ n = "restore")
  BY <1>1 DEF IInv, ControlInv, TypeOK
<1>5. status[s] \in {"validated", "committing", "committed"}
  BY <1>3 DEF Matches, CommitSteps
<1>6. status = [status EXCEPT ![s] = status[s]]
  BY DEF IInv, TypeOK
<1> QED BY <1>1, <1>2, <1>3, <1>4, <1>5, <1>6 DEF IInv, TypeOK

LEMMA FailsTyped ==
  ASSUME TypeOK
  PROVE  /\ Fails => failures' \in 0 .. MaxFailures /\ failures <= failures' /\ failures' > 0
         /\ failures' = failures => failures' \in 0 .. MaxFailures /\ failures <= failures'
BY OpsOK DEF TypeOK, Fails

(* The restore begins, because a step failed or found another tree.        *)
LEMMA StartRestoreInv ==
  ASSUME IInv, NEW s \in Sets, StartRestore(s),
         NEW n \in {"check", "apply", "write", "complete"}, At(n, s),
         Fails \/ (failures' = failures /\ n # "complete"),
         UNCHANGED <<database, disk, overdue, server, crashes, external>>
  PROVE  IInv'
<1>1. n \in {"snapshot"} \cup CommitSteps /\ n # "restore"
  BY DEF CommitSteps
<1>2. /\ call.set = s /\ Live(s) /\ Matches(n, status[s], failures) /\ Kept(s)
      /\ status[s] \in {"committing", "committed"}
      /\ status = [status EXCEPT ![s] = status[s]] /\ server = "serving"
      /\ Touched(s) \subseteq Files /\ image \in Trees /\ bumped \subseteq Sets
  BY <1>1, CommitFacts DEF Matches, CommitSteps
<1>3. /\ call' = [step |-> "restore", set |-> s] /\ pending' = Touched(s) /\ image' = image
      /\ UNCHANGED <<status, ops, manifest, after, base, bumped, staging, snapshot, tree,
                     overdue, server, crashes, external>>
  BY DEF StartRestore, Goto, database, disk
<1>4. /\ failures' \in 0 .. MaxFailures /\ failures <= failures'
      /\ status[s] = "committed" => failures' > 0
  BY <1>2, FailsTyped DEF IInv, Matches
<1>5. Matches("restore", status[s], failures') /\ "restore" \in Steps
  BY <1>2, <1>4 DEF Matches, Steps
<1> QED BY <1>2, <1>3, <1>4, <1>5, MoveInv

(* Steps that only move on, or end the call.                               *)
LEMMA CommitCheckInv == ASSUME IInv, NEW s \in Sets, CommitCheck(s) PROVE IInv'
<1>1. /\ call.step = "idle" /\ server = "serving" /\ status[s] = "validated"
      /\ call' = [step |-> "snapshot", set |-> s]
      /\ UNCHANGED <<status, ops, manifest, after, base, bumped, staging, snapshot, tree, pending,
                     image, overdue, server, crashes, failures, external>>
  BY IdleCall DEF CommitCheck, Goto, database, disk, environment, IInv
<1>2. Live(s) /\ status = [status EXCEPT ![s] = "validated"]
  BY <1>1 DEF Live, Active, IInv, TypeOK
<1>3. /\ pending \subseteq Files /\ image \in Trees /\ bumped \subseteq Sets
      /\ failures' \in 0 .. MaxFailures /\ failures <= failures'
  BY <1>1, FailsTyped DEF IInv, TypeOK
<1>4. /\ Matches("snapshot", "validated", failures')
      /\ "snapshot" \in Steps /\ "snapshot" \notin CommitSteps
  BY DEF Matches, Steps, CommitSteps
<1> QED BY <1>1, <1>2, <1>3, <1>4, MoveInv

LEMMA MarkCommittingInv == ASSUME IInv, NEW s \in Sets, MarkCommitting(s) PROVE IInv'
<1>1. /\ At("mark", s) /\ status' = [status EXCEPT ![s] = "committing"]
      /\ call' = [step |-> "intent", set |-> s]
      /\ UNCHANGED <<ops, manifest, after, base, bumped, staging, snapshot, tree, pending,
                     image, overdue, server, crashes, failures, external>>
  BY DEF MarkCommitting, SetStatus, Goto, disk, environment
<1>2. "mark" \in CommitSteps /\ "intent" \in Steps
  BY DEF CommitSteps, Steps
<1>3. failures' \in 0 .. MaxFailures /\ failures <= failures'
  BY <1>1, FailsTyped DEF IInv
<1>4. Matches("intent", "committing", failures')
  BY DEF Matches
<1>5. /\ Live(s) /\ call.set = s /\ server = "serving" /\ Kept(s)
      /\ status[s] \in {"validated", "committing", "committed"}
      /\ pending \subseteq Files /\ image \in Trees /\ bumped \subseteq Sets
  BY <1>1, <1>2, CommitFacts
<1> QED BY <1>1, <1>2, <1>3, <1>4, <1>5, MoveInv

LEMMA JournalIntentInv == ASSUME IInv, NEW s \in Sets, JournalIntent(s) PROVE IInv'
<1>1. /\ At("intent", s)
      /\ \/ call' = [step |-> "check", set |-> s] /\ failures' = failures
         \/ Fails /\ call' = NoCall
      /\ UNCHANGED <<status, ops, manifest, after, base, bumped, staging, snapshot, tree, pending,
                     image, overdue, server, crashes, external>>
  BY DEF JournalIntent, Goto, database, disk
<1>2. "intent" \in CommitSteps /\ "check" \in Steps /\ "idle" \in Steps
  BY DEF CommitSteps, Steps
<1>3. failures' \in 0 .. MaxFailures /\ failures <= failures'
  BY <1>1, FailsTyped DEF IInv
<1>4. /\ Live(s) /\ call.set = s /\ server = "serving" /\ Kept(s)
      /\ status[s] = "committing" /\ status = [status EXCEPT ![s] = status[s]]
      /\ pending \subseteq Files /\ image \in Trees /\ bumped \subseteq Sets
  BY <1>1, <1>2, CommitFacts DEF Matches
<1>5. Matches("check", "committing", failures') /\ Matches("idle", "committing", failures')
  BY DEF Matches
<1>6. CASE call' = [step |-> "check", set |-> s]
  BY <1>1, <1>2, <1>3, <1>4, <1>5, <1>6, MoveInv
<1>7. CASE call' = NoCall
  BY <1>1, <1>2, <1>3, <1>4, <1>5, <1>7, MoveInv
<1> QED BY <1>1, <1>6, <1>7

LEMMA ApplyCheckInv == ASSUME IInv, NEW s \in Sets, ApplyCheck(s) PROVE IInv'
<1>1. At("check", s) /\ UNCHANGED <<database, disk, overdue, server, crashes, external>>
  BY DEF ApplyCheck
<1>2. CASE call' = [step |-> "apply", set |-> s] /\ UNCHANGED <<pending, image, failures>>
  <2>1. UNCHANGED <<status, ops, manifest, after, base, bumped, staging, snapshot, tree,
                    overdue, server, crashes, external>>
    BY <1>1 DEF database, disk
  <2>2. "check" \in CommitSteps /\ "apply" \in Steps
    BY DEF CommitSteps, Steps
  <2>3. failures' \in 0 .. MaxFailures /\ failures <= failures'
    BY <1>2, FailsTyped DEF IInv
  <2>4. /\ Live(s) /\ call.set = s /\ server = "serving" /\ Kept(s)
        /\ status[s] = "committing" /\ status = [status EXCEPT ![s] = status[s]]
        /\ pending \subseteq Files /\ image \in Trees /\ bumped \subseteq Sets
    BY <1>1, <2>2, CommitFacts DEF Matches
  <2>5. Matches("apply", "committing", failures')
    BY DEF Matches
  <2> QED BY <1>2, <2>1, <2>2, <2>3, <2>4, <2>5, MoveInv
<1>3. CASE StartRestore(s) /\ (Fails \/ failures' = failures)
  BY <1>1, <1>3, StartRestoreInv
<1> QED BY <1>2, <1>3 DEF ApplyCheck, Goto

LEMMA ApplyReadInv == ASSUME IInv, NEW s \in Sets, ApplyRead(s) PROVE IInv'
<1>1. /\ At("apply", s) /\ UNCHANGED <<database, disk, overdue, server, crashes, external>>
      /\ failures' = failures
  BY DEF ApplyRead, environment
<1>2. CASE /\ call' = [step |-> "write", set |-> s] /\ pending' = Touched(s)
           /\ image' = With(tree, after[s])
  <2>1. UNCHANGED <<status, ops, manifest, after, base, bumped, staging, snapshot, tree,
                    overdue, server, crashes, external>>
    BY <1>1 DEF database, disk
  <2>2. "apply" \in CommitSteps /\ "write" \in Steps
    BY DEF CommitSteps, Steps
  <2>3. failures' \in 0 .. MaxFailures /\ failures <= failures'
    BY <1>1, FailsTyped DEF IInv
  <2>4. /\ Live(s) /\ call.set = s /\ server = "serving" /\ Kept(s)
        /\ status[s] = "committing" /\ status = [status EXCEPT ![s] = status[s]]
        /\ Touched(s) \subseteq Files /\ image \in Trees /\ bumped \subseteq Sets
    BY <1>1, <2>2, CommitFacts DEF Matches
  <2>5. Matches("write", "committing", failures')
    BY DEF Matches
  <2>6. image' \in Trees
    BY <1>2, WithTyped DEF IInv, TypeOK
  <2>7. ASSUME NEW f \in Files PROVE Foreign(s, image'[f]) = Foreign(s, base[s][f])
    <3>1. image'[f] = tree[f] \cup {o \in after[s] : o \in Ops /\ FileOf[o] = f}
      BY <1>2 DEF With
    <3>2. after[s] \subseteq Own(s)
      <4>1. after[s] # NotValidated
        BY <2>4 DEF IInv, ControlInv
      <4> QED BY <4>1 DEF IInv, StageInv
    <3>3. Foreign(s, tree[f]) = Foreign(s, base[s][f])
      BY <2>4 DEF IInv, TreeInv, FileInv
    <3> QED BY <3>1, <3>2, <3>3 DEF Foreign, Own
  <2> QED BY <1>2, <2>1, <2>2, <2>3, <2>4, <2>5, <2>6, <2>7, MoveInv
<1>3. CASE StartRestore(s)
  BY <1>1, <1>3, StartRestoreInv
<1> QED BY <1>2, <1>3 DEF ApplyRead, Goto

(* A tree that is the validated one holds the whole change set.            *)
LEMMA AfterIsPresent ==
  ASSUME TypeOK, NEW s \in Sets, after[s] \in SUBSET Ops, tree = AfterTree(s)
  PROVE  after[s] \subseteq Present
<1> SUFFICES ASSUME NEW o \in after[s] PROVE \E f \in Files : o \in tree[f]
  BY DEF Present
<1>1. FileOf[o] \in Files /\ o \in Ops
  BY OpsOK
<1> QED BY <1>1 DEF AfterTree, With

LEMMA VerifyInv == ASSUME IInv, NEW s \in Sets, Verify(s) PROVE IInv'
<1>1. At("write", s) /\ UNCHANGED <<database, disk, overdue, server, crashes, external>>
  BY DEF Verify
<1>2. CASE /\ tree = AfterTree(s) /\ call' = [step |-> "finish", set |-> s]
           /\ UNCHANGED <<pending, image, failures>>
  <2>1. UNCHANGED <<status, ops, manifest, after, base, bumped, staging, snapshot, tree,
                    overdue, server, crashes, external>>
    BY <1>1 DEF database, disk
  <2>2. "write" \in CommitSteps /\ "finish" \in Steps
    BY DEF CommitSteps, Steps
  <2>3. failures' \in 0 .. MaxFailures /\ failures <= failures'
    BY <1>2, FailsTyped DEF IInv
  <2>4. /\ Live(s) /\ call.set = s /\ server = "serving" /\ Kept(s)
        /\ status[s] = "committing" /\ status = [status EXCEPT ![s] = status[s]]
        /\ pending \subseteq Files /\ image \in Trees /\ bumped \subseteq Sets
        /\ after[s] \in SUBSET Ops
    BY <1>1, <2>2, CommitFacts DEF Matches
  <2>5. Matches("finish", "committing", failures')
    BY DEF Matches
  <2>6. after[s] \subseteq Present
    BY <1>2, <2>4, AfterIsPresent DEF IInv
  <2> QED BY <1>2, <2>1, <2>2, <2>3, <2>4, <2>5, <2>6, MoveInv
<1>3. CASE StartRestore(s) /\ (Fails \/ failures' = failures)
  BY <1>1, <1>3, StartRestoreInv
<1> QED BY <1>2, <1>3 DEF Verify, Goto

LEMMA FinishInv == ASSUME IInv, NEW s \in Sets, Finish(s) PROVE IInv'
<1>1. /\ At("finish", s) /\ status' = [status EXCEPT ![s] = "committed"]
      /\ bumped' = bumped \cup {s} /\ call' = [step |-> "complete", set |-> s]
      /\ UNCHANGED <<ops, manifest, after, base, staging, snapshot, tree, pending, image,
                     overdue, server, crashes, failures, external>>
  BY DEF Finish, SetStatus, Goto, disk, environment
<1>2. "finish" \in CommitSteps /\ "complete" \in Steps
  BY DEF CommitSteps, Steps
<1>3. failures' \in 0 .. MaxFailures /\ failures <= failures'
  BY <1>1, FailsTyped DEF IInv
<1>4. /\ Live(s) /\ call.step = "finish" /\ call.set = s /\ server = "serving" /\ Kept(s)
      /\ status[s] \in {"validated", "committing", "committed"}
      /\ pending \subseteq Files /\ image \in Trees /\ bumped' \subseteq Sets
  BY <1>1, <1>2, CommitFacts
<1>5. Matches("complete", "committed", failures')
  BY DEF Matches
<1>6. after[s] \subseteq Present \/ failures' > 0
  BY <1>1, <1>4 DEF IInv, TreeInv, DoneInv
<1> QED BY <1>1, <1>2, <1>3, <1>4, <1>5, <1>6, MoveInv

LEMMA JournalCompleteInv == ASSUME IInv, NEW s \in Sets, JournalComplete(s) PROVE IInv'
<1>1. At("complete", s) /\ UNCHANGED <<database, disk, overdue, server, crashes, external>>
  BY DEF JournalComplete
<1>2. CASE call' = NoCall /\ image' = [f \in Files |-> {}] /\ UNCHANGED <<pending, failures>>
  <2>1. UNCHANGED <<status, ops, manifest, after, base, bumped, staging, snapshot, tree,
                    overdue, server, crashes, external>>
    BY <1>1 DEF database, disk
  <2>2. "complete" \in CommitSteps /\ "idle" \in Steps
    BY DEF CommitSteps, Steps
  <2>3. failures' \in 0 .. MaxFailures /\ failures <= failures' /\ image' \in Trees
    BY <1>2, FailsTyped, EmptyTyped DEF IInv
  <2>4. /\ Live(s) /\ call.set = s /\ server = "serving" /\ Kept(s)
        /\ status[s] = "committed" /\ status = [status EXCEPT ![s] = status[s]]
        /\ pending \subseteq Files /\ bumped \subseteq Sets
    BY <1>1, <2>2, CommitFacts DEF Matches
  <2>5. Matches("idle", "committed", failures')
    BY DEF Matches
  <2>6. after[s] \subseteq Present \/ failures' > 0
    BY <1>2, <2>4 DEF IInv, TreeInv, DoneInv
  <2> QED BY <1>2, <2>1, <2>2, <2>3, <2>4, <2>5, <2>6, MoveInv
<1>3. CASE StartRestore(s) /\ Fails
  BY <1>1, <1>3, StartRestoreInv
<1> QED BY <1>2, <1>3 DEF JournalComplete

(* The copy is made of a tree that holds nothing of the change set.        *)
LEMMA SnapshotInv == ASSUME IInv, NEW s \in Sets, Snapshot(s) PROVE IInv'
<1>1. /\ At("snapshot", s)
      /\ UNCHANGED <<status, ops, manifest, after, base, bumped, staging, tree, pending, image,
                     overdue, server, crashes, external>>
  BY DEF Snapshot, database
<1>2. "mark" \in Steps /\ "idle" \in Steps
  BY DEF Steps
<1>3. /\ Live(s) /\ call.step = "snapshot" /\ call.set = s /\ server = "serving"
      /\ status[s] = "validated" /\ status = [status EXCEPT ![s] = status[s]]
      /\ pending \subseteq Files /\ image \in Trees /\ bumped \subseteq Sets
  BY <1>1, CommitFacts DEF Matches
<1>4. CASE Fails /\ call' = NoCall /\ snapshot' = snapshot
  <2>1. failures' \in 0 .. MaxFailures /\ failures <= failures'
    BY <1>4, FailsTyped DEF IInv
  <2>2. Matches("idle", "validated", failures')
    BY DEF Matches
  <2>3. UNCHANGED <<ops, manifest, after, base, staging, snapshot, tree,
                    overdue, server, crashes, external>>
    BY <1>1, <1>4
  <2>4. "idle" \notin CommitSteps /\ status' = [status EXCEPT ![s] = "validated"]
    BY <1>1, <1>3 DEF CommitSteps
  <2> QED BY <1>1, <1>2, <1>3, <1>4, <2>1, <2>2, <2>3, <2>4, MoveInv
<1>5. CASE /\ snapshot' = [f \in Files |-> IF f \in Touched(s) THEN tree[f] ELSE {}]
           /\ call' = [step |-> "mark", set |-> s] /\ failures' = failures
  <2>1. call'.step = "mark" /\ call'.set = s
    BY <1>5
  <2>2. \A f \in Files : snapshot'[f] = IF f \in Touched(s) THEN tree[f] ELSE {}
    BY <1>5
  <2>3. \A t \in Sets : /\ Live(t)' => Live(t)
                        /\ Kept(t)' => t = s
                        /\ Touched(t)' = Touched(t)
    <3>1. \A t \in Sets : status[t] = "committing" => t = s
      BY <1>3 DEF IInv, ControlInv, Live, Active
    <3> QED BY <1>1, <2>1, <3>1 DEF Live, Kept, Touched
  <2>4. TypeOK'
    <3>1. snapshot' \in Trees
      BY <1>5 DEF IInv, TypeOK, Trees
    <3>2. call' \in [step : Steps, set : Sets]
      BY <1>2, <1>5
    <3> QED BY <1>1, <1>5, <3>1, <3>2 DEF IInv, TypeOK
  <2>5. ControlInv'
    BY <1>1, <1>3, <2>1, <2>3 DEF IInv, ControlInv
  <2>6. StageInv'
    BY <1>1, <2>1 DEF IInv, StageInv, Own
  <2>7. TreeInv'
    <3> SUFFICES ASSUME NEW t \in Sets PROVE DoneInv(t)' /\ \A f \in Files : FileInv(t, f)'
      BY DEF TreeInv
    <3>1. DoneInv(t)'
      BY <1>1, <1>5, <2>1 DEF IInv, TreeInv, DoneInv, Present
    <3>2. ASSUME NEW f \in Files PROVE FileInv(t, f)'
      <4>1. FileInv(t, f) /\ FileInv(s, f)
        BY DEF IInv, TreeInv
      <4>2. Kept(t)' => /\ snapshot'[f] \cap Own(t) = {}
                        /\ f \in Touched(t) => Foreign(t, snapshot'[f]) = Foreign(t, base[t][f])
        BY <1>3, <2>2, <2>3, <4>1 DEF FileInv
      <4> QED BY <1>1, <2>1, <2>3, <4>1, <4>2 DEF FileInv, Foreign, Own
    <3> QED BY <3>1, <3>2
  <2>8. CalmInv'
    <3> SUFFICES ASSUME Calm, NEW t \in Sets
                 PROVE  /\ status[t] # "recovery_required"
                        /\ status[t] \in {"open", "validated"} => tree = base[t]
                        /\ t = s => \A f \in Files : IF f \in Touched(t) THEN snapshot'[f] = base[t][f]
                                                                         ELSE tree[f] = base[t][f]
      BY <1>1, <1>5, <2>1, <2>3 DEF CalmInv, Calm
    <3> QED BY <1>3, <2>2 DEF IInv, CalmInv
  <2> QED BY <2>4, <2>5, <2>6, <2>7, <2>8 DEF IInv
<1> QED BY <1>4, <1>5 DEF Snapshot, Goto

(* A file of the work tree is written: what other change sets have in it   *)
(* stays.                                                                  *)
LEMMA WriteInv ==
  ASSUME IInv, NEW s \in Sets, NEW n \in {"write", "restore"}, At(n, s), NEW f \in pending,
         NEW new \in SUBSET Edits, Foreign(s, new) = Foreign(s, base[s][f]),
         n = "restore" => new = snapshot[f],
         tree' = [tree EXCEPT ![f] = new], pending' = pending \ {f},
         UNCHANGED <<database, staging, snapshot, call, image, environment>>
  PROVE  IInv'
<1>1. UNCHANGED <<status, ops, manifest, after, base, bumped, staging, snapshot, call, image,
                  overdue, server, crashes, failures, external>>
  BY DEF database, environment
<1>2. n \in CommitSteps
  BY DEF CommitSteps
<1>3. /\ Live(s) /\ Kept(s) /\ call.step = n /\ call.set = s
      /\ status[s] \in {"committing", "committed"} /\ f \in Files
      /\ status[s] = "committed" => n = "restore" /\ failures > 0
  BY <1>2, CommitFacts DEF Matches
<1>4. f \in Touched(s)
  BY <1>3 DEF IInv, ControlInv
<1>5. tree'[f] = new /\ \A g \in Files : g # f => tree'[g] = tree[g]
  BY <1>3 DEF IInv, TypeOK, Trees
<1>6. \A t \in Sets : (Live(t)' <=> Live(t)) /\ (Kept(t)' <=> Kept(t)) /\ Touched(t)' = Touched(t)
  BY <1>1 DEF Live, Kept, Touched
<1>7. \A t \in Sets : Live(t) \/ Kept(t) => t = s
  BY <1>3 DEF IInv, ControlInv, Live, Kept, Active
<1>8. \A g \in Files, t \in Sets : t # s => tree'[g] \cap Own(t) = tree[g] \cap Own(t)
  <2> SUFFICES ASSUME NEW t \in Sets, t # s PROVE new \cap Own(t) = tree[f] \cap Own(t)
    BY <1>5
  <2>1. Foreign(s, tree[f]) = Foreign(s, new)
    BY <1>3 DEF IInv, TreeInv, FileInv
  <2> QED BY <2>1 DEF Foreign, Own
<1>9. TypeOK'
  <2>1. tree' \in Trees
    BY <1>3 DEF IInv, TypeOK, Trees
  <2> QED BY <1>1, <2>1 DEF IInv, TypeOK
<1>10. ControlInv' /\ StageInv'
  BY <1>1, <1>6 DEF IInv, ControlInv, StageInv, Own, Touched
<1>11. TreeInv'
  <2> SUFFICES ASSUME NEW t \in Sets PROVE DoneInv(t)' /\ \A g \in Files : FileInv(t, g)'
    BY DEF TreeInv
  <2>1. DoneInv(t)'
    <3>1. CASE t = s
      BY <1>1, <1>3, <3>1 DEF DoneInv
    <3>2. CASE t # s
      <4> SUFFICES ASSUME status[t] = "committed", ~ (failures > 0) PROVE after[t] \subseteq Present'
        BY <1>1, <1>3, <3>2 DEF DoneInv
      <4>1. after[t] \subseteq Own(t) /\ after[t] \subseteq Present
        BY DEF IInv, ControlInv, StageInv, TreeInv, DoneInv
      <4> QED BY <1>8, <3>2, <4>1 DEF Present
    <3> QED BY <3>1, <3>2
  <2>2. ASSUME NEW g \in Files PROVE FileInv(t, g)'
    <3>1. FileInv(t, g)
      BY DEF IInv, TreeInv
    <3>2. CASE t = s
      BY <1>1, <1>3, <1>5, <1>6, <3>1, <3>2 DEF FileInv, Foreign, Own
    <3>3. CASE t # s
      BY <1>1, <1>3, <1>6, <1>7, <1>8, <3>1, <3>3 DEF FileInv, Foreign, Own
    <3> QED BY <3>2, <3>3
  <2> QED BY <2>1, <2>2
<1>12. CalmInv'
  <2> SUFFICES ASSUME Calm
               PROVE  /\ \A t \in Sets :
                           /\ status[t] # "recovery_required"
                           /\ status[t] \notin {"open", "validated"}
                           /\ Kept(t) => \A g \in Files : IF g \in Touched(t) THEN snapshot[g] = base[t][g]
                                                                              ELSE tree'[g] = base[t][g]
                      /\ n = "restore" => \A g \in Files \ pending' : tree'[g] = base[s][g]
    BY <1>1, <1>3, <1>6 DEF CalmInv, Calm
  <2>1. \A t \in Sets : status[t] # "recovery_required" /\ status[t] \notin {"open", "validated"}
    BY <1>3, <1>7 DEF IInv, CalmInv, Live, Active
  <2>2. \A g \in Files : IF g \in Touched(s) THEN snapshot[g] = base[s][g] ELSE tree[g] = base[s][g]
    BY <1>3 DEF IInv, CalmInv
  <2>3. n = "restore" => \A g \in Files \ pending : tree[g] = base[s][g]
    BY <1>3 DEF IInv, CalmInv
  <2> QED BY <1>4, <1>5, <1>7, <2>1, <2>2, <2>3
<1> QED BY <1>9, <1>10, <1>11, <1>12 DEF IInv

LEMMA ApplyWriteInv == ASSUME IInv, NEW s \in Sets, NEW f \in Files, ApplyWrite(s, f) PROVE IInv'
<1>1. /\ At("write", s) /\ f \in pending
      /\ UNCHANGED <<database, staging, snapshot, overdue, server, crashes, external>>
  BY DEF ApplyWrite
<1>2. CASE /\ tree' = [tree EXCEPT ![f] = image[f]]
           /\ pending' = pending \ {f} /\ UNCHANGED <<call, image, failures>>
  <2>1. call.step = "write" /\ call.set = s
    BY <1>1 DEF At
  <2>2. image[f] \in SUBSET Edits /\ Foreign(s, image[f]) = Foreign(s, base[s][f])
    BY <2>1 DEF IInv, TypeOK, Trees, TreeInv, FileInv
  <2>3. UNCHANGED environment
    BY <1>1, <1>2 DEF environment
  <2> QED BY <1>1, <1>2, <2>2, <2>3, WriteInv
<1>3. CASE Fails /\ StartRestore(s) /\ tree' = tree
  BY <1>1, <1>3, StartRestoreInv DEF disk
<1> QED BY <1>2, <1>3 DEF ApplyWrite

LEMMA RestoreFileInv == ASSUME IInv, NEW s \in Sets, NEW f \in Files, RestoreFile(s, f) PROVE IInv'
<1>1. /\ At("restore", s) /\ f \in pending
      /\ UNCHANGED <<ops, manifest, after, base, bumped, staging, snapshot,
                     overdue, server, crashes, external>>
  BY DEF RestoreFile
<1>2. "restore" \in CommitSteps
  BY DEF CommitSteps
<1>3. /\ Live(s) /\ Kept(s) /\ call.step = "restore" /\ call.set = s
      /\ status[s] \in {"committing", "committed"} /\ server \in {"serving", "recovering"}
      /\ bumped \subseteq Sets
  BY <1>1, <1>2, CommitFacts DEF Matches
<1>4. CASE /\ tree' = [tree EXCEPT ![f] = snapshot[f]]
           /\ pending' = pending \ {f} /\ UNCHANGED <<status, call, image, failures>>
  <2>1. f \in Touched(s)
    BY <1>1, <1>3 DEF IInv, ControlInv
  <2>2. snapshot[f] \in SUBSET Edits /\ Foreign(s, snapshot[f]) = Foreign(s, base[s][f])
    BY <1>3, <2>1 DEF IInv, TypeOK, Trees, TreeInv, FileInv
  <2>3. UNCHANGED <<database, environment>>
    BY <1>1, <1>4 DEF database, environment
  <2> QED BY <1>1, <1>4, <2>2, <2>3, WriteInv
<1>5. CASE /\ Fails /\ SetStatus(s, "recovery_required")
           /\ call' = NoCall /\ pending' = {} /\ image' = [g \in Files |-> {}] /\ tree' = tree
  <2>1. failures' \in 0 .. MaxFailures /\ failures <= failures' /\ failures' > 0 /\ image' \in Trees
    BY <1>5, FailsTyped, EmptyTyped DEF IInv
  <2>2. Matches("idle", "recovery_required", failures') /\ "idle" \in Steps
    BY DEF Matches, Steps
  <2> QED BY <1>1, <1>3, <1>5, <2>1, <2>2, MoveInv DEF SetStatus
<1> QED BY <1>4, <1>5 DEF RestoreFile

(* The restored tree is compared with the captured one.                    *)
LEMMA RestoreDoneInv == ASSUME IInv, NEW s \in Sets, RestoreDone(s) PROVE IInv'
<1> DEFINE v == IF tree = base[s] THEN "rolled_back" ELSE "recovery_required"
<1>1. /\ At("restore", s) /\ pending = {}
      /\ status' = [status EXCEPT ![s] = v] /\ call' = NoCall /\ image' = [f \in Files |-> {}]
      /\ UNCHANGED <<ops, manifest, after, base, bumped, staging, snapshot, tree, pending,
                     overdue, server, crashes, failures, external>>
  BY DEF RestoreDone, SetStatus, disk, environment
<1>2. "restore" \in CommitSteps
  BY DEF CommitSteps
<1>3. /\ Live(s) /\ Kept(s) /\ call.step = "restore" /\ call.set = s
      /\ status[s] \in {"committing", "committed"}
  BY <1>1, <1>2, CommitFacts DEF Matches
<1>4. call'.step = "idle" /\ call' \in [step : Steps, set : Sets]
  BY <1>1, NoCallTyped
<1>5. v \in {"rolled_back", "recovery_required"} /\ (v = "rolled_back" => tree = base[s])
  OBVIOUS
<1>6. Calm => v = "rolled_back"
  <2> SUFFICES ASSUME Calm PROVE tree = base[s]
    OBVIOUS
  <2>1. \A f \in Files : tree[f] = base[s][f]
    BY <1>1, <1>3 DEF IInv, CalmInv
  <2>2. tree \in Trees /\ base[s] \in Trees
    BY DEF IInv, TypeOK
  <2> QED BY <2>1, <2>2 DEF Trees
<1> HIDE DEF v
<1>7. status'[s] = v /\ \A t \in Sets : t # s => status'[t] = status[t]
  BY <1>1 DEF IInv, TypeOK
<1>8. TypeOK'
  <2>1. status' \in [Sets -> Active \cup {"none", "committed", "rolled_back", "expired"}]
    BY <1>1, <1>5 DEF IInv, TypeOK, Active
  <2> QED BY <1>1, <1>4, <2>1, EmptyTyped DEF IInv, TypeOK
<1>9. \A t \in Sets : /\ Live(t)' => Live(t)
                      /\ ~ Kept(t)'
  <2>1. \A t \in Sets : status[t] = "committing" => t = s
    BY <1>3 DEF IInv, ControlInv, Live, Active
  <2> QED BY <1>3, <1>4, <1>5, <1>7, <2>1 DEF Live, Kept
<1>10. ControlInv'
  BY <1>1, <1>4, <1>5, <1>7, <1>9 DEF IInv, ControlInv
<1>11. StageInv'
  BY <1>1, <1>3, <1>4, <1>5, <1>7 DEF IInv, StageInv, Own
<1>12. TreeInv'
  <2> SUFFICES ASSUME NEW t \in Sets PROVE DoneInv(t)' /\ \A f \in Files : FileInv(t, f)'
    BY DEF TreeInv
  <2>1. DoneInv(t)'
    BY <1>1, <1>4, <1>5, <1>7 DEF IInv, TreeInv, DoneInv, Present
  <2>2. ASSUME NEW f \in Files PROVE FileInv(t, f)'
    <3>1. FileInv(t, f)
      BY DEF IInv, TreeInv
    <3> QED BY <1>1, <1>3, <1>4, <1>5, <1>7, <1>9, <3>1 DEF FileInv, Foreign, Own
  <2> QED BY <2>1, <2>2
<1>13. CalmInv'
  <2> SUFFICES ASSUME Calm, NEW t \in Sets
               PROVE  /\ status'[t] # "recovery_required"
                      /\ status'[t] \in {"open", "validated"} => tree = base[t]
    BY <1>1, <1>4, <1>9 DEF CalmInv, Calm
  <2> QED BY <1>5, <1>6, <1>7 DEF IInv, CalmInv
<1> QED BY <1>8, <1>10, <1>11, <1>12, <1>13 DEF IInv

(* Recovery: the tree tells how the commit ended, or it is restored.       *)
LEMMA ReconcileInv == ASSUME IInv, NEW s \in Sets, Reconcile(s) PROVE IInv'
<1>1. /\ server = "recovering" /\ call = NoCall /\ status[s] = "committing"
      /\ UNCHANGED <<ops, manifest, after, base, bumped, staging, snapshot, tree,
                     overdue, server, crashes, external>>
  BY DEF Reconcile, disk
<1>2. /\ call.step = "idle" /\ Live(s) /\ Kept(s)
      /\ status = [status EXCEPT ![s] = status[s]] /\ bumped \subseteq Sets
      /\ pending \subseteq Files /\ image \in Trees
  BY <1>1, NoCallTyped DEF Live, Kept, Active, IInv, TypeOK
<1>3. after[s] \in SUBSET Ops /\ Touched(s) \subseteq Files
  <2>1. after[s] # NotValidated
    BY <1>1 DEF IInv, ControlInv
  <2> QED BY <2>1, TouchedTyped DEF IInv, TypeOK
<1>4. /\ failures' = failures \/ Fails => failures' \in 0 .. MaxFailures /\ failures <= failures'
      /\ Fails => failures' > 0
  BY FailsTyped DEF IInv
<1>5. "idle" \in Steps /\ "restore" \in Steps /\ "idle" \notin CommitSteps
  BY DEF Steps, CommitSteps
<1>6. CASE StartRestore(s) /\ UNCHANGED <<status, failures>>
  <2>1. call' = [step |-> "restore", set |-> s] /\ pending' = Touched(s) /\ image' = image
    BY <1>6 DEF StartRestore, Goto
  <2>2. Matches("restore", "committing", failures')
    BY DEF Matches
  <2> QED BY <1>1, <1>2, <1>3, <1>4, <1>5, <1>6, <2>1, <2>2, MoveInv
<1>7. CASE tree = AfterTree(s) /\ status' = [status EXCEPT ![s] = "committed"]
           /\ UNCHANGED <<failures, control>>
  <2>1. after[s] \subseteq Present
    BY <1>3, <1>7, AfterIsPresent DEF IInv
  <2>2. Matches("idle", "committed", failures') /\ UNCHANGED <<call, pending, image>>
    BY <1>7 DEF Matches, control
  <2> QED BY <1>1, <1>2, <1>4, <1>5, <1>7, <2>1, <2>2, MoveInv
<1>8. CASE Fails /\ status' = [status EXCEPT ![s] = "recovery_required"] /\ UNCHANGED control
  <2>1. Matches("idle", "recovery_required", failures') /\ UNCHANGED <<call, pending, image>>
    BY <1>8 DEF Matches, control
  <2> QED BY <1>1, <1>2, <1>4, <1>5, <1>8, <2>1, MoveInv
<1>9. CASE /\ tree = base[s] /\ status' = [status EXCEPT ![s] = "rolled_back"]
           /\ UNCHANGED <<failures, control>>
  <2>1. call' = call /\ UNCHANGED <<pending, image, failures>>
    BY <1>9 DEF control
  <2>2. status'[s] = "rolled_back" /\ \A t \in Sets : t # s => status'[t] = status[t]
    BY <1>9 DEF IInv, TypeOK
  <2>3. \A t \in Sets : (Live(t)' => Live(t)) /\ (Kept(t)' => Kept(t)) /\ Touched(t)' = Touched(t)
    BY <1>1, <1>2, <2>1, <2>2 DEF Live, Kept, Active, Touched
  <2>4. TypeOK'
    BY <1>1, <1>9, <2>1 DEF IInv, TypeOK, Active
  <2>5. ControlInv' /\ StageInv'
    BY <1>1, <1>2, <2>1, <2>2, <2>3 DEF IInv, ControlInv, StageInv, Own
  <2>6. TreeInv'
    <3> SUFFICES ASSUME NEW t \in Sets PROVE DoneInv(t)' /\ \A f \in Files : FileInv(t, f)'
      BY DEF TreeInv
    <3>1. DoneInv(t)'
      BY <1>1, <1>2, <2>1, <2>2 DEF IInv, TreeInv, DoneInv, Present
    <3>2. ASSUME NEW f \in Files PROVE FileInv(t, f)'
      <4>1. FileInv(t, f)
        BY DEF IInv, TreeInv
      <4> QED BY <1>1, <1>2, <1>9, <2>1, <2>2, <2>3, <4>1 DEF FileInv, Foreign, Own
    <3> QED BY <3>1, <3>2
  <2>7. CalmInv'
    BY <1>1, <1>2, <2>1, <2>2, <2>3 DEF IInv, CalmInv, Calm
  <2> QED BY <2>4, <2>5, <2>6, <2>7 DEF IInv
<1> QED BY <1>6, <1>7, <1>8, <1>9 DEF Reconcile, SetStatus

-----------------------------------------------------------------------------

LEMMA StepInv == IInv /\ [Next]_vars => IInv'
<1> SUFFICES ASSUME IInv, [Next]_vars PROVE IInv'
  OBVIOUS
<1>1. CASE \E x \in Externals, f \in Files : External(x, f)
  BY <1>1, ExternalInv
<1>2. ASSUME NEW s \in Sets, Overdue(s) \/ Begin(s) \/ Expire(s) \/ Validate(s) \/ Rollback(s)
                             \/ CommitCheck(s)
      PROVE  IInv'
  BY <1>2, OverdueInv, BeginInv, EndInv, CommitCheckInv
<1>3. ASSUME NEW s \in Sets, CommitStep(s) PROVE IInv'
  <2>1. CASE Snapshot(s) \/ MarkCommitting(s) \/ JournalIntent(s) \/ ApplyCheck(s) \/ ApplyRead(s)
    BY <2>1, SnapshotInv, MarkCommittingInv, JournalIntentInv, ApplyCheckInv, ApplyReadInv
  <2>2. CASE \E f \in Files : ApplyWrite(s, f) \/ RestoreFile(s, f)
    BY <2>2, ApplyWriteInv, RestoreFileInv
  <2>3. CASE Verify(s) \/ Finish(s) \/ JournalComplete(s) \/ RestoreDone(s) \/ Reconcile(s)
    BY <2>3, VerifyInv, FinishInv, JournalCompleteInv, RestoreDoneInv, ReconcileInv
  <2> QED BY <1>3, <2>1, <2>2, <2>3 DEF CommitStep
<1>4. CASE \E o \in Ops : StageApply(o) \/ StageRecord(o) \/ StageFails(o)
  BY <1>4, StageApplyInv, StageEndInv
<1>5. CASE Crash \/ Restart \/ Serve
  BY <1>5, CrashInv, RestartInv, ServeInv
<1>6. CASE UNCHANGED vars
  <2>1. UNCHANGED <<status, ops, manifest, after, base, bumped, staging, snapshot, tree, call,
                    pending, image, overdue, server, crashes, failures, external>>
    BY <1>6 DEF vars, database, disk, control, environment
  <2>2. TypeOK'
    BY <2>1 DEF IInv, TypeOK
  <2>3. ControlInv' /\ StageInv' /\ CalmInv'
    BY <2>1 DEF IInv, ControlInv, StageInv, CalmInv, Calm, Live, Kept, Touched, Own
  <2>4. TreeInv'
    BY <2>1 DEF IInv, TreeInv, FileInv, DoneInv, Live, Kept, Touched, Own, Present, Foreign
  <2> QED BY <2>2, <2>3, <2>4 DEF IInv
<1> QED BY <1>1, <1>2, <1>3, <1>4, <1>5, <1>6 DEF Next

LEMMA InvImplies == IInv => AllOrNothing /\ CrashesAreReconciled
<1> SUFFICES ASSUME IInv PROVE AllOrNothing /\ CrashesAreReconciled
  OBVIOUS
<1>1. SnapshotIsBefore
  BY DEF SnapshotIsBefore, IInv, TreeInv, FileInv, Kept
<1>2. AllOrNothing
  <2> SUFFICES ASSUME NEW s \in Sets
               PROVE  /\ after[s] # NotValidated => ops[s] \subseteq after[s]
                      /\ status[s] = "committed" => after[s] \subseteq Present \/ failures > 0
                      /\ status[s] \in {"open", "validated", "rolled_back", "expired"}
                           => Own(s) \cap Present = {}
    BY <1>1 DEF AllOrNothing, IInv
  <2>1. DoneInv(s) /\ \A f \in Files : FileInv(s, f)
    BY DEF IInv, TreeInv
  <2> QED BY <2>1 DEF IInv, StageInv, DoneInv, FileInv, Present
<1>3. CrashesAreReconciled
  BY DEF IInv, CalmInv, CrashesAreReconciled
<1> QED BY <1>2, <1>3

LEMMA Invariance == Spec => []IInv
BY InitInv, StepInv, PTL DEF Spec

(* Whatever processes write, whatever write fails and wherever the server  *)
(* dies: of a change set that is not being committed the work tree holds   *)
(* every operation or none; only one whose last journal entry failed may   *)
(* be called committed with less.  The rollback copy stays good for as     *)
(* long as it may be needed (commit, _snapshot_rollback, _restore,         *)
(* reconcile_incomplete).                                                  *)
THEOREM ChangesAreAtomic == Spec => []AllOrNothing
BY Invariance, InvImplies, PTL

(* A commit that only crashes interrupted, however often and also while it *)
(* was being recovered, is proven committed or rolled back at startup      *)
(* (reconcile_incomplete).                                                 *)
THEOREM CrashesStayReconciled == Spec => []CrashesAreReconciled
BY Invariance, InvImplies, PTL

-----------------------------------------------------------------------------
(* A calm workspace behaves as AtomicChanges says.                         *)

(* Where the files of a commit are, step by step, if only crashes happen;  *)
(* and an empty change set is never validated.                             *)
Filled == \A s \in Sets : after[s] # {}

FlowInv ==
  Calm =>
    /\ call.step \in {"snapshot", "mark", "intent", "check", "apply"} => tree = base[call.set]
    /\ call.step = "write" =>
         \A f \in Touched(call.set) :
           /\ image[f] = AfterTree(call.set)[f]
           /\ tree[f] = IF f \in pending THEN base[call.set][f] ELSE AfterTree(call.set)[f]
    /\ call.step = "finish" => Landed(call.set)
    /\ call.step = "restore" => ~ Landed(call.set)

(* What is seen of a commit, if there is one.                              *)
BarsInv ==
  /\ (\A s \in Sets : status[s] # "committing") => StatusSeen = status /\ TreeSeen = tree
  /\ \A s \in Sets : status[s] = "committing" =>
       /\ StatusSeen = [status EXCEPT ![s] = IF Landed(s) THEN "committed" ELSE "validated"]
       /\ TreeSeen = IF Landed(s) THEN tree ELSE base[s]

Seen == <<StatusSeen, ops, after, base, TreeSeen, ~ Calm>>

LEMMA BarsHold == IInv => BarsInv
<1> SUFFICES ASSUME IInv PROVE BarsInv
  OBVIOUS
<1>1. status = [s \in Sets |-> status[s]]
  BY DEF IInv, TypeOK
<1>2. ASSUME \A s \in Sets : status[s] # "committing"
      PROVE  StatusSeen = status /\ TreeSeen = tree
  BY <1>1, <1>2 DEF StatusSeen, TreeSeen, Unlanded
<1>3. ASSUME NEW s \in Sets, status[s] = "committing"
      PROVE  /\ StatusSeen = [status EXCEPT ![s] = IF Landed(s) THEN "committed" ELSE "validated"]
             /\ TreeSeen = IF Landed(s) THEN tree ELSE base[s]
  <2>1. \A t \in Sets : status[t] = "committing" => t = s
    BY <1>3 DEF IInv, ControlInv, Live, Active
  <2>2. StatusSeen = [status EXCEPT ![s] = IF Landed(s) THEN "committed" ELSE "validated"]
    BY <1>1, <1>3, <2>1 DEF StatusSeen
  <2>3. Unlanded = IF Landed(s) THEN {} ELSE {s}
    BY <1>3, <2>1 DEF Unlanded
  <2>4. TreeSeen = IF Landed(s) THEN tree ELSE base[s]
    <3>1. CASE Landed(s)
      BY <2>3, <3>1 DEF TreeSeen
    <3>2. CASE ~ Landed(s)
      BY <2>3, <3>2 DEF TreeSeen
    <3> QED BY <3>1, <3>2
  <2> QED BY <2>2, <2>4
<1> QED BY <1>2, <1>3 DEF BarsInv

(* Every file that a commit touches differs before and after.              *)
LEMMA FilesDiffer ==
  ASSUME IInv, Filled, NEW s \in Sets, status[s] # "none", after[s] # NotValidated
  PROVE  /\ \A f \in Touched(s) : f \in Files /\ AfterTree(s)[f] # base[s][f]
         /\ \A f \in Files \ Touched(s) : AfterTree(s)[f] = base[s][f]
         /\ Touched(s) # {} /\ AfterTree(s) # base[s]
<1>1. after[s] \in SUBSET Ops /\ after[s] \subseteq Own(s) /\ after[s] # {}
  BY DEF IInv, TypeOK, StageInv, Filled
<1>2. Touched(s) \subseteq Files
  BY TouchedTyped DEF IInv
<1>3. ASSUME NEW f \in Touched(s) PROVE AfterTree(s)[f] # base[s][f]
  <2>1. PICK o \in after[s] : FileOf[o] = f
    BY DEF Touched
  <2>2. o \in AfterTree(s)[f]
    BY <1>1, <1>2, <2>1 DEF AfterTree, With
  <2>3. base[s][f] \cap Own(s) = {}
    BY <1>2 DEF IInv, TreeInv, FileInv
  <2> QED BY <1>1, <2>2, <2>3
<1>4. ASSUME NEW f \in Files \ Touched(s) PROVE AfterTree(s)[f] = base[s][f]
  BY <1>4 DEF AfterTree, With, Touched
<1>5. Touched(s) # {}
  BY <1>1 DEF Touched
<1> QED BY <1>2, <1>3, <1>4, <1>5

LEMMA FilledStep == IInv /\ Filled /\ [Next]_vars => Filled'
<1> SUFFICES ASSUME IInv, Filled, [Next]_vars PROVE Filled'
  OBVIOUS
<1>1. NotValidated # {}
  BY OpsAssumption
<1>2. CASE UNCHANGED after
  BY <1>2 DEF Filled
<1>3. ASSUME NEW s \in Sets, after' = [after EXCEPT ![s] = NotValidated] PROVE Filled'
  BY <1>1, <1>3 DEF Filled, IInv, TypeOK
<1>4. ASSUME NEW s \in Sets, Validate(s) PROVE Filled'
  <2>1. CASE after' = [after EXCEPT ![s] = staging[s]] /\ staging[s] # {}
    BY <2>1 DEF Filled, IInv, TypeOK
  <2> QED BY <1>3, <1>4, <2>1 DEF Validate
<1>5. ASSUME NEW s \in Sets, Overdue(s) \/ Begin(s) \/ Expire(s) \/ CommitCheck(s) \/ CommitStep(s)
      PROVE  UNCHANGED after
  BY <1>5 DEF Overdue, Begin, Expire, CommitCheck, CommitStep, Snapshot, MarkCommitting,
     JournalIntent, ApplyCheck, ApplyRead, ApplyWrite, RestoreFile, Verify, Finish,
     JournalComplete, RestoreDone, Reconcile, database
<1>6. ASSUME NEW o \in Ops, StageApply(o) \/ StageRecord(o) \/ StageFails(o)
      PROVE  Filled'
  <2>1. SetOf[o] \in Sets
    BY OpsOK
  <2>2. CASE StageRecord(o)
    BY <1>3, <2>1, <2>2 DEF StageRecord
  <2> QED BY <1>2, <1>6, <2>2 DEF StageApply, StageFails, database
<1>7. Crash \/ Restart \/ Serve \/ (\E x \in Externals, f \in Files : External(x, f)) => UNCHANGED after
  BY DEF Crash, Restart, Serve, External, database
<1>8. ASSUME NEW s \in Sets, Rollback(s) PROVE Filled'
  BY <1>3, <1>8 DEF Rollback
<1>9. UNCHANGED vars => UNCHANGED after
  BY DEF vars, database
<1> QED BY <1>2, <1>4, <1>5, <1>6, <1>7, <1>8, <1>9 DEF Next

(* A step of a calm workspace that was calm: no failure, no foreign write. *)
LEMMA CalmSteps ==
  ASSUME TypeOK, [Next]_vars, Calm'
  PROVE  Calm /\ UNCHANGED <<external, failures>> /\ ~ Fails
<1>1. failures \in Nat /\ external' = {} /\ failures' = 0
  BY OpsOK DEF TypeOK, Calm
<1>2. ~ Fails
  BY <1>1 DEF Fails
<1>3. ASSUME NEW x \in Externals, NEW f \in Files, External(x, f) PROVE FALSE
  BY <1>1, <1>3 DEF External
<1>4. ASSUME NEW s \in Sets, Overdue(s) \/ Begin(s) \/ Expire(s) \/ Validate(s) \/ Rollback(s)
                             \/ CommitCheck(s)
      PROVE  UNCHANGED <<external, failures>>
  BY <1>4 DEF Overdue, Begin, Expire, Validate, Rollback, CommitCheck, environment
<1>5. ASSUME NEW s \in Sets, CommitStep(s) PROVE UNCHANGED <<external, failures>>
  <2>1. CASE Snapshot(s) \/ MarkCommitting(s) \/ JournalIntent(s) \/ ApplyCheck(s) \/ ApplyRead(s)
    BY <1>2, <2>1 DEF Snapshot, MarkCommitting, JournalIntent, ApplyCheck, ApplyRead, environment
  <2>2. CASE \E f \in Files : ApplyWrite(s, f) \/ RestoreFile(s, f)
    BY <1>2, <2>2 DEF ApplyWrite, RestoreFile
  <2>3. CASE Verify(s) \/ Finish(s) \/ JournalComplete(s) \/ RestoreDone(s) \/ Reconcile(s)
    BY <1>2, <2>3 DEF Verify, Finish, JournalComplete, RestoreDone, Reconcile, environment
  <2> QED BY <1>5, <2>1, <2>2, <2>3 DEF CommitStep
<1>6. ASSUME NEW o \in Ops, StageApply(o) \/ StageRecord(o) \/ StageFails(o)
      PROVE  UNCHANGED <<external, failures>>
  BY <1>6 DEF StageApply, StageRecord, StageFails, environment
<1>7. Crash \/ Restart \/ Serve => UNCHANGED <<external, failures>>
  BY DEF Crash, Restart, Serve
<1>8. UNCHANGED vars => UNCHANGED <<external, failures>>
  BY DEF vars, environment
<1>9. UNCHANGED <<external, failures>>
  BY <1>3, <1>4, <1>5, <1>6, <1>7, <1>8 DEF Next
<1> QED BY <1>1, <1>2, <1>9 DEF Calm

(* What moves neither a status nor a file of the tree is not seen.         *)
LEMMA Unseen ==
  ASSUME UNCHANGED <<status, ops, after, base, tree, external, failures>>
  PROVE  UNCHANGED Seen
BY DEF Seen, StatusSeen, TreeSeen, Unlanded, Landed, AfterTree, With, Calm

(* What is to be shown of every step.                                      *)
Follows == FlowInv' /\ (Atomic!Next \/ UNCHANGED Seen)

LEMMA BackgroundFollows ==
  ASSUME IInv, FlowInv, Calm,
         UNCHANGED <<external, failures>>,
         Crash \/ Restart \/ (\E s \in Sets : Overdue(s)) \/ UNCHANGED vars
         \/ (\E o \in Ops : StageApply(o) \/ StageFails(o))
  PROVE  Follows
<1>1. UNCHANGED <<status, ops, after, base, tree, external, failures>>
  BY DEF Crash, Restart, Overdue, vars, StageApply, StageFails, database, disk
<1>2. \/ call'.step \in {"idle", "staged"}
      \/ UNCHANGED <<call, pending, image>>
  BY NoCallTyped DEF Crash, Restart, Overdue, vars, StageApply, StageFails, control
<1>3. ASSUME call'.step \in {"idle", "staged"} PROVE FlowInv'
  BY <1>3 DEF FlowInv
<1>4. ASSUME UNCHANGED <<call, pending, image>> PROVE FlowInv'
  <2>1. /\ AfterTree(call.set)' = AfterTree(call.set) /\ Touched(call.set)' = Touched(call.set)
        /\ Landed(call.set)' = Landed(call.set)
    BY <1>1, <1>4 DEF AfterTree, With, Touched, Landed
  <2> QED BY <1>1, <1>4, <2>1 DEF FlowInv
<1>5. FlowInv'
  BY <1>2, <1>3, <1>4
<1> QED BY <1>1, <1>5, Unseen DEF Follows

LEMMA CommitStarts ==
  ASSUME IInv, FlowInv, Calm, ~ Fails, UNCHANGED <<external, failures>>, NEW s \in Sets,
         CommitCheck(s) \/ Snapshot(s) \/ JournalIntent(s) \/ ApplyCheck(s)
  PROVE  Follows
<1>1. UNCHANGED <<status, ops, after, base, tree, external, failures>>
  BY DEF CommitCheck, Snapshot, JournalIntent, ApplyCheck, database, disk
<1>2. tree = base[s]
  BY DEF CommitCheck, Snapshot, JournalIntent, ApplyCheck, At, FlowInv
<1>3. ~ MayConflict(s)
  BY <1>2 DEF MayConflict
<1>4. call'.step \in {"snapshot", "mark", "check", "apply"} /\ call'.set = s
  BY <1>3 DEF CommitCheck, Snapshot, JournalIntent, ApplyCheck, Goto
<1>5. FlowInv'
  BY <1>1, <1>2, <1>4 DEF FlowInv
<1> QED BY <1>1, <1>5, Unseen DEF Follows

LEMMA ApplyReadFollows ==
  ASSUME IInv, FlowInv, Calm, UNCHANGED <<external, failures>>, NEW s \in Sets, ApplyRead(s)
  PROVE  Follows
<1>1. UNCHANGED <<status, ops, after, base, tree, external, failures>>
  BY DEF ApplyRead, database, disk
<1>2. tree = base[s]
  BY DEF ApplyRead, At, FlowInv
<1>3. /\ call'.step = "write" /\ call'.set = s /\ pending' = Touched(s)
      /\ image' = AfterTree(s)
  BY <1>2 DEF ApplyRead, Goto, MayConflict, AfterTree
<1>4. Touched(s)' = Touched(s) /\ AfterTree(s)' = AfterTree(s)
  BY <1>1 DEF Touched, AfterTree, With
<1>5. Touched(call.set)' = Touched(s) /\ AfterTree(call.set)' = AfterTree(s)
  BY <1>3, <1>4 DEF Touched, AfterTree
<1>6. FlowInv'
  BY <1>1, <1>2, <1>3, <1>5 DEF FlowInv
<1> QED BY <1>1, <1>6, Unseen DEF Follows

(* After the last file the tree is the validated one.                      *)
LEMMA VerifyFollows ==
  ASSUME IInv, Filled, FlowInv, Calm, ~ Fails, UNCHANGED <<external, failures>>,
         NEW s \in Sets, Verify(s)
  PROVE  Follows
<1>1. UNCHANGED <<status, ops, after, base, tree, external, failures>>
  BY DEF Verify, database, disk
<1>2. call.step = "write" /\ call.set = s /\ pending = {} /\ "write" \in CommitSteps
  BY DEF Verify, At, CommitSteps
<1>3. Kept(s) /\ status[s] = "committing" /\ after[s] # NotValidated
  BY <1>2 DEF IInv, ControlInv, Kept
<1>4. \A f \in Files : tree[f] = AfterTree(s)[f]
  BY <1>2, <1>3, FilesDiffer DEF FlowInv, IInv, CalmInv
<1>5. tree = AfterTree(s)
  BY <1>4 DEF IInv, TypeOK, Trees, AfterTree, With
<1>6. call'.step = "finish" /\ call'.set = s
  BY <1>5 DEF Verify, Goto
<1>7. Landed(call.set)'
  BY <1>1, <1>5, <1>6 DEF Landed, AfterTree, With
<1>8. FlowInv'
  BY <1>6, <1>7 DEF FlowInv
<1> QED BY <1>1, <1>8, Unseen DEF Follows

LEMMA JournalCompleteFollows ==
  ASSUME IInv, FlowInv, ~ Fails, UNCHANGED <<external, failures>>,
         NEW s \in Sets, JournalComplete(s)
  PROVE  Follows
<1>1. UNCHANGED <<status, ops, after, base, tree, external, failures>>
  BY DEF JournalComplete, database, disk
<1>2. call'.step = "idle"
  BY NoCallTyped DEF JournalComplete
<1>3. FlowInv'
  BY <1>2 DEF FlowInv
<1> QED BY <1>1, <1>3, Unseen DEF Follows

-----------------------------------------------------------------------------
(* While nothing is being committed, the tree and the statuses are seen as *)
(* they are.                                                               *)

LEMMA UsableIsAlone ==
  ASSUME IInv, BarsInv, NEW s \in Sets, status[s] \in {"open", "validated"}
  PROVE  /\ StatusSeen = status /\ TreeSeen = tree
         /\ \A t \in Sets : status[t] # "committing"
BY DEF IInv, ControlInv, Live, Active, BarsInv

LEMMA BeginFollows ==
  ASSUME IInv, BarsInv, BarsInv', UNCHANGED <<external, failures>>, NEW s \in Sets, Begin(s)
  PROVE  Follows
<1>1. /\ status[s] = "none" /\ (\A t \in Sets : status[t] \notin Active)
      /\ status' = [status EXCEPT ![s] = "open"] /\ base' = [base EXCEPT ![s] = tree]
      /\ call.step = "idle"
      /\ UNCHANGED <<ops, after, tree, call>>
  BY IdleCall DEF Begin, SetStatus, disk, control, IInv
<1>2. StatusSeen = status /\ TreeSeen = tree
  BY <1>1 DEF BarsInv, Active
<1>3. StatusSeen' = status' /\ TreeSeen' = tree'
  BY <1>1 DEF BarsInv, Active, IInv, TypeOK
<1>4. FlowInv'
  BY <1>1 DEF FlowInv
<1>5. Atomic!Begin(s)
  BY <1>1, <1>2, <1>3 DEF Atomic!Begin, Atomic!Usable, Active, Calm
<1> QED BY <1>4, <1>5 DEF Follows, Atomic!Next

LEMMA EndFollows ==
  ASSUME IInv, IInv', Filled, BarsInv, BarsInv', UNCHANGED <<external, failures>>, NEW s \in Sets,
         Expire(s) \/ Rollback(s) \/ Validate(s)
  PROVE  Follows
<1>1. /\ status[s] \in {"open", "validated"} /\ call.step = "idle"
      /\ UNCHANGED <<ops, base, tree, call>>
  BY IdleCall DEF Expire, Rollback, Validate, Usable, disk, control, IInv
<1>2. /\ StatusSeen = status /\ TreeSeen = tree
      /\ \A t \in Sets : status[t] # "committing"
  BY <1>1, UsableIsAlone
<1>3. status' = [status EXCEPT ![s] = status'[s]] /\ status'[s] # "committing"
  BY DEF Expire, Rollback, Validate, SetStatus, IInv, TypeOK
<1>4. StatusSeen' = status' /\ TreeSeen' = tree'
  BY <1>2, <1>3 DEF BarsInv, IInv, TypeOK
<1>5. FlowInv'
  BY <1>1 DEF FlowInv
<1>6. UNCHANGED <<ops, base, TreeSeen, ~ Calm>> /\ Atomic!Usable(s)
  BY <1>1, <1>2, <1>4 DEF Calm, Atomic!Usable
<1>7. CASE Expire(s)
  <2>1. status' = [status EXCEPT ![s] = "expired"] /\ after' = after
    BY <1>7 DEF Expire, SetStatus
  <2>2. Atomic!End(s)
    BY <1>2, <1>4, <1>6, <2>1 DEF Atomic!End
  <2> QED BY <1>5, <2>2 DEF Follows, Atomic!Next
<1>8. CASE Rollback(s)
  <2>1. /\ status' = [status EXCEPT ![s] = "rolled_back"]
        /\ after' = [after EXCEPT ![s] = NotValidated]
    BY <1>8 DEF Rollback, SetStatus
  <2>2. Atomic!End(s)
    BY <1>2, <1>4, <1>6, <2>1 DEF Atomic!End
  <2> QED BY <1>5, <2>2 DEF Follows, Atomic!Next
<1>9. CASE Validate(s) /\ manifest[s] = staging[s] /\ staging[s] # {}
  <2>1. /\ status' = [status EXCEPT ![s] = "validated"]
        /\ after' = [after EXCEPT ![s] = staging[s]]
    BY <1>9 DEF Validate, SetStatus
  <2>2. /\ staging[s] \in SUBSET {o \in Ops : SetOf[o] = s} /\ ops[s] \subseteq staging[s]
        /\ staging[s] # {}
    BY <1>1, <1>9 DEF IInv, StageInv, Own
  <2>3. Atomic!Validate(s)
    BY <1>2, <1>4, <1>6, <2>1, <2>2 DEF Atomic!Validate
  <2> QED BY <1>5, <2>3 DEF Follows, Atomic!Next
<1>10. CASE Validate(s) /\ ~ (manifest[s] = staging[s] /\ staging[s] # {})
  <2>1. /\ status' = [status EXCEPT ![s] = "open"]
        /\ after' = [after EXCEPT ![s] = NotValidated]
    BY <1>10 DEF Validate, SetStatus
  <2>2. Atomic!Invalidate(s)
    BY <1>2, <1>4, <1>6, <2>1 DEF Atomic!Invalidate
  <2> QED BY <1>5, <2>2 DEF Follows, Atomic!Next
<1> QED BY <1>7, <1>8, <1>9, <1>10

LEMMA StageRecordFollows ==
  ASSUME IInv, BarsInv, BarsInv', UNCHANGED <<external, failures>>, NEW o \in Ops, StageRecord(o)
  PROVE  Follows
<1> DEFINE s == SetOf[o]
<1>1. /\ s \in Sets /\ call.step = "staged" /\ call.set = s /\ call'.step = "idle"
      /\ status' = [status EXCEPT ![s] = "open"]
      /\ ops' = [ops EXCEPT ![s] = @ \cup {o}] /\ after' = [after EXCEPT ![s] = NotValidated]
      /\ UNCHANGED <<base, tree>>
  BY OpsOK, NoCallTyped DEF StageRecord, SetStatus, disk
<1>2. status[s] \in {"open", "validated"}
  BY <1>1 DEF IInv, ControlInv
<1> HIDE DEF s
<1>3. /\ StatusSeen = status /\ TreeSeen = tree
      /\ \A t \in Sets : status[t] # "committing"
  BY <1>1, <1>2, UsableIsAlone
<1>4. StatusSeen' = status' /\ TreeSeen' = tree'
  BY <1>1, <1>3 DEF BarsInv, IInv, TypeOK
<1>5. FlowInv'
  BY <1>1 DEF FlowInv
<1>6. Atomic!Stage(o)
  BY <1>1, <1>2, <1>3, <1>4 DEF s, Atomic!Stage, Atomic!Usable, Calm
<1> QED BY <1>5, <1>6 DEF Follows, Atomic!Next

LEMMA ServeFollows ==
  ASSUME IInv, BarsInv, BarsInv', UNCHANGED <<external, failures>>, Serve
  PROVE  Follows
<1> DEFINE expiring == {s \in overdue : status[s] \in {"open", "validated"}}
<1>1. /\ call.step = "idle" /\ (\A s \in Sets : status[s] # "committing")
      /\ status' = [s \in Sets |-> IF s \in expiring THEN "expired" ELSE status[s]]
      /\ UNCHANGED <<ops, after, base, tree, call>>
  BY NoCallTyped DEF Serve, control
<1>2. StatusSeen = status /\ TreeSeen = tree
  BY <1>1 DEF BarsInv
<1>3. StatusSeen' = status' /\ TreeSeen' = tree'
  BY <1>1 DEF BarsInv
<1>4. FlowInv'
  BY <1>1 DEF FlowInv
<1>5. CASE expiring = {}
  <2>1. status' = status
    BY <1>1, <1>5 DEF IInv, TypeOK
  <2> QED BY <1>1, <1>4, <2>1, Unseen DEF Follows
<1>6. ASSUME NEW s \in expiring PROVE Follows
  <2>1. s \in Sets /\ status[s] \in {"open", "validated"}
    BY DEF IInv, TypeOK
  <2>2. \A t \in expiring : t = s
    BY <2>1 DEF IInv, TypeOK, ControlInv, Live, Active
  <2>3. status' = [status EXCEPT ![s] = "expired"]
    BY <1>1, <2>1, <2>2 DEF IInv, TypeOK
  <2>4. Atomic!End(s)
    BY <1>1, <1>2, <1>3, <2>1, <2>3 DEF Atomic!End, Atomic!Usable, Calm
  <2> QED BY <1>4, <2>1, <2>4 DEF Follows, Atomic!Next
<1> QED BY <1>5, <1>6

-----------------------------------------------------------------------------
(* A commit: it has taken place when its last file is written.             *)

LEMMA MarkCommittingFollows ==
  ASSUME IInv, Filled, FlowInv, Calm, BarsInv, BarsInv', UNCHANGED <<external, failures>>,
         NEW s \in Sets, MarkCommitting(s)
  PROVE  Follows
<1>1. /\ call.step = "mark" /\ call.set = s /\ call'.step = "intent" /\ call'.set = s
      /\ status' = [status EXCEPT ![s] = "committing"]
      /\ UNCHANGED <<ops, after, base, tree>>
  BY DEF MarkCommitting, At, Goto, SetStatus, disk
<1>2. status[s] = "validated" /\ tree = base[s] /\ after[s] # NotValidated
  BY <1>1 DEF FlowInv, IInv, ControlInv
<1>3. StatusSeen = status /\ TreeSeen = tree
  BY <1>2, UsableIsAlone
<1>4. AfterTree(s)' = AfterTree(s) /\ AfterTree(s) # base[s]
  BY <1>1, <1>2, FilesDiffer DEF AfterTree, With
<1>5. status'[s] = "committing" /\ ~ Landed(s)'
  BY <1>1, <1>2, <1>4 DEF Landed, IInv, TypeOK
<1>6. StatusSeen' = [status' EXCEPT ![s] = "validated"] /\ TreeSeen' = base[s]
  BY <1>1, <1>5 DEF BarsInv
<1>7. StatusSeen' = status
  BY <1>1, <1>2, <1>6 DEF IInv, TypeOK
<1>8. FlowInv'
  BY <1>1, <1>2 DEF FlowInv
<1>9. UNCHANGED Seen
  BY <1>1, <1>2, <1>3, <1>6, <1>7 DEF Seen, Calm
<1> QED BY <1>8, <1>9 DEF Follows

(* What the steps inside a commit have in common.                          *)
LEMMA InsideCommit ==
  ASSUME IInv, Filled, Calm, NEW s \in Sets, status[s] = "committing"
  PROVE  /\ after[s] # NotValidated /\ after[s] \in SUBSET Ops
         /\ tree \in Trees /\ base[s] \in Trees /\ AfterTree(s) \in Trees
         /\ \A f \in Touched(s) : f \in Files /\ AfterTree(s)[f] # base[s][f]
                                  /\ snapshot[f] = base[s][f]
         /\ \A f \in Files \ Touched(s) : AfterTree(s)[f] = base[s][f] /\ tree[f] = base[s][f]
         /\ AfterTree(s) # base[s]
<1>1. after[s] # NotValidated /\ Kept(s)
  BY DEF IInv, ControlInv, Kept
<1>2. after[s] \in SUBSET Ops /\ tree \in Trees /\ base[s] \in Trees
  BY <1>1 DEF IInv, TypeOK
<1>3. AfterTree(s) \in Trees
  BY <1>2, WithTyped DEF AfterTree
<1> QED BY <1>1, <1>2, <1>3, FilesDiffer DEF IInv, CalmInv

LEMMA ApplyWriteFollows ==
  ASSUME IInv, Filled, FlowInv, Calm, ~ Fails, BarsInv, BarsInv', UNCHANGED <<external, failures>>,
         NEW s \in Sets, NEW f \in Files, ApplyWrite(s, f)
  PROVE  Follows
<1>1. /\ call.step = "write" /\ call.set = s /\ f \in pending
      /\ tree' = [tree EXCEPT ![f] = image[f]] /\ pending' = pending \ {f}
      /\ UNCHANGED <<status, ops, after, base, call, image>>
  BY DEF ApplyWrite, At, database
<1>2. status[s] = "committing" /\ pending \subseteq Touched(s)
  BY <1>1 DEF IInv, ControlInv
<1>3. /\ AfterTree(s)' = AfterTree(s) /\ Touched(s)' = Touched(s)
      /\ AfterTree(call.set)' = AfterTree(s) /\ Touched(call.set)' = Touched(s)
  BY <1>1 DEF AfterTree, With, Touched
<1>4. /\ after[s] \in SUBSET Ops /\ tree \in Trees /\ base[s] \in Trees /\ AfterTree(s) \in Trees
      /\ f \in Touched(s) /\ AfterTree(s)[f] # base[s][f]
      /\ AfterTree(s) # base[s]
  BY <1>1, <1>2, InsideCommit
<1>5. tree[f] = base[s][f] /\ image[f] = AfterTree(s)[f]
  BY <1>1, <1>4 DEF FlowInv
<1>6. ~ Landed(s)
  BY <1>4, <1>5 DEF Landed
<1>7. StatusSeen = [status EXCEPT ![s] = "validated"] /\ TreeSeen = base[s]
  BY <1>2, <1>6 DEF BarsInv
<1>8. FlowInv'
  <2> SUFFICES ASSUME NEW g \in Touched(s)
               PROVE  /\ image[g] = AfterTree(s)[g]
                      /\ tree'[g] = IF g \in pending' THEN base[s][g] ELSE AfterTree(s)[g]
    BY <1>1, <1>3 DEF FlowInv
  <2>1. image[g] = AfterTree(s)[g] /\ tree[g] = IF g \in pending THEN base[s][g] ELSE AfterTree(s)[g]
    BY <1>1 DEF FlowInv
  <2>2. tree'[g] = IF g = f THEN image[f] ELSE tree[g]
    BY <1>1, <1>2, <1>4, InsideCommit DEF Trees
  <2> QED BY <1>1, <2>1, <2>2
<1>9. CASE ~ Landed(s)'
  <2>1. StatusSeen' = [status EXCEPT ![s] = "validated"] /\ TreeSeen' = base[s]
    BY <1>1, <1>2, <1>9 DEF BarsInv
  <2>2. UNCHANGED Seen
    BY <1>1, <1>7, <2>1 DEF Seen, Calm
  <2> QED BY <1>8, <2>2 DEF Follows
<1>10. CASE Landed(s)'
  <2>1. StatusSeen' = [status EXCEPT ![s] = "committed"] /\ TreeSeen' = AfterTree(s)
    BY <1>1, <1>2, <1>3, <1>10 DEF BarsInv, Landed
  <2>2. StatusSeen' = [StatusSeen EXCEPT ![s] = "committed"] /\ StatusSeen[s] = "validated"
    BY <1>7, <2>1 DEF IInv, TypeOK
  <2>3. TreeSeen' = [g \in Files |-> TreeSeen[g] \cup {o \in after[s] : o \in Ops /\ FileOf[o] = g}]
    BY <1>7, <2>1 DEF AfterTree, With
  <2>4. Atomic!Commit(s)
    BY <1>1, <1>7, <2>2, <2>3 DEF Atomic!Commit, Calm
  <2> QED BY <1>8, <2>4 DEF Follows, Atomic!Next
<1> QED BY <1>9, <1>10

LEMMA FinishFollows ==
  ASSUME IInv, Filled, FlowInv, Calm, BarsInv, BarsInv', UNCHANGED <<external, failures>>,
         NEW s \in Sets, Finish(s)
  PROVE  Follows
<1>1. /\ call.step = "finish" /\ call.set = s /\ call'.step = "complete"
      /\ status' = [status EXCEPT ![s] = "committed"]
      /\ UNCHANGED <<ops, after, base, tree>>
  BY DEF Finish, At, Goto, SetStatus, disk
<1>2. Landed(s) /\ status[s] = "committing"
  BY <1>1 DEF FlowInv, IInv, ControlInv
<1>3. StatusSeen = [status EXCEPT ![s] = "committed"] /\ TreeSeen = tree
  BY <1>2 DEF BarsInv
<1>4. \A t \in Sets : status'[t] # "committing"
  BY <1>1, <1>2 DEF IInv, TypeOK, ControlInv, Live, Active
<1>5. StatusSeen' = status' /\ TreeSeen' = tree'
  BY <1>4 DEF BarsInv
<1>6. FlowInv'
  BY <1>1 DEF FlowInv
<1>7. UNCHANGED Seen
  BY <1>1, <1>3, <1>5 DEF Seen, Calm
<1> QED BY <1>6, <1>7 DEF Follows

LEMMA RestoreFileFollows ==
  ASSUME IInv, Filled, FlowInv, Calm, ~ Fails, BarsInv, BarsInv', UNCHANGED <<external, failures>>,
         NEW s \in Sets, NEW f \in Files, RestoreFile(s, f)
  PROVE  Follows
<1>1. /\ call.step = "restore" /\ call.set = s /\ f \in pending
      /\ tree' = [tree EXCEPT ![f] = snapshot[f]]
      /\ UNCHANGED <<status, ops, after, base, call>>
  BY DEF RestoreFile, At
<1>2. status[s] = "committing" /\ pending \subseteq Touched(s) /\ ~ Landed(s)
  BY <1>1, OpsOK DEF IInv, TypeOK, ControlInv, Calm, FlowInv
<1>3. AfterTree(s)' = AfterTree(s) /\ AfterTree(call.set)' = AfterTree(s)
  BY <1>1 DEF AfterTree, With
<1>4. /\ tree \in Trees /\ f \in Files /\ snapshot[f] = base[s][f] /\ AfterTree(s)[f] # base[s][f]
  BY <1>1, <1>2, InsideCommit
<1>5. tree'[f] # AfterTree(s)[f]
  BY <1>1, <1>4 DEF Trees
<1>6. ~ Landed(s)' /\ ~ Landed(call.set)'
  BY <1>1, <1>3, <1>5 DEF Landed
<1>7. FlowInv'
  BY <1>1, <1>6 DEF FlowInv
<1>8. StatusSeen = [status EXCEPT ![s] = "validated"] /\ TreeSeen = base[s]
  BY <1>2 DEF BarsInv
<1>9. StatusSeen' = [status EXCEPT ![s] = "validated"] /\ TreeSeen' = base[s]
  BY <1>1, <1>2, <1>6 DEF BarsInv
<1>10. UNCHANGED Seen
  BY <1>1, <1>8, <1>9 DEF Seen, Calm
<1> QED BY <1>7, <1>10 DEF Follows

(* A commit that is undone has never been seen.                            *)
LEMMA UndoFollows ==
  ASSUME IInv, Filled, Calm, BarsInv, BarsInv', UNCHANGED <<external, failures>>,
         NEW s \in Sets, status[s] = "committing", tree = base[s],
         status' = [status EXCEPT ![s] = "rolled_back"],
         UNCHANGED <<ops, after, base, tree>>
  PROVE  Atomic!Next
<1>1. ~ Landed(s)
  BY InsideCommit DEF Landed
<1>2. StatusSeen = [status EXCEPT ![s] = "validated"] /\ TreeSeen = tree
  BY <1>1 DEF BarsInv
<1>3. \A t \in Sets : status'[t] # "committing"
  BY DEF IInv, TypeOK, ControlInv, Live, Active
<1>4. StatusSeen' = status' /\ TreeSeen' = tree'
  BY <1>3 DEF BarsInv
<1>5. StatusSeen' = [StatusSeen EXCEPT ![s] = "rolled_back"] /\ StatusSeen[s] = "validated"
  BY <1>2, <1>4 DEF IInv, TypeOK
<1>6. Atomic!End(s)
  BY <1>2, <1>4, <1>5 DEF Atomic!End, Atomic!Usable, Calm
<1> QED BY <1>6 DEF Atomic!Next

LEMMA RestoreDoneFollows ==
  ASSUME IInv, Filled, FlowInv, Calm, BarsInv, BarsInv', UNCHANGED <<external, failures>>,
         NEW s \in Sets, RestoreDone(s)
  PROVE  Follows
<1>1. /\ call.step = "restore" /\ call.set = s /\ pending = {} /\ call'.step = "idle"
      /\ UNCHANGED <<ops, after, base, tree>>
  BY NoCallTyped DEF RestoreDone, At, disk
<1>2. status[s] = "committing"
  BY <1>1, OpsOK DEF IInv, TypeOK, ControlInv, Calm
<1>3. tree = base[s]
  <2>1. \A f \in Files : tree[f] = base[s][f]
    BY <1>1 DEF IInv, CalmInv
  <2> QED BY <1>2, <2>1, InsideCommit DEF Trees
<1>4. status' = [status EXCEPT ![s] = "rolled_back"]
  BY <1>3 DEF RestoreDone, SetStatus
<1>5. FlowInv'
  BY <1>1 DEF FlowInv
<1> QED BY <1>1, <1>2, <1>3, <1>4, <1>5, UndoFollows DEF Follows

(* Recovery finds a commit that took place, or makes sure that none did.   *)
LEMMA ReconcileFollows ==
  ASSUME IInv, Filled, FlowInv, Calm, ~ Fails, BarsInv, BarsInv', UNCHANGED <<external, failures>>,
         NEW s \in Sets, Reconcile(s)
  PROVE  Follows
<1>1. /\ call.step = "idle" /\ status[s] = "committing"
      /\ UNCHANGED <<ops, after, base, tree>>
  BY NoCallTyped DEF Reconcile, disk
<1>2. AfterTree(s)' = AfterTree(s)
  BY <1>1 DEF AfterTree, With
<1>3. CASE tree \notin {AfterTree(s), base[s]}
  <2>1. UNCHANGED status /\ call'.step = "restore" /\ call'.set = s
    BY <1>3 DEF Reconcile, StartRestore, Goto
  <2>2. ~ Landed(call.set)'
    BY <1>1, <1>3, <2>1 DEF Landed, AfterTree, With
  <2>3. FlowInv'
    BY <2>1, <2>2 DEF FlowInv
  <2> QED BY <1>1, <2>1, <2>3, Unseen DEF Follows
<1>4. CASE tree = AfterTree(s)
  <2>1. status' = [status EXCEPT ![s] = "committed"] /\ call' = call
    BY <1>4 DEF Reconcile, SetStatus, control
  <2>2. StatusSeen = [status EXCEPT ![s] = "committed"] /\ TreeSeen = tree
    BY <1>1, <1>4 DEF BarsInv, Landed
  <2>3. \A t \in Sets : status'[t] # "committing"
    BY <1>1, <2>1 DEF IInv, TypeOK, ControlInv, Live, Active
  <2>4. StatusSeen' = status' /\ TreeSeen' = tree'
    BY <2>3 DEF BarsInv
  <2>5. FlowInv'
    BY <1>1, <2>1 DEF FlowInv
  <2>6. UNCHANGED Seen
    BY <1>1, <2>1, <2>2, <2>4 DEF Seen, Calm
  <2> QED BY <2>5, <2>6 DEF Follows
<1>5. CASE tree = base[s] /\ tree # AfterTree(s)
  <2>1. status' = [status EXCEPT ![s] = "rolled_back"] /\ call' = call
    BY <1>5 DEF Reconcile, SetStatus, control
  <2>2. FlowInv'
    BY <1>1, <2>1 DEF FlowInv
  <2> QED BY <1>1, <1>5, <2>1, <2>2, UndoFollows DEF Follows
<1> QED BY <1>3, <1>4, <1>5

-----------------------------------------------------------------------------

LEMMA FlowStep ==
  IInv /\ Filled /\ FlowInv /\ [Next]_vars =>
    FlowInv' /\ [(~ Calm)' \/ Atomic!Next]_Seen
<1> SUFFICES ASSUME IInv, Filled, FlowInv, [Next]_vars, Calm' PROVE Follows
  BY DEF Follows, FlowInv
<1>1. Calm /\ UNCHANGED <<external, failures>> /\ ~ Fails
  BY CalmSteps DEF IInv
<1>2. IInv'
  BY StepInv
<1>3. BarsInv
  BY BarsHold
<1>4. BarsInv'
  BY <1>2, BarsHold, PTL
<1>5. CASE \E x \in Externals, f \in Files : External(x, f)
  BY <1>1, <1>5 DEF External, Calm
<1>6. CASE \/ Crash \/ Restart \/ (\E s \in Sets : Overdue(s)) \/ UNCHANGED vars
           \/ \E o \in Ops : StageApply(o) \/ StageFails(o)
  BY <1>1, <1>6, BackgroundFollows
<1>7. CASE Serve
  BY <1>1, <1>3, <1>4, <1>7, ServeFollows
<1>8. CASE \E o \in Ops : StageRecord(o)
  BY <1>1, <1>3, <1>4, <1>8, StageRecordFollows
<1>9. CASE \E s \in Sets : Begin(s) \/ Expire(s) \/ Rollback(s) \/ Validate(s)
  BY <1>1, <1>2, <1>3, <1>4, <1>9, BeginFollows, EndFollows
<1>10. CASE \E s \in Sets : CommitCheck(s) \/ Snapshot(s) \/ JournalIntent(s) \/ ApplyCheck(s)
  BY <1>1, <1>10, CommitStarts
<1>11. CASE \E s \in Sets : MarkCommitting(s) \/ ApplyRead(s) \/ Verify(s) \/ Finish(s)
  BY <1>1, <1>3, <1>4, <1>11, MarkCommittingFollows, ApplyReadFollows, VerifyFollows, FinishFollows
<1>12. CASE \E s \in Sets : JournalComplete(s) \/ RestoreDone(s) \/ Reconcile(s)
  BY <1>1, <1>3, <1>4, <1>12, JournalCompleteFollows, RestoreDoneFollows, ReconcileFollows
<1>13. CASE \E s \in Sets, f \in Files : ApplyWrite(s, f) \/ RestoreFile(s, f)
  BY <1>1, <1>3, <1>4, <1>13, ApplyWriteFollows, RestoreFileFollows
<1> QED BY <1>5, <1>6, <1>7, <1>8, <1>9, <1>10, <1>11, <1>12, <1>13 DEF Next, CommitStep

LEMMA FlowInit == Init => Filled /\ FlowInv /\ Atomic!Init
<1> SUFFICES ASSUME Init PROVE Filled /\ FlowInv /\ Atomic!Init
  OBVIOUS
<1>1. Filled
  BY OpsAssumption DEF Init, Filled
<1>2. FlowInv
  BY NoCallTyped DEF Init, FlowInv
<1>3. StatusSeen = status /\ TreeSeen = tree
  BY InitInv, BarsHold DEF Init, BarsInv
<1>4. Atomic!Init
  BY <1>3 DEF Init, Atomic!Init, Calm
<1> QED BY <1>1, <1>2, <1>4

(* change_set_store.py keeps the promise of atomic change sets: with its   *)
(* staging directories, rollback copies, journals and recovery, wherever   *)
(* the server dies, a commit is one step that puts all that was validated  *)
(* into the tree that it was begun on, or no step at all, for as long as   *)
(* nobody else writes the tree and the disk does not fail.                 *)
THEOREM ChangesAreAtomicSteps == Spec => ImplementsAtomicChanges
<1>1. Spec => [](IInv /\ Filled /\ FlowInv)
  BY FilledStep, FlowStep, FlowInit, Invariance, PTL DEF Spec
<1> QED
  BY <1>1, FlowInit, FlowStep, PTL DEF Spec, ImplementsAtomicChanges, Atomic!Spec, Atomic!vars, Seen
=============================================================================
