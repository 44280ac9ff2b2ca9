--------------------------- MODULE ToolCalls_proofs ---------------------------
(***************************************************************************)
(* Typing, mutual exclusion and the two promises of idempotency of the     *)
(* tool-call middleware, and that it implements IdempotentCalls, for any   *)
(* set of requests, keys and locks.                                        *)
(***************************************************************************)
EXTENDS ToolCalls, QueueLemmas

(* A lock's queue holds, once each, the requests that wait for it.         *)
QueueInv ==
  /\ \A l \in Locks : IsInjective(queue[l])
  /\ \A l \in Locks, c \in Calls :
       Contains(queue[l], c) <=> step[c] = "queued" /\ LockOf[c] = l

(* A request between taking and releasing the lock is its holder, unless   *)
(* it was cancelled and only its thread is left.                           *)
LockInv ==
  \A c \in Calls \ orphans : step[c] \in Inside => holder[LockOf[c]] = c

(* An answer that reports an outcome is in the table, and a request that   *)
(* has not arrived has done nothing.                                       *)
AnswerInv ==
  \A c \in Calls :
    /\ step[c] = "answered" /\ result[c] # "refused" => Known(c)
    /\ step[c] = "new" => c \notin ran

(* Without interruptions, an operation that took place is either in its    *)
(* handler, which holds the lock, or in the table; no copy is about to     *)
(* repeat it, and none has.                                                *)
Once ==
  /\ orphans = {}
  /\ \A c \in ran \cap Layered :
       \/ step[c] = "ran"
       \/ step[c] \in {"returned", "answered"} /\ Known(c)
  /\ \A c \in ran \cap Layered, d \in Layered :
       SameRequest(c, d) => step[d] # "running"
  /\ \A c, d \in ran \cap Layered : SameRequest(c, d) => c = d

OnceInv == Undisturbed => Once

IInv == TypeOK /\ QueueInv /\ LockInv /\ AnswerInv /\ OnceInv

-----------------------------------------------------------------------------

LEMMA HashTypes ==
  ASSUME NEW c \in Calls
  PROVE  OuterHash(c) \in Hashes /\ InnerHash(c) \in Hashes
BY DEF OuterHash, InnerHash, Hashes

(* What is answered from the table is a result.                            *)
LEMMA StoredType ==
  ASSUME TypeOK, NEW c \in Calls, Known(c), NEW hash
  PROVE  Stored(c, hash) \in Results
BY CallsAssumption DEF TypeOK, Known, Stored, Rows, Results

(* A row that is written is there, and no row is lost.                     *)
LEMMA StoreEffect ==
  ASSUME TypeOK, NEW c \in Calls, NEW hash \in Hashes, NEW value \in Results,
         Store(c, hash, value)
  PROVE  /\ rows' \in [Keys -> Rows \cup {NoRow}]
         /\ Known(c)'
         /\ \A d \in Calls : Known(d) => Known(d)'
<1>1. [hash |-> hash, result |-> value] \in Rows
  BY DEF Rows
<1>2. [hash |-> hash, result |-> value] # NoRow
  BY <1>1, CallsAssumption
<1> QED
  BY <1>1, <1>2, CallsAssumption DEF TypeOK, Store, Known

-----------------------------------------------------------------------------
(* Types and queues.                                                       *)

(* TypeOK without its clause about the members of queues.                  *)
Types ==
  /\ step \in [Calls -> {"new", "queued", "entered", "running", "ran", "returned",
                         "answered", "gone"}]
  /\ result \in [Calls -> Results]
  /\ holder \in [Locks -> Calls \cup {NoCall}]
  /\ queue \in [Locks -> Seq(Calls)]
  /\ loop \in (Calls \ Threaded) \cup {NoCall} /\ orphans \subseteq Threaded
  /\ rows \in [Keys -> Rows \cup {NoRow}]
  /\ ran \subseteq Calls /\ blocked \subseteq Locks
  /\ cancels \in 0 .. MaxCancels /\ crashes \in 0 .. MaxCrashes /\ errors \in 0 .. MaxErrors

LEMMA TypesSuffice == Types /\ QueueInv => TypeOK
<1> SUFFICES ASSUME Types, QueueInv, NEW l \in Locks, NEW i \in DOMAIN queue[l]
             PROVE  step[queue[l][i]] = "queued"
  BY DEF Types, TypeOK
<1>1. queue[l] \in Seq(Calls)
  BY DEF Types
<1>2. queue[l][i] \in Calls
  BY <1>1, LenProperties
<1>3. Contains(queue[l], queue[l][i])
  BY DEF Contains
<1> QED
  BY <1>2, <1>3 DEF QueueInv

(* A step that leaves the queues alone and makes nobody start or stop      *)
(* waiting keeps the queues exact.                                         *)
LEMMA QueueFrame ==
  ASSUME QueueInv, UNCHANGED queue,
         \A c \in Calls : step[c] = "queued" <=> step'[c] = "queued"
  PROVE  QueueInv'
BY DEF QueueInv

LEMMA ArriveTypes ==
  ASSUME TypeOK, QueueInv, NEW c \in Calls, Arrive(c)
  PROVE  Types' /\ QueueInv'
<1> USE CallsAssumption DEF Arrive, TypeOK, Types, MoveTo, Gives, locks, counters
<1>1. CASE Replay(c)
  <2>1. Stored(c, OuterHash(c)) \in Results
    BY <1>1, StoredType DEF Replay
  <2>2. Types'
    BY <1>1, <2>1 DEF Replay
  <2> QED
    BY <1>1, <2>2, QueueFrame DEF Replay
<1>2. CASE Refuse(c)
  <2>1. "refused" \in Results
    BY DEF Results
  <2>2. Types'
    BY <1>2, <2>1 DEF Refuse
  <2> QED
    BY <1>2, <2>2, QueueFrame DEF Refuse
<1>3. CASE Acquire(c) /\ Enter(c) /\ UNCHANGED queue
  <2>1. Types'
    BY <1>3 DEF Acquire, Enter
  <2> QED
    BY <1>3, <2>1, QueueFrame DEF Enter
<1>4. CASE /\ Acquire(c) /\ MoveTo(c, "queued")
           /\ queue' = [queue EXCEPT ![LockOf[c]] = Append(@, c)]
           /\ UNCHANGED <<holder, loop>>
  <2>1. /\ queue[LockOf[c]] \in Seq(Calls) /\ IsInjective(queue[LockOf[c]])
        /\ ~ Contains(queue[LockOf[c]], c)
    BY DEF QueueInv
  <2>2. /\ Append(queue[LockOf[c]], c) \in Seq(Calls)
        /\ IsInjective(Append(queue[LockOf[c]], c))
        /\ \A d \in Calls : Contains(Append(queue[LockOf[c]], c), d)
                              <=> Contains(queue[LockOf[c]], d) \/ d = c
    BY <2>1, AppendMembers
  <2>3. Types'
    BY <1>4, <2>2 DEF Acquire
  <2>4. QueueInv'
    BY <1>4, <2>2 DEF QueueInv
  <2> QED
    BY <2>3, <2>4
<1> QED
  BY <1>1, <1>2, <1>3, <1>4 DEF Acquire

LEMMA WakeTypes ==
  ASSUME TypeOK, QueueInv, NEW c \in Calls, Wake(c)
  PROVE  Types' /\ QueueInv'
<1> DEFINE q == queue[LockOf[c]]
<1> USE CallsAssumption DEF Wake, TypeOK, Types, MoveTo, Enter, counters
<1>1. q \in Seq(Calls) /\ IsInjective(q) /\ Contains(q, c)
  BY DEF QueueInv
<1>2. q # <<>>
  BY <1>1, EmptyContainsNothing
<1>3. /\ Tail(q) \in Seq(Calls) /\ IsInjective(Tail(q))
      /\ \A d \in Calls : Contains(Tail(q), d) <=> Contains(q, d) /\ d # c
  BY <1>1, <1>2, TailMembers
<1>4. Types'
  BY <1>3
<1>5. QueueInv'
  BY <1>3 DEF QueueInv
<1> QED
  BY <1>4, <1>5

LEMMA CancelTypes ==
  ASSUME TypeOK, QueueInv, NEW c \in Calls, Cancel(c)
  PROVE  Types' /\ QueueInv'
<1> DEFINE q == queue[LockOf[c]]
<1> USE CallsAssumption DEF Cancel, TypeOK, Types, MoveTo
<1>1. CASE CancelQueued(c)
  <2>1. q \in Seq(Calls) /\ IsInjective(q)
    BY DEF QueueInv
  <2>2. /\ RemoveFirst(q, c) \in Seq(Calls) /\ IsInjective(RemoveFirst(q, c))
        /\ \A d \in Calls : Contains(RemoveFirst(q, c), d) <=> Contains(q, d) /\ d # c
    BY <2>1, RemoveFirstMembers
  <2>3. Types'
    BY <1>1, <2>2 DEF CancelQueued
  <2>4. QueueInv'
    BY <1>1, <2>2 DEF CancelQueued, QueueInv
  <2> QED
    BY <2>3, <2>4
<1>2. CASE CancelInside(c)
  <2>1. /\ step' \in [Calls -> {"new", "queued", "entered", "running", "ran", "returned",
                              "answered", "gone"}]
        /\ orphans' \subseteq Threaded
    BY <1>2 DEF CancelInside
  <2>2. holder' \in [Locks -> Calls \cup {NoCall}] /\ cancels' \in 0 .. MaxCancels
    BY <1>2 DEF CancelInside
  <2>3. Types'
    BY <1>2, <2>1, <2>2 DEF CancelInside
  <2> QED
    BY <1>2, <2>3, QueueFrame DEF CancelInside
<1> QED
  BY <1>1, <1>2

LEMMA HandlerTypes ==
  ASSUME TypeOK, QueueInv, NEW c \in Calls,
         Return(c) \/ Look(c) \/ Run(c) \/ Raise(c) \/ InnerStore(c) \/ OrphanEnds(c)
  PROVE  Types' /\ QueueInv'
<1> USE CallsAssumption DEF TypeOK, Types, MoveTo, Gives, locks, counters
<1>1. /\ OuterHash(c) \in Hashes /\ InnerHash(c) \in Hashes
      /\ result[c] \in Results /\ c \in Results /\ "failed" \in Results
  BY HashTypes DEF Results
<1>2. CASE Return(c)
  <2>1. rows' \in [Keys -> Rows \cup {NoRow}]
    BY <1>1, <1>2, StoreEffect DEF Return
  <2>2. Types'
    BY <1>2, <2>1 DEF Return
  <2> QED
    BY <1>2, <2>2, QueueFrame DEF Return
<1>3. CASE Look(c)
  <2>1. Known(c) => Stored(c, InnerHash(c)) \in Results
    BY StoredType
  <2>2. /\ step' \in [Calls -> {"new", "queued", "entered", "running", "ran", "returned",
                              "answered", "gone"}]
        /\ result' \in [Calls -> Results]
    <3>1. CASE c \in Layered /\ Known(c)
      <4>1. /\ step' = [step EXCEPT ![c] = "returned"]
            /\ result' = [result EXCEPT ![c] = Stored(c, InnerHash(c))]
        BY <1>3, <3>1 DEF Look
      <4> QED
        BY <2>1, <3>1, <4>1
    <3>2. CASE ~ (c \in Layered /\ Known(c))
      BY <1>3, <3>2 DEF Look
    <3> QED
      BY <3>1, <3>2
  <2>3. Types'
    BY <1>3, <2>2 DEF Look
  <2> QED
    BY <1>3, <2>3, QueueFrame DEF Look
<1>4. CASE Run(c)
  <2>1. Types'
    BY <1>1, <1>4 DEF Run
  <2> QED
    BY <1>4, <2>1, QueueFrame DEF Run
<1>5. CASE Raise(c)
  <2>1. Types'
    BY <1>1, <1>5 DEF Raise
  <2> QED
    BY <1>5, <2>1, QueueFrame DEF Raise
<1>6. CASE InnerStore(c)
  <2>1. rows' \in [Keys -> Rows \cup {NoRow}]
    BY <1>1, <1>6, StoreEffect DEF InnerStore
  <2>2. Types'
    BY <1>6, <2>1 DEF InnerStore
  <2> QED
    BY <1>6, <2>2, QueueFrame DEF InnerStore
<1>7. CASE OrphanEnds(c)
  <2>1. Types'
    BY <1>7 DEF OrphanEnds
  <2> QED
    BY <1>7, <2>1, QueueFrame DEF OrphanEnds
<1> QED
  BY <1>2, <1>3, <1>4, <1>5, <1>6, <1>7

LEMMA CrashTypes ==
  ASSUME TypeOK, QueueInv, Crash
  PROVE  Types' /\ QueueInv'
<1>1. <<>> \in Seq(Calls) /\ IsInjective(<<>>) /\ \A c \in Calls : ~ Contains(<<>>, c)
  <2>1. <<>> \in Seq(Calls) /\ DOMAIN <<>> = {}
    BY EmptySeq
  <2> QED
    BY <2>1, EmptyContainsNothing DEF IsInjective
<1>2. Types'
  BY <1>1, CallsAssumption DEF Crash, TypeOK, Types
<1>3. QueueInv'
  BY <1>1, CallsAssumption DEF Crash, TypeOK, QueueInv
<1> QED
  BY <1>2, <1>3

LEMMA TypesStep == TypeOK /\ QueueInv /\ [Next]_vars => TypeOK' /\ QueueInv'
<1> SUFFICES ASSUME TypeOK, QueueInv, [Next]_vars
             PROVE  Types' /\ QueueInv'
  BY TypesSuffice, PTL
<1>1. CASE UNCHANGED vars
  BY <1>1 DEF TypeOK, Types, QueueInv, vars, locks, counters
<1>2. CASE Next
  BY <1>2, ArriveTypes, WakeTypes, CancelTypes, HandlerTypes, CrashTypes DEF Next, Advance
<1> QED
  BY <1>1, <1>2

-----------------------------------------------------------------------------
(* The lock.                                                               *)

(* Holding a lock is exclusive, so two requests inside are one.            *)
LEMMA LockExcludes == LockInv => OneWriterAtATime
BY DEF LockInv, OneWriterAtATime

LEMMA EnterKeepsLock ==
  ASSUME TypeOK, LockInv, NEW c \in Calls, Enter(c), holder[LockOf[c]] = NoCall,
         UNCHANGED orphans
  PROVE  LockInv'
<1>1. ASSUME NEW d \in Calls \ orphans, step'[d] \in Inside, d # c
      PROVE  step[d] \in Inside /\ LockOf[d] # LockOf[c]
  BY <1>1, CallsAssumption DEF TypeOK, LockInv, Enter, MoveTo
<1>2. holder'[LockOf[c]] = c
  BY CallsAssumption DEF TypeOK, Enter
<1>3. ASSUME NEW d \in Calls, LockOf[d] # LockOf[c]
      PROVE  holder'[LockOf[d]] = holder[LockOf[d]]
  BY <1>3, CallsAssumption DEF TypeOK, Enter
<1> QED
  BY <1>1, <1>2, <1>3 DEF LockInv

(* A request that leaves gives up its own lock and nobody else's.          *)
LEMMA LeaveKeepsLock ==
  ASSUME TypeOK, LockInv, NEW c \in Calls \ orphans, step[c] \in Inside,
         holder' = [holder EXCEPT ![LockOf[c]] = NoCall],
         orphans \subseteq orphans',
         \A d \in Calls \ {c} : step'[d] = step[d],
         step'[c] \notin Inside \/ c \in orphans'
  PROVE  LockInv'
<1> SUFFICES ASSUME NEW d \in Calls \ orphans', step'[d] \in Inside
             PROVE  holder'[LockOf[d]] = d
  BY DEF LockInv
<1>1. d # c /\ d \notin orphans /\ step[d] \in Inside
  OBVIOUS
<1>2. holder[LockOf[d]] = d
  BY <1>1 DEF LockInv
<1>3. LockOf[d] # LockOf[c]
  BY <1>1, <1>2 DEF LockInv
<1> QED
  BY <1>2, <1>3, CallsAssumption DEF TypeOK

(* Whoever keeps the lock may move on; who is outside may not slip in.     *)
LEMMA OthersKeepLock ==
  ASSUME TypeOK, LockInv, UNCHANGED <<holder, orphans>>,
         \A d \in Calls : step'[d] \in Inside => step[d] \in Inside
  PROVE  LockInv'
BY DEF LockInv

LEMMA LockStep == TypeOK /\ LockInv /\ [Next]_vars => LockInv'
<1> SUFFICES ASSUME TypeOK, LockInv, [Next]_vars
             PROVE  LockInv'
  OBVIOUS
<1> USE DEF MoveTo, locks, counters
<1>1. CASE UNCHANGED vars
  BY <1>1 DEF LockInv, vars
<1>2. CASE Crash
  BY <1>2 DEF LockInv, Crash, Inside, TypeOK
<1>3. ASSUME NEW c \in Calls, Arrive(c)
      PROVE  LockInv'
  <2>1. CASE Replay(c) \/ Refuse(c)
    BY <1>3, <2>1, OthersKeepLock DEF Arrive, Replay, Refuse, TypeOK, Inside
  <2>2. CASE Acquire(c)
    BY <1>3, <2>2, EnterKeepsLock, OthersKeepLock DEF Arrive, Acquire, TypeOK, Inside
  <2> QED
    BY <1>3, <2>1, <2>2 DEF Arrive
<1>4. ASSUME NEW c \in Calls, Cancel(c)
      PROVE  LockInv'
  <2>1. CASE CancelQueued(c)
    BY <1>4, <2>1, OthersKeepLock DEF CancelQueued, TypeOK, Inside
  <2>2. CASE CancelInside(c)
    <3>1. c \in Calls \ orphans /\ step[c] \in Inside
      BY <2>2 DEF CancelInside, Inside
    <3>2. /\ orphans \subseteq orphans'
          /\ \A d \in Calls \ {c} : step'[d] = step[d]
          /\ step'[c] \notin Inside \/ c \in orphans'
      BY <2>2 DEF CancelInside, TypeOK, Inside
    <3> QED
      BY <2>2, <3>1, <3>2, LeaveKeepsLock DEF CancelInside
  <2> QED
    BY <1>4, <2>1, <2>2 DEF Cancel
<1>5. ASSUME NEW c \in Calls, Advance(c)
      PROVE  LockInv'
  <2>1. CASE Wake(c)
    BY <2>1, EnterKeepsLock DEF Wake
  <2>2. CASE Return(c)
    <3>1. /\ c \in Calls \ orphans /\ step[c] \in Inside /\ step'[c] \notin Inside
          /\ \A d \in Calls \ {c} : step'[d] = step[d]
      BY <2>2 DEF Return, TypeOK, Inside
    <3> QED
      BY <2>2, <3>1, LeaveKeepsLock DEF Return
  <2>3. CASE Look(c) \/ Run(c) \/ Raise(c) \/ InnerStore(c)
    BY <2>3, OthersKeepLock DEF Look, Run, Raise, InnerStore, TypeOK, Inside
  <2>4. CASE OrphanEnds(c)
    BY <2>4 DEF OrphanEnds, LockInv, TypeOK, Inside
  <2> QED
    BY <1>5, <2>1, <2>2, <2>3, <2>4 DEF Advance
<1> QED
  BY <1>1, <1>2, <1>3, <1>4, <1>5 DEF Next

-----------------------------------------------------------------------------
(* Answers and the table.                                                  *)

(* No step loses a row.                                                    *)
LEMMA RowsStay ==
  ASSUME TypeOK, [Next]_vars, NEW c \in Calls, Known(c)
  PROVE  Known(c)'
<1>1. ASSUME NEW d \in Calls, Return(d) \/ InnerStore(d)
      PROVE  Known(c)'
  <2>1. OuterHash(d) \in Hashes /\ InnerHash(d) \in Hashes /\ result[d] \in Results
    BY HashTypes DEF TypeOK
  <2> QED
    BY <1>1, <2>1, StoreEffect DEF Return, InnerStore
<1>2. CASE UNCHANGED rows
  BY <1>2 DEF Known
<1>3. ASSUME NEW d \in Calls, Arrive(d) \/ Cancel(d)
      PROVE  UNCHANGED rows
  BY <1>3 DEF Arrive, Cancel
<1>4. ASSUME NEW d \in Calls, Wake(d) \/ Look(d) \/ Run(d) \/ Raise(d) \/ OrphanEnds(d)
      PROVE  UNCHANGED rows
  BY <1>4 DEF Wake, Look, Run, Raise, OrphanEnds
<1> QED
  BY <1>1, <1>2, <1>3, <1>4 DEF Next, Advance, Crash, vars

(* The steps of one request leave every other one where it is.             *)
LEMMA OthersStay ==
  ASSUME TypeOK, NEW c \in Calls, Arrive(c) \/ Advance(c) \/ Cancel(c)
  PROVE  \A d \in Calls \ {c} : step'[d] = step[d] /\ result'[d] = result[d]
<1> USE DEF MoveTo, Gives, TypeOK
<1>1. CASE Arrive(c)
  BY <1>1 DEF Arrive, Replay, Refuse, Acquire, Enter
<1>2. CASE Cancel(c)
  BY <1>2 DEF Cancel, CancelQueued, CancelInside
<1>3. CASE Wake(c) \/ Return(c) \/ OrphanEnds(c)
  BY <1>3 DEF Wake, Enter, Return, OrphanEnds
<1>4. CASE Look(c) \/ Run(c) \/ Raise(c) \/ InnerStore(c)
  BY <1>4 DEF Look, Run, Raise, InnerStore
<1> QED
  BY <1>1, <1>2, <1>3, <1>4 DEF Advance

(* Only Run makes an operation happen.                                     *)
LEMMA OnlyRunRuns ==
  ASSUME NEW c \in Calls, Arrive(c) \/ Advance(c) \/ Cancel(c), ~ Run(c)
  PROVE  UNCHANGED ran
BY DEF Arrive, Advance, Cancel, Wake, Return, Look, Raise, InnerStore, OrphanEnds

(* A request is answered from the table, or refused, or after its result   *)
(* was stored.                                                             *)
LEMMA AnswersAreStored ==
  ASSUME TypeOK, NEW c \in Calls, Arrive(c) \/ Advance(c) \/ Cancel(c),
         step'[c] = "answered"
  PROVE  result'[c] = "refused" \/ Known(c)'
<1> USE DEF MoveTo, Gives, TypeOK
<1>1. CASE Arrive(c)
  BY <1>1 DEF Arrive, Replay, Refuse, Acquire, Enter, Known
<1>2. CASE Return(c)
  <2>1. OuterHash(c) \in Hashes /\ result[c] \in Results
    BY HashTypes
  <2> QED
    BY <1>2, <2>1, StoreEffect DEF Return
<1>3. CASE Cancel(c)
  BY <1>3 DEF Cancel, CancelQueued, CancelInside
<1>4. CASE Wake(c) \/ OrphanEnds(c)
  BY <1>4 DEF Wake, Enter, OrphanEnds
<1>5. CASE Look(c) \/ Run(c) \/ Raise(c) \/ InnerStore(c)
  BY <1>5 DEF Look, Run, Raise, InnerStore
<1> QED
  BY <1>1, <1>2, <1>3, <1>4, <1>5 DEF Advance

(* Nobody becomes new.                                                     *)
LEMMA NobodyIsNewAgain ==
  ASSUME TypeOK, NEW c \in Calls, Arrive(c) \/ Advance(c) \/ Cancel(c)
  PROVE  step'[c] # "new"
<1> USE DEF MoveTo, TypeOK
<1>1. CASE Arrive(c)
  BY <1>1 DEF Arrive, Replay, Refuse, Acquire, Enter
<1>2. CASE Cancel(c)
  BY <1>2 DEF Cancel, CancelQueued, CancelInside
<1>3. CASE Wake(c) \/ Return(c) \/ OrphanEnds(c)
  BY <1>3 DEF Wake, Enter, Return, OrphanEnds
<1>4. CASE Look(c) \/ Run(c) \/ Raise(c) \/ InnerStore(c)
  BY <1>4 DEF Look, Run, Raise, InnerStore
<1> QED
  BY <1>1, <1>2, <1>3, <1>4 DEF Advance

LEMMA AnswerStep == TypeOK /\ AnswerInv /\ [Next]_vars => AnswerInv'
<1> SUFFICES ASSUME TypeOK, AnswerInv, [Next]_vars, NEW c \in Calls
             PROVE  /\ step'[c] = "answered" /\ result'[c] # "refused" => Known(c)'
                    /\ step'[c] = "new" => c \notin ran'
  BY DEF AnswerInv
<1>1. Known(c) => Known(c)'
  BY RowsStay
<1>2. CASE UNCHANGED vars
  BY <1>1, <1>2 DEF AnswerInv, vars
<1>3. CASE Crash
  BY <1>1, <1>3 DEF AnswerInv, Crash, TypeOK
<1>4. ASSUME Arrive(c) \/ Advance(c) \/ Cancel(c)
      PROVE  /\ step'[c] = "answered" /\ result'[c] # "refused" => Known(c)'
             /\ step'[c] = "new" => c \notin ran'
  BY <1>4, AnswersAreStored, NobodyIsNewAgain
<1>5. ASSUME NEW d \in Calls \ {c}, Arrive(d) \/ Advance(d) \/ Cancel(d)
      PROVE  /\ step'[c] = "answered" /\ result'[c] # "refused" => Known(c)'
             /\ step'[c] = "new" => c \notin ran'
  <2>1. step'[c] = step[c] /\ result'[c] = result[c]
    BY <1>5, OthersStay
  <2>2. ran' = ran \/ ran' = ran \cup {d}
    BY <1>5, OnlyRunRuns DEF Run
  <2> QED
    BY <1>1, <2>1, <2>2 DEF AnswerInv
<1> QED
  BY <1>2, <1>3, <1>4, <1>5 DEF Next

(* What AnsweredIsNeverRepeated says of a step.                            *)
LEMMA RepeatIsAnswered ==
  ASSUME TypeOK, AnswerInv, [Next]_vars, NEW c \in Calls, NEW d \in Calls,
         SameRequest(c, d), step[c] = "answered", result[c] # "refused",
         step[d] = "new", step'[d] # "new"
  PROVE  step'[d] = "answered" /\ d \notin ran'
<1>1. Known(d)
  BY DEF AnswerInv, SameRequest, Known
<1>2. d \notin ran
  BY DEF AnswerInv
<1>3. ~ Crash /\ ~ UNCHANGED vars
  BY DEF Crash, vars, TypeOK
<1>4. ~ Advance(d) /\ ~ Cancel(d)
  BY DEF Advance, Wake, Return, Look, Run, Raise, InnerStore, OrphanEnds,
         Cancel, CancelQueued, CancelInside
<1>5. Arrive(d)
  BY <1>3, <1>4, OthersStay DEF Next
<1>6. Replay(d) /\ UNCHANGED ran
  BY <1>1, <1>5 DEF Arrive, Refuse, Acquire
<1> QED
  BY <1>2, <1>6 DEF Replay, MoveTo, TypeOK

-----------------------------------------------------------------------------
(* At most once.                                                           *)

LEMMA InterruptionsCount ==
  ASSUME TypeOK
  PROVE  /\ Crash => ~ Undisturbed'
         /\ \A c \in Calls : Cancel(c) => ~ Undisturbed'
BY CallsAssumption DEF TypeOK, Crash, Cancel, Undisturbed

(* A step after which nothing more runs or has run, and from which whoever *)
(* has run goes on towards the table.                                      *)
LEMMA OnceFrame ==
  ASSUME TypeOK, Once, UNCHANGED <<ran, orphans>>, [Next]_vars,
         \A d \in Layered : step'[d] = "running" => step[d] = "running",
         \A d \in ran \cap Layered :
           \/ step'[d] = step[d]
           \/ step'[d] \in {"returned", "answered"} /\ Known(d)'
  PROVE  Once'
<1>1. \A d \in Calls : Known(d) => Known(d)'
  BY RowsStay
<1>2. Layered \subseteq Calls
  BY CallsAssumption
<1> QED
  BY <1>1, <1>2 DEF Once, SameRequest

(* Who runs has seen, under the lock, that no copy has.                    *)
LEMMA LookKeepsOnce ==
  ASSUME TypeOK, LockInv, Once, NEW c \in Calls, Look(c)
  PROVE  Once'
<1>1. /\ step[c] = "entered" /\ UNCHANGED <<rows, ran, orphans>>
      /\ step' = [step EXCEPT ![c] = IF c \in Layered /\ Known(c) THEN "returned" ELSE "running"]
  BY DEF Look, MoveTo
<1>2. c \notin ran \cap Layered
  BY <1>1 DEF Once
<1>3. /\ \A d \in Calls \ {c} : step'[d] = step[d]
      /\ \A d \in Calls : Known(d)' <=> Known(d)
      /\ Layered \subseteq Calls
  BY <1>1, CallsAssumption DEF TypeOK, Known
<1>4. ASSUME c \in Layered, step'[c] = "running", NEW d \in ran \cap Layered, SameRequest(d, c)
      PROVE  FALSE
  <2>1. ~ Known(d)
    BY <1>1, <1>4 DEF TypeOK, SameRequest, Known
  <2>2. step[d] = "ran" /\ d # c
    BY <1>1, <1>4, <2>1 DEF Once
  <2>3. LockOf[c] = LockOf[d]
    BY <1>3, <1>4, CallsAssumption DEF SameRequest
  <2> QED
    BY <1>1, <1>3, <2>2, <2>3, LockExcludes DEF Once, OneWriterAtATime, Inside
<1>5. \A d \in ran \cap Layered : step'[d] = "ran" \/ (step'[d] \in {"returned", "answered"} /\ Known(d)')
  BY <1>2, <1>3 DEF Once
<1>6. \A d \in ran \cap Layered, e \in Layered : SameRequest(d, e) => step'[e] # "running"
  BY <1>3, <1>4 DEF Once
<1> QED
  BY <1>1, <1>5, <1>6 DEF Once, SameRequest

(* And the operation happens once, because nobody else is inside.          *)
LEMMA RunKeepsOnce ==
  ASSUME TypeOK, LockInv, Once, NEW c \in Calls, Run(c)
  PROVE  Once'
<1>1. /\ step[c] = "running" /\ UNCHANGED <<rows, orphans>>
      /\ ran' = ran \cup {c}
      /\ step' = [step EXCEPT ![c] = IF c \in Layered THEN "ran" ELSE "returned"]
  BY DEF Run, MoveTo
<1>2. /\ \A d \in Calls \ {c} : step'[d] = step[d]
      /\ c \in Layered => step'[c] = "ran"
      /\ \A d \in Calls : Known(d)' <=> Known(d)
      /\ Layered \subseteq Calls
  BY <1>1, CallsAssumption DEF TypeOK, Known
<1>3. c \in Layered => \A d \in ran \cap Layered : ~ SameRequest(d, c) /\ ~ SameRequest(c, d)
  BY <1>1 DEF Once, SameRequest
<1>4. ASSUME c \in Layered, NEW e \in Layered, SameRequest(c, e)
      PROVE  step'[e] # "running"
  <2>1. CASE e = c
    BY <1>2, <1>4, <2>1
  <2>2. CASE e # c
    <3>1. LockOf[c] = LockOf[e] /\ e \in Calls
      BY <1>2, <1>4, CallsAssumption DEF SameRequest
    <3>2. step[e] # "running"
      BY <1>1, <2>2, <3>1, LockExcludes DEF Once, OneWriterAtATime, Inside
    <3> QED
      BY <1>2, <2>2, <3>1, <3>2
  <2> QED
    BY <2>1, <2>2
<1>5. \A d \in ran' \cap Layered :
        step'[d] = "ran" \/ (step'[d] \in {"returned", "answered"} /\ Known(d)')
  BY <1>1, <1>2 DEF Once
<1>6. \A d \in ran' \cap Layered, e \in Layered : SameRequest(d, e) => step'[e] # "running"
  BY <1>1, <1>2, <1>4 DEF Once
<1>7. \A d, e \in ran' \cap Layered : SameRequest(d, e) => d = e
  BY <1>1, <1>3 DEF Once
<1> QED
  BY <1>1, <1>5, <1>6, <1>7 DEF Once, SameRequest

LEMMA OnceStep == TypeOK /\ LockInv /\ AnswerInv /\ OnceInv /\ [Next]_vars => OnceInv'
<1> SUFFICES ASSUME TypeOK, LockInv, AnswerInv, OnceInv, [Next]_vars, Undisturbed'
             PROVE  Once'
  BY DEF OnceInv
<1> USE DEF MoveTo, TypeOK
<1>1. ~ Crash /\ \A c \in Calls : ~ Cancel(c)
  BY InterruptionsCount
<1>2. CASE UNCHANGED vars
  BY <1>2 DEF vars, locks, counters, Undisturbed, OnceInv, Once, Known, SameRequest
<1>3. ASSUME NEW c \in Calls, Arrive(c) \/ Advance(c)
      PROVE  Once'
  <2>1. UNCHANGED <<cancels, crashes>>
    BY <1>3 DEF Arrive, Advance, Wake, Return, Look, Run, Raise, InnerStore, OrphanEnds, counters
  <2>2. Once
    BY <2>1 DEF Undisturbed, OnceInv
  <2>3. /\ \A d \in Calls \ {c} : step'[d] = step[d]
        /\ \A d \in Calls : Known(d) => Known(d)'
        /\ Layered \subseteq Calls
    BY <1>3, OthersStay, RowsStay, CallsAssumption
  <2>4. CASE Arrive(c)
    <3>1. step'[c] # "running" /\ c \notin ran /\ UNCHANGED <<ran, orphans>>
      BY <2>4 DEF Arrive, Replay, Refuse, Acquire, Enter, AnswerInv
    <3> QED
      BY <2>2, <2>3, <3>1, OnceFrame
  <2>5. CASE Wake(c)
    <3>1. step[c] = "queued" /\ step'[c] # "running" /\ UNCHANGED <<ran, orphans>>
      BY <2>5 DEF Wake, Enter
    <3>2. c \notin ran \cap Layered
      BY <2>2, <3>1 DEF Once
    <3> QED
      BY <2>2, <2>3, <3>1, <3>2, OnceFrame
  <2>6. CASE Return(c) \/ InnerStore(c)
    <3>1. OuterHash(c) \in Hashes /\ InnerHash(c) \in Hashes /\ result[c] \in Results
      BY HashTypes
    <3>2. /\ step'[c] \in {"returned", "answered"} /\ Known(c)'
          /\ UNCHANGED <<ran, orphans>>
      BY <2>6, <3>1, StoreEffect DEF Return, InnerStore
    <3> QED
      BY <2>2, <2>3, <3>2, OnceFrame
  <2>7. CASE Look(c)
    BY <2>2, <2>7, LookKeepsOnce
  <2>8. CASE Run(c)
    BY <2>2, <2>8, RunKeepsOnce
  <2>9. CASE Raise(c)
    <3>1. step[c] = "running" /\ step'[c] = "returned" /\ UNCHANGED <<ran, orphans>>
      BY <2>9 DEF Raise
    <3>2. c \notin ran \cap Layered
      BY <2>2, <3>1 DEF Once
    <3> QED
      BY <2>2, <2>3, <3>1, <3>2, OnceFrame
  <2>10. ~ OrphanEnds(c)
    BY <2>2 DEF Once, OrphanEnds
  <2> QED
    BY <1>3, <2>4, <2>5, <2>6, <2>7, <2>8, <2>9, <2>10 DEF Advance
<1> QED
  BY <1>1, <1>2, <1>3 DEF Next

-----------------------------------------------------------------------------

LEMMA InitInvariant == Init => IInv
<1> SUFFICES ASSUME Init
             PROVE  IInv
  OBVIOUS
<1>1. /\ <<>> \in Seq(Calls) /\ DOMAIN <<>> = {}
      /\ IsInjective(<<>>) /\ \A c \in Calls : ~ Contains(<<>>, c)
  <2>1. <<>> \in Seq(Calls) /\ DOMAIN <<>> = {}
    BY EmptySeq
  <2> QED
    BY <2>1, EmptyContainsNothing DEF IsInjective
<1>2. TypeOK
  BY <1>1, CallsAssumption DEF Init, TypeOK, Results
<1>3. QueueInv
  BY <1>1, CallsAssumption DEF Init, QueueInv
<1>4. LockInv /\ AnswerInv /\ OnceInv
  BY DEF Init, LockInv, AnswerInv, OnceInv, Once, Inside
<1> QED
  BY <1>2, <1>3, <1>4 DEF IInv

LEMMA NextInvariant == IInv /\ [Next]_vars => IInv'
BY TypesStep, LockStep, AnswerStep, OnceStep DEF IInv

LEMMA Invariance == Spec => []IInv
BY InitInvariant, NextInvariant, PTL DEF Spec

(* The middleware keeps its types; a queue has only requests that wait.    *)
THEOREM TypeCorrect == Spec => []TypeOK
<1>1. IInv => TypeOK
  BY DEF IInv
<1> QED
  BY <1>1, Invariance, PTL

(* The lock of tool_registry.py: two operations in one workspace never     *)
(* overlap, except with one whose request was cancelled.                   *)
THEOREM OperationsExclude == Spec => []OneWriterAtATime
<1>1. IInv => OneWriterAtATime
  BY LockExcludes DEF IInv
<1> QED
  BY <1>1, Invariance, PTL

(* The second lookup of with_idempotency, under the lock: copies of a      *)
(* request make its operation happen once, unless one is cancelled or the  *)
(* server dies.                                                            *)
THEOREM CopiesRunOnce == Spec => []RunsAtMostOnce
<1>1. IInv => RunsAtMostOnce
  BY DEF IInv, OnceInv, Once, RunsAtMostOnce
<1> QED
  BY <1>1, Invariance, PTL

(* The first lookup, by execute_tool: once a copy of a request has been    *)
(* answered with an outcome, a later copy is answered at once and does     *)
(* nothing, whatever was cancelled or crashed.                             *)
THEOREM AnswersLast == Spec => AnsweredIsNeverRepeated
<1>1. IInv /\ [Next]_vars =>
        [\A c, d \in Calls :
           /\ SameRequest(c, d) /\ step[c] = "answered" /\ result[c] # "refused"
           /\ step[d] = "new" /\ step'[d] # "new"
           => step'[d] = "answered" /\ d \notin ran']_vars
  BY RepeatIsAnswered DEF IInv
<1> QED
  BY <1>1, Invariance, PTL DEF Spec, AnsweredIsNeverRepeated

-----------------------------------------------------------------------------
(* What clients are told: the middleware behaves as IdempotentCalls says.  *)

Before == {"new", "queued", "entered"}

(* What a handler may hand back, and what a row may say: an operation of   *)
(* this very request, its failure, or that another request has the key.    *)
Told(c, a) ==
  \/ a \in ran /\ SameRequest(c, a)
  \/ a = "failed"
  \/ a = "mismatch" /\ \E d \in Calls \ {c} : KeyOf[d] = KeyOf[c] /\ step[d] # "new"

(* Every row was written for a request that had passed the lookups, and    *)
(* reports the outcome of its inputs.                                      *)
RowTrue(k) ==
  /\ \/ /\ rows[k].result \in ran
        /\ KeyOf[rows[k].result] = k /\ InputOf[rows[k].result] = rows[k].hash.input
     \/ rows[k].result \in {"failed", "mismatch"}
  /\ \E d \in Calls : KeyOf[d] = k /\ InputOf[d] = rows[k].hash.input /\ step[d] \notin Before

CallTrue(c) ==
  /\ c \in orphans => step[c] \in Inside
  /\ c \in ran => step[c] \notin Before \cup {"running"}
  /\ step[c] = "ran" => c \in ran /\ result[c] = c
  /\ step[c] = "returned" => Told(c, result[c])

TruthInv ==
  /\ \A k \in Keys : rows[k] # NoRow => RowTrue(k)
  /\ \A c \in Calls : CallTrue(c)

(* A request never goes back before the lookups, and what ran has run.     *)
Onwards ==
  /\ ran \subseteq ran'
  /\ \A d \in Calls : /\ step[d] # "new" => step'[d] # "new"
                      /\ step[d] \notin Before => step'[d] \notin Before

LEMMA StepsGoOnwards ==
  ASSUME TypeOK, [Next]_vars
  PROVE  Onwards
<1> USE DEF TypeOK, MoveTo, Onwards, Before
<1>1. CASE UNCHANGED vars
  BY <1>1 DEF vars
<1>2. CASE Crash
  BY <1>2 DEF Crash
<1>3. ASSUME NEW c \in Calls, Arrive(c) \/ Advance(c) \/ Cancel(c)
      PROVE  Onwards
  <2>1. ran \subseteq ran'
    BY <1>3, OnlyRunRuns DEF Run
  <2>2. \A d \in Calls \ {c} : step'[d] = step[d]
    BY <1>3, OthersStay
  <2>3. step'[c] # "new"
    BY <1>3, NobodyIsNewAgain
  <2>4. step[c] \notin Before => step'[c] \notin Before
    <3>1. CASE Arrive(c) \/ Wake(c)
      BY <3>1 DEF Arrive, Wake
    <3>2. CASE Cancel(c)
      BY <3>2 DEF Cancel, CancelQueued, CancelInside
    <3>3. CASE Return(c) \/ OrphanEnds(c)
      BY <3>3 DEF Return, OrphanEnds
    <3>4. CASE Look(c) \/ Run(c) \/ Raise(c) \/ InnerStore(c)
      BY <3>4 DEF Look, Run, Raise, InnerStore
    <3> QED
      BY <1>3, <3>1, <3>2, <3>3, <3>4 DEF Advance
  <2> QED
    BY <2>1, <2>2, <2>3, <2>4
<1> QED
  BY <1>1, <1>2, <1>3 DEF Next

LEMMA ToldStays ==
  ASSUME Onwards, NEW c \in Calls, NEW a, Told(c, a)
  PROVE  Told(c, a)'
BY DEF Onwards, Told, SameRequest

LEMMA RowStaysTrue ==
  ASSUME Onwards, NEW k \in Keys, RowTrue(k), rows'[k] = rows[k]
  PROVE  RowTrue(k)'
BY DEF Onwards, RowTrue

(* What the table answers a request that has not passed its lookups.       *)
LEMMA StoredIsTold ==
  ASSUME TypeOK, TruthInv, NEW c \in Calls, Known(c), step[c] \in Before,
         NEW hash \in Hashes, hash.input = InputOf[c]
  PROVE  /\ Told(c, Stored(c, hash))
         /\ Stored(c, hash) = "failed" => \E d \in Calls : SameRequest(c, d) /\ step[d] # "new"
<1> DEFINE row == rows[KeyOf[c]]
<1>1. RowTrue(KeyOf[c]) /\ row \in Rows
  BY CallsAssumption DEF TypeOK, TruthInv, Known
<1>2. PICK d \in Calls : KeyOf[d] = KeyOf[c] /\ InputOf[d] = row.hash.input /\ step[d] \notin Before
  BY <1>1 DEF RowTrue
<1>3. d \in Calls \ {c} /\ step[d] # "new"
  BY <1>2 DEF Before
<1>4. CASE row.hash # hash
  BY <1>2, <1>3, <1>4 DEF Stored, Told
<1>5. CASE row.hash = hash
  <2>1. Stored(c, hash) = row.result
    BY <1>5 DEF Stored
  <2>2. SameRequest(c, d)
    BY <1>2, <1>5 DEF SameRequest
  <2>3. CASE row.result \in ran /\ KeyOf[row.result] = KeyOf[c] /\ InputOf[row.result] = row.hash.input
    BY <1>5, <2>1, <2>2, <1>3, <2>3 DEF Told, SameRequest
  <2>4. CASE row.result \in {"failed", "mismatch"}
    BY <1>2, <1>3, <2>1, <2>2, <2>4 DEF Told
  <2> QED
    BY <1>1, <2>3, <2>4 DEF RowTrue
<1> QED
  BY <1>4, <1>5

LEMMA HashInputs ==
  ASSUME NEW c \in Calls
  PROVE  OuterHash(c).input = InputOf[c] /\ InnerHash(c).input = InputOf[c]
BY DEF OuterHash, InnerHash

(* A row that a request writes for what it was told is true.               *)
LEMMA StoreIsTrue ==
  ASSUME TypeOK, TruthInv, Onwards, NEW c \in Calls, NEW hash \in Hashes,
         hash.input = InputOf[c], NEW value \in Results, Store(c, hash, value),
         Told(c, value), step'[c] \notin Before, NEW k \in Keys, rows'[k] # NoRow
  PROVE  RowTrue(k)'
<1>1. CASE k = KeyOf[c]
  <2>1. rows'[k] = [hash |-> hash, result |-> value]
    BY <1>1 DEF Store, TypeOK
  <2>2. rows'[k].hash.input = InputOf[c] /\ rows'[k].result = value
    BY <2>1
  <2>3. \E d \in Calls : KeyOf[d] = k /\ InputOf[d] = rows'[k].hash.input /\ step'[d] \notin Before
    BY <1>1, <2>2
  <2>4. \/ /\ rows'[k].result \in ran'
           /\ KeyOf[rows'[k].result] = k /\ InputOf[rows'[k].result] = rows'[k].hash.input
        \/ rows'[k].result \in {"failed", "mismatch"}
    BY <1>1, <2>2 DEF Told, SameRequest, Onwards
  <2> QED
    BY <2>3, <2>4 DEF RowTrue
<1>2. CASE k # KeyOf[c]
  <2>1. rows'[k] = rows[k]
    BY <1>2 DEF Store, TypeOK
  <2> QED
    BY <2>1, RowStaysTrue DEF TruthInv
<1> QED
  BY <1>1, <1>2

LEMMA TableStaysTrue ==
  ASSUME TypeOK, TruthInv, [Next]_vars, NEW k \in Keys, rows'[k] # NoRow
  PROVE  RowTrue(k)'
<1>1. Onwards
  BY StepsGoOnwards
<1>2. CASE UNCHANGED rows
  BY <1>1, <1>2, RowStaysTrue DEF TruthInv
<1>3. ASSUME NEW c \in Calls, Return(c)
      PROVE  RowTrue(k)'
  <2>1. step'[c] \notin Before /\ Told(c, result[c]) /\ Store(c, OuterHash(c), result[c])
    BY <1>3 DEF Return, MoveTo, TypeOK, TruthInv, CallTrue, Before
  <2>2. OuterHash(c) \in Hashes /\ OuterHash(c).input = InputOf[c] /\ result[c] \in Results
    BY HashTypes, HashInputs DEF TypeOK
  <2> QED
    BY <1>1, <2>1, <2>2, StoreIsTrue
<1>4. ASSUME NEW c \in Calls, InnerStore(c)
      PROVE  RowTrue(k)'
  <2>1. step'[c] \notin Before /\ Store(c, InnerHash(c), result[c])
    BY <1>4 DEF InnerStore, MoveTo, TypeOK, Before
  <2>2. Told(c, result[c])
    BY <1>4 DEF InnerStore, TruthInv, CallTrue, Told, SameRequest
  <2>3. InnerHash(c) \in Hashes /\ InnerHash(c).input = InputOf[c] /\ result[c] \in Results
    BY HashTypes, HashInputs DEF TypeOK
  <2> QED
    BY <1>1, <2>1, <2>2, <2>3, StoreIsTrue
<1>5. ASSUME NEW d \in Calls, Arrive(d) \/ Cancel(d)
      PROVE  UNCHANGED rows
  BY <1>5 DEF Arrive, Cancel
<1>6. ASSUME NEW d \in Calls, Wake(d) \/ Look(d) \/ Run(d) \/ Raise(d) \/ OrphanEnds(d)
      PROVE  UNCHANGED rows
  BY <1>6 DEF Wake, Look, Run, Raise, OrphanEnds
<1> QED
  BY <1>2, <1>3, <1>4, <1>5, <1>6 DEF Next, Advance, Crash, vars

(* The request that makes a step stays true to what it has done.           *)
LEMMA ActorStaysTrue ==
  ASSUME TypeOK, AnswerInv, TruthInv, Onwards, NEW c \in Calls, Arrive(c) \/ Advance(c) \/ Cancel(c)
  PROVE  CallTrue(c)'
<1> USE DEF MoveTo, Gives, TypeOK
<1>1. CallTrue(c)
  BY DEF TruthInv
<1>2. CASE Arrive(c)
  <2>1. step[c] = "new" /\ c \notin ran /\ UNCHANGED <<ran, orphans>>
    BY <1>2 DEF Arrive, AnswerInv
  <2>2. step'[c] \in {"answered", "queued", "entered"}
    BY <1>2 DEF Arrive, Replay, Refuse, Acquire, Enter
  <2> QED
    BY <1>1, <2>1, <2>2 DEF CallTrue, Inside
<1>3. CASE Wake(c)
  BY <1>1, <1>3 DEF Wake, Enter, CallTrue, Inside, Before
<1>4. CASE Return(c)
  BY <1>1, <1>4 DEF Return, CallTrue, Inside, Before
<1>5. CASE Look(c)
  <2>1. step[c] = "entered" /\ UNCHANGED <<ran, orphans>>
    BY <1>5 DEF Look
  <2>2. CASE c \in Layered /\ Known(c)
    <3>1. step'[c] = "returned" /\ result'[c] = Stored(c, InnerHash(c))
      BY <1>5, <2>2 DEF Look
    <3>2. Told(c, Stored(c, InnerHash(c)))
      BY <2>1, <2>2, StoredIsTold, HashTypes, HashInputs DEF Before
    <3>3. Told(c, result[c])'
      BY <3>1, <3>2 DEF Told, Onwards
    <3> QED
      BY <1>1, <2>1, <3>1, <3>3 DEF CallTrue, Inside, Before
  <2>3. CASE ~ (c \in Layered /\ Known(c))
    <3>1. step'[c] = "running"
      BY <1>5, <2>3 DEF Look
    <3> QED
      BY <1>1, <2>1, <3>1 DEF CallTrue, Inside, Before
  <2> QED
    BY <2>2, <2>3
<1>6. CASE Run(c)
  <2>1. /\ step'[c] \in {"ran", "returned"} /\ result'[c] = c /\ c \in ran'
        /\ UNCHANGED orphans
    BY <1>6 DEF Run
  <2> QED
    BY <2>1 DEF CallTrue, Told, SameRequest, Inside, Before
<1>7. CASE Raise(c)
  BY <1>1, <1>7 DEF Raise, CallTrue, Told, Inside, Before
<1>8. CASE InnerStore(c)
  BY <1>1, <1>8 DEF InnerStore, CallTrue, Told, SameRequest, Inside, Before
<1>9. CASE OrphanEnds(c)
  BY <1>1, <1>9 DEF OrphanEnds, CallTrue, Inside, Before
<1>10. CASE Cancel(c) /\ step'[c] = "gone"
  <2>1. UNCHANGED ran /\ c \notin orphans'
    BY <1>1, <1>10 DEF Cancel, CancelQueued, CancelInside, CallTrue, Inside
  <2> QED
    BY <1>1, <1>10, <2>1 DEF CallTrue, Before
<1>11. CASE Cancel(c) /\ UNCHANGED step /\ step[c] \in Inside
  <2>1. UNCHANGED <<ran, result>>
    BY <1>11 DEF Cancel
  <2> QED
    BY <1>1, <1>11, <2>1 DEF CallTrue, Told, SameRequest
<1>12. Cancel(c) => step'[c] = "gone" \/ (UNCHANGED step /\ step[c] \in Inside)
  BY DEF Cancel, CancelQueued, CancelInside, Inside
<1> QED
  BY <1>2, <1>3, <1>4, <1>5, <1>6, <1>7, <1>8, <1>9, <1>10, <1>11, <1>12 DEF Advance

(* And everybody else.                                                     *)
LEMMA BystanderStaysTrue ==
  ASSUME TypeOK, TruthInv, Onwards, NEW c \in Calls, Arrive(c) \/ Advance(c) \/ Cancel(c),
         NEW d \in Calls \ {c}
  PROVE  CallTrue(d)'
<1>1. step'[d] = step[d] /\ result'[d] = result[d] /\ CallTrue(d)
  BY OthersStay DEF TruthInv
<1>2. ran \subseteq ran' /\ (d \in ran' => d \in ran)
  BY OnlyRunRuns DEF Run
<1>3. d \in orphans' => d \in orphans
  BY DEF Arrive, Advance, Wake, Return, Look, Run, Raise, InnerStore, OrphanEnds,
         Cancel, CancelQueued, CancelInside
<1>4. ASSUME step[d] = "returned"
      PROVE  Told(d, result[d])'
  BY <1>1, <1>4, ToldStays DEF CallTrue, Told, SameRequest, Onwards
<1> QED
  BY <1>1, <1>2, <1>3, <1>4 DEF CallTrue

LEMMA TruthStep == TypeOK /\ AnswerInv /\ TruthInv /\ [Next]_vars => TruthInv'
<1> SUFFICES ASSUME TypeOK, AnswerInv, TruthInv, [Next]_vars
             PROVE  TruthInv'
  OBVIOUS
<1>1. Onwards
  BY StepsGoOnwards
<1>2. \A k \in Keys : rows'[k] # NoRow => RowTrue(k)'
  BY TableStaysTrue
<1>3. ASSUME NEW d \in Calls
      PROVE  CallTrue(d)'
  <2>1. CallTrue(d)
    BY DEF TruthInv
  <2>2. CASE UNCHANGED vars
    BY <2>1, <2>2 DEF vars, CallTrue, Told, SameRequest
  <2>3. CASE Crash
    BY <2>1, <2>3 DEF Crash, CallTrue, Before, TypeOK
  <2> QED
    BY <1>1, <2>2, <2>3, ActorStaysTrue, BystanderStaysTrue DEF Next
<1> QED
  BY <1>2, <1>3 DEF TruthInv

-----------------------------------------------------------------------------
(* Every step of the middleware is a step that a client may see, or none.  *)

LEMMA StagesDiffer ==
  ASSUME TruthInv, NEW c \in Calls
  PROVE  /\ step[c] \in {"new", "answered", "gone"} => Stage[c] = step[c]
         /\ step[c] \notin {"new", "answered", "gone"} =>
              Stage[c] = IF c \in orphans THEN "left" ELSE "open"
BY DEF TruthInv, CallTrue, Stage, Inside

(* A step at which nobody's stage or answer changes is not seen.           *)
LEMMA ActorsChange ==
  ASSUME TypeOK, NEW c \in Calls, Arrive(c) \/ Advance(c) \/ Cancel(c)
  PROVE  /\ Stage' = [Stage EXCEPT ![c] = Stage'[c]]
         /\ Answers' = [Answers EXCEPT ![c] = Answers'[c]]
<1>1. ASSUME NEW d \in Calls \ {c}
      PROVE  Stage'[d] = Stage[d] /\ Answers'[d] = Answers[d]
  <2>1. step'[d] = step[d] /\ result'[d] = result[d]
    BY OthersStay
  <2>2. d \in orphans' <=> d \in orphans
    BY DEF Arrive, Advance, Wake, Return, Look, Run, Raise, InnerStore, OrphanEnds,
           Cancel, CancelQueued, CancelInside
  <2> QED
    BY <2>1, <2>2 DEF Stage, Answers
<1>2. Stage' = [d \in Calls |-> Stage'[d]] /\ Answers' = [d \in Calls |-> Answers'[d]]
  BY DEF Stage, Answers
<1>3. Stage = [d \in Calls |-> Stage[d]] /\ Answers = [d \in Calls |-> Answers[d]]
  BY DEF Stage, Answers
<1> HIDE DEF Stage, Answers
<1> QED
  BY <1>1, <1>2, <1>3

LEMMA Silent ==
  ASSUME TypeOK, NEW c \in Calls, Arrive(c) \/ Advance(c) \/ Cancel(c),
         Stage'[c] = Stage[c], Answers'[c] = Answers[c], UNCHANGED <<ran, cancels, crashes>>
  PROVE  UNCHANGED <<Stage, Answers, ran, ~ Undisturbed>>
<1>1. Stage' = Stage /\ Answers' = Answers
  <2>1. Stage = [d \in Calls |-> Stage[d]] /\ Answers = [d \in Calls |-> Answers[d]]
    BY DEF Stage, Answers
  <2> QED
    BY <2>1, ActorsChange
<1> QED
  BY <1>1 DEF Undisturbed

LEMMA ArriveIsSeen ==
  ASSUME IInv, TruthInv, NEW c \in Calls, Arrive(c)
  PROVE  Promised!Open(c) \/ Promised!Answer(c)
<1> USE DEF MoveTo, Gives, TypeOK
<1>1. /\ step[c] = "new" /\ UNCHANGED <<ran, orphans, cancels, crashes>>
      /\ TypeOK /\ Stage[c] = "new" /\ c \notin orphans
  BY StagesDiffer DEF Arrive, counters, IInv, TruthInv, CallTrue, Inside
<1>2. /\ Stage' = [Stage EXCEPT ![c] = Stage'[c]]
      /\ Answers' = [Answers EXCEPT ![c] = Answers'[c]]
  BY <1>1, ActorsChange
<1>3. UNCHANGED <<ran, ~ Undisturbed>>
  BY <1>1 DEF Undisturbed
<1>4. ASSUME step'[c] = "answered", Promised!Truthful(c, result'[c]),
             result'[c] \in Calls \cup {"failed", "mismatch", "refused"}
      PROVE  Promised!Answer(c)
  <2>1. Stage'[c] = "answered" /\ Answers'[c] = result'[c]
    BY <1>1, <1>4 DEF Stage, Answers
  <2> QED
    BY <1>1, <1>2, <1>3, <1>4, <2>1 DEF Promised!Answer
<1>5. CASE Replay(c)
  <2>1. step'[c] = "answered" /\ result'[c] = Stored(c, OuterHash(c))
    BY <1>1, <1>5 DEF Replay
  <2>2. /\ Told(c, Stored(c, OuterHash(c)))
        /\ Stored(c, OuterHash(c)) = "failed" =>
             \E d \in Calls : SameRequest(c, d) /\ step[d] # "new"
    BY <1>1, <1>5, StoredIsTold, HashTypes, HashInputs DEF Replay, Before
  <2>3. \A d \in Calls : step[d] # "new" => Stage[d] # "new"
    BY DEF Stage
  <2>4. Promised!Truthful(c, result'[c])
    BY <2>1, <2>2, <2>3 DEF Told, Promised!Truthful, Promised!Same, SameRequest
  <2>5. result'[c] \in Calls \cup {"failed", "mismatch", "refused"}
    BY <1>1, <2>1, <2>2 DEF Told
  <2> QED
    BY <1>4, <2>1, <2>4, <2>5
<1>6. CASE Refuse(c)
  <2>1. step'[c] = "answered" /\ result'[c] = "refused" /\ c \in Writers
    BY <1>1, <1>6 DEF Refuse, Forbidden
  <2> QED
    BY <1>1, <1>4, <2>1 DEF Promised!Truthful
<1>7. CASE Acquire(c)
  <2>1. step'[c] \in {"entered", "queued"} /\ ~ Known(c)
    BY <1>1, <1>7 DEF Acquire, Enter
  <2>2. Stage'[c] = "open" /\ Answers'[c] = Answers[c]
    BY <1>1, <2>1 DEF Stage, Answers
  <2>3. UNCHANGED Answers
    <3>1. Answers = [d \in Calls |-> Answers[d]]
      BY DEF Answers
    <3> QED
      BY <1>2, <2>2, <3>1
  <2>4. ~ Promised!Repeats(c)
    <3> SUFFICES ASSUME NEW d \in Calls, Promised!Same(c, d), Stage[d] = "answered",
                        Answers[d] # "refused"
                 PROVE  FALSE
      BY DEF Promised!Repeats
    <3>1. step[d] = "answered" /\ result[d] # "refused"
      BY DEF Stage, Answers
    <3>2. Known(d)
      BY <3>1 DEF IInv, AnswerInv
    <3> QED
      BY <2>1, <3>2 DEF Promised!Same, Known
  <2> QED
    BY <1>1, <1>2, <1>3, <2>2, <2>3, <2>4 DEF Promised!Open
<1> QED
  BY <1>5, <1>6, <1>7 DEF Arrive

LEMMA AdvanceIsSeen ==
  ASSUME IInv, TruthInv, NEW c \in Calls, Advance(c)
  PROVE  \/ Promised!Operate(c) \/ Promised!Answer(c) \/ Promised!End(c)
         \/ UNCHANGED <<Stage, Answers, ran, ~ Undisturbed>>
<1> USE DEF MoveTo, Gives, TypeOK
<1>1. TypeOK /\ UNCHANGED <<cancels, crashes>>
  BY DEF IInv, Advance, Wake, Return, Look, Run, Raise, InnerStore, OrphanEnds, counters
<1>2. /\ Stage' = [Stage EXCEPT ![c] = Stage'[c]]
      /\ Answers' = [Answers EXCEPT ![c] = Answers'[c]]
  BY <1>1, ActorsChange
<1>3. UNCHANGED (~ Undisturbed)
  BY <1>1 DEF Undisturbed
<1>4. ASSUME step[c] \notin {"new", "answered", "gone"}, step'[c] \notin {"new", "answered", "gone"},
             UNCHANGED orphans
      PROVE  Stage'[c] = Stage[c] /\ Answers'[c] = Answers[c]
  BY <1>4 DEF Stage, Answers
<1>5. Stage = [d \in Calls |-> Stage[d]] /\ Answers = [d \in Calls |-> Answers[d]]
  BY DEF Stage, Answers
<1>6. CASE Wake(c) \/ Look(c) \/ Raise(c) \/ InnerStore(c)
  <2>1. step[c] \notin {"new", "answered", "gone"} /\ UNCHANGED <<ran, orphans>>
    BY <1>6 DEF Wake, Look, Raise, InnerStore
  <2>2. step'[c] \notin {"new", "answered", "gone"}
    <3>1. CASE Wake(c)
      BY <1>1, <3>1 DEF Wake, Enter
    <3>2. CASE Look(c) \/ Raise(c) \/ InnerStore(c)
      BY <1>1, <3>2 DEF Look, Raise, InnerStore
    <3> QED
      BY <1>6, <3>1, <3>2
  <2> QED
    BY <1>1, <1>4, <2>1, <2>2, Silent
<1>7. CASE Run(c)
  <2>1. /\ step[c] = "running" /\ step'[c] \in {"ran", "returned"}
        /\ ran' = ran \cup {c} /\ UNCHANGED orphans
    BY <1>1, <1>7 DEF Run
  <2>2. UNCHANGED <<Stage, Answers>>
    BY <1>2, <1>4, <1>5, <2>1
  <2>3. Stage[c] \in {"open", "left"} /\ c \notin ran
    BY <2>1, StagesDiffer DEF TruthInv, CallTrue
  <2>4. ASSUME c \in Layered, Undisturbed, NEW d \in ran \cap Layered
        PROVE  ~ Promised!Same(c, d)
    BY <2>1, <2>4 DEF IInv, OnceInv, Once, SameRequest, Promised!Same
  <2> QED
    BY <1>3, <2>1, <2>2, <2>3, <2>4 DEF Promised!Operate
<1>8. CASE Return(c)
  <2>1. /\ step[c] = "returned" /\ c \notin orphans /\ step'[c] = "answered"
        /\ UNCHANGED <<orphans, ran, result>>
    BY <1>1, <1>8 DEF Return
  <2>2. Told(c, result[c])
    BY <2>1 DEF TruthInv, CallTrue
  <2>3. Stage[c] = "open" /\ Stage'[c] = "answered" /\ Answers'[c] = result[c]
    BY <2>1 DEF Stage, Answers
  <2>4. \A d \in Calls : step[d] # "new" => Stage[d] # "new"
    BY DEF Stage
  <2>5. Promised!Truthful(c, result[c])
    BY <2>1, <2>2, <2>3, <2>4 DEF Told, Promised!Truthful, Promised!Same, SameRequest
  <2>6. result[c] \in Calls \cup {"failed", "mismatch", "refused"}
    BY <1>1, <2>2 DEF Told
  <2> QED
    BY <1>2, <1>3, <2>1, <2>3, <2>5, <2>6 DEF Promised!Answer
<1>9. CASE OrphanEnds(c)
  <2>1. /\ step[c] = "returned" /\ c \in orphans /\ step'[c] = "gone" /\ c \notin orphans'
        /\ UNCHANGED ran
    BY <1>1, <1>9 DEF OrphanEnds
  <2>2. Stage[c] = "left" /\ Stage'[c] = "gone" /\ Answers'[c] = Answers[c]
    BY <2>1 DEF Stage, Answers
  <2>3. UNCHANGED Answers
    BY <1>2, <1>5, <2>2
  <2> QED
    BY <1>2, <1>3, <2>1, <2>2, <2>3 DEF Promised!End
<1> QED
  BY <1>6, <1>7, <1>8, <1>9 DEF Advance

LEMMA CancelIsSeen ==
  ASSUME IInv, TruthInv, NEW c \in Calls, Cancel(c)
  PROVE  Promised!Cancel(c)
<1> USE DEF MoveTo, TypeOK
<1>1. TypeOK /\ UNCHANGED <<ran, result>>
  BY DEF IInv, Cancel
<1>2. /\ Stage' = [Stage EXCEPT ![c] = Stage'[c]]
      /\ Answers' = [Answers EXCEPT ![c] = Answers'[c]]
  BY <1>1, ActorsChange
<1>3. (~ Undisturbed)' = TRUE
  BY <1>1, InterruptionsCount
<1>4. /\ step[c] \notin {"new", "answered", "gone"} /\ c \notin orphans
      /\ \/ step'[c] = "gone" /\ c \notin orphans'
         \/ step'[c] = step[c] /\ c \in orphans'
  BY <1>1 DEF Cancel, CancelQueued, CancelInside, TruthInv, CallTrue, Inside
<1>5. Stage[c] = "open" /\ Stage'[c] \in {"left", "gone"} /\ Answers'[c] = Answers[c]
  BY <1>4 DEF Stage, Answers
<1>6. UNCHANGED Answers
  <2>1. Answers = [d \in Calls |-> Answers[d]]
    BY DEF Answers
  <2> QED
    BY <1>2, <1>5, <2>1
<1> QED
  BY <1>1, <1>2, <1>3, <1>5, <1>6 DEF Promised!Cancel

LEMMA CrashIsSeen ==
  ASSUME IInv, TruthInv, Crash
  PROVE  Promised!Crash
<1>1. (~ Undisturbed)' = TRUE /\ UNCHANGED ran
  BY InterruptionsCount DEF IInv, Crash
<1>2. ASSUME NEW c \in Calls
      PROVE  /\ Stage'[c] = IF Stage[c] \in {"open", "left"} THEN "gone" ELSE Stage[c]
             /\ Answers'[c] = Answers[c]
  <2>1. orphans' = {} /\ UNCHANGED result
    BY DEF Crash
  <2>2. step'[c] = IF step[c] \in {"new", "answered"} THEN step[c] ELSE "gone"
    BY DEF Crash
  <2>3. c \in orphans => step[c] \notin {"new", "answered", "gone"}
    BY DEF TruthInv, CallTrue, Inside
  <2> QED
    BY <2>1, <2>2, <2>3 DEF Stage, Answers
<1>3. Stage' = [c \in Calls |-> IF Stage[c] \in {"open", "left"} THEN "gone" ELSE Stage[c]]
  <2>1. Stage' = [c \in Calls |-> Stage'[c]]
    BY DEF Stage
  <2> QED
    BY <1>2, <2>1
<1>4. UNCHANGED Answers
  <2>1. Answers = [c \in Calls |-> Answers[c]] /\ Answers' = [c \in Calls |-> Answers'[c]]
    BY DEF Answers
  <2> QED
    BY <1>2, <2>1
<1> QED
  BY <1>1, <1>3, <1>4 DEF Promised!Crash

LEMMA PromiseStep ==
  IInv /\ TruthInv /\ [Next]_vars => [Promised!Next]_<<Stage, Answers, ran, ~ Undisturbed>>
<1> SUFFICES ASSUME IInv, TruthInv, [Next]_vars
             PROVE  Promised!Next \/ UNCHANGED <<Stage, Answers, ran, ~ Undisturbed>>
  OBVIOUS
<1>1. CASE UNCHANGED vars
  BY <1>1 DEF vars, Stage, Answers, Undisturbed, counters
<1>2. CASE Crash
  BY <1>2, CrashIsSeen DEF Promised!Next
<1>3. ASSUME NEW c \in Calls, Arrive(c) \/ Advance(c) \/ Cancel(c)
      PROVE  Promised!Next \/ UNCHANGED <<Stage, Answers, ran, ~ Undisturbed>>
  BY <1>3, ArriveIsSeen, AdvanceIsSeen, CancelIsSeen DEF Promised!Next
<1> QED
  BY <1>1, <1>2, <1>3 DEF Next

LEMMA TruthInit == Init => TruthInv /\ Promised!Init
<1> SUFFICES ASSUME Init
             PROVE  TruthInv /\ Promised!Init
  OBVIOUS
<1>1. TruthInv
  BY DEF Init, TruthInv, CallTrue
<1>2. Stage = [c \in Calls |-> "new"] /\ Answers = [c \in Calls |-> "none"]
  BY DEF Init, Stage, Answers
<1> QED
  BY <1>1, <1>2 DEF Init, Promised!Init, Undisturbed

(* tool_registry.py and idempotency.py keep the promise of an              *)
(* idempotency_key: with all their lookups, locks, threads and rows, a     *)
(* client sees requests that operate once, unless disturbed, that do       *)
(* nothing when they repeat an answered one, and whose answers name an     *)
(* operation of that very request.                                         *)
THEOREM CallsAreIdempotent == Spec => ImplementsIdempotency
<1>1. IInv /\ TruthInv /\ [Next]_vars => TruthInv'
  BY TruthStep DEF IInv
<1>2. Spec => [](IInv /\ TruthInv)
  BY <1>1, TruthInit, Invariance, PTL DEF Spec
<1> QED
  BY <1>2, TruthInit, PromiseStep, PTL DEF Spec, ImplementsIdempotency, Promised!Spec
=============================================================================
