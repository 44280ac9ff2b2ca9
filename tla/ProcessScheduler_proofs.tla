----------------------- MODULE ProcessScheduler_proofs -----------------------
(* Theorems about ProcessScheduler for every set of callers, workspaces    *)
(* and requests and every legal QueuePolicy.                               *)
EXTENDS SchedulerTurns, QueueLemmas, FiniteSetTheorems

-----------------------------------------------------------------------------
(* The inductive invariant.  The parts that the runs check need two facts  *)
(* more: who holds the mutex, and that a caller inside a call has a        *)
(* request.                                                                *)

LockOwner ==
  \A c \in Callers : lock = c <=> pc[c] \in {"acquiring", "leaving", "releasing"}

RequestsAlive ==
  \A c \in Callers : IF pc[c] = "idle" THEN request[c] = NoRequest ELSE request[c] \in Requests

IInv ==
  /\ TypeOK
  /\ IsFiniteSet(active)
  /\ LockOwner
  /\ RequestsAlive
  /\ LeasesHaveOwners
  /\ WaitersAreQueued
  /\ OrderListsQueues
  /\ CountsMatch
  /\ AdmissionSafe
  /\ NoLostWakeup

LEMMA InitInvariant == Init => IInv
<1> SUFFICES ASSUME Init PROVE IInv
  OBVIOUS
<1>1. TypeOK
  BY EmptySeq DEF Init, TypeOK
<1>2. IsFiniteSet(active) /\ \A w \in Workspaces : ActiveIn(w) = {}
  BY FS_EmptySet DEF Init, ActiveIn
<1>3. LockOwner /\ RequestsAlive /\ LeasesHaveOwners /\ NoLostWakeup
  BY NullsAssumption DEF Init, LockOwner, RequestsAlive, LeasesHaveOwners, NoLostWakeup
<1>4. WaitersAreQueued /\ OrderListsQueues
  BY DEF Init, WaitersAreQueued, OrderListsQueues, IsInjective, Contains, InAcquire
<1>5. CountsMatch
  BY <1>2, FS_EmptySet DEF Init, CountsMatch
<1>6. AdmissionSafe
  <2>1. active = {} /\ Cardinality(active) = 0
    BY FS_EmptySet DEF Init
  <2>2. \A w \in Workspaces : Cardinality(ActiveIn(w)) = 0
    BY <1>2, FS_EmptySet
  <2> QED
    BY <2>1, <2>2, PolicyAssumption DEF AdmissionSafe
<1> QED
  BY <1>1, <1>2, <1>3, <1>4, <1>5, <1>6 DEF IInv

LEMMA EnqueueInvariant ==
  ASSUME IInv, NEW c \in Callers, NEW r \in Requests, Enqueue(c, r)
  PROVE  IInv'
<1> DEFINE w == r.workspace
<1>1. /\ TypeOK /\ LockOwner /\ RequestsAlive /\ LeasesHaveOwners
      /\ WaitersAreQueued /\ OrderListsQueues /\ IsFiniteSet(active)
      /\ CountsMatch /\ AdmissionSafe /\ NoLostWakeup
  BY DEF IInv
<1>2. w \in Workspaces
  BY RequestsAssumption
<1>3. c \notin active /\ c \notin granted /\ \A v \in Workspaces : ~ Contains(queues[v], c)
  BY <1>1 DEF Enqueue, LeasesHaveOwners, WaitersAreQueued, InAcquire, Joined
<1>4. /\ Append(queues[w], c) \in Seq(Callers)
      /\ IsInjective(Append(queues[w], c))
      /\ \A x \in Callers : Contains(Append(queues[w], c), x) <=> Contains(queues[w], x) \/ x = c
  BY <1>1, <1>2, <1>3, AppendMembers DEF TypeOK, WaitersAreQueued
<1>5. Append(queues[w], c) # <<>>
  <2>1. queues[w] \in Seq(Callers)
    BY <1>1, <1>2 DEF TypeOK
  <2> QED
    BY <2>1, AppendProperties
<1>6. /\ order' \in Seq(Workspaces)
      /\ IsInjective(order')
      /\ \A v \in Workspaces : Contains(order', v) <=> Contains(order, v) \/ v = w
  <2>1. CASE queues[w] = <<>>
    <3>1. ~ Contains(order, w)
      BY <1>1, <1>2, <2>1 DEF OrderListsQueues
    <3> QED
      BY <1>1, <1>2, <2>1, <3>1, AppendMembers DEF Enqueue, TypeOK, OrderListsQueues, Joined
  <2>2. CASE queues[w] # <<>>
    BY <1>1, <1>2, <2>2 DEF Enqueue, TypeOK, OrderListsQueues, Joined
  <2> QED
    BY <2>1, <2>2
<1>7. TypeOK'
  BY <1>1, <1>2, <1>4, <1>6 DEF Enqueue, TypeOK, Joined
<1>8. LockOwner' /\ RequestsAlive'
  BY <1>1, NullsAssumption DEF Enqueue, LockOwner, RequestsAlive, TypeOK, Joined
<1>9. LeasesHaveOwners' /\ NoLostWakeup'
  BY <1>1, <1>3 DEF Enqueue, LeasesHaveOwners, NoLostWakeup, InAcquire, TypeOK, Joined
<1>10. WaitersAreQueued'
  BY <1>1, <1>2, <1>3, <1>4 DEF Enqueue, WaitersAreQueued, InAcquire, TypeOK, Joined
<1>11. OrderListsQueues'
  BY <1>1, <1>2, <1>5, <1>6 DEF Enqueue, OrderListsQueues, TypeOK, Joined
<1>12. \A v \in Workspaces : ActiveIn(v)' = ActiveIn(v)
  BY <1>1, <1>3 DEF Enqueue, ActiveIn, TypeOK, Joined
<1>13. CountsMatch' /\ AdmissionSafe'
  BY <1>1, <1>3, <1>12 DEF Enqueue, CountsMatch, AdmissionSafe, TypeOK, Joined
<1>14. IsFiniteSet(active)'
  BY <1>1 DEF Enqueue, Joined
<1> QED
  BY <1>7, <1>8, <1>9, <1>10, <1>11, <1>13, <1>14 DEF IInv

(* What the head that Grant serves is.                                     *)
LEMMA GrantedHead ==
  ASSUME IInv, NEW i \in DOMAIN order, IsTurn(i)
  PROVE  LET w == order[i]
             h == Head(queues[w])
         IN /\ w \in Workspaces /\ queues[w] # <<>>
            /\ h \in Callers /\ Contains(queues[w], h)
            /\ request[h] \in Requests /\ request[h].workspace = w
            /\ pc[h] \in InAcquire /\ h \notin active
            /\ Eligible(h)
<1> DEFINE w == order[i]
           h == Head(queues[w])
<1>1. TypeOK /\ RequestsAlive /\ LeasesHaveOwners /\ WaitersAreQueued
  BY DEF IInv
<1>2. w \in Workspaces
  BY <1>1 DEF TypeOK
<1>3. PICK c \in Candidates : request[c].workspace = w
  BY DEF IsTurn
<1>4. PICK j \in DOMAIN order : queues[order[j]] # <<>> /\ c = Head(queues[order[j]])
  BY <1>3 DEF Candidates, EligibleHeads
<1>5. c \in Callers /\ Eligible(c)
  BY <1>3 DEF Candidates, EligibleHeads
<1>6. order[j] \in Workspaces /\ queues[order[j]] \in Seq(Callers)
  BY <1>1 DEF TypeOK
<1>7. Contains(queues[order[j]], c)
  BY <1>1, <1>4, <1>6, TailMembers DEF WaitersAreQueued
<1>8. pc[c] \in InAcquire /\ c \notin granted /\ request[c].workspace = order[j]
  BY <1>1, <1>5, <1>6, <1>7 DEF WaitersAreQueued
<1>9. order[j] = w /\ c = h /\ queues[w] # <<>>
  BY <1>3, <1>4, <1>8
<1>10. request[c] \in Requests /\ c \notin active
  BY <1>1, <1>5, <1>8 DEF RequestsAlive, LeasesHaveOwners, InAcquire
<1> QED
  BY <1>2, <1>5, <1>7, <1>8, <1>9, <1>10

LEMMA GrantInvariant ==
  ASSUME IInv, NEW c \in Callers, Grant(c)
  PROVE  IInv'
<1>1. /\ TypeOK /\ LockOwner /\ RequestsAlive /\ LeasesHaveOwners
      /\ WaitersAreQueued /\ OrderListsQueues /\ IsFiniteSet(active)
      /\ CountsMatch /\ AdmissionSafe /\ NoLostWakeup
  BY DEF IInv
<1>2. PICK i \in DOMAIN order :
        /\ IsTurn(i)
        /\ queues' = [queues EXCEPT ![order[i]] = Tail(@)]
        /\ order' = IF Tail(queues[order[i]]) = <<>>
                      THEN RemoveFirst(RotatedPast(i), order[i])
                      ELSE RotatedPast(i)
        /\ active' = active \cup {Head(queues[order[i]])}
        /\ activeBy' = [activeBy EXCEPT ![order[i]] = @ + 1]
        /\ granted' = granted \cup {Head(queues[order[i]])}
  BY DEF Grant
<1> DEFINE w == order[i]
           h == Head(queues[w])
<1>3. /\ HasSlot /\ UNCHANGED <<lock, pc, request>>
      /\ notified' = {d \in Callers : pc[d] = "waiting"}
  BY DEF Grant, NotifyAll
<1>4. /\ w \in Workspaces /\ queues[w] # <<>> /\ h \in Callers
      /\ request[h] \in Requests /\ request[h].workspace = w
      /\ pc[h] \in InAcquire /\ h \notin active /\ Eligible(h)
  BY <1>2, GrantedHead
<1>5. /\ Tail(queues[w]) \in Seq(Callers)
      /\ IsInjective(Tail(queues[w]))
      /\ \A x \in Callers : Contains(Tail(queues[w]), x) <=> Contains(queues[w], x) /\ x # h
  <2>1. queues[w] \in Seq(Callers) /\ IsInjective(queues[w])
    BY <1>1, <1>4 DEF TypeOK, WaitersAreQueued
  <2> QED
    BY <1>4, <2>1, TailMembers
<1>6. /\ RotatedPast(i) \in Seq(Workspaces)
      /\ IsInjective(RotatedPast(i))
      /\ \A v \in Workspaces : Contains(RotatedPast(i), v) <=> Contains(order, v)
  <2>1. order \in Seq(Workspaces) /\ IsInjective(order)
    BY <1>1 DEF TypeOK, OrderListsQueues
  <2> QED
    BY <1>2, <2>1, RotationMembers DEF RotatedPast
<1>7. /\ order' \in Seq(Workspaces)
      /\ IsInjective(order')
      /\ \A v \in Workspaces :
           Contains(order', v) <=> Contains(order, v) /\ (v = w => Tail(queues[w]) # <<>>)
  <2>1. CASE Tail(queues[w]) = <<>>
    BY <1>2, <1>4, <1>6, <2>1, RemoveFirstMembers
  <2>2. CASE Tail(queues[w]) # <<>>
    BY <1>2, <1>6, <2>2
  <2> QED
    BY <2>1, <2>2
<1> HIDE DEF h
<1>8. /\ queues' = [queues EXCEPT ![w] = Tail(@)] /\ active' = active \cup {h}
      /\ granted' = granted \cup {h} /\ activeBy' = [activeBy EXCEPT ![w] = @ + 1]
  BY <1>2 DEF h
<1> HIDE DEF w
<1>9. TypeOK'
  BY <1>1, <1>3, <1>4, <1>5, <1>7, <1>8 DEF TypeOK
<1>10. LockOwner' /\ RequestsAlive'
  BY <1>1, <1>3 DEF LockOwner, RequestsAlive
<1>11. LeasesHaveOwners' /\ NoLostWakeup'
  BY <1>1, <1>3, <1>4, <1>8 DEF LeasesHaveOwners, NoLostWakeup, TypeOK
<1>12. WaitersAreQueued'
  BY <1>1, <1>3, <1>4, <1>5, <1>8 DEF WaitersAreQueued, TypeOK
<1>13. OrderListsQueues'
  BY <1>1, <1>4, <1>7, <1>8 DEF OrderListsQueues, TypeOK
<1>14. IsFiniteSet(active') /\ Cardinality(active') = Cardinality(active) + 1
  BY <1>1, <1>4, <1>8, FS_AddElement
<1>15. ASSUME NEW v \in Workspaces
       PROVE  Cardinality(ActiveIn(v)') = Cardinality(ActiveIn(v)) + (IF v = w THEN 1 ELSE 0)
  <2>1. IsFiniteSet(ActiveIn(v)) /\ Cardinality(ActiveIn(v)) \in Nat
    BY <1>1, FS_Subset, FS_CardinalityType DEF ActiveIn
  <2>2. CASE v = w
    <3>1. ActiveIn(v)' = ActiveIn(v) \cup {h} /\ h \notin ActiveIn(v)
      BY <1>3, <1>4, <1>8, <2>2 DEF ActiveIn
    <3> QED
      BY <2>1, <2>2, <3>1, FS_AddElement
  <2>3. CASE v # w
    <3>1. ActiveIn(v)' = ActiveIn(v)
      BY <1>3, <1>4, <1>8, <2>3 DEF ActiveIn
    <3> QED
      BY <2>1, <2>3, <3>1
  <2> QED
    BY <2>2, <2>3
<1>16. CountsMatch'
  BY <1>1, <1>4, <1>8, <1>15 DEF CountsMatch, TypeOK
<1>17. AdmissionSafe'
  <2>1. Cardinality(active') <= GlobalLimit
    BY <1>1, <1>3, <1>14, FS_CardinalityType, PolicyAssumption DEF HasSlot
  <2>2. \A v \in Workspaces : Cardinality(ActiveIn(v)') <= PerWorkspaceLimit
    <3>1. \A v \in Workspaces : Cardinality(ActiveIn(v)) \in Nat
      BY <1>1 DEF CountsMatch, TypeOK
    <3>2. Cardinality(ActiveIn(w)) < PerWorkspaceLimit
      BY <1>1, <1>4 DEF Eligible, CountsMatch
    <3>3. \A v \in Workspaces : Cardinality(ActiveIn(v)) <= PerWorkspaceLimit
      BY <1>1 DEF AdmissionSafe
    <3> QED
      BY <1>15, <3>1, <3>2, <3>3, PolicyAssumption
  <2>3. \A d, e \in active' : d # e => ~ Conflicts(request'[d].key, request'[e].key)
    BY <1>1, <1>3, <1>4, <1>8 DEF Eligible, AdmissionSafe, Conflicts
  <2> QED
    BY <2>1, <2>2, <2>3 DEF AdmissionSafe
<1> QED
  BY <1>9, <1>10, <1>11, <1>12, <1>13, <1>14, <1>16, <1>17 DEF IInv

(* The steps that touch neither queues nor leases.                         *)
LEMMA FrameInvariant ==
  ASSUME IInv, UNCHANGED <<queues, order, active, activeBy>>,
         \A x \in active : request'[x] = request[x]
  PROVE  IsFiniteSet(active)' /\ OrderListsQueues' /\ CountsMatch' /\ AdmissionSafe'
<1>1. \A v \in Workspaces : ActiveIn(v)' = ActiveIn(v)
  BY DEF ActiveIn
<1>2. IsFiniteSet(active)' /\ OrderListsQueues' /\ CountsMatch'
  BY <1>1 DEF IInv, OrderListsQueues, CountsMatch
<1>3. AdmissionSafe'
  BY <1>1 DEF IInv, AdmissionSafe
<1> QED
  BY <1>2, <1>3

LEMMA ReturnLeaseInvariant ==
  ASSUME IInv, NEW c \in Callers, ReturnLease(c)
  PROVE  IInv'
<1>1. /\ TypeOK /\ LockOwner /\ RequestsAlive /\ LeasesHaveOwners
      /\ WaitersAreQueued /\ NoLostWakeup
  BY DEF IInv
<1>2. TypeOK'
  BY <1>1 DEF ReturnLease, TypeOK
<1>3. LockOwner' /\ RequestsAlive'
  BY <1>1, NullsAssumption DEF ReturnLease, LockOwner, RequestsAlive, TypeOK
<1>4. LeasesHaveOwners'
  BY <1>1 DEF ReturnLease, LeasesHaveOwners, InAcquire, TypeOK
<1>5. NoLostWakeup'
  BY <1>1 DEF ReturnLease, NoLostWakeup, LeasesHaveOwners, InAcquire, TypeOK
<1>6. WaitersAreQueued'
  BY <1>1 DEF ReturnLease, WaitersAreQueued, LeasesHaveOwners, InAcquire, TypeOK
<1>7. \A x \in active : request'[x] = request[x]
  BY <1>1 DEF ReturnLease, LeasesHaveOwners, InAcquire, TypeOK
<1>8. UNCHANGED <<queues, order, active, activeBy>>
  BY DEF ReturnLease
<1> QED
  BY <1>2, <1>3, <1>4, <1>5, <1>6, <1>7, <1>8, FrameInvariant DEF IInv

LEMMA WaitInvariant ==
  ASSUME IInv, NEW c \in Callers, Wait(c)
  PROVE  IInv'
<1>1. /\ TypeOK /\ LockOwner /\ RequestsAlive /\ LeasesHaveOwners
      /\ WaitersAreQueued /\ NoLostWakeup
  BY DEF IInv
<1>2. TypeOK'
  BY <1>1 DEF Wait, TypeOK, NotGranted
<1>3. LockOwner' /\ RequestsAlive'
  BY <1>1, NullsAssumption DEF Wait, LockOwner, RequestsAlive, TypeOK, NotGranted
<1>4. LeasesHaveOwners'
  BY <1>1 DEF Wait, LeasesHaveOwners, InAcquire, TypeOK, NotGranted
<1>5. NoLostWakeup'
  BY <1>1 DEF Wait, NoLostWakeup, LeasesHaveOwners, InAcquire, TypeOK, NotGranted
<1>6. WaitersAreQueued'
  BY <1>1 DEF Wait, WaitersAreQueued, LeasesHaveOwners, InAcquire, TypeOK, NotGranted
<1>7. \A x \in active : request'[x] = request[x]
  BY <1>1 DEF Wait, LeasesHaveOwners, InAcquire, TypeOK, NotGranted
<1>8. UNCHANGED <<queues, order, active, activeBy>>
  BY DEF Wait, NotGranted
<1> QED
  BY <1>2, <1>3, <1>4, <1>5, <1>6, <1>7, <1>8, FrameInvariant DEF IInv

LEMMA WakeUpInvariant ==
  ASSUME IInv, NEW c \in Callers, WakeUp(c)
  PROVE  IInv'
<1>1. /\ TypeOK /\ LockOwner /\ RequestsAlive /\ LeasesHaveOwners
      /\ WaitersAreQueued /\ NoLostWakeup
  BY DEF IInv
<1>2. TypeOK'
  BY <1>1 DEF WakeUp, TypeOK
<1>3. LockOwner' /\ RequestsAlive'
  BY <1>1, NullsAssumption DEF WakeUp, LockOwner, RequestsAlive, TypeOK
<1>4. LeasesHaveOwners'
  BY <1>1 DEF WakeUp, LeasesHaveOwners, InAcquire, TypeOK
<1>5. NoLostWakeup'
  BY <1>1 DEF WakeUp, NoLostWakeup, LeasesHaveOwners, InAcquire, TypeOK
<1>6. WaitersAreQueued'
  BY <1>1 DEF WakeUp, WaitersAreQueued, LeasesHaveOwners, InAcquire, TypeOK
<1>7. \A x \in active : request'[x] = request[x]
  BY <1>1 DEF WakeUp, LeasesHaveOwners, InAcquire, TypeOK
<1>8. UNCHANGED <<queues, order, active, activeBy>>
  BY DEF WakeUp
<1> QED
  BY <1>2, <1>3, <1>4, <1>5, <1>6, <1>7, <1>8, FrameInvariant DEF IInv

LEMMA RaiseTimeoutInvariant ==
  ASSUME IInv, NEW c \in Callers, RaiseTimeout(c)
  PROVE  IInv'
<1>1. /\ TypeOK /\ LockOwner /\ RequestsAlive /\ LeasesHaveOwners
      /\ WaitersAreQueued /\ NoLostWakeup
  BY DEF IInv
<1>2. TypeOK'
  BY <1>1 DEF RaiseTimeout, TypeOK
<1>3. LockOwner' /\ RequestsAlive'
  BY <1>1, NullsAssumption DEF RaiseTimeout, LockOwner, RequestsAlive, TypeOK
<1>4. LeasesHaveOwners'
  BY <1>1 DEF RaiseTimeout, LeasesHaveOwners, InAcquire, TypeOK
<1>5. NoLostWakeup'
  BY <1>1 DEF RaiseTimeout, NoLostWakeup, LeasesHaveOwners, InAcquire, TypeOK
<1>6. WaitersAreQueued'
  BY <1>1 DEF RaiseTimeout, WaitersAreQueued, LeasesHaveOwners, InAcquire, TypeOK
<1>7. \A x \in active : request'[x] = request[x]
  BY <1>1 DEF RaiseTimeout, LeasesHaveOwners, InAcquire, TypeOK
<1>8. UNCHANGED <<queues, order, active, activeBy>>
  BY DEF RaiseTimeout
<1> QED
  BY <1>2, <1>3, <1>4, <1>5, <1>6, <1>7, <1>8, FrameInvariant DEF IInv

LEMMA MarkReleasedInvariant ==
  ASSUME IInv, NEW c \in Callers, MarkReleased(c)
  PROVE  IInv'
<1>1. /\ TypeOK /\ LockOwner /\ RequestsAlive /\ LeasesHaveOwners
      /\ WaitersAreQueued /\ NoLostWakeup
  BY DEF IInv
<1>2. TypeOK'
  BY <1>1 DEF MarkReleased, TypeOK
<1>3. LockOwner' /\ RequestsAlive'
  BY <1>1, NullsAssumption DEF MarkReleased, LockOwner, RequestsAlive, TypeOK
<1>4. LeasesHaveOwners'
  BY <1>1 DEF MarkReleased, LeasesHaveOwners, InAcquire, TypeOK
<1>5. NoLostWakeup'
  BY <1>1 DEF MarkReleased, NoLostWakeup, LeasesHaveOwners, InAcquire, TypeOK
<1>6. WaitersAreQueued'
  BY <1>1 DEF MarkReleased, WaitersAreQueued, LeasesHaveOwners, InAcquire, TypeOK
<1>7. \A x \in active : request'[x] = request[x]
  BY <1>1 DEF MarkReleased, LeasesHaveOwners, InAcquire, TypeOK
<1>8. UNCHANGED <<queues, order, active, activeBy>>
  BY DEF MarkReleased
<1> QED
  BY <1>2, <1>3, <1>4, <1>5, <1>6, <1>7, <1>8, FrameInvariant DEF IInv

LEMMA ReleaseDoneInvariant ==
  ASSUME IInv, NEW c \in Callers, ReleaseDone(c)
  PROVE  IInv'
<1>1. /\ TypeOK /\ LockOwner /\ RequestsAlive /\ LeasesHaveOwners
      /\ WaitersAreQueued /\ NoLostWakeup
  BY DEF IInv
<1>2. TypeOK'
  BY <1>1 DEF ReleaseDone, TypeOK, NotifyAll
<1>3. LockOwner' /\ RequestsAlive'
  BY <1>1, NullsAssumption DEF ReleaseDone, LockOwner, RequestsAlive, TypeOK
<1>4. LeasesHaveOwners'
  BY <1>1 DEF ReleaseDone, LeasesHaveOwners, InAcquire, TypeOK
<1>5. NoLostWakeup'
  BY <1>1 DEF ReleaseDone, NoLostWakeup, LeasesHaveOwners, InAcquire, TypeOK, NotifyAll
<1>6. WaitersAreQueued'
  BY <1>1 DEF ReleaseDone, WaitersAreQueued, LeasesHaveOwners, InAcquire, TypeOK
<1>7. \A x \in active : request'[x] = request[x]
  BY <1>1 DEF ReleaseDone, LeasesHaveOwners, InAcquire, TypeOK
<1>8. UNCHANGED <<queues, order, active, activeBy>>
  BY DEF ReleaseDone
<1> QED
  BY <1>2, <1>3, <1>4, <1>5, <1>6, <1>7, <1>8, FrameInvariant DEF IInv

LEMMA RemoveWaiterInvariant ==
  ASSUME IInv, NEW c \in Callers, RemoveWaiter(c)
  PROVE  IInv'
<1> DEFINE w == request[c].workspace
           rest == RemoveFirst(queues[w], c)
<1>1. /\ TypeOK /\ LockOwner /\ RequestsAlive /\ LeasesHaveOwners
      /\ WaitersAreQueued /\ OrderListsQueues /\ IsFiniteSet(active)
      /\ CountsMatch /\ AdmissionSafe /\ NoLostWakeup
  BY DEF IInv
<1>2. /\ queues' = [queues EXCEPT ![w] = rest]
      /\ order' = IF rest = <<>> THEN RemoveFirst(order, w) ELSE order
      /\ pc' = [pc EXCEPT ![c] = "leaving"]
      /\ UNCHANGED <<lock, request, active, activeBy, granted, notified>>
      /\ pc[c] = "acquiring" /\ lock = c /\ c \notin granted
  BY DEF RemoveWaiter, WithoutWaiter, NotGranted
<1>3. w \in Workspaces
  BY <1>1, <1>2, RequestsAssumption DEF RequestsAlive
<1>4. queues[w] \in Seq(Callers) /\ IsInjective(queues[w]) /\ Contains(queues[w], c)
  BY <1>1, <1>2, <1>3 DEF TypeOK, WaitersAreQueued, InAcquire
<1>5. /\ rest \in Seq(Callers)
      /\ IsInjective(rest)
      /\ \A x \in Callers : Contains(rest, x) <=> Contains(queues[w], x) /\ x # c
  BY <1>4, RemoveFirstMembers
<1>6. queues[w] # <<>>
  BY <1>4, EmptyContainsNothing
<1>7. /\ order' \in Seq(Workspaces)
      /\ IsInjective(order')
      /\ \A v \in Workspaces :
           Contains(order', v) <=> Contains(order, v) /\ (v = w => rest # <<>>)
  <2>1. order \in Seq(Workspaces) /\ IsInjective(order)
    BY <1>1 DEF TypeOK, OrderListsQueues
  <2>2. CASE rest = <<>>
    <3> HIDE DEF w, rest
    <3>1. order' = RemoveFirst(order, w)
      BY <1>2, <2>2
    <3>2. /\ RemoveFirst(order, w) \in Seq(Workspaces)
          /\ IsInjective(RemoveFirst(order, w))
          /\ \A v \in Workspaces : Contains(RemoveFirst(order, w), v) <=> Contains(order, v) /\ v # w
      BY <1>3, <2>1, RemoveFirstMembers
    <3> QED
      BY <2>2, <3>1, <3>2
  <2>3. CASE rest # <<>>
    BY <1>2, <2>1, <2>3
  <2> QED
    BY <2>2, <2>3
<1> HIDE DEF w, rest
<1>8. TypeOK'
  BY <1>1, <1>2, <1>3, <1>5, <1>7 DEF TypeOK
<1>9. LockOwner' /\ RequestsAlive'
  BY <1>1, <1>2 DEF LockOwner, RequestsAlive, TypeOK
<1>10. LeasesHaveOwners' /\ NoLostWakeup'
  BY <1>1, <1>2 DEF LeasesHaveOwners, NoLostWakeup, InAcquire, TypeOK
<1>11. WaitersAreQueued'
  BY <1>1, <1>2, <1>3, <1>5 DEF WaitersAreQueued, InAcquire, TypeOK, w
<1>12. OrderListsQueues'
  BY <1>1, <1>2, <1>3, <1>6, <1>7 DEF OrderListsQueues, TypeOK
<1>13. \A v \in Workspaces : ActiveIn(v)' = ActiveIn(v)
  BY <1>2 DEF ActiveIn
<1>14. CountsMatch' /\ IsFiniteSet(active)'
  BY <1>1, <1>2, <1>13 DEF CountsMatch
<1>15. AdmissionSafe'
  BY <1>1, <1>2, <1>13 DEF AdmissionSafe
<1> QED
  BY <1>8, <1>9, <1>10, <1>11, <1>12, <1>14, <1>15 DEF IInv

LEMMA ReleaseInvariant ==
  ASSUME IInv, NEW c \in Callers, Release(c)
  PROVE  IInv'
<1> DEFINE w == request[c].workspace
<1>1. /\ TypeOK /\ LockOwner /\ RequestsAlive /\ LeasesHaveOwners
      /\ WaitersAreQueued /\ OrderListsQueues /\ IsFiniteSet(active)
      /\ CountsMatch /\ AdmissionSafe /\ NoLostWakeup
  BY DEF IInv
<1>2. w \in Workspaces /\ c \in active
  BY <1>1, RequestsAssumption DEF Release, RequestsAlive, LeasesHaveOwners, Decremented
<1>3. TypeOK'
  BY <1>1, <1>2 DEF Release, TypeOK, Decremented
<1>4. LockOwner' /\ RequestsAlive'
  BY <1>1, NullsAssumption DEF Release, LockOwner, RequestsAlive, TypeOK, Decremented
<1>5. LeasesHaveOwners' /\ NoLostWakeup'
  BY <1>1 DEF Release, LeasesHaveOwners, NoLostWakeup, InAcquire, TypeOK, Decremented
<1>6. WaitersAreQueued'
  BY <1>1 DEF Release, WaitersAreQueued, InAcquire, TypeOK, Decremented
<1>7. OrderListsQueues'
  BY <1>1 DEF Release, OrderListsQueues, Decremented
<1>8. IsFiniteSet(active') /\ Cardinality(active') = Cardinality(active) - 1
  BY <1>1, <1>2, FS_RemoveElement DEF Release, Decremented
<1>9. ASSUME NEW v \in Workspaces
      PROVE  /\ Cardinality(ActiveIn(v)) \in Nat
             /\ v = w => Cardinality(ActiveIn(v)) > 0
             /\ Cardinality(ActiveIn(v)') = Cardinality(ActiveIn(v)) - (IF v = w THEN 1 ELSE 0)
  <2>1. IsFiniteSet(ActiveIn(v)) /\ Cardinality(ActiveIn(v)) \in Nat
    BY <1>1, FS_Subset, FS_CardinalityType DEF ActiveIn
  <2>2. CASE v = w
    <3>1. ActiveIn(v)' = ActiveIn(v) \ {c} /\ c \in ActiveIn(v)
      BY <1>2, <2>2 DEF ActiveIn, Release, Decremented
    <3>2. Cardinality(ActiveIn(v)) # 0
      BY <2>1, <3>1, FS_EmptySet
    <3>3. Cardinality(ActiveIn(v) \ {c}) = Cardinality(ActiveIn(v)) - 1
      BY <2>1, <3>1, FS_RemoveElement
    <3> HIDE DEF w
    <3> QED
      BY <2>1, <2>2, <3>1, <3>2, <3>3
  <2>3. CASE v # w
    <3>1. ActiveIn(v)' = ActiveIn(v)
      BY <2>3 DEF ActiveIn, Release, Decremented
    <3> QED
      BY <2>1, <2>3, <3>1
  <2> QED
    BY <2>2, <2>3
<1>10. activeBy' = [activeBy EXCEPT ![w] = IF @ <= 1 THEN 0 ELSE @ - 1]
  BY DEF Release, Decremented
<1> HIDE DEF w
<1>11. CountsMatch'
  <2>1. ASSUME NEW v \in Workspaces PROVE activeBy'[v] = Cardinality(ActiveIn(v)')
    <3>1. activeBy[v] = Cardinality(ActiveIn(v))
      BY <1>1 DEF CountsMatch
    <3>2. activeBy'[v] = IF v = w THEN (IF activeBy[v] <= 1 THEN 0 ELSE activeBy[v] - 1) ELSE activeBy[v]
      BY <1>1, <1>2, <1>10 DEF TypeOK
    <3> QED
      BY <1>9, <3>1, <3>2
  <2> QED
    BY <2>1 DEF CountsMatch
<1>12. AdmissionSafe'
  <2>1. Cardinality(active') <= GlobalLimit
    BY <1>1, <1>8, FS_CardinalityType, PolicyAssumption DEF AdmissionSafe
  <2>2. ASSUME NEW v \in Workspaces PROVE Cardinality(ActiveIn(v)') <= PerWorkspaceLimit
    BY <1>1, <1>9, PolicyAssumption DEF AdmissionSafe
  <2>3. \A d, e \in active' : d # e => ~ Conflicts(request'[d].key, request'[e].key)
    BY <1>1 DEF Release, AdmissionSafe, Decremented
  <2> QED
    BY <2>1, <2>2, <2>3 DEF AdmissionSafe
<1> QED
  BY <1>3, <1>4, <1>5, <1>6, <1>7, <1>8, <1>11, <1>12 DEF IInv

LEMMA StepInvariant == IInv /\ [Next]_vars => IInv'
<1> SUFFICES ASSUME IInv, [Next]_vars PROVE IInv'
  OBVIOUS
<1>1. CASE UNCHANGED vars
  BY <1>1 DEF vars, IInv, TypeOK, LockOwner, RequestsAlive, LeasesHaveOwners, WaitersAreQueued,
     OrderListsQueues, CountsMatch, AdmissionSafe, NoLostWakeup, ActiveIn
<1>2. CASE Next
  BY <1>2, EnqueueInvariant, GrantInvariant, ReturnLeaseInvariant, WaitInvariant, WakeUpInvariant,
     RemoveWaiterInvariant, RaiseTimeoutInvariant, MarkReleasedInvariant, ReleaseInvariant,
     ReleaseDoneInvariant DEF Next, WakeNotified, WakeDeadline
<1> QED
  BY <1>1, <1>2

LEMMA InvariantHolds == Spec => []IInv
BY InitInvariant, StepInvariant, PTL DEF Spec

-----------------------------------------------------------------------------

(* Every state of the scheduler is well typed.                             *)
THEOREM TypeCorrect == Spec => []TypeOK
BY InvariantHolds, PTL DEF IInv

(* Quotas and read/write keys are respected by the active leases, for any  *)
(* number of callers and workspaces and any requests.                      *)
THEOREM AdmissionIsSafe == Spec => []AdmissionSafe
BY InvariantHolds, PTL DEF IInv

(* The hand-maintained counters agree with the active leases.              *)
THEOREM CountersAreExact == Spec => []CountsMatch
BY InvariantHolds, PTL DEF IInv

(* No lease leaks, whatever the race between grant and deadline.           *)
THEOREM NoLeaseLeaks == Spec => []LeasesHaveOwners
BY InvariantHolds, PTL DEF IInv

(* The turn order lists exactly the workspaces that have waiters, and the  *)
(* queues hold exactly the callers that wait.                              *)
THEOREM QueuesAreExact == Spec => []QueuesInStep
<1>1. IInv => QueuesInStep
  BY DEF IInv, QueuesInStep
<1> QED
  BY <1>1, InvariantHolds, PTL

(* No granted caller sleeps un-notified.                                   *)
THEOREM NoWakeupIsLost == Spec => []NoLostWakeup
BY InvariantHolds, PTL DEF IInv

(* The three facts about leases together, as the model checker has them.   *)
THEOREM LeasesStayExact == Spec => []LeasesAreExact
<1>1. IInv => LeasesAreExact
  BY DEF IInv, LeasesAreExact
<1> QED
  BY <1>1, InvariantHolds, PTL

-----------------------------------------------------------------------------
(* No idle slot next to an eligible head.                                  *)

LEMMA SameHeads ==
  ASSUME IInv, UNCHANGED <<queues, order, active, activeBy>>,
         \A x \in Callers : pc[x] \in InAcquire \/ x \in active => request'[x] = request[x]
  PROVE  NothingToGrant' = NothingToGrant
<1>1. TypeOK /\ WaitersAreQueued
  BY DEF IInv
<1>2. ASSUME NEW j \in DOMAIN order, queues[order[j]] # <<>>
      PROVE  request'[Head(queues[order[j]])] = request[Head(queues[order[j]])]
  <2>1. order[j] \in Workspaces /\ queues[order[j]] \in Seq(Callers)
    BY <1>1 DEF TypeOK
  <2>2. Head(queues[order[j]]) \in Callers /\ Contains(queues[order[j]], Head(queues[order[j]]))
    BY <1>1, <1>2, <2>1, TailMembers DEF WaitersAreQueued
  <2> QED
    BY <1>1, <2>1, <2>2 DEF WaitersAreQueued
<1>3. ASSUME NEW x \in Callers, request'[x] = request[x]
      PROVE  Eligible(x)' <=> Eligible(x)
  BY <1>1, <1>3 DEF Eligible, TypeOK
<1>4. EligibleHeads' = EligibleHeads
  BY <1>1, <1>2, <1>3 DEF EligibleHeads
<1> QED
  BY <1>4 DEF NothingToGrant, HasSlot

(* Whenever the mutex is free, the quota is used up or no queue head could *)
(* run: a release or an expired deadline never leaves a slot unused.       *)
THEOREM SchedulerConservesWork == Spec => []WorkConserving
<1>1. Init => WorkConserving
  BY DEF Init, WorkConserving, NothingToGrant, EligibleHeads
<1>2. IInv /\ WorkConserving /\ [Next]_vars => WorkConserving'
  <2> SUFFICES ASSUME IInv, WorkConserving, [Next]_vars, lock' = NoCaller
               PROVE  NothingToGrant'
    BY DEF WorkConserving
  <2>1. CASE UNCHANGED vars
    <3>1. lock = NoCaller /\ UNCHANGED <<queues, order, active, activeBy, request>>
      BY <2>1 DEF vars
    <3> QED
      BY <3>1, SameHeads DEF WorkConserving
  <2>2. ASSUME NEW c \in Callers, ReturnLease(c) \/ Wait(c)
        PROVE  NothingToGrant'
    <3>1. NothingToGrant /\ UNCHANGED <<queues, order, active, activeBy, request>>
      BY <2>2 DEF ReturnLease, Wait, NotGranted
    <3> QED
      BY <3>1, SameHeads
  <2>3. ASSUME NEW c \in Callers, RaiseTimeout(c) \/ ReleaseDone(c)
        PROVE  NothingToGrant'
    <3>1. /\ NothingToGrant /\ UNCHANGED <<queues, order, active, activeBy>>
          /\ request' = [request EXCEPT ![c] = NoRequest]
          /\ pc[c] \in {"leaving", "releasing"}
      BY <2>3 DEF RaiseTimeout, ReleaseDone
    <3>2. c \notin active
      BY <3>1 DEF IInv, LeasesHaveOwners, InAcquire
    <3>3. \A x \in Callers : pc[x] \in InAcquire \/ x \in active => request'[x] = request[x]
      BY <3>1, <3>2 DEF InAcquire, IInv, TypeOK
    <3> QED
      BY <3>1, <3>3, SameHeads
  <2>4. ASSUME NEW c \in Callers, MarkReleased(c)
        PROVE  NothingToGrant'
    <3>1. lock = NoCaller /\ UNCHANGED <<queues, order, active, activeBy, request>>
      BY <2>4 DEF MarkReleased
    <3> QED
      BY <3>1, SameHeads DEF WorkConserving
  <2>5. ASSUME NEW c \in Callers, Grant(c) \/ WakeUp(c) \/ RemoveWaiter(c) \/ Release(c)
                                  \/ \E r \in Requests : Enqueue(c, r)
        PROVE  FALSE
    BY <2>5, NullsAssumption DEF Grant, WakeUp, RemoveWaiter, Release, Enqueue, Joined, WithoutWaiter, NotGranted, Decremented
  <2> QED
    BY <2>1, <2>2, <2>3, <2>4, <2>5 DEF Next, WakeNotified, WakeDeadline
<1> QED
  BY <1>1, <1>2, InvariantHolds, PTL DEF Spec

-----------------------------------------------------------------------------
(* Refinement: queues, turns and counters implement AdmissionControl.      *)

LEMMA WantedOfActive ==
  ASSUME IInv, NEW x \in active
  PROVE  x \in Callers /\ Wanted[x] = request[x]
BY DEF IInv, TypeOK, LeasesHaveOwners, InAcquire, Wanted

(* AdmissionControl counts with its own instance of FiniteSets. *)
LEMMA SameCardinality == \A S : Admission!Cardinality(S) = Cardinality(S)
BY Zenon DEF Cardinality, Admission!Cardinality

LEMMA StepRefines ==
  ASSUME IInv, [Next]_vars
  PROVE  [Admission!Next]_<<Wanted, active>>
<1>1. TypeOK /\ RequestsAlive /\ LeasesHaveOwners /\ CountsMatch
  BY DEF IInv
<1>2. ASSUME NEW c \in Callers, NEW r \in Requests, Enqueue(c, r)
      PROVE  Admission!Ask(c, r)
  BY <1>1, <1>2 DEF Enqueue, Admission!Ask, Wanted, TypeOK, RequestsAlive, Joined
<1>3. ASSUME NEW c \in Callers, Grant(c)
      PROVE  \E h \in Callers : Admission!Admit(h)
  <2>1. PICK i \in DOMAIN order :
          IsTurn(i) /\ active' = active \cup {Head(queues[order[i]])}
    BY <1>3 DEF Grant
  <2> DEFINE w == order[i]
             h == Head(queues[w])
  <2>2. /\ h \in Callers /\ request[h] \in Requests /\ request[h].workspace = w
        /\ w \in Workspaces /\ pc[h] \in InAcquire /\ h \notin active /\ Eligible(h)
    BY <2>1, GrantedHead
  <2> HIDE DEF h, w
  <2>3. Wanted[h] = request[h] /\ Wanted[h] # NoRequest
    BY <2>2, NullsAssumption DEF Wanted, InAcquire
  <2>4. Wanted' = Wanted
    BY <1>3 DEF Grant, Wanted
  <2>5. Admission!Fits(Wanted[h])
    <3>1. {x \in active : Wanted[x].workspace = Wanted[h].workspace} = ActiveIn(w)
      BY <2>2, <2>3, WantedOfActive DEF ActiveIn
    <3>2. Cardinality(ActiveIn(w)) < PerWorkspaceLimit
      BY <1>1, <2>2 DEF Eligible, CountsMatch
    <3>3. \A x \in active : ~ Admission!Clash(Wanted[h].key, Wanted[x].key)
      BY <2>2, <2>3, WantedOfActive DEF Eligible, Conflicts, Admission!Clash
    <3>4. Cardinality(active) < GlobalLimit
      BY <1>3 DEF Grant, HasSlot
    <3>5. Cardinality({x \in active : Wanted[x].workspace = Wanted[h].workspace})
            < PerWorkspaceLimit
      BY <3>1, <3>2, Zenon
    <3> HIDE DEF Wanted
    <3> QED
      BY <3>3, <3>4, <3>5, SameCardinality, Zenon DEF Admission!Fits
  <2>6. active' = active \cup {h}
    BY <2>1 DEF h, w
  <2> QED
    BY <2>2, <2>3, <2>4, <2>5, <2>6 DEF Admission!Admit
<1>4. ASSUME NEW c \in Callers, RemoveWaiter(c)
      PROVE  Admission!Leave(c)
  <2>1. c \notin active /\ Wanted[c] \in Requests
    BY <1>1, <1>4 DEF RemoveWaiter, LeasesHaveOwners, RequestsAlive, Wanted, WithoutWaiter, NotGranted
  <2>2. Wanted' = [Wanted EXCEPT ![c] = NoRequest] /\ active' = active \ {c}
    BY <1>1, <1>4, <2>1 DEF RemoveWaiter, Wanted, TypeOK, WithoutWaiter, NotGranted
  <2> QED
    BY <2>1, <2>2, NullsAssumption DEF Admission!Leave
<1>5. ASSUME NEW c \in Callers, Release(c)
      PROVE  Admission!Leave(c)
  <2>1. Wanted[c] \in Requests
    BY <1>1, <1>5 DEF Release, RequestsAlive, Wanted, Decremented
  <2>2. Wanted' = [Wanted EXCEPT ![c] = NoRequest] /\ active' = active \ {c}
    BY <1>1, <1>5 DEF Release, Wanted, TypeOK, Decremented
  <2> QED
    BY <2>1, <2>2, NullsAssumption DEF Admission!Leave
<1>6. ASSUME NEW c \in Callers,
             ReturnLease(c) \/ Wait(c) \/ WakeUp(c) \/ MarkReleased(c)
               \/ RaiseTimeout(c) \/ ReleaseDone(c)
      PROVE  UNCHANGED <<Wanted, active>>
  <2>1. active' = active
    BY <1>6 DEF ReturnLease, Wait, WakeUp, MarkReleased, RaiseTimeout, ReleaseDone, NotGranted
  <2>2. ASSUME NEW x \in Callers PROVE Wanted'[x] = Wanted[x]
    BY <1>1, <1>6 DEF ReturnLease, Wait, WakeUp, MarkReleased, RaiseTimeout, ReleaseDone, Wanted, TypeOK, NotGranted
  <2>3. Wanted' = Wanted
    BY <2>2 DEF Wanted
  <2> QED
    BY <2>1, <2>3
<1>7. CASE UNCHANGED vars
  BY <1>7 DEF vars, Wanted
<1> QED
  BY <1>2, <1>3, <1>4, <1>5, <1>6, <1>7 DEF Next, WakeNotified, WakeDeadline, Admission!Next

(* The scheduler implements the admission specification.                   *)
THEOREM SchedulerImplementsAdmission == Spec => ImplementsAdmission
<1>1. Init => Admission!Init
  BY DEF Init, Admission!Init, Wanted
<1> QED
  BY <1>1, StepRefines, InvariantHolds, PTL DEF Spec, ImplementsAdmission, Admission!Spec

-----------------------------------------------------------------------------
(* Turns (SchedulerTurns).  Two facts bound the passes over a head: a pass *)
(* moves another workspace from before the head's own in order to behind   *)
(* it, and no other step moves the head's workspace back.  So the passes   *)
(* so far and the position in order never exceed the length of order.      *)

TurnInv ==
  /\ passed \in [Callers -> Nat]
  /\ \A c \in Callers :
       /\ c \notin EligibleHeads => passed[c] = 0
       /\ \A i \in DOMAIN order :
            c \in EligibleHeads /\ order[i] = request[c].workspace
              => passed[c] + i <= PassBound + 1

HeadsWait ==
  \A c \in EligibleHeads :
    /\ c \in Callers /\ pc[c] \in InAcquire /\ c \notin granted
    /\ request[c] \in Requests
    /\ \E j \in DOMAIN order :
         /\ order[j] = request[c].workspace
         /\ c = Head(queues[order[j]])

LEMMA InjectiveLength ==
  ASSUME NEW S, IsFiniteSet(S), NEW s \in Seq(S), IsInjective(s)
  PROVE  Len(s) \in Nat /\ Len(s) <= Cardinality(S)
<1>1. Len(s) \in Nat /\ s \in [1 .. Len(s) -> S]
  BY LenProperties
<1>2. s \in Injection(1 .. Len(s), S)
  BY <1>1 DEF IsInjective, Injection
<1>3. Cardinality(1 .. Len(s)) <= Cardinality(S)
  BY <1>2, FS_Injection
<1>4. Cardinality(1 .. Len(s)) = Len(s)
  BY <1>1, FS_Interval
<1> QED
  BY <1>1, <1>3, <1>4

LEMMA WaitingHeads == IInv => HeadsWait
<1> SUFFICES ASSUME IInv, NEW c \in EligibleHeads
             PROVE  /\ c \in Callers /\ pc[c] \in InAcquire /\ c \notin granted
                    /\ request[c] \in Requests
                    /\ \E j \in DOMAIN order :
                         /\ order[j] = request[c].workspace
                         /\ c = Head(queues[order[j]])
  BY DEF HeadsWait
<1>1. TypeOK /\ RequestsAlive /\ WaitersAreQueued
  BY DEF IInv
<1>2. PICK j \in DOMAIN order : queues[order[j]] # <<>> /\ c = Head(queues[order[j]])
  BY DEF EligibleHeads
<1>3. order[j] \in Workspaces /\ queues[order[j]] \in Seq(Callers) /\ c \in Callers
  BY <1>1 DEF TypeOK, EligibleHeads
<1>4. Contains(queues[order[j]], c)
  BY <1>1, <1>2, <1>3, TailMembers DEF WaitersAreQueued
<1>5. pc[c] \in InAcquire /\ c \notin granted /\ request[c].workspace = order[j]
  BY <1>1, <1>3, <1>4 DEF WaitersAreQueued
<1>6. request[c] \in Requests
  BY <1>1, <1>3, <1>5 DEF RequestsAlive, InAcquire
<1> QED
  BY <1>2, <1>3, <1>5, <1>6

(* A caller that heads its queue before and after a step is in the same    *)
(* acquire() at both ends.                                                 *)
LEMMA HeadKept ==
  ASSUME IInv, IInv', Next, NEW c \in Callers, c \in EligibleHeads, c \in EligibleHeads'
  PROVE  request'[c] = request[c] /\ c \notin granted'
<1>1. TypeOK
  BY DEF IInv
<1>2. HeadsWait /\ HeadsWait'
  <2>1. (IInv => HeadsWait)'
    BY WaitingHeads, PTL
  <2> QED
    BY <2>1, WaitingHeads
<1>3. pc[c] \in InAcquire /\ pc'[c] \in InAcquire /\ c \notin granted'
  BY <1>2 DEF HeadsWait
<1>4. ASSUME NEW d \in Callers, NEW r \in Requests, Enqueue(d, r)
      PROVE  request'[c] = request[c]
  BY <1>1, <1>3, <1>4 DEF Enqueue, InAcquire, TypeOK, Joined
<1>5. ASSUME NEW d \in Callers, RaiseTimeout(d) \/ ReleaseDone(d)
      PROVE  request'[c] = request[c]
  BY <1>1, <1>3, <1>5 DEF RaiseTimeout, ReleaseDone, InAcquire, TypeOK
<1>6. ASSUME NEW d \in Callers,
             Grant(d) \/ ReturnLease(d) \/ Wait(d) \/ WakeUp(d) \/ RemoveWaiter(d)
               \/ MarkReleased(d) \/ Release(d)
      PROVE  request'[c] = request[c]
  BY <1>6 DEF Grant, ReturnLease, Wait, WakeUp, RemoveWaiter, MarkReleased, Release,
              NotGranted, WithoutWaiter
<1> QED
  BY <1>3, <1>4, <1>5, <1>6 DEF Next, WakeNotified, WakeDeadline

(* What a step does to the position of a head that stays one.              *)
LEMMA HeadMovesUp ==
  ASSUME IInv, IInv', EqualPriorities, Next,
         NEW c \in Callers, c \in EligibleHeads, c \in EligibleHeads',
         NEW i \in DOMAIN order', NEW k \in DOMAIN order, order'[i] = order[k],
         order[k] = request[c].workspace
  PROVE  i <= k /\ (PassesOver(c) => i < k)
<1>1. /\ TypeOK /\ RequestsAlive /\ WaitersAreQueued /\ OrderListsQueues /\ LeasesHaveOwners
      /\ TypeOK'
  BY DEF IInv
<1>2. HeadsWait
  BY WaitingHeads
<1>3. pc[c] \in InAcquire /\ c \notin granted /\ c \notin granted'
  BY <1>2, HeadKept DEF HeadsWait
<1>4. /\ order \in Seq(Workspaces) /\ order' \in Seq(Workspaces)
      /\ IsInjective(order) /\ order[k] \in Workspaces
      /\ Len(order) \in Nat /\ DOMAIN order = 1 .. Len(order)
      /\ i \in Nat /\ k \in Nat
  <2>1. order \in Seq(Workspaces) /\ order' \in Seq(Workspaces) /\ IsInjective(order)
    BY <1>1 DEF TypeOK, OrderListsQueues
  <2>2. /\ Len(order) \in Nat /\ DOMAIN order = 1 .. Len(order)
        /\ order[k] \in Workspaces
    BY <2>1, LenProperties
  <2>3. Len(order') \in Nat /\ DOMAIN order' = 1 .. Len(order')
    BY <2>1, LenProperties
  <2> QED
    BY <2>1, <2>2, <2>3
<1>5. ASSUME NEW d \in Callers, NEW r \in Requests, Enqueue(d, r)
      PROVE  i <= k /\ (PassesOver(c) => i < k)
  <2>1. active' = active
    BY <1>5 DEF Enqueue, Joined
  <2>2. r.workspace \in Workspaces
    BY RequestsAssumption
  <2>3. CASE queues[r.workspace] = <<>>
    <3>1. order' = Append(order, r.workspace)
      BY <1>5, <2>3 DEF Enqueue, Joined
    <3>2. order[k] # r.workspace
      BY <1>1, <1>4, <2>2, <2>3 DEF OrderListsQueues, Contains
    <3>3. /\ DOMAIN order' = 1 .. Len(order) + 1
          /\ order'[Len(order) + 1] = r.workspace
          /\ \A x \in 1 .. Len(order) : order'[x] = order[x]
      BY <3>1, <1>4, <2>2, AppendProperties, LenProperties
    <3>4. i \in DOMAIN order /\ order[i] = order[k]
      BY <3>2, <3>3, <1>4
    <3>5. i = k
      BY <3>4, <1>4 DEF IsInjective
    <3> QED
      BY <3>5, <2>1, <1>4 DEF PassesOver
  <2>4. CASE queues[r.workspace] # <<>>
    <3>1. order' = order
      BY <1>5, <2>4 DEF Enqueue, Joined
    <3>2. i = k
      BY <3>1, <1>4 DEF IsInjective
    <3> QED
      BY <3>2, <2>1, <1>4 DEF PassesOver
  <2> QED
    BY <2>3, <2>4
<1>6. ASSUME NEW d \in Callers, Grant(d)
      PROVE  i < k
  <2>1. PICK j \in DOMAIN order :
          /\ IsTurn(j)
          /\ order' = IF Tail(queues[order[j]]) = <<>>
                        THEN RemoveFirst(RotatedPast(j), order[j])
                        ELSE RotatedPast(j)
          /\ granted' = granted \cup {Head(queues[order[j]])}
    BY <1>6 DEF Grant
  <2> DEFINE t == RotatedPast(j)
             w == order[j]
  <2>3. c \in Candidates
    <3>1. \A x \in EligibleHeads : request[x] \in Requests /\ request[x].priority \in Int
      BY <1>2, RequestsAssumption DEF HeadsWait
    <3>2. \A x \in EligibleHeads : request[x].priority = request[c].priority
      BY <3>1 DEF EqualPriorities
    <3> QED
      BY <3>1, <3>2 DEF Candidates
  <2>4. ~ (k < j)
    BY <2>1, <2>3 DEF IsTurn
  <2>5. k # j
    <3>1. PICK x \in DOMAIN order :
            order[x] = request[c].workspace /\ c = Head(queues[order[x]])
      BY <1>2 DEF HeadsWait
    <3>2. order[x] = order[k]
      BY <3>1
    <3> QED
      BY <3>1, <3>2, <2>1, <1>3
  <2>6. k > j /\ j \in Nat /\ w \in Workspaces
    BY <2>4, <2>5, <1>4
  <2>7. /\ t \in Seq(Workspaces) /\ IsInjective(t)
        /\ \A x \in Workspaces : Contains(t, x) <=> Contains(order, x)
        /\ \A x \in DOMAIN t, y \in DOMAIN order : t[x] = order[y] /\ y > j => x = y - j
    BY <1>4, RotationMembers DEF RotatedPast
  <2>8. PICK x \in DOMAIN t : t[x] = order[k]
    <3>1. Contains(order, order[k])
      BY <1>4 DEF Contains
    <3>2. Contains(t, order[k]) /\ DOMAIN t = 1 .. Len(t)
      BY <3>1, <2>7, <1>4, LenProperties
    <3> QED
      BY <3>2 DEF Contains
  <2>9. x = k - j
    BY <2>6, <2>7, <2>8
  <2> HIDE DEF t, w
  <2>10. CASE order' = t
    BY <2>6, <2>7, <2>8, <2>9, <2>10, <1>4
  <2>11. CASE order' = RemoveFirst(t, w)
    <3>1. i <= x
      BY <2>6, <2>7, <2>8, <2>11, RemoveFirstMembers
    <3> QED
      BY <3>1, <2>6, <2>9, <1>4
  <2> QED
    BY <2>1, <2>10, <2>11 DEF t, w
<1>7. ASSUME NEW d \in Callers, RemoveWaiter(d)
      PROVE  i <= k /\ (PassesOver(c) => i < k)
  <2>1. active' = active
    BY <1>7 DEF RemoveWaiter, NotGranted
  <2>2. order' = order \/ order' = RemoveFirst(order, request[d].workspace)
    BY <1>7 DEF RemoveWaiter, NotGranted, WithoutWaiter
  <2>3. request[d].workspace \in Workspaces
    <3>1. pc[d] = "acquiring"
      BY <1>7 DEF RemoveWaiter, NotGranted
    <3> QED
      BY <3>1, <1>1, RequestsAssumption DEF RequestsAlive
  <2>4. i <= k
    <3>1. CASE order' = order
      BY <3>1, <1>4 DEF IsInjective
    <3>2. CASE order' = RemoveFirst(order, request[d].workspace)
      BY <3>2, <2>3, <1>4, RemoveFirstMembers
    <3> QED
      BY <2>2, <3>1, <3>2
  <2> QED
    BY <2>1, <2>4 DEF PassesOver
<1>8. ASSUME NEW d \in Callers,
             ReturnLease(d) \/ Wait(d) \/ WakeUp(d) \/ MarkReleased(d)
               \/ RaiseTimeout(d) \/ ReleaseDone(d) \/ Release(d)
      PROVE  i <= k /\ (PassesOver(c) => i < k)
  <2>1. order' = order /\ active' \subseteq active
    BY <1>8 DEF ReturnLease, Wait, WakeUp, MarkReleased, RaiseTimeout, ReleaseDone, Release, NotGranted
  <2>2. i = k
    BY <2>1, <1>4 DEF IsInjective
  <2> QED
    BY <2>1, <2>2, <1>4 DEF PassesOver
<1> QED
  BY <1>4, <1>5, <1>6, <1>7, <1>8 DEF Next, WakeNotified, WakeDeadline

LEMMA TurnStep ==
  ASSUME IInv, IInv', EqualPriorities, TurnInv, [TurnsNext]_<<vars, passed>>
  PROVE  TurnInv'
<1>1. CASE UNCHANGED <<vars, passed>>
  BY <1>1 DEF TurnInv, EligibleHeads, Eligible, vars
<1>2. CASE TurnsNext
  <2>1. Next /\ CountPasses
    BY <1>2 DEF TurnsNext
  <2>2. passed' \in [Callers -> Nat]
    BY <2>1 DEF CountPasses, TurnInv
  <2> SUFFICES ASSUME NEW c \in Callers
               PROVE  /\ c \notin EligibleHeads' => passed'[c] = 0
                      /\ \A i \in DOMAIN order' :
                           c \in EligibleHeads' /\ order'[i] = request'[c].workspace
                             => passed'[c] + i <= PassBound + 1
    BY <2>2 DEF TurnInv
  <2>3. c \notin EligibleHeads \/ c \notin EligibleHeads' => passed'[c] = 0
    BY <2>1 DEF CountPasses
  <2>4. ASSUME NEW i \in DOMAIN order', c \in EligibleHeads',
               order'[i] = request'[c].workspace
        PROVE  passed'[c] + i <= PassBound + 1
    <3>1. CASE c \notin EligibleHeads
      <4>1. order' \in Seq(Workspaces) /\ IsInjective(order')
        BY DEF IInv, TypeOK, OrderListsQueues
      <4>2. Len(order') \in Nat /\ Len(order') <= Cardinality(Workspaces) /\ i \in 1 .. Len(order')
        BY <4>1, InjectiveLength, PassBoundAssumption, LenProperties
      <4>3. Cardinality(Workspaces) \in Nat
        BY PassBoundAssumption, FS_CardinalityType
      <4> QED
        BY <4>2, <4>3, <3>1, <2>3, PassBoundAssumption
    <3>2. CASE c \in EligibleHeads
      <4>1. PICK k \in DOMAIN order : order[k] = request[c].workspace
        BY <3>2, WaitingHeads DEF HeadsWait
      <4>2. request'[c] = request[c]
        BY <3>2, <2>1, <2>4, <4>1, HeadKept
      <4>3. i <= k /\ (PassesOver(c) => i < k)
        BY <3>2, <2>1, <2>4, <4>1, <4>2, HeadMovesUp
      <4>4. passed[c] + k <= PassBound + 1 /\ passed[c] \in Nat
        BY <3>2, <4>1 DEF TurnInv
      <4>5. passed'[c] = passed[c] \/ (PassesOver(c) /\ passed'[c] = passed[c] + 1)
        <5>1. passed'[c] = IF c \notin EligibleHeads \/ c \notin EligibleHeads' THEN 0
                           ELSE IF PassesOver(c) /\ passed[c] <= PassBound THEN passed[c] + 1
                           ELSE passed[c]
          BY <2>1 DEF CountPasses
        <5> QED
          BY <5>1, <3>2, <2>4
      <4>6. i \in Nat /\ k \in Nat
        <5>1. order \in Seq(Workspaces) /\ order' \in Seq(Workspaces)
          BY DEF IInv, TypeOK
        <5>2. DOMAIN order = 1 .. Len(order) /\ Len(order) \in Nat
          BY <5>1, LenProperties
        <5>3. DOMAIN order' = 1 .. Len(order') /\ Len(order') \in Nat
          BY <5>1, LenProperties
        <5> QED
          BY <5>2, <5>3
      <4> QED
        BY <4>3, <4>4, <4>5, <4>6, PassBoundAssumption
    <3> QED
      BY <3>1, <3>2
  <2> QED
    BY <2>3, <2>4
<1> QED
  BY <1>1, <1>2

LEMMA TurnInit == TurnsInit => TurnInv
BY PassBoundAssumption DEF TurnsInit, Init, TurnInv, EligibleHeads

LEMMA TurnBounds ==
  ASSUME IInv, TurnInv
  PROVE  BoundedPassing
<1> SUFFICES ASSUME NEW c \in Callers PROVE passed[c] <= PassBound
  BY DEF BoundedPassing
<1>1. CASE c \notin EligibleHeads
  BY <1>1, PassBoundAssumption DEF TurnInv
<1>2. CASE c \in EligibleHeads
  <2>1. PICK k \in DOMAIN order : order[k] = request[c].workspace
    BY <1>2, WaitingHeads DEF HeadsWait
  <2>2. k \in Nat /\ 1 <= k
    BY LenProperties DEF IInv, TypeOK
  <2> QED
    BY <1>2, <2>1, <2>2, PassBoundAssumption DEF TurnInv
<1> QED
  BY <1>1, <1>2

(* Round robin: with requests of one priority, a queue head that could run *)
(* lets at most one lease of each other workspace by before its own        *)
(* (_next_candidate), however many callers and workspaces there are.       *)
THEOREM TurnsAreBounded ==
  ASSUME EqualPriorities
  PROVE  TurnsSpec => []BoundedPassing
<1>1. TurnsSpec => []IInv
  <2>1. TurnsSpec => Spec
    <3>1. TurnsInit => Init
      BY DEF TurnsInit
    <3>2. [TurnsNext]_<<vars, passed>> => [Next]_vars
      BY DEF TurnsNext
    <3> QED
      BY <3>1, <3>2, PTL DEF TurnsSpec, Spec
  <2> QED
    BY <2>1, InvariantHolds
<1>2. IInv /\ IInv' /\ TurnInv /\ [TurnsNext]_<<vars, passed>> => TurnInv'
  BY TurnStep
<1>3. IInv /\ TurnInv => BoundedPassing
  BY TurnBounds
<1> QED
  BY <1>1, <1>2, <1>3, TurnInit, PTL DEF TurnsSpec
=============================================================================
