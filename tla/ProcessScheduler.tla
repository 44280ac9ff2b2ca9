-------------------------- MODULE ProcessScheduler --------------------------
(***************************************************************************)
(* The admission scheduler of app/services/process_scheduler.py: a lease   *)
(* is granted to the head of a per-workspace FIFO queue when the global    *)
(* quota, the workspace quota and the read/write concurrency keys of the   *)
(* active leases allow it; workspaces take turns through _workspace_order. *)
(*                                                                         *)
(* Every method runs under self._condition.  The variable lock is that     *)
(* mutex; one iteration of the loop of _grant_waiters is one step of the   *)
(* caller that holds it, so a critical section is a sequence of steps that *)
(* no other caller can interleave with.                                    *)
(***************************************************************************)
EXTENDS Integers, FiniteSets, SequencesExt

CONSTANTS
  Callers,            \* threads that call acquire(), one call at a time
  Workspaces,
  Requests,           \* the requests the callers may make
  NoKey,              \* key=None
  NoCaller,           \* the mutex is free
  NoRequest,          \* the caller has no _Waiter and no lease
  GlobalLimit,        \* QueuePolicy.global_limit
  PerWorkspaceLimit   \* QueuePolicy.per_workspace_limit

(* QueuePolicy.__post_init__ *)
ASSUME PolicyAssumption ==
  /\ GlobalLimit \in Nat /\ PerWorkspaceLimit \in Nat
  /\ 1 <= PerWorkspaceLimit /\ PerWorkspaceLimit <= GlobalLimit

(* A timeout of 0 asks for non-blocking admission. *)
ASSUME RequestsAssumption ==
  \A r \in Requests :
    /\ r.workspace \in Workspaces
    /\ r.key = NoKey \/ r.key.mode \in {"read", "write"}
    /\ r.priority \in Int
    /\ r.timeout \in Nat

ASSUME NullsAssumption ==
  NoCaller \notin Callers /\ NoRequest \notin Requests

VARIABLES
  lock,       \* holder of self._condition, or NoCaller
  pc,         \* where each caller is
  request,    \* arguments of the call whose waiter or lease is alive
  queues,     \* self._queues, as sequences of callers
  order,      \* self._workspace_order
  active,     \* keys of self._active: callers whose lease is counted
  activeBy,   \* self._active_by_workspace
  granted,    \* waiters with granted=True that acquire() has not returned
  notified    \* waiting callers a notify_all() has reached

vars == <<lock, pc, request, queues, order, active, activeBy, granted, notified>>

-----------------------------------------------------------------------------

(* ConcurrencyKey.conflicts_with: readers share, writers are exclusive. *)
Conflicts(k, l) ==
  /\ k # NoKey /\ l # NoKey
  /\ k.resource = l.resource
  /\ k.mode = "write" \/ l.mode = "write"

(* _eligible, for the waiter of caller c.  Mutant: the quota alone. *)
EligibleByQuota(c) == activeBy[request[c].workspace] < PerWorkspaceLimit

Eligible(c) ==
  /\ activeBy[request[c].workspace] < PerWorkspaceLimit
  /\ \A a \in active : ~ Conflicts(request[c].key, request[a].key)

(* The queue heads _next_candidate collects, and those of top priority. *)
EligibleHeads ==
  {c \in Callers : \E i \in DOMAIN order :
      /\ queues[order[i]] # <<>>
      /\ c = Head(queues[order[i]])
      /\ Eligible(c)}

Candidates ==
  {c \in EligibleHeads :
      \A d \in EligibleHeads : request[d].priority <= request[c].priority}

(* Position in order of the workspace whose head is granted next.          *)
IsTurn(i) ==
  /\ \E c \in Candidates : request[c].workspace = order[i]
  /\ \A j \in DOMAIN order :
       j < i => \A c \in Candidates : request[c].workspace # order[j]

(* The loop of _next_candidate pops and re-appends every workspace up to   *)
(* and including the chosen one.  Mutant: the order never rotates.         *)
Unrotated(i) == order

RotatedPast(i) ==
  SubSeq(order, i + 1, Len(order)) \o SubSeq(order, 1, i)

(* Mutant: one lease too many. *)
HasSlotOffByOne == Cardinality(active) <= GlobalLimit

HasSlot == Cardinality(active) < GlobalLimit

(* _grant_waiters returns: the quota is used up or no head is eligible.    *)
NothingToGrant == ~ HasSlot \/ EligibleHeads = {}

(* acquire(): a workspace joins the order when its queue was empty.        *)
(* Mutant: it joins with every waiter.                                     *)
JoinedAlways(w) == Append(order, w)

Joined(w) == IF queues[w] = <<>> THEN Append(order, w) ELSE order

(* _remove_waiter: the queue without the waiter of c.                      *)
WithoutWaiter(w, c) == RemoveFirst(queues[w], c)

(* release(): the counter of the lease's workspace, popped at 1.           *)
Decremented(n) == IF n <= 1 THEN 0 ELSE n - 1

(* acquire(), back at the top of its loop: _grant_waiters is done and did  *)
(* not grant this waiter.  Mutant: granted is not read again.              *)
MaybeGranted(c) == lock = c /\ pc[c] = "acquiring" /\ NothingToGrant

NotGranted(c) ==
  lock = c /\ pc[c] = "acquiring" /\ NothingToGrant /\ c \notin granted

-----------------------------------------------------------------------------

Init ==
  /\ lock = NoCaller
  /\ pc = [c \in Callers |-> "idle"]
  /\ request = [c \in Callers |-> NoRequest]
  /\ queues = [w \in Workspaces |-> <<>>]
  /\ order = <<>>
  /\ active = {}
  /\ activeBy = [w \in Workspaces |-> 0]
  /\ granted = {}
  /\ notified = {}

(* condition.notify_all().  Mutant: forgotten. *)
NotifyNobody == UNCHANGED notified

NotifyAll == notified' = {c \in Callers : pc[c] = "waiting"}

(* acquire(): the waiter joins its queue, the workspace joins the order    *)
(* when its queue was empty, then _grant_waiters runs.                     *)
Enqueue(c, r) ==
  /\ pc[c] = "idle" /\ lock = NoCaller
  /\ lock' = c
  /\ pc' = [pc EXCEPT ![c] = "acquiring"]
  /\ request' = [request EXCEPT ![c] = r]
  /\ order' = Joined(r.workspace)
  /\ queues' = [queues EXCEPT ![r.workspace] = Append(@, c)]
  /\ UNCHANGED <<active, activeBy, granted, notified>>

(* One iteration of _grant_waiters, run by the caller in the critical      *)
(* section: rotate, pop the head, drop an emptied workspace, activate,     *)
(* notify_all().                                                           *)
Grant(c) ==
  /\ lock = c /\ HasSlot
  /\ \E i \in DOMAIN order :
       /\ IsTurn(i)
       /\ LET w == order[i]
              h == Head(queues[w])
          IN /\ queues' = [queues EXCEPT ![w] = Tail(@)]
             /\ order' = IF Tail(queues[w]) = <<>>
                           THEN RemoveFirst(RotatedPast(i), w)
                           ELSE RotatedPast(i)
             /\ active' = active \cup {h}
             /\ activeBy' = [activeBy EXCEPT ![w] = @ + 1]
             /\ granted' = granted \cup {h}
  /\ NotifyAll
  /\ UNCHANGED <<lock, pc, request>>

(* acquire() leaves its loop with the lease.                               *)
ReturnLease(c) ==
  /\ lock = c /\ pc[c] = "acquiring" /\ NothingToGrant
  /\ c \in granted
  /\ granted' = granted \ {c}
  /\ pc' = [pc EXCEPT ![c] = "holding"]
  /\ lock' = NoCaller
  /\ UNCHANGED <<request, queues, order, active, activeBy, notified>>

(* Time is left: condition.wait(timeout=remaining) gives up the mutex.     *)
Wait(c) ==
  /\ NotGranted(c) /\ request[c].timeout > 0
  /\ pc' = [pc EXCEPT ![c] = "waiting"]
  /\ lock' = NoCaller
  /\ UNCHANGED <<request, queues, order, active, activeBy, granted, notified>>

(* The wait ends, by a notification or at the deadline; _grant_waiters     *)
(* runs again before the loop condition is read.                           *)
WakeUp(c) ==
  /\ pc[c] = "waiting" /\ lock = NoCaller
  /\ lock' = c
  /\ pc' = [pc EXCEPT ![c] = "acquiring"]
  /\ notified' = notified \ {c}
  /\ UNCHANGED <<request, queues, order, active, activeBy, granted>>

WakeNotified(c) == c \in notified /\ WakeUp(c)
WakeDeadline(c) == c \notin notified /\ WakeUp(c)

(* remaining <= 0: _remove_waiter, then _grant_waiters for the others.     *)
RemoveWaiter(c) ==
  /\ NotGranted(c)
  /\ LET w == request[c].workspace
         rest == WithoutWaiter(w, c)
     IN /\ queues' = [queues EXCEPT ![w] = rest]
        /\ order' = IF rest = <<>> THEN RemoveFirst(order, w) ELSE order
  /\ pc' = [pc EXCEPT ![c] = "leaving"]
  /\ UNCHANGED <<lock, request, active, activeBy, granted, notified>>

(* ... and QueueTimeoutError is raised, after a last _grant_waiters.       *)
(* Mutant: the waiters behind the one that left are not looked at.         *)
RaiseAtOnce(c) ==
  /\ lock = c /\ pc[c] = "leaving"
  /\ pc' = [pc EXCEPT ![c] = "idle"]
  /\ request' = [request EXCEPT ![c] = NoRequest]
  /\ lock' = NoCaller
  /\ UNCHANGED <<queues, order, active, activeBy, granted, notified>>

RaiseTimeout(c) ==
  /\ lock = c /\ pc[c] = "leaving" /\ NothingToGrant
  /\ pc' = [pc EXCEPT ![c] = "idle"]
  /\ request' = [request EXCEPT ![c] = NoRequest]
  /\ lock' = NoCaller
  /\ UNCHANGED <<queues, order, active, activeBy, granted, notified>>

(* ProcessLease.release sets _released under the lease's own lock; later   *)
(* calls return False, so the lease leaves this state only once.           *)
MarkReleased(c) ==
  /\ pc[c] = "holding"
  /\ pc' = [pc EXCEPT ![c] = "released"]
  /\ UNCHANGED <<lock, request, queues, order, active, activeBy, granted, notified>>

(* ProcessScheduler.release: the lease leaves _active and the counter.     *)
Release(c) ==
  /\ pc[c] = "released" /\ lock = NoCaller
  /\ lock' = c
  /\ pc' = [pc EXCEPT ![c] = "releasing"]
  /\ active' = active \ {c}
  /\ activeBy' = [activeBy EXCEPT ![request[c].workspace] = Decremented(@)]
  /\ UNCHANGED <<request, queues, order, granted, notified>>

(* ... _grant_waiters has run, notify_all().                               *)
ReleaseDone(c) ==
  /\ lock = c /\ pc[c] = "releasing" /\ NothingToGrant
  /\ pc' = [pc EXCEPT ![c] = "idle"]
  /\ request' = [request EXCEPT ![c] = NoRequest]
  /\ lock' = NoCaller
  /\ NotifyAll
  /\ UNCHANGED <<queues, order, active, activeBy, granted>>

Next ==
  \E c \in Callers :
    \/ \E r \in Requests : Enqueue(c, r)
    \/ Grant(c)
    \/ ReturnLease(c)
    \/ Wait(c)
    \/ WakeNotified(c)
    \/ WakeDeadline(c)
    \/ RemoveWaiter(c)
    \/ RaiseTimeout(c)
    \/ MarkReleased(c)
    \/ Release(c)
    \/ ReleaseDone(c)

Spec == Init /\ [][Next]_vars

(* A thread inside the critical section is not preempted for ever, a       *)
(* notified thread runs again, and every process that holds a lease ends   *)
(* (its watchdog enforces the timeout).  Deadlines are not fair: a caller  *)
(* may be patient.                                                         *)
InCriticalSection(c) ==
  \/ Grant(c) \/ ReturnLease(c) \/ Wait(c) \/ RaiseTimeout(c) \/ ReleaseDone(c)
  \/ RemoveWaiter(c) /\ request[c].timeout = 0

Fairness ==
  /\ WF_vars(\E c \in Callers : InCriticalSection(c))
  /\ \A c \in Callers :
       SF_vars(WakeNotified(c)) /\ WF_vars(MarkReleased(c)) /\ SF_vars(Release(c))

FairSpec == Spec /\ Fairness

-----------------------------------------------------------------------------

InAcquire == {"acquiring", "waiting"}

TypeOK ==
  /\ lock \in Callers \cup {NoCaller}
  /\ pc \in [Callers -> {"idle", "acquiring", "waiting", "leaving",
                          "holding", "released", "releasing"}]
  /\ request \in [Callers -> Requests \cup {NoRequest}]
  /\ queues \in [Workspaces -> Seq(Callers)]
  /\ order \in Seq(Workspaces)
  /\ active \subseteq Callers
  /\ activeBy \in [Workspaces -> Nat]
  /\ granted \subseteq Callers
  /\ notified \subseteq Callers

(* Whatever the interleaving of acquire, timeout and release, the leases   *)
(* that are active at one time respect the global quota, the quota of      *)
(* every workspace and the read/write keys (_grant_waiters, _eligible).    *)
ActiveIn(w) == {c \in active : request[c].workspace = w}

AdmissionSafe ==
  /\ Cardinality(active) <= GlobalLimit
  /\ \A w \in Workspaces : Cardinality(ActiveIn(w)) <= PerWorkspaceLimit
  /\ \A c, d \in active : c # d => ~ Conflicts(request[c].key, request[d].key)

(* _active_by_workspace, which release() maintains by hand, is the number  *)
(* of active leases of each workspace: a slot is never lost nor counted    *)
(* twice.                                                                  *)
CountsMatch ==
  \A w \in Workspaces : activeBy[w] = Cardinality(ActiveIn(w))

(* No lease leaks: an active lease belongs to a caller that holds it, is   *)
(* about to release it, or has not left acquire() yet.  A caller whose     *)
(* deadline races its grant must get the lease, not QueueTimeoutError.     *)
LeasesHaveOwners ==
  /\ active = granted \cup {c \in Callers : pc[c] \in {"holding", "released"}}
  /\ \A c \in granted : pc[c] \in InAcquire

(* _workspace_order lists exactly the workspaces with waiters, each once:  *)
(* one missing would never be served, one listed twice would get two turns.*)
OrderListsQueues ==
  /\ IsInjective(order)
  /\ \A w \in Workspaces : Contains(order, w) <=> queues[w] # <<>>

(* Every caller inside acquire() that has no lease is in the queue of its  *)
(* workspace, once, and nobody else is in a queue.                         *)
WaitersAreQueued ==
  \A w \in Workspaces :
    /\ IsInjective(queues[w])
    /\ \A c \in Callers :
         Contains(queues[w], c)
           <=> /\ pc[c] \in InAcquire
               /\ c \notin granted
               /\ request[c].workspace = w

QueuesInStep == OrderListsQueues /\ WaitersAreQueued

(* Whenever the mutex is free no slot stays idle next to a queue head that *)
(* could use it; in particular the head that timed out and left            *)
(* unblocks the waiter behind it (the second _grant_waiters of acquire).   *)
WorkConserving == lock = NoCaller => NothingToGrant

(* A caller that was granted a lease while it slept has been notified.     *)
NoLostWakeup ==
  \A c \in granted : pc[c] = "waiting" => c \in notified

(* Each lease is counted once, belongs to one caller that will return it,  *)
(* and that caller knows of it: a deadline that races a grant, or an error *)
(* in the counters, would break one of the three.                          *)
LeasesAreExact == CountsMatch /\ LeasesHaveOwners /\ NoLostWakeup

(* A caller that waits, and is patient, gets its lease (or leaves at its   *)
(* own deadline): FIFO within the workspace and the turns of the           *)
(* workspaces starve nobody, when all requests have equal priority.        *)
Served(c) == pc[c] = "waiting" ~> pc[c] \notin InAcquire

(* The scheduler implements the admission specification: queues, turns and *)
(* counters only choose when Admit happens, never whether it may.          *)
Wanted ==
  [c \in Callers |-> IF pc[c] \in {"leaving", "releasing"} THEN NoRequest ELSE request[c]]

Admission == INSTANCE AdmissionControl WITH wanted <- Wanted, admitted <- active

ImplementsAdmission == Admission!Spec
=============================================================================
