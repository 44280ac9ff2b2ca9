--------------------------- MODULE SchedulerTurns ---------------------------
(***************************************************************************)
(* ProcessScheduler with a history variable that counts how often a queue  *)
(* head that could run was passed over in favour of another workspace: the *)
(* fairness that the docstring of process_scheduler.py promises, as a      *)
(* bound.                                                                  *)
(***************************************************************************)
EXTENDS ProcessScheduler

CONSTANT PassBound    \* grants of its own priority a head may have to let by

(* Every other workspace may take a turn before that of the head.          *)
ASSUME PassBoundAssumption ==
  /\ PassBound \in Nat
  /\ IsFiniteSet(Workspaces) /\ Cardinality(Workspaces) <= PassBound + 1

VARIABLE passed

(* The grant of this step went to another workspace at the priority of c.  *)
PassesOver(c) ==
  \E d \in active' \ active :
    /\ request[d].workspace # request[c].workspace
    /\ request[d].priority = request[c].priority

(* The counter of a caller starts again whenever it is no eligible head;   *)
(* it stops one above the bound.                                           *)
CountPasses ==
  passed' = [c \in Callers |->
               IF c \notin EligibleHeads \/ c \notin EligibleHeads' THEN 0
               ELSE IF PassesOver(c) /\ passed[c] <= PassBound THEN passed[c] + 1
               ELSE passed[c]]

TurnsInit == Init /\ passed = [c \in Callers |-> 0]
TurnsNext == Next /\ CountPasses
TurnsSpec == TurnsInit /\ [][TurnsNext]_<<vars, passed>>
FairTurnsSpec == TurnsSpec /\ Fairness

(* The bound is about requests of one priority.  With several, a grant to  *)
(* a higher one rotates the head's own workspace to the back as well, and  *)
(* equals can overtake it again.                                           *)
EqualPriorities == \A r, s \in Requests : r.priority = s.priority

(* Round robin: while the head of a queue could run, at most PassBound     *)
(* leases of its own priority go to other workspaces before it gets one    *)
(* (_next_candidate rotates _workspace_order).                             *)
BoundedPassing == \A c \in Callers : passed[c] <= PassBound
=============================================================================
