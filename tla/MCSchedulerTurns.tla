-------------------------- MODULE MCSchedulerTurns --------------------------
(* Small instance of SchedulerTurns for TLC.                               *)
EXTENDS SchedulerTurns

CONSTANTS a, b, c1, c2, c3, c4

Ask(w, m, p) ==
  [workspace |-> w, key |-> [resource |-> w, mode |-> m], priority |-> p, timeout |-> 1]

(* Two workspaces at one priority.                                         *)
TurnRequests == {Ask(a, "write", 0), Ask(b, "write", 0)}

(* The theorem about the turns takes this as given.                        *)
ASSUME EqualPrioritiesHere == EqualPriorities

(* The callers are interchangeable, so Served is checked for one of them:  *)
(* patient in acquire(), it gets its lease whatever the others do.         *)
FirstCallerServed == Served(c1)
=============================================================================
