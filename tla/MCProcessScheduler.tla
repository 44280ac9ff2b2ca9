------------------------- MODULE MCProcessScheduler -------------------------
(* Small instances of ProcessScheduler for TLC.                            *)
EXTENDS ProcessScheduler

CONSTANTS a, b, c1, c2, c3, c4

Ask(w, m, p, t) ==
  [workspace |-> w, key |-> [resource |-> w, mode |-> m], priority |-> p, timeout |-> t]

(* Blocking requests as _acquire_lease makes them (run_pwsh writes at      *)
(* priority 0, run_check reads at priority 10), the non-blocking one of    *)
(* adopt_recovered_process, and one without a key.                         *)
ToolRequests ==
  {Ask(a, "write", 0, 1), Ask(a, "read", 10, 1), Ask(a, "write", 100, 0),
   Ask(b, "read", 10, 1), Ask(b, "write", 0, 1),
   [workspace |-> b, key |-> NoKey, priority |-> 0, timeout |-> 1]}

CallerSymmetry == Permutations(Callers)
=============================================================================
