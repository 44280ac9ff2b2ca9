------------------------- MODULE MCProcessLifecycle -------------------------
(* Small instances of ProcessLifecycle for TLC: processes of a workspace.   *)
EXTENDS ProcessLifecycle

CONSTANTS p1, p2, w

OneWorkspace == [p \in Procs |-> w]
OneReader == [p \in Procs |-> IF p = p1 THEN "read" ELSE "write"]
=============================================================================
