---------------------------- MODULE MCEventStore ----------------------------
(* Small instances of EventStore for TLC.                                  *)
EXTENDS EventStore

CONSTANTS r1, r2, p1, p2, a, b

HomeOfEach == [p \in Procs |-> IF p = p1 THEN a ELSE b]

(* Every wait of a reader ends; the readers are interchangeable, so this   *)
(* is checked for one of them.                                             *)
WaitsEnd == WaitEnds(r1)
=============================================================================
