---------------------------- MODULE AtomicChanges ----------------------------
(***************************************************************************)
(* What a change set promises (app/services/change_set_store.py), without  *)
(* staging directories, rollback copies, journals or recovery: operations  *)
(* are recorded and validated, and a commit puts all that was validated    *)
(* into the work tree, in one step, or ends with the tree as it was.  The  *)
(* promise holds for as long as nobody else writes the tree and the disk   *)
(* does not fail; it may crash.                                            *)
(***************************************************************************)
CONSTANTS Sets, Ops, SetOf, FileOf, Files, NotValidated

VARIABLES
  status,      \* "none", "open", "validated", or how the change set ended
  recorded,    \* operations of which the caller was told
  plan,        \* the operations that were validated, or NotValidated
  seen,        \* the tree that the change set was begun on
  tree,        \* the work tree
  disturbed    \* somebody else wrote the tree, or the disk failed

vars == <<status, recorded, plan, seen, tree, disturbed>>

Init ==
  /\ status = [s \in Sets |-> "none"] /\ recorded = [s \in Sets |-> {}]
  /\ plan = [s \in Sets |-> NotValidated]
  /\ tree = [f \in Files |-> {}] /\ seen = [s \in Sets |-> tree]
  /\ disturbed = FALSE

Usable(s) == status[s] \in {"open", "validated"}

Begin(s) ==
  /\ status[s] = "none" /\ \A t \in Sets : ~ Usable(t)
  /\ status' = [status EXCEPT ![s] = "open"] /\ seen' = [seen EXCEPT ![s] = tree]
  /\ UNCHANGED <<recorded, plan, tree, disturbed>>

(* A further operation invalidates.                                        *)
Stage(o) ==
  LET s == SetOf[o]
  IN /\ Usable(s) /\ status' = [status EXCEPT ![s] = "open"]
     /\ recorded' = [recorded EXCEPT ![s] = @ \cup {o}]
     /\ plan' = [plan EXCEPT ![s] = NotValidated]
     /\ UNCHANGED <<seen, tree, disturbed>>

(* What is validated has every recorded operation, and no other set's.     *)
Validate(s) ==
  /\ Usable(s)
  /\ \E p \in SUBSET {o \in Ops : SetOf[o] = s} :
       /\ recorded[s] \subseteq p /\ p # {}
       /\ status' = [status EXCEPT ![s] = "validated"] /\ plan' = [plan EXCEPT ![s] = p]
  /\ UNCHANGED <<recorded, seen, tree, disturbed>>

Invalidate(s) ==
  /\ Usable(s) /\ status' = [status EXCEPT ![s] = "open"]
  /\ plan' = [plan EXCEPT ![s] = NotValidated]
  /\ UNCHANGED <<recorded, seen, tree, disturbed>>

Commit(s) ==
  /\ status[s] = "validated" /\ tree = seen[s]
  /\ status' = [status EXCEPT ![s] = "committed"]
  /\ tree' = [f \in Files |-> tree[f] \cup {o \in plan[s] : o \in Ops /\ FileOf[o] = f}]
  /\ UNCHANGED <<recorded, plan, seen, disturbed>>

(* Ended by its caller, by the clock, or by a commit that came to nothing. *)
End(s) ==
  /\ Usable(s)
  /\ \E outcome \in {"rolled_back", "expired"} : status' = [status EXCEPT ![s] = outcome]
  /\ plan' \in {plan, [plan EXCEPT ![s] = NotValidated]}
  /\ UNCHANGED <<recorded, seen, tree, disturbed>>

Next ==
  \/ \E s \in Sets : Begin(s) \/ Validate(s) \/ Invalidate(s) \/ Commit(s) \/ End(s)
  \/ \E o \in Ops : Stage(o)

Spec == Init /\ [][disturbed' \/ Next]_vars
=============================================================================
