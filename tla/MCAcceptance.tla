---------------------------- MODULE MCAcceptance ----------------------------
(* Small instance of Acceptance for TLC: one client whose answers may get  *)
(* lost stands for several, two runs of the one required check.            *)
EXTENDS Acceptance, TLC

CONSTANTS c1, s1, s2, r1, r2, check

Entry(s, e) == [status |-> s, evidence |-> e]

Entries ==
  (s1 :> {Entry("in_progress", {}),
             Entry("completed", {[type |-> "check_id", id |-> check]})})
  @@ (s2 :> {Entry("in_progress", {}),
             Entry("completed", {[type |-> "process_id", id |-> r1]})})

TwoRuns == (r1 :> check) @@ (r2 :> check)
=============================================================================
