---------------------------- MODULE MCArtifacts -----------------------------
(* Small instance of Artifacts for TLC: x.html, x.htm and a log.           *)
EXTENDS Artifacts, TLC

CONSTANTS html, htm, log, out, t1, t2, empty, small, large

InOrder == <<html, htm, log>>
LongerNames == {<<htm, html>>}
FirstHasOutput == (t1 :> out) @@ (t2 :> NoFile)
Sizes == (empty :> 0) @@ (small :> 1) @@ (large :> 3)
=============================================================================
