----------------------------- MODULE MCToolCalls -----------------------------
(* Two copies of a run_check, two copies of an apply_patch, and a commit   *)
(* that reuses the key of the check, or a run_pwsh in another workspace    *)
(* that does.                                                              *)
EXTENDS ToolCalls

CONSTANTS check1, check2, patch1, patch2, other, commit, k1, k2, i1, i2, i3, i4, w1, w2

mcKey == [c \in Calls |-> IF c \in {patch1, patch2} THEN k2 ELSE k1]
mcInput == [c \in Calls |-> IF c \in {patch1, patch2} THEN i2 ELSE IF c = commit THEN i3
                            ELSE IF c = other THEN i4 ELSE i1]
mcLock == [c \in Calls |-> IF c = other THEN w2 ELSE w1]
=============================================================================
