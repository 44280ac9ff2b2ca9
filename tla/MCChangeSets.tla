---------------------------- MODULE MCChangeSets ----------------------------
(* Small instances of ChangeSets for TLC: the operations of the first      *)
(* change set edit two files, that of the second one of them.              *)
EXTENDS ChangeSets

CONSTANTS s1, s2, o1, o2, o3, f1, f2, x1, x2

SetOfEach == [o \in Ops |-> IF o = o3 THEN s2 ELSE s1]
FileOfEach == [o \in Ops |-> IF o = o2 THEN f2 ELSE f1]
=============================================================================
