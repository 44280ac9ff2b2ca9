----------------------------- MODULE MCPatches ------------------------------
(* Small instance of Patches for TLC: diffs of one or two files.           *)
EXTENDS Patches

CONSTANTS e1, e2

(* Hunks: one that ends with a change or with unchanged lines, an added    *)
(* line alone, an unchanged line whose text begins with a sign, a missing  *)
(* newline, and a removed "-- x" before an added "++ y".                   *)
Hunks ==
  {<<"keep", "del", "add">>, <<"del", "add", "keep">>, <<"add">>, <<"del", "add", "sign">>,
   <<"del", "add", "mark">>, <<"old", "new">>}

Sections(f) ==
  {[path |-> f, hunks |-> h] : h \in {<<>>} \cup {<<b>> : b \in Hunks}}
  \cup {[path |-> f, hunks |-> <<<<"keep", "del", "add">>, b>>] : b \in Hunks}

TwoFiles ==
  {<<s>> : s \in Sections("f") \cup Sections("outside")}
  \cup {<<s, t>> : s \in Sections("f"), t \in Sections("g")}

Before == {<<>>, <<Line("text", "none"), Line("wrap", "none")>>}
After == {<<>>, <<Line("wrap", "none")>>, <<Line("text", "none")>>, <<Line("del", "none")>>}

(* Without the diff --git line there is no section without hunks.          *)
Texts ==
  {p \in [sections : TwoFiles, command : BOOLEAN, before : Before, after : After] :
     p.command \/ \A i \in DOMAIN p.sections : p.sections[i].hunks # <<>>}
=============================================================================
