----------------------------- MODULE PatchText ------------------------------
(***************************************************************************)
(* What apply_patch makes of the text of a patch before git sees it        *)
(* (app/tools/patcher.py): _strip_patch_wrappers, _validate_unified_diff,  *)
(* _validate_patch_paths and _extract_file_changes.  A text is a sequence  *)
(* of lines, and a line is what those functions tell apart:                *)
(*   git   diff --git a/f b/f              old   --- a/f                   *)
(*   hunk  @@ -1,2 +1,2 @@                 new   +++ b/f                   *)
(*   keep  an unchanged line               sign  one whose text begins     *)
(*   del   a removed line                        with @, + or -            *)
(*   add   an added line                   mark  \ No newline at end ...   *)
(*   wrap  *** Begin Patch ***             text  anything else             *)
(* A removed line "-- x" reads --- x: it is an old line.                   *)
(***************************************************************************)
EXTENDS Integers, FiniteSetsExt, SequencesExt

Line(kind, path) == [kind |-> kind, path |-> path, old |-> 0, new |-> 0]
HunkHead(o, n) == [kind |-> "hunk", path |-> "none", old |-> o, new |-> n]

KindIn(l, kinds) == l.kind \in kinds
Count(t, kinds) == Cardinality({i \in DOMAIN t : t[i].kind \in kinds})

Oldish == {"keep", "sign", "del", "old"}
Newish == {"keep", "sign", "add", "new"}

-----------------------------------------------------------------------------
(* _strip_patch_wrappers: from the first line that begins a diff to the    *)
(* last one that looks like one.  Each line is stripped of its blanks      *)
(* first, so that an unchanged line does not look like one, unless its     *)
(* text does.  Mutant: up to the first line that does not look like one.   *)
Begins(l) == KindIn(l, {"old", "git"})
LooksLikeDiff(l) == KindIn(l, {"hunk", "old", "new", "del", "add", "sign"})

Span(u) ==
  LET first == Min({i \in DOMAIN u : Begins(u[i])})
  IN <<first, Max({first} \cup {i \in first .. Len(u) : LooksLikeDiff(u[i])})>>

StripAtFirstGap(t) ==
  LET u == SelectSeq(t, LAMBDA l : l.kind # "wrap")
      first == Span(u)[1]
      gap == Min({Len(u) + 1} \cup
                 {i \in first + 1 .. Len(u) : u[i].kind # "keep" /\ ~ LooksLikeDiff(u[i])})
  IN IF \A i \in DOMAIN u : ~ Begins(u[i]) THEN u ELSE SubSeq(u, first, gap - 1)

Strip(t) ==
  LET u == SelectSeq(t, LAMBDA l : l.kind # "wrap")
  IN IF \A i \in DOMAIN u : ~ Begins(u[i]) THEN u ELSE SubSeq(u, Span(u)[1], Span(u)[2])

HasHeaders(t) == Count(t, {"old"}) > 0 /\ Count(t, {"new"}) > 0

-----------------------------------------------------------------------------
(* _validate_unified_diff: the lines between two hunk heads, or up to the  *)
(* headers of the next file, are counted.  Mutant: up to a diff line only. *)
IsHeader(t, i) ==
  i < Len(t) /\ t[i].kind = "old" /\ t[i + 1].kind = "new"

EndsAtCommand(t, i) == KindIn(t[i], {"hunk", "git"})

EndsHunk(t, i) == KindIn(t[i], {"hunk", "git"}) \/ IsHeader(t, i)

Body(t, i) ==
  LET end == Min({Len(t) + 1} \cup {j \in i + 1 .. Len(t) : EndsHunk(t, j)})
  IN SubSeq(t, i + 1, end - 1)

Valid(t) ==
  /\ \E i \in DOMAIN t : t[i].kind = "hunk"
  /\ \A i \in DOMAIN t : t[i].kind = "hunk" =>
       /\ Count(Body(t, i), {"text", "wrap"}) = 0
       /\ Count(Body(t, i), Oldish) = t[i].old
       /\ Count(Body(t, i), Newish) = t[i].new

(* _validate_patch_paths *)
Denied(t) == \E i \in DOMAIN t : KindIn(t[i], {"old", "new"}) /\ t[i].path = "outside"

(* _extract_file_changes: each pair of headers, the kinds of change left   *)
(* out.                                                                    *)
Changed(t) == {t[i].path : i \in {j \in DOMAIN t : IsHeader(t, j)}}

-----------------------------------------------------------------------------
(* The diffs that git diff and diff -u print, as one section for each      *)
(* file: its hunks, each the kinds of its lines, or none for a rename, a   *)
(* change of mode or an empty file.                                        *)
HunkText(h) ==
  LET body == [i \in DOMAIN h |-> Line(h[i], "none")]
  IN <<HunkHead(Count(body, Oldish), Count(body, Newish))>> \o body

SectionText(s, command) ==
  (IF command THEN <<Line("git", s.path)>> ELSE <<>>)
  \o (IF s.hunks = <<>> THEN <<Line("text", "none")>>
      ELSE <<Line("old", s.path), Line("new", s.path)>>
           \o FlattenSeq([i \in DOMAIN s.hunks |-> HunkText(s.hunks[i])]))

DiffText(sections, command) ==
  FlattenSeq([i \in DOMAIN sections |-> SectionText(sections[i], command)])

(* What a diff does to the content of files.                               *)
Edited(sections) == {sections[i].path : i \in {j \in DOMAIN sections : sections[j].hunks # <<>>}}
HunkAt(t, i) == <<t[i]>> \o SelectSeq(Body(t, i), LAMBDA l : l.kind # "mark")

Edits(t) ==
  LET heads == SetToSortSeq({i \in DOMAIN t : t[i].kind = "hunk"}, <)
  IN [k \in DOMAIN heads |-> HunkAt(t, heads[k])]
=============================================================================
