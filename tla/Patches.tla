------------------------------ MODULE Patches -------------------------------
(***************************************************************************)
(* apply_patch and replace_text of app/tools/patcher.py.  Each runs from   *)
(* its first statement to its answer without giving up the event loop, so  *)
(* there is one call at a time, but the processes of the workspace write   *)
(* files between any two of its steps.  A file is the set of edits it      *)
(* contains; git is external.                                              *)
(***************************************************************************)
EXTENDS PatchText

CONSTANTS
  Files,           \* paths, as strings
  Sent,            \* patches clients send: [sections, command, before, after]
  OtherEdits,      \* bound: edits that processes make, each of them once
  MaxCalls         \* bound: calls of clients

ASSUME PatchesAssumption ==
  /\ MaxCalls \in Nat /\ OtherEdits \cap (0 .. MaxCalls) = {}
  /\ \A p \in Sent : Edited(p.sections) \subseteq Files \cup {"outside"}

VARIABLES
  file,            \* the edits in each file
  made,            \* the edits ever made to it
  hidden,          \* edits made between the last read of a file and its write
  seen,            \* what the client last read
  call,            \* the call that runs, or NoPatch
  answer,          \* the last answer
  calls            \* calls so far

patches_vars == <<file, made, hidden, seen, call, answer, calls>>

-----------------------------------------------------------------------------

NoPatch == [at |-> "idle"]
Nothing == [taken |-> TRUE, unwelcome |-> FALSE,
            targets |-> {}, edits |-> {}, reported |-> {}, intact |-> TRUE]
Silence == [applied |-> FALSE, stopped |-> FALSE, informed |-> TRUE, about |-> Nothing]

PatchesInit ==
  /\ file = [f \in Files |-> {}] /\ made = file /\ hidden = {} /\ seen = file
  /\ call = NoPatch /\ answer = Silence /\ calls = 0

(* The text of a patch is the diff and what surrounds it.                  *)
Text(p) == p.before \o DiffText(p.sections, p.command) \o p.after

(* _apply_patch: what git gets of it, unless it is refused.                *)
Accepted(p) ==
  LET t == Strip(Text(p)) IN HasHeaders(t) /\ Valid(t) /\ ~ Denied(t)

(* Files that git changes: those with a header or a section of their own.  *)
Targets(t) == {t[i].path : i \in {j \in DOMAIN t : t[j].kind = "git" \/ IsHeader(t, j)}} \cap Files

(* The diffs that are refused.  Apart from those without a hunk and those  *)
(* that leave the workspace they are sound: those that remove "-- x" right *)
(* before adding "++ y", those whose last hunk ends with unchanged lines,  *)
(* and those with a line behind them that begins with a sign.              *)
Wanted(p) == {i \in DOMAIN p.sections : p.sections[i].hunks # <<>>}
EndsUnchanged(p) == Last(Last(p.sections[Max(Wanted(p))].hunks)) = "keep"
Followed(p) == Count(p.after, {"del"}) > 0
OldThenNew(p) ==
  \E i \in Wanted(p) : \E k \in DOMAIN p.sections[i].hunks :
    p.sections[i].hunks[k] = <<"old", "new">>

Unwelcome(p) ==
  \/ Wanted(p) = {} \/ "outside" \in Edited(p.sections) \/ OldThenNew(p)
  \/ IF Followed(p) THEN Len(p.sections) \in Wanted(p) ELSE EndsUnchanged(p)

(* What there is to know of a patch: the files that git changes, those of  *)
(* hunks, those reported, and whether all hunks reach git.                 *)
About(p) ==
  LET handed == Strip(Text(p))
  IN [taken |-> Accepted(p), unwelcome |-> Unwelcome(p),
      targets |-> Targets(handed), edits |-> Edited(p.sections), reported |-> Changed(handed),
      intact |-> Edits(handed) = Edits(DiffText(p.sections, p.command))]

Patched == {About(p) : p \in Sent}

(* What the answers owe to the text: of a patch that is taken, all hunks   *)
(* reach git, the files reported are those of the hunks, and git changes   *)
(* them.                                                                   *)
Kept(about) ==
  about.intact /\ about.reported = about.edits /\ about.edits \subseteq about.targets

TextIsKept == \A about \in Patched : about.taken => Kept(about)

Conclude(a) == call' = NoPatch /\ answer' = a
Refuse == Conclude(Silence)
GoOn(c) == call' = c /\ UNCHANGED answer

-----------------------------------------------------------------------------
(* A process writes a file.                                                *)
External(f, e) ==
  /\ e \notin UNION {made[g] : g \in Files}
  /\ file' = [file EXCEPT ![f] = @ \cup {e}]
  /\ made' = [made EXCEPT ![f] = @ \cup {e}]
  /\ hidden' = IF call.at = "write" /\ f \in call.left THEN hidden \cup {e} ELSE hidden
  /\ call' = IF call = NoPatch THEN NoPatch ELSE [call EXCEPT !.during = @ \cup {e}]
  /\ UNCHANGED <<seen, answer, calls>>

(* read_files *)
ReadFiles ==
  /\ call = NoPatch /\ seen # file /\ seen' = file
  /\ UNCHANGED <<file, made, hidden, call, answer, calls>>

Asked(about, left, locked, checkOnly) ==
  [at |-> "hash", about |-> about, left |-> left, locked |-> locked, checkOnly |-> checkOnly,
   base |-> file, during |-> {}]

(* apply_patch up to its first look at a file: the HEAD is compared with   *)
(* the expected one, the text is stripped and validated.                   *)
ApplyPatch(about, locked, checkOnly) ==
  /\ call = NoPatch /\ calls < MaxCalls /\ calls' = calls + 1
  /\ IF about.taken
     THEN call' = Asked(about, IF locked THEN Files ELSE {}, locked, checkOnly) /\ answer' = Silence
     ELSE Conclude([Silence EXCEPT !.about = about])
  /\ UNCHANGED <<file, made, hidden, seen>>

HeadMoved ==
  /\ call = NoPatch /\ calls < MaxCalls /\ calls' = calls + 1
  /\ Refuse /\ UNCHANGED <<file, made, hidden, seen>>

(* Each file with an expected_sha256 is hashed.                            *)
CheckHash(f) ==
  /\ call.at = "hash" /\ f \in call.left
  /\ IF file[f] = seen[f] THEN GoOn([call EXCEPT !.left = @ \ {f}])
     ELSE Refuse
  /\ UNCHANGED <<file, made, hidden, seen, calls>>

(* git apply --check passes, or refuses the patch, or is not there, or     *)
(* takes longer than 30 s.                                                 *)
GitCheck ==
  /\ call.at = "hash" /\ call.left = {}
  /\ Refuse \/ (~ call.checkOnly /\ GoOn([call EXCEPT !.at = "apply"]))
  /\ UNCHANGED <<file, made, hidden, seen, calls>>

(* git apply reads all files, or refuses the patch after all, and writes   *)
(* them one by one, until an error or the time limit stops it.             *)
GitReads ==
  /\ call.at = "apply"
  /\ Refuse \/ GoOn([call EXCEPT !.at = "write", !.left = call.about.targets,
                                 !.base = file])
  /\ UNCHANGED <<file, made, hidden, seen, calls>>

(* What a file contains when it is written.  Mutant: its text is built     *)
(* from the one the client read.                                           *)
FromSeen(f) == seen[f] \cup {calls}

Updated(f) == call.base[f] \cup {calls}

Write(f) ==
  /\ call.at = "write" /\ f \in call.left
  /\ file' = [file EXCEPT ![f] = Updated(f)]
  /\ made' = [made EXCEPT ![f] = @ \cup {calls}]
  /\ call' = [call EXCEPT !.left = @ \ {f}]
  /\ UNCHANGED <<hidden, seen, answer, calls>>

(* The call ends without success, and perhaps with files written.          *)
WriteStops ==
  /\ call.at = "write" /\ call.left # {}
  /\ Conclude([Silence EXCEPT !.stopped = call.left # call.about.targets])
  /\ UNCHANGED <<file, made, hidden, seen, calls>>

(* The answer of success, with what the text says was changed.             *)
Report ==
  /\ call.at = "write" /\ call.left = {}
  /\ Conclude([applied |-> TRUE, stopped |-> FALSE, about |-> call.about,
             informed |-> call.locked => \A f \in call.about.targets :
                            call.base[f] \ seen[f] \subseteq call.during])
  /\ UNCHANGED <<file, made, hidden, seen, calls>>

-----------------------------------------------------------------------------
(* replace_text: its one file is read, hashed and searched for old_text;   *)
(* the new text goes to a temporary file that replaces it, unless the      *)
(* operating system refuses.                                               *)
OneEdit(f) == [Nothing EXCEPT !.targets = {f}, !.edits = {f}, !.reported = {f}]

ReplaceText(f, locked) ==
  /\ call = NoPatch /\ calls < MaxCalls /\ calls' = calls + 1
  /\ \/ Refuse
     \/ /\ locked => file[f] = seen[f]
        /\ call' = [Asked(OneEdit(f), {f}, locked, FALSE) EXCEPT !.at = "write"]
        /\ answer' = Silence
  /\ UNCHANGED <<file, made, hidden, seen>>

PatchesNext ==
  \/ \E f \in Files, e \in OtherEdits : External(f, e)
  \/ ReadFiles
  \/ \E about \in Patched : \E locked, checkOnly \in BOOLEAN : ApplyPatch(about, locked, checkOnly)
  \/ HeadMoved
  \/ \E f \in Files : CheckHash(f) \/ Write(f) \/ \E locked \in BOOLEAN : ReplaceText(f, locked)
  \/ GitCheck \/ GitReads \/ WriteStops \/ Report

PatchesSpec == PatchesInit /\ [][PatchesNext]_patches_vars

-----------------------------------------------------------------------------

PatchesTypeOK ==
  /\ file \in [Files -> SUBSET (OtherEdits \cup 1 .. MaxCalls)]
  /\ \A f \in Files : file[f] \cup seen[f] \subseteq made[f]
  /\ calls \in 0 .. MaxCalls /\ call.at \in {"idle", "hash", "apply", "write"}

(* An edit is never undone by a call, be it of a process or of an earlier  *)
(* call, except one that a process makes between the moment the tool or    *)
(* git reads the file and the moment it writes it.                         *)
EditsSurvive ==
  PatchesTypeOK /\ \A f \in Files : made[f] \ hidden \subseteq file[f]

(* An answer of success means that every hunk that was sent is in its file *)
(* and that the answer names these files; with expected_sha256 also that   *)
(* the files had no edit, from before the call, that the client had not    *)
(* read.  Any other answer means that the call changed nothing, unless git *)
(* was stopped between two files.                                          *)
AnswersAreTrue ==
  call = NoPatch =>
    IF answer.applied
    THEN /\ answer.about.intact /\ answer.informed
         /\ answer.about.reported = answer.about.edits
         /\ \A f \in answer.about.edits : calls \in made[f]
    ELSE answer.stopped \/ \A f \in Files : calls \notin made[f]

(* A diff is refused for its text exactly when it is one of those above:   *)
(* of the sound ones git diff prints, no others are lost, and none that    *)
(* leaves the workspace is taken.                                          *)
RefusedDiffs ==
  /\ answer.about.taken <=> ~ answer.about.unwelcome
  /\ call # NoPatch => ~ call.about.unwelcome
=============================================================================
