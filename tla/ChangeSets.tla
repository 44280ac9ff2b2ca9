----------------------------- MODULE ChangeSets -----------------------------
(***************************************************************************)
(* Atomic change sets of one workspace (app/services/change_set_store.py): *)
(* operations are staged in a copy of the tree, validated, and committed   *)
(* to the work tree as one patch.                                          *)
(*                                                                         *)
(* The calls run to completion on the event loop, one after the other, but *)
(* processes of the workspace write the same files at any time, the server *)
(* may die between any two steps, and a write to the disk may fail.  The   *)
(* content of a file is the set of edits it holds.                         *)
(***************************************************************************)
EXTENDS Integers, FiniteSets

CONSTANTS
  Sets,                \* change sets
  Ops,                 \* staged operations: each edits one file
  SetOf, FileOf,       \* the change set and the file of an operation
  Files,
  Externals,           \* bound: edits that processes make, each once
  NotValidated,
  MaxCrashes,          \* bound: crashes of the server
  MaxFailures          \* bound: writes to the disk that fail

ASSUME OpsAssumption ==
  /\ Sets # {} /\ SetOf \in [Ops -> Sets] /\ FileOf \in [Ops -> Files]
  /\ Externals \cap Ops = {} /\ \A S \in SUBSET Ops : NotValidated # S
  /\ MaxCrashes \in Nat /\ MaxFailures \in Nat

VARIABLES
  status,      \* change_sets.status, or "none"
  ops,         \* rows of change_set_operations
  manifest,    \* rows of change_set_files, as the edits they describe
  after,       \* after_tree_hash: the validated edits, or NotValidated
  base,        \* before_tree_hash
  bumped,      \* change sets for which workspaces.revision was incremented
  staging,     \* edits in the staging directory
  snapshot,    \* the rollback directory of the commit
  tree,        \* the work tree
  call,        \* the step of the call in progress, and its change set
  pending,     \* files that the step still has to write
  image,       \* what git apply writes to them
  overdue,     \* change sets past expires_at
  server,      \* "serving", "down" or "recovering"
  crashes, failures, external

database == <<status, ops, manifest, after, base, bumped>>
disk == <<staging, snapshot, tree>>
control == <<call, pending, image>>
environment == <<overdue, server, crashes, failures, external>>
vars == <<database, disk, control, environment>>

Edits == Ops \cup Externals
Trees == [Files -> SUBSET Edits]
Active == {"open", "validated", "committing", "recovery_required"}

NoCall == [step |-> "idle", set |-> CHOOSE s \in Sets : TRUE]
At(step, s) == call = [step |-> step, set |-> s]
Goto(step, s) == call' = [step |-> step, set |-> s]

With(t, edits) == [f \in Files |-> t[f] \cup {o \in edits : o \in Ops /\ FileOf[o] = f}]
Touched(s) == {FileOf[o] : o \in after[s]}
AfterTree(s) == With(base[s], after[s])

SetStatus(s, value) == status' = [status EXCEPT ![s] = value]

(* A write to the disk fails.                                              *)
Fails == failures < MaxFailures /\ failures' = failures + 1

Init ==
  /\ status = [s \in Sets |-> "none"]
  /\ ops = [s \in Sets |-> {}] /\ manifest = [s \in Sets |-> {}]
  /\ after = [s \in Sets |-> NotValidated]
  /\ base = [s \in Sets |-> [f \in Files |-> {}]]
  /\ bumped = {}
  /\ staging = [s \in Sets |-> {}]
  /\ snapshot = [f \in Files |-> {}] /\ tree = [f \in Files |-> {}]
  /\ call = NoCall /\ pending = {} /\ image = [f \in Files |-> {}]
  /\ overdue = {} /\ server = "serving"
  /\ crashes = 0 /\ failures = 0 /\ external = {}

Idle == server = "serving" /\ call = NoCall

-----------------------------------------------------------------------------
(* The environment.                                                        *)

(* A process of the workspace edits a file.                                *)
External(x, f) ==
  /\ x \notin external /\ external' = external \cup {x}
  /\ tree' = [tree EXCEPT ![f] = @ \cup {x}]
  /\ UNCHANGED <<database, staging, snapshot, control, overdue, server, crashes, failures>>

Overdue(s) ==
  /\ status[s] \in {"open", "validated"} /\ s \notin overdue
  /\ overdue' = overdue \cup {s}
  /\ UNCHANGED <<database, disk, control, server, crashes, failures, external>>

Crash ==
  /\ server # "down" /\ crashes < MaxCrashes
  /\ crashes' = crashes + 1 /\ server' = "down"
  /\ call' = NoCall /\ pending' = {} /\ image' = [f \in Files |-> {}]
  /\ UNCHANGED <<database, disk, overdue, failures, external>>

-----------------------------------------------------------------------------
(* Staging.                                                                *)

(* begin: the tree is captured and copied; a unique index admits one       *)
(* active change set.                                                      *)
Begin(s) ==
  /\ Idle /\ status[s] = "none"
  /\ \A t \in Sets : status[t] \notin Active
  /\ SetStatus(s, "open")
  /\ base' = [base EXCEPT ![s] = tree]
  /\ UNCHANGED <<ops, manifest, after, bumped, disk, control, environment>>

(* _expire_if_needed, on the way into stage and validate.                  *)
Expire(s) ==
  /\ Idle /\ s \in overdue /\ status[s] \in {"open", "validated"}
  /\ SetStatus(s, "expired")
  /\ staging' = [staging EXCEPT ![s] = {}]
  /\ UNCHANGED <<ops, manifest, after, base, bumped, snapshot, tree, control, environment>>

Usable(s) == status[s] \in {"open", "validated"} /\ s \notin overdue

(* _stage: the operation is applied to the staging directory.  One that    *)
(* fails restores the checkpoint and changes nothing.                      *)
StageApply(o) ==
  LET s == SetOf[o]
  IN /\ Idle /\ Usable(s) /\ o \notin ops[s] \cup staging[s]
     /\ staging' = [staging EXCEPT ![s] = @ \cup {o}]
     /\ call' = [step |-> "staged", set |-> s, op |-> o]
     /\ UNCHANGED <<database, snapshot, tree, pending, image, environment>>

(* Then it is recorded with the manifest, in one transaction.              *)
StageRecord(o) ==
  LET s == SetOf[o]
  IN /\ call = [step |-> "staged", set |-> s, op |-> o]
     /\ ops' = [ops EXCEPT ![s] = @ \cup {o}]
     /\ manifest' = [manifest EXCEPT ![s] = staging[s]]
     /\ SetStatus(s, "open")
     /\ after' = [after EXCEPT ![s] = NotValidated]
     /\ call' = NoCall
     /\ UNCHANGED <<base, bumped, disk, pending, image, environment>>

StageFails(o) ==
  LET s == SetOf[o]
  IN /\ call = [step |-> "staged", set |-> s, op |-> o]
     /\ staging' = [staging EXCEPT ![s] = @ \ {o}]
     /\ call' = NoCall
     /\ UNCHANGED <<database, snapshot, tree, pending, image, environment>>

(* validate: the manifest in the database must describe the directory, and *)
(* git apply --check refuses an empty patch.                               *)
Validate(s) ==
  /\ Idle /\ Usable(s)
  /\ IF manifest[s] = staging[s] /\ staging[s] # {}
       THEN SetStatus(s, "validated") /\ after' = [after EXCEPT ![s] = staging[s]]
       ELSE SetStatus(s, "open") /\ after' = [after EXCEPT ![s] = NotValidated]
  /\ UNCHANGED <<ops, manifest, base, bumped, disk, control, environment>>

(* rollback *)
Rollback(s) ==
  /\ Idle /\ status[s] \in {"open", "validated"}
  /\ SetStatus(s, "rolled_back")
  /\ after' = [after EXCEPT ![s] = NotValidated]
  /\ staging' = [staging EXCEPT ![s] = {}]
  /\ UNCHANGED <<ops, manifest, base, bumped, snapshot, tree, control, environment>>

-----------------------------------------------------------------------------
(* commit.                                                                 *)

(* The tree must be the one that begin captured; expires_at is not read.   *)
CommitCheck(s) ==
  /\ Idle /\ status[s] = "validated" /\ tree = base[s]
  /\ Goto("snapshot", s)
  /\ UNCHANGED <<database, disk, pending, image, environment>>

(* _snapshot_rollback; a failure ends the call.                            *)
Snapshot(s) ==
  /\ At("snapshot", s)
  /\ \/ /\ snapshot' = [f \in Files |-> IF f \in Touched(s) THEN tree[f] ELSE {}]
        /\ Goto("mark", s) /\ UNCHANGED failures
     \/ Fails /\ call' = NoCall /\ UNCHANGED snapshot
  /\ UNCHANGED <<database, staging, tree, pending, image, overdue, server, crashes, external>>

MarkCommitting(s) ==
  /\ At("mark", s)
  /\ SetStatus(s, "committing") /\ Goto("intent", s)
  /\ UNCHANGED <<ops, manifest, after, base, bumped, disk, pending, image, environment>>

(* _journal("commit_intent") is outside the try block: if it fails, the    *)
(* call ends and the status stays.                                         *)
JournalIntent(s) ==
  /\ At("intent", s)
  /\ \/ Goto("check", s) /\ UNCHANGED failures
     \/ Fails /\ call' = NoCall
  /\ UNCHANGED <<database, disk, pending, image, overdue, server, crashes, external>>

(* A file that a process has edited may or may not take the patch.         *)
MayConflict(s) == \E f \in Touched(s) : tree[f] # base[s][f]

StartRestore(s) == Goto("restore", s) /\ pending' = Touched(s) /\ UNCHANGED image

(* git apply --check and _journal("applying").                             *)
ApplyCheck(s) ==
  /\ At("check", s)
  /\ \/ Goto("apply", s) /\ UNCHANGED <<pending, image, failures>>
     \/ MayConflict(s) /\ StartRestore(s) /\ UNCHANGED failures
     \/ Fails /\ StartRestore(s)
  /\ UNCHANGED <<database, disk, overdue, server, crashes, external>>

(* git apply reads the files and checks again ...                          *)
ApplyRead(s) ==
  /\ At("apply", s)
  /\ \/ /\ Goto("write", s) /\ pending' = Touched(s)
        /\ image' = With(tree, after[s])
     \/ MayConflict(s) /\ StartRestore(s)
  /\ UNCHANGED <<database, disk, environment>>

(* ... then writes them one by one.                                        *)
ApplyWrite(s, f) ==
  /\ At("write", s) /\ f \in pending
  /\ \/ /\ tree' = [tree EXCEPT ![f] = image[f]]
        /\ pending' = pending \ {f} /\ UNCHANGED <<call, image, failures>>
     \/ Fails /\ StartRestore(s) /\ UNCHANGED tree
  /\ UNCHANGED <<database, staging, snapshot, overdue, server, crashes, external>>

(* The tree must be the validated one; _journal("files_applied").          *)
Verify(s) ==
  /\ At("write", s) /\ pending = {}
  /\ IF tree = AfterTree(s)
       THEN \/ Goto("finish", s) /\ UNCHANGED <<pending, image, failures>>
            \/ Fails /\ StartRestore(s)
       ELSE StartRestore(s) /\ UNCHANGED failures
  /\ UNCHANGED <<database, disk, overdue, server, crashes, external>>

(* One transaction, and _journal("complete"), which is inside the try      *)
(* block.                                                                  *)
Finish(s) ==
  /\ At("finish", s)
  /\ SetStatus(s, "committed") /\ bumped' = bumped \cup {s}
  /\ Goto("complete", s)
  /\ UNCHANGED <<ops, manifest, after, base, disk, pending, image, environment>>

JournalComplete(s) ==
  /\ At("complete", s)
  /\ \/ call' = NoCall /\ image' = [f \in Files |-> {}] /\ UNCHANGED <<pending, failures>>
     \/ Fails /\ StartRestore(s)
  /\ UNCHANGED <<database, disk, overdue, server, crashes, external>>

(* _restore: file by file from the rollback directory ...                  *)
RestoreFile(s, f) ==
  /\ At("restore", s) /\ f \in pending
  /\ \/ /\ tree' = [tree EXCEPT ![f] = snapshot[f]]
        /\ pending' = pending \ {f} /\ UNCHANGED <<status, call, image, failures>>
     \/ /\ Fails /\ SetStatus(s, "recovery_required")
        /\ call' = NoCall /\ pending' = {} /\ image' = [g \in Files |-> {}]
        /\ UNCHANGED tree
  /\ UNCHANGED <<ops, manifest, after, base, bumped, staging, snapshot,
                 overdue, server, crashes, external>>

(* ... and the tree must be the captured one again.  Mutants: the status   *)
(* is written first; nothing is written when the tree is another.          *)
RestoreUnproven(s) ==
  /\ At("restore", s)
  /\ SetStatus(s, "rolled_back")
  /\ call' = NoCall /\ pending' = {} /\ image' = [f \in Files |-> {}]
  /\ UNCHANGED <<ops, manifest, after, base, bumped, disk, environment>>

RestoreGivesUp(s) ==
  /\ At("restore", s) /\ pending = {}
  /\ SetStatus(s, IF tree = base[s] THEN "rolled_back" ELSE status[s])
  /\ call' = NoCall /\ image' = [f \in Files |-> {}]
  /\ UNCHANGED <<ops, manifest, after, base, bumped, disk, pending, environment>>

RestoreDone(s) ==
  /\ At("restore", s) /\ pending = {}
  /\ SetStatus(s, IF tree = base[s] THEN "rolled_back" ELSE "recovery_required")
  /\ call' = NoCall /\ image' = [f \in Files |-> {}]
  /\ UNCHANGED <<ops, manifest, after, base, bumped, disk, pending, environment>>

-----------------------------------------------------------------------------
(* Startup.                                                                *)

Restart ==
  /\ server = "down" /\ server' = "recovering"
  /\ UNCHANGED <<database, disk, control, overdue, crashes, failures, external>>

(* reconcile_incomplete: the tree tells how a commit ended; otherwise it   *)
(* is restored.  A journal that fails leaves recovery_required.  Mutant:   *)
(* nothing is restored.                                                    *)
ReconcileOnlyCompares(s) ==
  /\ server = "recovering" /\ call = NoCall /\ status[s] = "committing"
  /\ SetStatus(s, IF tree = AfterTree(s) THEN "committed"
                  ELSE IF tree = base[s] THEN "rolled_back" ELSE "recovery_required")
  /\ UNCHANGED <<ops, manifest, after, base, bumped, disk, control, environment>>

Reconcile(s) ==
  /\ server = "recovering" /\ call = NoCall /\ status[s] = "committing"
  /\ IF tree \notin {AfterTree(s), base[s]}
       THEN StartRestore(s) /\ UNCHANGED <<status, failures>>
       ELSE /\ \/ /\ SetStatus(s, IF tree = AfterTree(s) THEN "committed" ELSE "rolled_back")
                  /\ UNCHANGED failures
               \/ Fails /\ SetStatus(s, "recovery_required")
            /\ UNCHANGED control
  /\ UNCHANGED <<ops, manifest, after, base, bumped, disk, overdue, server, crashes, external>>

(* cleanup_expired, then the server accepts calls.                         *)
Serve ==
  /\ server = "recovering" /\ call = NoCall
  /\ \A s \in Sets : status[s] # "committing"
  /\ LET expiring == {s \in overdue : status[s] \in {"open", "validated"}}
     IN /\ status' = [s \in Sets |-> IF s \in expiring THEN "expired" ELSE status[s]]
        /\ staging' = [s \in Sets |-> IF s \in expiring THEN {} ELSE staging[s]]
  /\ server' = "serving"
  /\ UNCHANGED <<ops, manifest, after, base, bumped, snapshot, tree, control,
                 overdue, crashes, failures, external>>

-----------------------------------------------------------------------------

CommitStep(s) ==
  \/ Snapshot(s) \/ MarkCommitting(s) \/ JournalIntent(s) \/ ApplyCheck(s) \/ ApplyRead(s)
  \/ \E f \in Files : ApplyWrite(s, f) \/ RestoreFile(s, f)
  \/ Verify(s) \/ Finish(s) \/ JournalComplete(s) \/ RestoreDone(s) \/ Reconcile(s)

Next ==
  \/ \E x \in Externals, f \in Files : External(x, f)
  \/ \E s \in Sets : \/ Overdue(s) \/ Begin(s) \/ Expire(s) \/ Validate(s) \/ Rollback(s)
                     \/ CommitCheck(s) \/ CommitStep(s)
  \/ \E o \in Ops : StageApply(o) \/ StageRecord(o) \/ StageFails(o)
  \/ Crash \/ Restart \/ Serve

Spec == Init /\ [][Next]_vars

(* A call that has begun goes on, and the supervisor restarts the server.  *)
FairSpec ==
  /\ Spec
  /\ \A s \in Sets : WF_vars(CommitStep(s))
  /\ WF_vars(Restart) /\ WF_vars(Serve)

-----------------------------------------------------------------------------

Steps == {"idle", "snapshot", "mark", "intent", "check", "apply", "write", "finish",
          "complete", "restore"}

TypeOK ==
  /\ status \in [Sets -> Active \cup {"none", "committed", "rolled_back", "expired"}]
  /\ ops \in [Sets -> SUBSET Ops] /\ manifest \in [Sets -> SUBSET Ops]
  /\ after \in [Sets -> {NotValidated} \cup SUBSET Ops]
  /\ base \in [Sets -> Trees] /\ bumped \subseteq Sets
  /\ staging \in [Sets -> SUBSET Ops] /\ snapshot \in Trees /\ tree \in Trees
  /\ call \in [step : Steps, set : Sets] \cup [step : {"staged"}, set : Sets, op : Ops]
  /\ pending \subseteq Files /\ image \in Trees
  /\ overdue \subseteq Sets /\ server \in {"serving", "down", "recovering"}
  /\ crashes \in 0 .. MaxCrashes /\ failures \in 0 .. MaxFailures
  /\ external \subseteq Externals

Present == UNION {tree[f] : f \in Files}
Own(s) == {o \in Ops : SetOf[o] = s}

(* The copy in the rollback directory is good for as long as a commit may  *)
(* be undone: it never holds an edit of the change set itself.             *)
SnapshotIsBefore ==
  \A s \in Sets : status[s] = "committing" =>
    \A f \in Files : snapshot[f] \cap Own(s) = {}

(* Failure atomicity: whatever failed, crashed or was written by others    *)
(* meanwhile, one that is not committed (nor unproven) has left nothing in *)
(* the work tree, and a committed change set is there as a whole, with     *)
(* every operation recorded before or after its validation, unless the     *)
(* last journal entry of its commit failed.                                *)
AllOrNothing ==
  /\ TypeOK /\ SnapshotIsBefore
  /\ \A s \in Sets :
       /\ after[s] # NotValidated => ops[s] \subseteq after[s]
       /\ status[s] = "committed" => after[s] \subseteq Present \/ failures > 0
       /\ status[s] \in {"open", "validated", "rolled_back", "expired"}
            => Own(s) \cap Present = {}

(* Nobody else wrote the tree, and no write to the disk failed.            *)
Calm == external = {} /\ failures = 0

(* Crashes alone, at any step of commit or of the recovery itself, never   *)
(* leave a state that cannot be proven.                                    *)
CrashesAreReconciled == Calm => \A s \in Sets : status[s] # "recovery_required"

(* A commit takes place when its last file is written; until then the tree *)
(* counts as the one it started from.  Seen so, a calm workspace behaves   *)
(* as AtomicChanges says, whatever crashes.                                *)
Landed(s) == tree = AfterTree(s)
Unlanded == {s \in Sets : status[s] = "committing" /\ ~ Landed(s)}

StatusSeen ==
  [s \in Sets |-> IF status[s] # "committing" THEN status[s]
                  ELSE IF Landed(s) THEN "committed" ELSE "validated"]
TreeSeen == IF Unlanded = {} THEN tree ELSE base[CHOOSE s \in Unlanded : TRUE]

Atomic == INSTANCE AtomicChanges WITH
  status <- StatusSeen, recorded <- ops, plan <- after, seen <- base, tree <- TreeSeen,
  disturbed <- ~ Calm

ImplementsAtomicChanges == Atomic!Spec

(* A commit comes to an end, also through a crash, unless its first        *)
(* journal entry could not be written.                                     *)
CommitsEnd ==
  \A s \in Sets : status[s] = "committing" ~> status[s] # "committing" \/ failures > 0
=============================================================================
