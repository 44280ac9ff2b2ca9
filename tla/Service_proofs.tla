--------------------------- MODULE Service_proofs ---------------------------
(***************************************************************************)
(* Proofs about the three components that look after processes and files   *)
(* from outside a single run: Workspaces, Supervisor and Patches.  Their   *)
(* variables are their own, so they can share a module; each part is       *)
(* about one of them.                                                      *)
(***************************************************************************)
EXTENDS Workspaces, Supervisor, Patches, WellFoundedInduction, TLAPS

-----------------------------------------------------------------------------
(* Workspaces.                                                             *)

(* The operation on the event loop.  A discard holds on to a row and an    *)
(* unlocked workspace, has no tree left once it goes on to the files, and  *)
(* leaves behind only what was abandoned.                                  *)
ActInv ==
  /\ act.op = "none" => act.of = Nobody
  /\ ~ up => act.op = "none"
  /\ act.op = "create" => act.of \in born
  /\ act.op = "discard" =>
       /\ act.of \in rows \ open /\ lock[act.of] = Nobody
       /\ act.at \in {"cancel", "remove", "files", "rows"}
       /\ act.at \in {"files", "rows"} => tree[act.of] = "none"
       /\ act.at = "rows" =>
            act.of \notin payload /\ \A j \in Of(act.of) : j \in outputs => j \in abandoned
       /\ act.at # "cancel" => \A j \in Of(act.of) : step[j] \in Alive => j \in abandoned

(* What belongs to a row, and what an id has before it was generated.      *)
RowInv(w) ==
  /\ w \in open => w \in rows /\ tree[w] = "whole"
  /\ w \in rows => w \in born
  /\ tree[w] = "none" => w \notin edits
  /\ w \notin born => tree[w] = "none" /\ w \notin payload
  /\ lock[w] # Nobody => w \in rows /\ up

(* A job that prepares a process holds the lock of its workspace unless it *)
(* was abandoned; its row needs the row of the workspace.                  *)
JobInv(j) ==
  /\ step[j] = "idle" => home[j] = Nobody /\ j \notin outputs \cup jobRow
  /\ step[j] # "idle" => home[j] \in born
  /\ j \in jobRow => home[j] \in rows
  /\ j \in outputs \ jobRow => j \in abandoned
  /\ step[j] \in {"asked", "queued", "starting"} /\ j \notin abandoned => lock[home[j]] = j
  /\ step[j] = "orphan" => j \in abandoned
  /\ ~ up => step[j] \in {"idle", "ended", "orphan"}

RowsInv == \A w \in Workspaces : RowInv(w)
JobsInv == \A j \in Jobs : JobInv(j)

WorkspaceInv ==
  TypeOK /\ ActInv /\ RowsInv /\ JobsInv /\ TreesHaveRows /\ DiscardedIsGone

LEMMA WorkspaceInit == Init => WorkspaceInv
BY WorkspacesAssumption
   DEF Init, Idle, WorkspaceInv, TypeOK, ActInv, RowsInv, RowInv, JobsInv, JobInv,
       TreesHaveRows,
       DiscardedIsGone, Of, Alive

(* One lemma for each part of the invariant, one step for each action.     *)
LEMMA WorkspaceType == WorkspaceInv /\ [Next]_vars => TypeOK'
<1> SUFFICES ASSUME WorkspaceInv, [Next]_vars PROVE TypeOK'
  OBVIOUS
<1> USE WorkspacesAssumption DEF WorkspaceInv, TypeOK, ActInv, RowsInv, RowInv, JobsInv, JobInv,
    Of, Alive, vars, disk, data, jobs, server, rest, LoopFree, Idle, At, Go, Finish, Fault,
    SameFaults
<1>1. ASSUME NEW w \in Workspaces, AddTree(w) PROVE TypeOK'
  BY <1>1 DEF AddTree
<1>2. ASSUME InsertRow PROVE TypeOK'
  BY <1>2 DEF InsertRow
<1>3. ASSUME NEW w \in Workspaces, Discard(w) PROVE TypeOK'
  BY <1>3 DEF Discard, Discardable
<1>4. ASSUME CancelAll PROVE TypeOK'
  BY <1>4 DEF CancelAll
<1>5. ASSUME RemoveTree PROVE TypeOK'
  BY <1>5 DEF RemoveTree, Removed, InUse
<1>6. ASSUME DropFiles PROVE TypeOK'
  BY <1>6 DEF DropFiles
<1>7. ASSUME DropRows PROVE TypeOK'
  BY <1>7 DEF DropRows
<1>8. ASSUME NEW w \in Workspaces, NEW j \in Jobs, Ask(j, w) PROVE TypeOK'
  BY <1>8 DEF Ask
<1>9. ASSUME NEW j \in Jobs, Prepare(j) PROVE TypeOK'
  BY <1>9 DEF Prepare
<1>10. ASSUME NEW j \in Jobs, Launch(j) PROVE TypeOK'
  BY <1>10 DEF Launch, Living
<1>11. ASSUME NEW j \in Jobs, Register(j) PROVE TypeOK'
  BY <1>11 DEF Register
<1>12. ASSUME NEW j \in Jobs, Edit(j) PROVE TypeOK'
  BY <1>12 DEF Edit
<1>13. ASSUME NEW j \in Jobs, End(j) PROVE TypeOK'
  BY <1>13 DEF End
<1>14. ASSUME NEW j \in Jobs, Answer(j) PROVE TypeOK'
  BY <1>14 DEF Answer, Unlock
<1>15. ASSUME NEW j \in Jobs, Abandon(j) PROVE TypeOK'
  BY <1>15 DEF Abandon, Unlock
<1>16. ASSUME NEW w \in Workspaces, Begin(w) PROVE TypeOK'
  BY <1>16 DEF Begin
<1>17. ASSUME NEW w \in Workspaces, EndSet(w) PROVE TypeOK'
  BY <1>17 DEF EndSet
<1>18. ASSUME Crash PROVE TypeOK'
  <2>1. interrupted' \subseteq Workspaces
    BY <1>18 DEF Crash
  <2>2. /\ UNCHANGED <<tree, registered, edits, payload, rows, open, jobRow, home, wanted, born,
                       expired, project, faults>>
        /\ crashes' \in 0 .. MaxCrashes /\ up' = FALSE
    BY <1>18 DEF Crash
  <2>3. act' = Idle
    BY <1>18 DEF Crash
  <2>4. lost' \subseteq Workspaces
    BY <1>18 DEF Crash
  <2>5. /\ step' \in [Jobs -> {"idle", "asked", "queued", "starting", "running", "orphan",
                              "ended"}]
        /\ outputs' \cup abandoned' \subseteq Jobs
        /\ lock' \in [Workspaces -> Jobs \cup {Nobody}]
    BY <1>18 DEF Crash
  <2> QED
    BY <2>1, <2>2, <2>3, <2>4, <2>5
<1>19. ASSUME NEW w \in Workspaces, Reconcile(w) PROVE TypeOK'
  BY <1>19 DEF Reconcile, Eligible, Discardable, Removed
<1>20. ASSUME Restart PROVE TypeOK'
  BY <1>20 DEF Restart
<1>21. ASSUME NEW w \in Workspaces, Want(w) PROVE TypeOK'
  BY <1>21 DEF Want
<1>22. ASSUME NEW w \in Workspaces, Expire(w) PROVE TypeOK'
  BY <1>22 DEF Expire
<1>23. ASSUME ProjectChanges PROVE TypeOK'
  BY <1>23 DEF ProjectChanges
<1>24. CASE UNCHANGED vars
  BY <1>24
<1> QED
  BY <1>1, <1>2, <1>3, <1>4, <1>5, <1>6, <1>7, <1>8, <1>9, <1>10, <1>11, <1>12, <1>13, <1>14,
      <1>15, <1>16, <1>17, <1>18, <1>19, <1>20, <1>21, <1>22, <1>23, <1>24 DEF Next, Discarding

LEMMA WorkspaceAct == WorkspaceInv /\ [Next]_vars => ActInv'
<1> SUFFICES ASSUME WorkspaceInv, [Next]_vars PROVE ActInv'
  OBVIOUS
<1> USE WorkspacesAssumption DEF WorkspaceInv, TypeOK, ActInv, RowsInv, RowInv, JobsInv, JobInv,
    Of, Alive, vars, disk, data, jobs, server, rest, LoopFree, Idle, At, Go, Finish, Fault,
    SameFaults
<1>1. ASSUME NEW w \in Workspaces, AddTree(w) PROVE ActInv'
  BY <1>1 DEF AddTree
<1>2. ASSUME InsertRow PROVE ActInv'
  BY <1>2 DEF InsertRow
<1>3. ASSUME NEW w \in Workspaces, Discard(w) PROVE ActInv'
  BY <1>3 DEF Discard, Discardable
<1>4. ASSUME CancelAll PROVE ActInv'
  BY <1>4 DEF CancelAll
<1>5. ASSUME RemoveTree PROVE ActInv'
  BY <1>5 DEF RemoveTree, Removed, InUse
<1>6. ASSUME DropFiles PROVE ActInv'
  BY <1>6 DEF DropFiles
<1>7. ASSUME DropRows PROVE ActInv'
  BY <1>7 DEF DropRows
<1>8. ASSUME NEW w \in Workspaces, NEW j \in Jobs, Ask(j, w) PROVE ActInv'
  BY <1>8 DEF Ask
<1>9. ASSUME NEW j \in Jobs, Prepare(j) PROVE ActInv'
  BY <1>9 DEF Prepare
<1>10. ASSUME NEW j \in Jobs, Launch(j) PROVE ActInv'
  BY <1>10 DEF Launch, Living
<1>11. ASSUME NEW j \in Jobs, Register(j) PROVE ActInv'
  BY <1>11 DEF Register
<1>12. ASSUME NEW j \in Jobs, Edit(j) PROVE ActInv'
  BY <1>12 DEF Edit
<1>13. ASSUME NEW j \in Jobs, End(j) PROVE ActInv'
  BY <1>13 DEF End
<1>14. ASSUME NEW j \in Jobs, Answer(j) PROVE ActInv'
  BY <1>14 DEF Answer, Unlock
<1>15. ASSUME NEW j \in Jobs, Abandon(j) PROVE ActInv'
  BY <1>15 DEF Abandon, Unlock
<1>16. ASSUME NEW w \in Workspaces, Begin(w) PROVE ActInv'
  BY <1>16 DEF Begin
<1>17. ASSUME NEW w \in Workspaces, EndSet(w) PROVE ActInv'
  BY <1>17 DEF EndSet
<1>18. ASSUME Crash PROVE ActInv'
  BY <1>18 DEF Crash
<1>19. ASSUME NEW w \in Workspaces, Reconcile(w) PROVE ActInv'
  BY <1>19 DEF Reconcile, Eligible, Discardable, Removed
<1>20. ASSUME Restart PROVE ActInv'
  BY <1>20 DEF Restart
<1>21. ASSUME NEW w \in Workspaces, Want(w) PROVE ActInv'
  BY <1>21 DEF Want
<1>22. ASSUME NEW w \in Workspaces, Expire(w) PROVE ActInv'
  BY <1>22 DEF Expire
<1>23. ASSUME ProjectChanges PROVE ActInv'
  BY <1>23 DEF ProjectChanges
<1>24. CASE UNCHANGED vars
  BY <1>24
<1> QED
  BY <1>1, <1>2, <1>3, <1>4, <1>5, <1>6, <1>7, <1>8, <1>9, <1>10, <1>11, <1>12, <1>13, <1>14,
      <1>15, <1>16, <1>17, <1>18, <1>19, <1>20, <1>21, <1>22, <1>23, <1>24 DEF Next, Discarding

LEMMA WorkspaceRows == WorkspaceInv /\ [Next]_vars => RowsInv'
<1> SUFFICES ASSUME WorkspaceInv, [Next]_vars PROVE RowsInv'
  OBVIOUS
<1> USE WorkspacesAssumption DEF WorkspaceInv, TypeOK, ActInv, RowsInv, RowInv, vars, disk,
    data, jobs, server, rest, LoopFree, Idle, At, Go, Finish, Fault, SameFaults
<1>1. ASSUME NEW w \in Workspaces, AddTree(w) PROVE RowsInv'
  BY <1>1 DEF AddTree
<1>2. ASSUME InsertRow PROVE RowsInv'
  BY <1>2 DEF InsertRow
<1>3. ASSUME NEW w \in Workspaces, Discard(w) PROVE RowsInv'
  BY <1>3 DEF Discard, Discardable
<1>4. ASSUME CancelAll PROVE RowsInv'
  BY <1>4 DEF CancelAll
<1>5. ASSUME RemoveTree PROVE RowsInv'
  BY <1>5 DEF RemoveTree, Removed, InUse
<1>6. ASSUME DropFiles PROVE RowsInv'
  BY <1>6 DEF DropFiles
<1>7. ASSUME DropRows PROVE RowsInv'
  BY <1>7 DEF DropRows
<1>8. ASSUME NEW w \in Workspaces, NEW j \in Jobs, Ask(j, w) PROVE RowsInv'
  BY <1>8 DEF Ask
<1>9. ASSUME NEW j \in Jobs, Prepare(j) PROVE RowsInv'
  BY <1>9 DEF Prepare
<1>10. ASSUME NEW j \in Jobs, Launch(j) PROVE RowsInv'
  BY <1>10 DEF Launch, Living
<1>11. ASSUME NEW j \in Jobs, Register(j) PROVE RowsInv'
  BY <1>11 DEF Register
<1>12. ASSUME NEW j \in Jobs, Edit(j) PROVE RowsInv'
  BY <1>12 DEF Edit
<1>13. ASSUME NEW j \in Jobs, End(j) PROVE RowsInv'
  BY <1>13 DEF End
<1>14. ASSUME NEW j \in Jobs, Answer(j) PROVE RowsInv'
  BY <1>14 DEF Answer, Unlock
<1>15. ASSUME NEW j \in Jobs, Abandon(j) PROVE RowsInv'
  BY <1>15 DEF Abandon, Unlock
<1>16. ASSUME NEW w \in Workspaces, Begin(w) PROVE RowsInv'
  BY <1>16 DEF Begin
<1>17. ASSUME NEW w \in Workspaces, EndSet(w) PROVE RowsInv'
  BY <1>17 DEF EndSet
<1>18. ASSUME Crash PROVE RowsInv'
  BY <1>18 DEF Crash
<1>19. ASSUME NEW w \in Workspaces, Reconcile(w) PROVE RowsInv'
  BY <1>19 DEF Reconcile, Eligible, Discardable, Removed
<1>20. ASSUME Restart PROVE RowsInv'
  BY <1>20 DEF Restart
<1>21. ASSUME NEW w \in Workspaces, Want(w) PROVE RowsInv'
  BY <1>21 DEF Want
<1>22. ASSUME NEW w \in Workspaces, Expire(w) PROVE RowsInv'
  BY <1>22 DEF Expire
<1>23. ASSUME ProjectChanges PROVE RowsInv'
  BY <1>23 DEF ProjectChanges
<1>24. CASE UNCHANGED vars
  BY <1>24
<1> QED
  BY <1>1, <1>2, <1>3, <1>4, <1>5, <1>6, <1>7, <1>8, <1>9, <1>10, <1>11, <1>12, <1>13, <1>14,
      <1>15, <1>16, <1>17, <1>18, <1>19, <1>20, <1>21, <1>22, <1>23, <1>24 DEF Next, Discarding

LEMMA WorkspaceJobs == WorkspaceInv /\ [Next]_vars => JobsInv'
<1> SUFFICES ASSUME WorkspaceInv, [Next]_vars PROVE JobsInv'
  OBVIOUS
<1> USE WorkspacesAssumption DEF WorkspaceInv, TypeOK, ActInv, RowsInv, RowInv, JobsInv, JobInv,
    Of, Alive, vars, disk, data, jobs, server, rest, LoopFree, Idle, At, Go, Finish, Fault,
    SameFaults
<1>1. ASSUME NEW w \in Workspaces, AddTree(w) PROVE JobsInv'
  BY <1>1 DEF AddTree
<1>2. ASSUME InsertRow PROVE JobsInv'
  BY <1>2 DEF InsertRow
<1>3. ASSUME NEW w \in Workspaces, Discard(w) PROVE JobsInv'
  BY <1>3 DEF Discard, Discardable
<1>4. ASSUME CancelAll PROVE JobsInv'
  BY <1>4 DEF CancelAll
<1>5. ASSUME RemoveTree PROVE JobsInv'
  BY <1>5 DEF RemoveTree, Removed, InUse
<1>6. ASSUME DropFiles PROVE JobsInv'
  BY <1>6 DEF DropFiles
<1>7. ASSUME DropRows PROVE JobsInv'
  BY <1>7 DEF DropRows
<1>8. ASSUME NEW w \in Workspaces, NEW j \in Jobs, Ask(j, w) PROVE JobsInv'
  BY <1>8 DEF Ask
<1>9. ASSUME NEW j \in Jobs, Prepare(j) PROVE JobsInv'
  BY <1>9 DEF Prepare
<1>10. ASSUME NEW j \in Jobs, Launch(j) PROVE JobsInv'
  BY <1>10 DEF Launch, Living
<1>11. ASSUME NEW j \in Jobs, Register(j) PROVE JobsInv'
  BY <1>11 DEF Register
<1>12. ASSUME NEW j \in Jobs, Edit(j) PROVE JobsInv'
  BY <1>12 DEF Edit
<1>13. ASSUME NEW j \in Jobs, End(j) PROVE JobsInv'
  BY <1>13 DEF End
<1>14. ASSUME NEW j \in Jobs, Answer(j) PROVE JobsInv'
  BY <1>14 DEF Answer, Unlock
<1>15. ASSUME NEW j \in Jobs, Abandon(j) PROVE JobsInv'
  BY <1>15 DEF Abandon, Unlock
<1>16. ASSUME NEW w \in Workspaces, Begin(w) PROVE JobsInv'
  BY <1>16 DEF Begin
<1>17. ASSUME NEW w \in Workspaces, EndSet(w) PROVE JobsInv'
  BY <1>17 DEF EndSet
<1>18. ASSUME Crash PROVE JobsInv'
  BY <1>18 DEF Crash
<1>19. ASSUME NEW w \in Workspaces, Reconcile(w) PROVE JobsInv'
  BY <1>19 DEF Reconcile, Eligible, Discardable, Removed
<1>20. ASSUME Restart PROVE JobsInv'
  BY <1>20 DEF Restart
<1>21. ASSUME NEW w \in Workspaces, Want(w) PROVE JobsInv'
  BY <1>21 DEF Want
<1>22. ASSUME NEW w \in Workspaces, Expire(w) PROVE JobsInv'
  BY <1>22 DEF Expire
<1>23. ASSUME ProjectChanges PROVE JobsInv'
  BY <1>23 DEF ProjectChanges
<1>24. CASE UNCHANGED vars
  BY <1>24
<1> QED
  BY <1>1, <1>2, <1>3, <1>4, <1>5, <1>6, <1>7, <1>8, <1>9, <1>10, <1>11, <1>12, <1>13, <1>14,
      <1>15, <1>16, <1>17, <1>18, <1>19, <1>20, <1>21, <1>22, <1>23, <1>24 DEF Next, Discarding

LEMMA WorkspaceTrees == WorkspaceInv /\ [Next]_vars => TreesHaveRows'
<1> SUFFICES ASSUME WorkspaceInv, [Next]_vars PROVE TreesHaveRows'
  OBVIOUS
<1> USE WorkspacesAssumption DEF WorkspaceInv, TypeOK, ActInv, RowsInv, RowInv, TreesHaveRows,
    vars, disk, data, jobs, server, rest, LoopFree, Idle, At, Go, Finish, Fault, SameFaults
<1>1. ASSUME NEW w \in Workspaces, AddTree(w) PROVE TreesHaveRows'
  BY <1>1 DEF AddTree
<1>2. ASSUME InsertRow PROVE TreesHaveRows'
  BY <1>2 DEF InsertRow
<1>3. ASSUME NEW w \in Workspaces, Discard(w) PROVE TreesHaveRows'
  BY <1>3 DEF Discard, Discardable
<1>4. ASSUME CancelAll PROVE TreesHaveRows'
  BY <1>4 DEF CancelAll
<1>5. ASSUME RemoveTree PROVE TreesHaveRows'
  BY <1>5 DEF RemoveTree, Removed, InUse
<1>6. ASSUME DropFiles PROVE TreesHaveRows'
  BY <1>6 DEF DropFiles
<1>7. ASSUME DropRows PROVE TreesHaveRows'
  BY <1>7 DEF DropRows
<1>8. ASSUME NEW w \in Workspaces, NEW j \in Jobs, Ask(j, w) PROVE TreesHaveRows'
  BY <1>8 DEF Ask
<1>9. ASSUME NEW j \in Jobs, Prepare(j) PROVE TreesHaveRows'
  BY <1>9 DEF Prepare
<1>10. ASSUME NEW j \in Jobs, Launch(j) PROVE TreesHaveRows'
  BY <1>10 DEF Launch, Living
<1>11. ASSUME NEW j \in Jobs, Register(j) PROVE TreesHaveRows'
  BY <1>11 DEF Register
<1>12. ASSUME NEW j \in Jobs, Edit(j) PROVE TreesHaveRows'
  BY <1>12 DEF Edit
<1>13. ASSUME NEW j \in Jobs, End(j) PROVE TreesHaveRows'
  BY <1>13 DEF End
<1>14. ASSUME NEW j \in Jobs, Answer(j) PROVE TreesHaveRows'
  BY <1>14 DEF Answer, Unlock
<1>15. ASSUME NEW j \in Jobs, Abandon(j) PROVE TreesHaveRows'
  BY <1>15 DEF Abandon, Unlock
<1>16. ASSUME NEW w \in Workspaces, Begin(w) PROVE TreesHaveRows'
  BY <1>16 DEF Begin
<1>17. ASSUME NEW w \in Workspaces, EndSet(w) PROVE TreesHaveRows'
  BY <1>17 DEF EndSet
<1>18. ASSUME Crash PROVE TreesHaveRows'
  BY <1>18 DEF Crash
<1>19. ASSUME NEW w \in Workspaces, Reconcile(w) PROVE TreesHaveRows'
  BY <1>19 DEF Reconcile, Eligible, Discardable, Removed
<1>20. ASSUME Restart PROVE TreesHaveRows'
  BY <1>20 DEF Restart
<1>21. ASSUME NEW w \in Workspaces, Want(w) PROVE TreesHaveRows'
  BY <1>21 DEF Want
<1>22. ASSUME NEW w \in Workspaces, Expire(w) PROVE TreesHaveRows'
  BY <1>22 DEF Expire
<1>23. ASSUME ProjectChanges PROVE TreesHaveRows'
  BY <1>23 DEF ProjectChanges
<1>24. CASE UNCHANGED vars
  BY <1>24
<1> QED
  BY <1>1, <1>2, <1>3, <1>4, <1>5, <1>6, <1>7, <1>8, <1>9, <1>10, <1>11, <1>12, <1>13, <1>14,
      <1>15, <1>16, <1>17, <1>18, <1>19, <1>20, <1>21, <1>22, <1>23, <1>24 DEF Next, Discarding

LEMMA WorkspaceGone == WorkspaceInv /\ [Next]_vars => DiscardedIsGone'
<1> SUFFICES ASSUME WorkspaceInv, [Next]_vars PROVE DiscardedIsGone'
  OBVIOUS
<1> USE WorkspacesAssumption DEF WorkspaceInv, TypeOK, ActInv, RowsInv, RowInv, JobsInv, JobInv,
    Of, Alive, DiscardedIsGone, vars, disk, data, jobs, server, rest, LoopFree, Idle, At, Go,
    Finish, Fault, SameFaults
<1>1. ASSUME NEW w \in Workspaces, AddTree(w) PROVE DiscardedIsGone'
  BY <1>1 DEF AddTree
<1>2. ASSUME InsertRow PROVE DiscardedIsGone'
  BY <1>2 DEF InsertRow
<1>3. ASSUME NEW w \in Workspaces, Discard(w) PROVE DiscardedIsGone'
  BY <1>3 DEF Discard, Discardable
<1>4. ASSUME CancelAll PROVE DiscardedIsGone'
  BY <1>4 DEF CancelAll
<1>5. ASSUME RemoveTree PROVE DiscardedIsGone'
  BY <1>5 DEF RemoveTree, Removed, InUse
<1>6. ASSUME DropFiles PROVE DiscardedIsGone'
  BY <1>6 DEF DropFiles
<1>7. ASSUME DropRows PROVE DiscardedIsGone'
  BY <1>7 DEF DropRows
<1>8. ASSUME NEW w \in Workspaces, NEW j \in Jobs, Ask(j, w) PROVE DiscardedIsGone'
  BY <1>8 DEF Ask
<1>9. ASSUME NEW j \in Jobs, Prepare(j) PROVE DiscardedIsGone'
  BY <1>9 DEF Prepare
<1>10. ASSUME NEW j \in Jobs, Launch(j) PROVE DiscardedIsGone'
  BY <1>10 DEF Launch, Living
<1>11. ASSUME NEW j \in Jobs, Register(j) PROVE DiscardedIsGone'
  BY <1>11 DEF Register
<1>12. ASSUME NEW j \in Jobs, Edit(j) PROVE DiscardedIsGone'
  BY <1>12 DEF Edit
<1>13. ASSUME NEW j \in Jobs, End(j) PROVE DiscardedIsGone'
  BY <1>13 DEF End
<1>14. ASSUME NEW j \in Jobs, Answer(j) PROVE DiscardedIsGone'
  BY <1>14 DEF Answer, Unlock
<1>15. ASSUME NEW j \in Jobs, Abandon(j) PROVE DiscardedIsGone'
  BY <1>15 DEF Abandon, Unlock
<1>16. ASSUME NEW w \in Workspaces, Begin(w) PROVE DiscardedIsGone'
  BY <1>16 DEF Begin
<1>17. ASSUME NEW w \in Workspaces, EndSet(w) PROVE DiscardedIsGone'
  BY <1>17 DEF EndSet
<1>18. ASSUME Crash PROVE DiscardedIsGone'
  BY <1>18 DEF Crash
<1>19. ASSUME NEW w \in Workspaces, Reconcile(w) PROVE DiscardedIsGone'
  BY <1>19 DEF Reconcile, Eligible, Discardable, Removed
<1>20. ASSUME Restart PROVE DiscardedIsGone'
  BY <1>20 DEF Restart
<1>21. ASSUME NEW w \in Workspaces, Want(w) PROVE DiscardedIsGone'
  BY <1>21 DEF Want
<1>22. ASSUME NEW w \in Workspaces, Expire(w) PROVE DiscardedIsGone'
  BY <1>22 DEF Expire
<1>23. ASSUME ProjectChanges PROVE DiscardedIsGone'
  BY <1>23 DEF ProjectChanges
<1>24. CASE UNCHANGED vars
  BY <1>24
<1> QED
  BY <1>1, <1>2, <1>3, <1>4, <1>5, <1>6, <1>7, <1>8, <1>9, <1>10, <1>11, <1>12, <1>13, <1>14,
      <1>15, <1>16, <1>17, <1>18, <1>19, <1>20, <1>21, <1>22, <1>23, <1>24 DEF Next, Discarding

LEMMA WorkspaceInvariance == Spec => []WorkspaceInv
<1>1. WorkspaceInv /\ [Next]_vars => WorkspaceInv'
  BY WorkspaceType, WorkspaceAct, WorkspaceRows, WorkspaceJobs, WorkspaceTrees, WorkspaceGone
     DEF WorkspaceInv
<1> QED
  BY <1>1, WorkspaceInit, PTL DEF Spec

(* create_workspace and discard_workspace, cut at any point by crashes,    *)
(* failing files and the threads of other requests, never leave a tree     *)
(* without a row nor, of a workspace that is gone, more than what a crash  *)
(* or a cancelled request left to itself.                                  *)
THEOREM NothingIsLeftBehind == Spec => []NothingIsForgotten
<1>1. WorkspaceInv => NothingIsForgotten
  BY DEF WorkspaceInv, NothingIsForgotten
<1> QED
  BY <1>1, WorkspaceInvariance, PTL

(* reconcile_runtime_state discards no workspace with edits, with a change *)
(* set in progress or with a process that the crash interrupted.           *)
THEOREM CleanupIsCareful == Spec => CleanupLosesNothing
<1>1. WorkspaceInv /\ [Next]_vars =>
        [\A w \in Workspaces : ~ up /\ w \in rows \ rows' =>
           w \notin edits \cup open \cup interrupted /\ tree'[w] = "none"]_vars
  <2> SUFFICES ASSUME WorkspaceInv, Next, NEW v \in Workspaces, ~ up, v \in rows \ rows'
               PROVE  v \notin edits \cup open \cup interrupted /\ tree'[v] = "none"
    OBVIOUS
  <2>1. ASSUME NEW w \in Workspaces, Reconcile(w)
        PROVE  v \notin edits \cup open \cup interrupted /\ tree'[v] = "none"
    BY <2>1 DEF Reconcile, Eligible, Discardable, Removed, WorkspaceInv, TypeOK
  <2>2. ASSUME DropRows PROVE FALSE
    BY <2>2 DEF DropRows, At, WorkspaceInv, ActInv
  <2>3. CASE rows \subseteq rows'
    BY <2>3
  <2> QED
    BY <2>1, <2>2, <2>3 DEF Next, Discarding, data, AddTree, InsertRow, Discard, CancelAll,
        RemoveTree, DropFiles, Ask, Prepare, Launch, Register, Edit, End, Answer, Abandon, Begin,
        EndSet, Crash, Restart, Want, Expire, ProjectChanges
<1> QED
  BY <1>1, WorkspaceInvariance, PTL DEF Spec, CleanupLosesNothing

-----------------------------------------------------------------------------
(* Supervisor.  First the back-off: the power it raises the multiplier to  *)
(* is a natural number, by induction over the least counterexample.        *)

LEMMA NaturalInduction ==
  ASSUME NEW T, 0 \in T, \A n \in Nat : n \in T => n + 1 \in T
  PROVE  Nat \subseteq T
<1> DEFINE B == Nat \ T
<1> SUFFICES ASSUME B # {} PROVE FALSE
  OBVIOUS
<1>1. PICK x \in B : \A y \in B : ~ (<<y, x>> \in OpToRel(<, Nat))
  <2> HIDE DEF B
  <2>1. B \subseteq Nat
    BY DEF B
  <2> QED
    BY <2>1, NatLessThanWellFounded, WFMin
<1>2. x \in Nat /\ x # 0 /\ x - 1 \in Nat /\ x - 1 < x
  OBVIOUS
<1>3. x - 1 \notin B
  BY <1>1, <1>2 DEF OpToRel
<1> QED
  BY <1>2, <1>3

(* The powers up to n.                                                     *)
IsPowers(g, n) ==
  /\ g \in [0 .. n -> Nat]
  /\ \A i \in 0 .. n : g[i] = IF i = 0 THEN 1 ELSE Multiplier * g[i - 1]

LEMMA PowersExist == \A n \in Nat : \E g : IsPowers(g, n)
<1> DEFINE T == {n \in Nat : \E g : IsPowers(g, n)}
<1>1. 0 \in T
  <2>1. IsPowers([i \in 0 .. 0 |-> 1], 0)
    BY DEF IsPowers
  <2> QED
    BY <2>1
<1>2. ASSUME NEW n \in Nat, n \in T PROVE n + 1 \in T
  <2>1. PICK g : IsPowers(g, n)
    BY <1>2
  <2> DEFINE h == [i \in 0 .. n + 1 |-> IF i = n + 1 THEN Multiplier * g[n] ELSE g[i]]
  <2>2. Multiplier * g[n] \in Nat
    BY <2>1, SupervisorAssumption DEF IsPowers
  <2>3. IsPowers(h, n + 1)
    BY <2>1, <2>2 DEF IsPowers
  <2> QED
    BY <2>3
<1> QED
  BY <1>1, <1>2, NaturalInduction

LEMMA PowersAgree ==
  ASSUME NEW m \in Nat, NEW n \in Nat, NEW g, NEW h, IsPowers(g, m), IsPowers(h, n)
  PROVE  \A i \in Nat : i <= m /\ i <= n => g[i] = h[i]
<1> DEFINE T == {i \in Nat : i <= m /\ i <= n => g[i] = h[i]}
<1>1. 0 \in T
  BY DEF IsPowers
<1>2. ASSUME NEW i \in Nat, i \in T PROVE i + 1 \in T
  BY <1>2 DEF IsPowers
<1> QED
  BY <1>1, <1>2, NaturalInduction

LEMMA PowerType == \A n \in Nat : Power[n] \in Nat
<1> DEFINE F == [n \in Nat |-> (CHOOSE g : IsPowers(g, n))[n]]
           Def(g) == [n \in Nat |-> IF n = 0 THEN 1 ELSE Multiplier * g[n - 1]]
<1>1. \A n \in Nat : IsPowers(CHOOSE g : IsPowers(g, n), n)
  BY PowersExist
<1>2. ASSUME NEW n \in Nat
      PROVE  F[n] = IF n = 0 THEN 1 ELSE Multiplier * F[n - 1]
  <2> DEFINE g == CHOOSE x : IsPowers(x, n)
             h == CHOOSE x : IsPowers(x, n - 1)
  <2>1. F[n] = g[n] /\ IsPowers(g, n)
    BY <1>1
  <2>2. CASE n = 0
    BY <2>1, <2>2 DEF IsPowers
  <2>3. CASE n # 0
    <3>1. n - 1 \in Nat /\ F[n - 1] = h[n - 1] /\ IsPowers(h, n - 1)
      BY <1>1, <2>3
    <3> HIDE DEF g, h, F
    <3>2. h[n - 1] = g[n - 1]
      BY <2>1, <3>1, PowersAgree
    <3>3. g[n] = Multiplier * g[n - 1]
      BY <2>1, <2>3 DEF IsPowers
    <3> QED
      BY <2>1, <2>3, <3>1, <3>2, <3>3
  <2> QED
    BY <2>2, <2>3
<1>3. F = Def(F)
  <2> HIDE DEF F
  <2>1. F = [n \in Nat |-> F[n]]
    BY DEF F
  <2> QED
    BY <1>2, <2>1
<1>4. Power = Def(Power)
  <2>1. Power = CHOOSE g : g = Def(g)
    BY DEF Power
  <2> HIDE DEF F, Def
  <2> QED
    BY <1>3, <2>1
<1> DEFINE T == {n \in Nat : Power[n] \in Nat}
<1>5. 0 \in T
  BY <1>4
<1>6. ASSUME NEW n \in Nat, n \in T PROVE n + 1 \in T
  <2>1. Power[n + 1] = Multiplier * Power[n]
    BY <1>4
  <2> QED
    BY <2>1, <1>6, SupervisorAssumption
<1> QED
  BY <1>5, <1>6, NaturalInduction

(* ChildRuntime with at most n consecutive failures.                       *)
Kids(n) ==
  [proc : LiveStates \cup {"none", "exited"}, state : ChildStates, wait : 0 .. MaxDelay,
   bad : -1 .. StartTimeout, age : 0 .. StableReset, failures : 0 .. n]

Fields == {"proc", "state", "wait", "bad", "age", "failures"}
SameBut(r, k, f) == \A g \in Fields \ {f} : r[g] = k[g]

(* A record of a child with one field replaced.                            *)
LEMMA KidUpdates ==
  ASSUME NEW n, NEW m, NEW k \in Kids(n)
  PROVE  /\ \A v \in LiveStates \cup {"none", "exited"} :
              LET r == [k EXCEPT !.proc = v]
              IN  r \in Kids(n) /\ r.proc = v /\ SameBut(r, k, "proc")
         /\ \A v \in ChildStates :
              LET r == [k EXCEPT !.state = v]
              IN  r \in Kids(n) /\ r.state = v /\ SameBut(r, k, "state")
         /\ \A v \in 0 .. MaxDelay :
              LET r == [k EXCEPT !.wait = v]
              IN  r \in Kids(n) /\ r.wait = v /\ SameBut(r, k, "wait")
         /\ \A v \in -1 .. StartTimeout :
              LET r == [k EXCEPT !.bad = v]
              IN  r \in Kids(n) /\ r.bad = v /\ SameBut(r, k, "bad")
         /\ \A v \in 0 .. StableReset :
              LET r == [k EXCEPT !.age = v]
              IN  r \in Kids(n) /\ r.age = v /\ SameBut(r, k, "age")
         /\ \A v \in 0 .. m :
              LET r == [k EXCEPT !.failures = v]
              IN  r \in Kids(m) /\ r.failures = v /\ SameBut(r, k, "failures")
<1> USE DEF Kids, Fields, SameBut
<1>1. ASSUME NEW v \in LiveStates \cup {"none", "exited"}
      PROVE  LET r == [k EXCEPT !.proc = v]
             IN  r \in Kids(n) /\ r.proc = v /\ SameBut(r, k, "proc")
  OBVIOUS
<1>2. ASSUME NEW v \in ChildStates
      PROVE  LET r == [k EXCEPT !.state = v]
             IN  r \in Kids(n) /\ r.state = v /\ SameBut(r, k, "state")
  OBVIOUS
<1>3. ASSUME NEW v \in 0 .. MaxDelay
      PROVE  LET r == [k EXCEPT !.wait = v]
             IN  r \in Kids(n) /\ r.wait = v /\ SameBut(r, k, "wait")
  OBVIOUS
<1>4. ASSUME NEW v \in -1 .. StartTimeout
      PROVE  LET r == [k EXCEPT !.bad = v]
             IN  r \in Kids(n) /\ r.bad = v /\ SameBut(r, k, "bad")
  OBVIOUS
<1>5. ASSUME NEW v \in 0 .. StableReset
      PROVE  LET r == [k EXCEPT !.age = v]
             IN  r \in Kids(n) /\ r.age = v /\ SameBut(r, k, "age")
  OBVIOUS
<1>6. ASSUME NEW v \in 0 .. m
      PROVE  LET r == [k EXCEPT !.failures = v]
             IN  r \in Kids(m) /\ r.failures = v /\ SameBut(r, k, "failures")
  OBVIOUS
<1> HIDE DEF Kids, Fields, SameBut
<1> QED
  BY <1>1, <1>2, <1>3, <1>4, <1>5, <1>6

LEMMA HealthyKid ==
  ASSUME NEW n, NEW k \in Kids(n)
  PROVE  LET r == [k EXCEPT !.bad = -1]
         IN  r \in Kids(n) /\ SameBut(r, k, "bad")
<1>1. -1 \in -1 .. StartTimeout
  BY SupervisorAssumption
<1> QED
  BY <1>1 DEF Kids, Fields, SameBut

LEMMA NewChildType == NewChild \in Kids(MaxPower + 1)
BY SupervisorAssumption DEF NewChild, Kids, LiveStates, ChildStates

LEMMA KidsGrow == Kids(MaxPower + 1) \subseteq Kids(MaxPower + 2)
BY SupervisorAssumption DEF Kids

LEMMA KidsOverflow ==
  ASSUME NEW k \in Kids(MaxPower + 2), ~ Overflowed(k)
  PROVE  k \in Kids(MaxPower + 1)
BY SupervisorAssumption DEF Kids, Overflowed

LEMMA RetriedType ==
  ASSUME NEW k \in Kids(MaxPower + 1), NEW lag \in Nat
  PROVE  /\ Retried(k, lag) \in Kids(MaxPower + 2)
         /\ Retried(k, lag).proc = k.proc /\ Retried(k, lag).state = "backoff"
<1> DEFINE p == Power[k.failures]
           delay == Least(InitialDelay * p, MaxDelay)
           wait == Most(0, delay - lag)
           k1 == [k EXCEPT !.failures = k.failures + 1]
           k2 == [k1 EXCEPT !.state = "backoff"]
           k3 == [k2 EXCEPT !.wait = wait]
<1>1. p \in Nat /\ k.failures + 1 \in 0 .. MaxPower + 2
  BY PowerType, SupervisorAssumption DEF Kids
<1> HIDE DEF p
<1>2. InitialDelay * p \in Nat
  BY <1>1, SupervisorAssumption
<1>3. delay \in 0 .. MaxDelay
  BY <1>2, SupervisorAssumption DEF Least
<1> HIDE DEF delay
<1>4. wait \in 0 .. MaxDelay
  BY <1>3, SupervisorAssumption DEF Most
<1>5. Retried(k, lag) = k3
  BY DEF Retried, delay, p
<1> HIDE DEF wait
<1>6. k1 \in Kids(MaxPower + 2) /\ SameBut(k1, k, "failures")
  BY <1>1, KidUpdates
<1> HIDE DEF k1
<1>7. k2 \in Kids(MaxPower + 2) /\ k2.state = "backoff" /\ SameBut(k2, k1, "state")
  BY <1>6, KidUpdates DEF ChildStates
<1> HIDE DEF k2
<1>8. k3 \in Kids(MaxPower + 2) /\ SameBut(k3, k2, "wait")
  BY <1>4, <1>7, KidUpdates
<1> QED
  BY <1>5, <1>6, <1>7, <1>8 DEF SameBut, Fields

LEMMA LaterType ==
  ASSUME NEW n, NEW k \in Kids(n), NEW d \in Nat
  PROVE  /\ Later(k, d) \in Kids(n)
         /\ Later(k, d).proc = k.proc /\ Later(k, d).state = k.state
         /\ Later(k, d).failures = k.failures
<1> DEFINE wait == Most(0, k.wait - d)
           age == Least(StableReset, k.age + d)
           bad == IF k.bad = -1 THEN -1 ELSE Least(StartTimeout, k.bad + d)
           k1 == [k EXCEPT !.wait = wait]
           k2 == [k1 EXCEPT !.age = age]
           k3 == [k2 EXCEPT !.bad = bad]
<1>1. wait \in 0 .. MaxDelay /\ age \in 0 .. StableReset /\ bad \in -1 .. StartTimeout
  BY SupervisorAssumption DEF Kids, Most, Least
<1>2. Later(k, d) = k3
  BY DEF Later
<1> HIDE DEF wait, age, bad
<1>3. k1 \in Kids(n) /\ SameBut(k1, k, "wait")
  BY <1>1, KidUpdates
<1> HIDE DEF k1
<1>4. k2 \in Kids(n) /\ SameBut(k2, k1, "age")
  BY <1>1, <1>3, KidUpdates
<1> HIDE DEF k2
<1>5. k3 \in Kids(n) /\ SameBut(k3, k2, "bad")
  BY <1>1, <1>4, KidUpdates
<1> QED
  BY <1>2, <1>3, <1>4, <1>5 DEF SameBut, Fields

LEMMA StoppedType ==
  ASSUME NEW n, NEW k \in Kids(n)
  PROVE  Stopped(k) \in Kids(n) /\ Stopped(k).proc = "none"
<1> DEFINE k1 == [k EXCEPT !.proc = "none"]
           k2 == [k1 EXCEPT !.bad = -1]
           k3 == [k2 EXCEPT !.state = "stopped"]
<1>1. Stopped(k) = k3
  BY DEF Stopped
<1>2. k1 \in Kids(n) /\ k1.proc = "none"
  BY KidUpdates
<1> HIDE DEF k1
<1>3. k2 \in Kids(n) /\ SameBut(k2, k1, "bad")
  BY <1>2, HealthyKid
<1> HIDE DEF k2
<1>4. k3 \in Kids(n) /\ SameBut(k3, k2, "state")
  BY <1>3, KidUpdates DEF ChildStates
<1> QED
  BY <1>1, <1>2, <1>3, <1>4 DEF SameBut, Fields

(* Noticing an exit; a child that runs is left alone.                      *)
LEMMA ObservedType ==
  ASSUME NEW k \in Kids(MaxPower + 1)
  PROVE  /\ Observed(k) \in Kids(MaxPower + 2)
         /\ Observed(k).proc # "exited"
         /\ Observed(k) = k \/ (Observed(k).proc = "none" /\ Observed(k).state = "backoff")
<1>1. CASE k.proc = "exited"
  <2> DEFINE k1 == [k EXCEPT !.proc = "none"]
             k2 == [k1 EXCEPT !.bad = -1]
  <2>1. Observed(k) = Retried(k2, 0)
    <3>1. k2 = [k EXCEPT !.proc = "none", !.bad = -1]
      OBVIOUS
    <3> QED
      BY <1>1, <3>1 DEF Observed
  <2>2. k1 \in Kids(MaxPower + 1) /\ k1.proc = "none"
    BY KidUpdates
  <2> HIDE DEF k1
  <2>3. k2 \in Kids(MaxPower + 1) /\ SameBut(k2, k1, "bad")
    BY <2>2, HealthyKid
  <2>4. k2.proc = "none"
    BY <2>2, <2>3 DEF SameBut, Fields
  <2> HIDE DEF k2
  <2> QED
    BY <2>1, <2>3, <2>4, RetriedType
<1>2. CASE k.proc # "exited"
  BY <1>2, KidsGrow DEF Observed
<1> QED
  BY <1>1, <1>2

LEMMA LaunchedType ==
  ASSUME NEW k \in Kids(MaxPower + 1), k.proc = "none", NEW j \in Launched(k)
  PROVE  /\ j \in Kids(MaxPower + 2) /\ j.state # "healthy" /\ j.proc \in {"none", "booting"}
<1> DEFINE k1 == [k EXCEPT !.proc = "booting"]
           k2 == [k1 EXCEPT !.state = "starting"]
           k3 == [k2 EXCEPT !.age = 0]
           k4 == [k3 EXCEPT !.bad = 0]
<1>1. /\ Retried(k, 0) \in Kids(MaxPower + 2)
      /\ Retried(k, 0).proc = "none" /\ Retried(k, 0).state = "backoff"
  BY RetriedType
<1>2. j = k4 \/ j = Retried(k, 0)
  <2>1. k4 = [k EXCEPT !.proc = "booting", !.state = "starting", !.age = 0, !.bad = 0]
    OBVIOUS
  <2> HIDE DEF k4
  <2> QED
    BY <2>1 DEF Launched
<1>2a. "booting" \in LiveStates \cup {"none", "exited"}
  BY DEF LiveStates
<1>3. k1 \in Kids(MaxPower + 1) /\ k1.proc = "booting"
  BY <1>2a, KidUpdates
<1> HIDE DEF k1
<1>4. k2 \in Kids(MaxPower + 1) /\ k2.state = "starting" /\ SameBut(k2, k1, "state")
  BY <1>3, KidUpdates DEF ChildStates
<1> HIDE DEF k2
<1>5. k3 \in Kids(MaxPower + 1) /\ SameBut(k3, k2, "age")
  BY <1>4, KidUpdates, SupervisorAssumption
<1> HIDE DEF k3
<1>6. k4 \in Kids(MaxPower + 1) /\ SameBut(k4, k3, "bad")
  BY <1>5, KidUpdates, SupervisorAssumption
<1>7. k4.proc = "booting" /\ k4.state = "starting"
  BY <1>3, <1>4, <1>5, <1>6 DEF SameBut, Fields
<1> HIDE DEF k4
<1> QED
  BY <1>1, <1>2, <1>6, <1>7, KidsGrow

(* A probe starts nothing, and finds a child healthy only when it answers. *)
LEMMA ProbedType ==
  ASSUME NEW c \in Children, NEW k \in Kids(MaxPower + 1)
  PROVE  /\ Probed(c, k) \in Kids(MaxPower + 2)
         /\ k.proc = "none" => Probed(c, k) = k
         /\ k.proc # "none" /\ Probed(c, k).state = "healthy" =>
              Answers(c, k) /\ Probed(c, k).proc = k.proc
<1>1. CASE k.proc = "none"
  BY <1>1, KidsGrow DEF Probed
<1>2. CASE k.proc # "none" /\ Answers(c, k)
  <2> DEFINE v == IF k.age >= StableReset THEN 0 ELSE k.failures
             k1 == [k EXCEPT !.state = "healthy"]
             k2 == [k1 EXCEPT !.bad = -1]
             k3 == [k2 EXCEPT !.failures = v]
  <2>1. Probed(c, k) = k3
    <3>1. k3 = [k EXCEPT !.state = "healthy", !.bad = -1,
                         !.failures = IF k.age >= StableReset THEN 0 ELSE @]
      OBVIOUS
    <3> HIDE DEF k3
    <3> QED
      BY <1>2, <3>1 DEF Probed
  <2>2. k1 \in Kids(MaxPower + 1) /\ SameBut(k1, k, "state")
    BY KidUpdates DEF ChildStates
  <2> HIDE DEF k1
  <2>3. k2 \in Kids(MaxPower + 1) /\ SameBut(k2, k1, "bad")
    BY <2>2, HealthyKid
  <2>4. v \in 0 .. MaxPower + 2
    BY SupervisorAssumption DEF Kids
  <2> HIDE DEF k2, v
  <2>5. k3 \in Kids(MaxPower + 2) /\ SameBut(k3, k2, "failures")
    BY <2>3, <2>4, KidUpdates
  <2>6. k3.proc = k.proc
    BY <2>2, <2>3, <2>5 DEF SameBut, Fields
  <2> HIDE DEF k3
  <2> QED
    BY <1>2, <2>1, <2>5, <2>6
<1>3. CASE k.proc # "none" /\ ~ Answers(c, k)
  <2> DEFINE k1 == [k EXCEPT !.state = "starting"]
             k2 == [k1 EXCEPT !.bad = Most(0, k.bad)]
  <2>1. Probed(c, k) = IF k2.bad >= StartTimeout THEN Retried(Stopped(k2), 0) ELSE k2
    <3>1. k2 = [k EXCEPT !.state = "starting", !.bad = Most(0, @)]
      OBVIOUS
    <3> HIDE DEF k2
    <3> QED
      BY <1>3, <3>1 DEF Probed
  <2>2. k1 \in Kids(MaxPower + 1) /\ k1.state = "starting" /\ SameBut(k1, k, "state")
    BY KidUpdates DEF ChildStates
  <2>3. Most(0, k.bad) \in -1 .. StartTimeout
    BY SupervisorAssumption DEF Kids, Most
  <2> HIDE DEF k1
  <2>4. k2 \in Kids(MaxPower + 1) /\ SameBut(k2, k1, "bad")
    BY <2>2, <2>3, KidUpdates
  <2>5. k2.state = "starting"
    BY <2>2, <2>4 DEF SameBut, Fields
  <2> HIDE DEF k2
  <2>6. Stopped(k2) \in Kids(MaxPower + 1)
    BY <2>4, StoppedType
  <2>7. /\ Retried(Stopped(k2), 0) \in Kids(MaxPower + 2)
        /\ Retried(Stopped(k2), 0).state = "backoff"
    BY <2>6, RetriedType
  <2> QED
    BY <1>3, <2>1, <2>4, <2>5, <2>7, KidsGrow
<1> QED
  BY <1>1, <1>2, <1>3

-----------------------------------------------------------------------------
(* What is left behind are processes that live.                            *)
LEMMA StrayType ==
  /\ Orphans \subseteq Children \X LiveStates
  /\ \A c \in Children : \A s \in LeftBehind(c) :
       /\ s \subseteq Children \X LiveStates
       /\ \A x \in s : x[1] \in Stubborn
BY DEF Orphans, LeftBehind, Live

Flags ==
  /\ proxySeen \in BOOLEAN /\ fresh \in BOOLEAN /\ stopFile \in BOOLEAN
  /\ status \in {"stopped", "stopping", "starting", "healthy", "degraded", "starting_mcp",
                 "waiting_for_proxy", "starting_tunnel"}
  /\ asked \in {"no", "decided", "waiting"}
  /\ proxy \in BOOLEAN /\ calm \in BOOLEAN

Phases == {"off", "recover", "loop", "tunnel", "doctor", "probe", "sleep", "closing", "failing"}
StrayOK == stray \subseteq Children \X LiveStates
ChildOK == child \in [Children -> Kids(MaxPower + 2)]

(* Only a supervisor that is about to end has a child whose back-off has   *)
(* overflowed; one that is off or recovers has no child yet; a tunnel is   *)
(* examined before its start, for a healthy server.                                   *)
NoneOverflowed == phase # "failing" => \A c \in Children : ~ Overflowed(child[c])
NoneYet == phase \in {"off", "recover"} => child = Initial
DoctorOK ==
  phase = "doctor" =>
    child.mcp.state = "healthy" /\ proxySeen /\ child.tunnel.proc = "none"

SupervisorInv ==
  /\ phase \in Phases /\ ChildOK /\ Flags /\ StrayOK
  /\ TunnelNeedsServer /\ HealthyIsOwn
  /\ NoneOverflowed /\ NoneYet /\ DoctorOK

LEMMA SupervisorInvImplies == SupervisorInv => DependenciesHold
BY DEF SupervisorInv, DependenciesHold, SupervisorTypeOK, Phases, ChildOK, Kids, Flags, StrayOK

LEMMA InitialType ==
  /\ Initial \in [Children -> Kids(MaxPower + 2)]
  /\ \A c \in Children : /\ Initial[c] = NewChild /\ Initial[c].proc = "none"
                         /\ Initial[c].state = "stopped" /\ ~ Overflowed(Initial[c])
<1>1. NewChild \in Kids(MaxPower + 2)
  BY NewChildType, KidsGrow
<1>2. NewChild.proc = "none" /\ NewChild.state = "stopped" /\ ~ Overflowed(NewChild)
  BY SupervisorAssumption DEF NewChild, Overflowed
<1> QED
  BY <1>1, <1>2 DEF Initial

LEMMA SupervisorInitInv == SupervisorInit => SupervisorInv
BY InitialType DEF SupervisorInv, SupervisorInit, Phases, ChildOK, Flags, StrayOK,
   TunnelNeedsServer,
   HealthyIsOwn, NoneOverflowed, NoneYet, DoctorOK, Children

(* The supervisor is gone, and with it every child it looked after.        *)
LEMMA Gone ==
  ASSUME phase' = "off", child' = Initial
  PROVE  /\ phase' \in Phases /\ ChildOK' /\ TunnelNeedsServer' /\ HealthyIsOwn'
         /\ NoneOverflowed' /\ NoneYet' /\ DoctorOK'
BY InitialType DEF Phases, ChildOK, TunnelNeedsServer, HealthyIsOwn, NoneOverflowed, NoneYet,
   DoctorOK, Children

(* A step that leaves the children alone.                                  *)
LEMMA ChildKept ==
  ASSUME SupervisorInv, child' = child
  PROVE  ChildOK' /\ HealthyIsOwn' /\ (phase # "failing" => NoneOverflowed')
BY DEF SupervisorInv, ChildOK, HealthyIsOwn, NoneOverflowed, Overflowed

(* A step after which the service is as it was.                            *)
LEMMA ServiceKept ==
  ASSUME SupervisorInv, UNCHANGED service, UNCHANGED <<proxy, calm>>,
         stopFile' \in BOOLEAN, asked' \in {"no", "decided", "waiting"}, StrayOK'
  PROVE  SupervisorInv'
BY DEF SupervisorInv, service, Phases, ChildOK, Flags, TunnelNeedsServer,
   HealthyIsOwn, NoneOverflowed, NoneYet, DoctorOK, Overflowed

-----------------------------------------------------------------------------

LEMMA StartStep == SupervisorInv /\ Start => SupervisorInv'
<1> SUFFICES ASSUME SupervisorInv, Start PROVE SupervisorInv'
  OBVIOUS
<1>1. /\ phase' = "recover" /\ child' = Initial
  BY DEF Start
<1>2. /\ phase' \in Phases /\ ChildOK' /\ TunnelNeedsServer' /\ HealthyIsOwn'
      /\ NoneOverflowed' /\ NoneYet' /\ DoctorOK'
  BY <1>1, InitialType DEF Phases, ChildOK, TunnelNeedsServer, HealthyIsOwn, NoneOverflowed,
     NoneYet, DoctorOK, Children
<1>3. Flags' /\ StrayOK'
  BY DEF SupervisorInv, Start, world, Flags, StrayOK
<1> QED
  BY <1>2, <1>3 DEF SupervisorInv

LEMMA RecoverStep == SupervisorInv /\ Recover => SupervisorInv'
<1> SUFFICES ASSUME SupervisorInv, Recover PROVE SupervisorInv'
  OBVIOUS
<1>1. /\ phase = "recover" /\ phase' \in {"loop", "failing"} /\ child' = child
      /\ child = Initial
  BY DEF SupervisorInv, Recover, NoneYet
<1>2. ChildOK' /\ HealthyIsOwn' /\ NoneOverflowed'
  BY <1>1, ChildKept
<1>3. phase' \in Phases /\ TunnelNeedsServer' /\ NoneYet' /\ DoctorOK'
  BY <1>1, InitialType DEF Phases, TunnelNeedsServer, NoneYet, DoctorOK, Children
<1>4. Flags' /\ StrayOK'
  BY DEF SupervisorInv, Recover, Publish, PublishFails, world, Flags, StrayOK
<1> QED
  BY <1>2, <1>3, <1>4 DEF SupervisorInv

(* The server's half of a tick: a server that is healthy afterwards        *)
(* answered as the supervisor's own process.                               *)
LEMMA ServerTurnsType ==
  ASSUME NEW k \in Kids(MaxPower + 1), k.proc # "exited",
         Windows /\ k.state = "healthy" => k.proc \in {"up", "hung"},
         NEW j \in ServerTurns(k)
  PROVE  /\ j \in Kids(MaxPower + 2)
         /\ Windows /\ j.state = "healthy" => j.proc \in {"up", "hung"}
<1>1. PICK i \in IF k.proc = "none" /\ k.wait = 0 THEN Launched(k) ELSE {k} :
        j = IF Overflowed(i) THEN i ELSE Probed("mcp", i)
  BY DEF ServerTurns
<1>2. /\ i \in Kids(MaxPower + 2)
      /\ Windows /\ i.state = "healthy" => i.proc \in {"up", "hung"}
  <2>1. CASE k.proc = "none" /\ k.wait = 0
    BY <1>1, <2>1, LaunchedType
  <2>2. CASE ~ (k.proc = "none" /\ k.wait = 0)
    BY <1>1, <2>2, KidsGrow
  <2> QED
    BY <2>1, <2>2
<1>3. CASE Overflowed(i)
  BY <1>1, <1>2, <1>3
<1>4. CASE ~ Overflowed(i)
  <2>1. i \in Kids(MaxPower + 1) /\ "mcp" \in Children
    BY <1>2, <1>4, KidsOverflow DEF Children
  <2>2. /\ Probed("mcp", i) \in Kids(MaxPower + 2)
        /\ i.proc = "none" => Probed("mcp", i) = i
        /\ i.proc # "none" /\ Probed("mcp", i).state = "healthy" =>
             Answers("mcp", i) /\ Probed("mcp", i).proc = i.proc
    BY <2>1, ProbedType
  <2>3. j = Probed("mcp", i)
    BY <1>1, <1>4
  <2>4. Windows /\ Answers("mcp", i) => i.proc \in {"up", "hung"}
    BY DEF Answers, Owns
  <2> QED
    BY <1>2, <2>2, <2>3, <2>4
<1> QED
  BY <1>3, <1>4

LEMMA TickServerStep == SupervisorInv /\ TickServer => SupervisorInv'
<1> SUFFICES ASSUME SupervisorInv, TickServer PROVE SupervisorInv'
  OBVIOUS
<1> DEFINE noticed == [c \in Children |-> Observed(child[c])]
           raised == \E c \in Children : Overflowed(noticed[c])
<1>1. PICK k \in IF raised THEN {noticed.mcp} ELSE ServerTurns(noticed.mcp) :
        /\ child' = [noticed EXCEPT !.mcp = k]
        /\ phase' = IF raised \/ Overflowed(k) THEN "failing" ELSE "tunnel"
        /\ \E left \in IF k.proc = "none" THEN LeftBehind("mcp") ELSE {{}} :
             stray' = stray \cup left
  BY DEF TickServer
<1>2. /\ phase = "loop"
      /\ UNCHANGED <<proxySeen, status, fresh, stopFile, asked, proxy, calm>>
  BY DEF TickServer
<1>3. "mcp" \in Children /\ "tunnel" \in Children
  BY DEF Children
<1>4. \A c \in Children : child[c] \in Kids(MaxPower + 1)
  <2>1. TAKE c \in Children
  <2>2. child[c] \in Kids(MaxPower + 2) /\ ~ Overflowed(child[c])
    BY <1>2 DEF SupervisorInv, ChildOK, NoneOverflowed
  <2> QED
    BY <2>2, KidsOverflow
<1>5. \A c \in Children :
        /\ noticed[c] \in Kids(MaxPower + 2)
        /\ noticed[c].proc # "exited"
        /\ noticed[c] = child[c] \/ (noticed[c].proc = "none" /\ noticed[c].state = "backoff")
  BY <1>4, ObservedType
<1>6. Windows /\ noticed.mcp.state = "healthy" => noticed.mcp.proc \in {"up", "hung"}
  BY <1>3, <1>5 DEF SupervisorInv, HealthyIsOwn
<1>7. noticed = [c \in Children |-> noticed[c]]
  OBVIOUS
<1> HIDE DEF noticed
<1>8. /\ k \in Kids(MaxPower + 2)
      /\ Windows /\ k.state = "healthy" => k.proc \in {"up", "hung"}
  <2>1. CASE raised
    BY <1>1, <1>3, <1>5, <1>6, <2>1
  <2>2. CASE ~ raised
    <3>1. noticed.mcp \in Kids(MaxPower + 1)
      BY <1>3, <1>5, <2>2, KidsOverflow
    <3>2. k \in ServerTurns(noticed.mcp)
      BY <1>1, <2>2
    <3> QED
      BY <1>3, <1>5, <1>6, <3>1, <3>2, ServerTurnsType
  <2> QED
    BY <2>1, <2>2
<1>9. /\ child' = [c \in Children |-> IF c = "mcp" THEN k ELSE noticed[c]]
  BY <1>1, <1>7
<1>10. ChildOK' /\ HealthyIsOwn'
  BY <1>3, <1>5, <1>8, <1>9 DEF ChildOK, HealthyIsOwn
<1>11. phase' \in {"failing", "tunnel"} /\ NoneOverflowed'
  BY <1>1, <1>9 DEF NoneOverflowed
<1>12. phase' \in Phases /\ TunnelNeedsServer' /\ NoneYet' /\ DoctorOK'
  BY <1>11 DEF Phases, TunnelNeedsServer, NoneYet, DoctorOK
<1>13. Flags' /\ StrayOK'
  BY <1>1, <1>2, <1>3, StrayType DEF SupervisorInv, Flags, StrayOK
<1> QED
  BY <1>10, <1>11, <1>12, <1>13 DEF SupervisorInv

(* Each child as it is while the supervisor has not failed.                *)
LEMMA Running ==
  ASSUME SupervisorInv, phase # "failing"
  PROVE  /\ "mcp" \in Children /\ "tunnel" \in Children
         /\ \A c \in Children : child[c] \in Kids(MaxPower + 1)
         /\ child = [c \in Children |-> child[c]]
<1>1. "mcp" \in Children /\ "tunnel" \in Children
  BY DEF Children
<1>2. ASSUME NEW c \in Children PROVE child[c] \in Kids(MaxPower + 1)
  <2>1. child[c] \in Kids(MaxPower + 2) /\ ~ Overflowed(child[c])
    BY DEF SupervisorInv, ChildOK, NoneOverflowed
  <2> QED
    BY <2>1, KidsOverflow
<1> QED
  BY <1>1, <1>2 DEF SupervisorInv, ChildOK

LEMMA TickTunnelStep == SupervisorInv /\ TickTunnel => SupervisorInv'
<1> SUFFICES ASSUME SupervisorInv, TickTunnel PROVE SupervisorInv'
  OBVIOUS
<1>1. /\ phase = "tunnel" /\ proxySeen' = proxy
      /\ UNCHANGED <<status, fresh, stopFile, asked, proxy, calm>>
  BY DEF TickTunnel
<1>2. Flags'
  BY <1>1 DEF SupervisorInv, Flags
<1>3. CASE Ready
  <2>1. /\ phase' = IF child.tunnel.proc = "none" /\ child.tunnel.wait = 0
                    THEN "doctor" ELSE "probe"
        /\ child' = child /\ stray' = stray
    BY <1>3 DEF TickTunnel
  <2>2. ChildOK' /\ HealthyIsOwn' /\ NoneOverflowed'
    BY <1>1, <2>1, ChildKept
  <2>3. phase' \in Phases /\ TunnelNeedsServer' /\ NoneYet' /\ DoctorOK'
    BY <1>1, <1>3, <2>1 DEF Ready, SupervisorInv, Flags, Phases, TunnelNeedsServer,
       NoneYet, DoctorOK
  <2>4. StrayOK'
    BY <2>1 DEF SupervisorInv, StrayOK
  <2> QED
    BY <1>2, <2>2, <2>3, <2>4 DEF SupervisorInv
<1>4. CASE ~ Ready
  <2> DEFINE s == Stopped(child.tunnel)
             t == [s EXCEPT !.state = "backoff"]
  <2>1. /\ child' = [child EXCEPT !.tunnel = t]
        /\ phase' = "probe"
        /\ \E left \in LeftBehind("tunnel") : stray' = stray \cup left
    BY <1>4 DEF TickTunnel
  <2>2. /\ "mcp" \in Children /\ "tunnel" \in Children
        /\ \A c \in Children : child[c] \in Kids(MaxPower + 1)
    BY <1>1, Running
  <2>3. s \in Kids(MaxPower + 1) /\ s.proc = "none"
    BY <2>2, StoppedType
  <2> HIDE DEF s
  <2>4. t \in Kids(MaxPower + 1) /\ SameBut(t, s, "state")
    BY <2>3, KidUpdates DEF ChildStates
  <2>5. t.proc = "none" /\ ~ Overflowed(t) /\ t \in Kids(MaxPower + 2)
    BY <2>3, <2>4, KidsGrow, SupervisorAssumption DEF SameBut, Fields, Kids, Overflowed
  <2> HIDE DEF t
  <2>6. /\ ChildOK' /\ child'.mcp = child.mcp /\ child'.tunnel = t
        /\ \A c \in Children : c = "mcp" \/ c = "tunnel"
    BY <2>1, <2>2, <2>5 DEF SupervisorInv, ChildOK, Children
  <2>7. NoneOverflowed'
    <3>1. ~ Overflowed(child.mcp)
      BY <1>1, <2>2 DEF SupervisorInv, NoneOverflowed
    <3>2. \A c \in Children : ~ Overflowed(child'[c])
      BY <2>5, <2>6, <3>1
    <3> QED
      BY <3>2 DEF NoneOverflowed, Overflowed
  <2>8. phase' \in Phases /\ TunnelNeedsServer' /\ HealthyIsOwn' /\ NoneYet' /\ DoctorOK'
    BY <2>1, <2>5, <2>6 DEF SupervisorInv, Phases, TunnelNeedsServer, HealthyIsOwn, NoneYet,
       DoctorOK
  <2>9. StrayOK'
    BY <2>1, <2>2, StrayType DEF SupervisorInv, StrayOK
  <2> QED
    BY <1>2, <2>6, <2>7, <2>8, <2>9 DEF SupervisorInv
<1> QED
  BY <1>3, <1>4

LEMMA DiagnoseStep == SupervisorInv /\ Diagnose => SupervisorInv'
<1> SUFFICES ASSUME SupervisorInv, Diagnose PROVE SupervisorInv'
  OBVIOUS
<1>1. PICK d \in {0, StartTimeout}, agrees \in BOOLEAN :
        /\ fresh' = (fresh /\ d = 0)
        /\ \E t \in IF agrees THEN Launched(Later(child.tunnel, d))
                    ELSE {Retried(child.tunnel, d)} :
             /\ child' = [mcp |-> Later(child.mcp, d), tunnel |-> t]
             /\ phase' = IF Overflowed(t) THEN "failing" ELSE "probe"
  BY DEF Diagnose
<1>2. PICK t \in IF agrees THEN Launched(Later(child.tunnel, d)) ELSE {Retried(child.tunnel, d)} :
        /\ child' = [mcp |-> Later(child.mcp, d), tunnel |-> t]
        /\ phase' = IF Overflowed(t) THEN "failing" ELSE "probe"
  BY <1>1
<1>3. phase = "doctor" /\ UNCHANGED <<proxySeen, status, stopFile, asked, proxy, stray, calm>>
  BY DEF Diagnose, world
<1>4. d \in Nat
  BY <1>1, SupervisorAssumption
<1>5. /\ "mcp" \in Children /\ "tunnel" \in Children
      /\ child.mcp \in Kids(MaxPower + 1) /\ child.tunnel \in Kids(MaxPower + 1)
  BY <1>3, Running
<1> DEFINE m == Later(child.mcp, d)
<1>6. /\ m \in Kids(MaxPower + 2) /\ m.proc = child.mcp.proc /\ m.state = child.mcp.state
      /\ m.failures = child.mcp.failures
  BY <1>4, <1>5, LaterType, KidsGrow
<1>7. t \in Kids(MaxPower + 2)
  <2>1. CASE agrees
    <3>1. child.tunnel.proc = "none"
      BY <1>3 DEF SupervisorInv, DoctorOK
    <3>2. /\ Later(child.tunnel, d) \in Kids(MaxPower + 1)
          /\ Later(child.tunnel, d).proc = "none"
      BY <1>4, <1>5, <3>1, LaterType
    <3> QED
      BY <1>2, <2>1, <3>2, LaunchedType
  <2>2. CASE ~ agrees
    BY <1>2, <1>4, <1>5, <2>2, RetriedType
  <2> QED
    BY <2>1, <2>2
<1> HIDE DEF m
<1>8. /\ child' = [c \in Children |-> IF c = "mcp" THEN m ELSE t]
      /\ child'.mcp = m /\ child'.tunnel = t
      /\ \A c \in Children : c = "mcp" \/ c = "tunnel"
  BY <1>2 DEF m, Children
<1>9. ChildOK'
  BY <1>6, <1>7, <1>8 DEF ChildOK
<1>10. NoneOverflowed'
  <2>1. ~ Overflowed(m)
    BY <1>3, <1>5, <1>6 DEF SupervisorInv, NoneOverflowed, Overflowed
  <2>2. phase' # "failing" => \A c \in Children : ~ Overflowed(child'[c])
    BY <1>2, <1>8, <2>1
  <2> QED
    BY <2>2 DEF NoneOverflowed, Overflowed
<1>11. phase' \in Phases /\ TunnelNeedsServer' /\ HealthyIsOwn' /\ NoneYet' /\ DoctorOK'
  BY <1>2, <1>3, <1>6, <1>8 DEF SupervisorInv, Phases, TunnelNeedsServer, HealthyIsOwn, NoneYet,
     DoctorOK
<1>12. Flags' /\ StrayOK'
  BY <1>1, <1>3 DEF SupervisorInv, Flags, StrayOK
<1> QED
  BY <1>9, <1>10, <1>11, <1>12 DEF SupervisorInv

LEMMA ProbeStep == SupervisorInv /\ Probe => SupervisorInv'
<1> SUFFICES ASSUME SupervisorInv, Probe PROVE SupervisorInv'
  OBVIOUS
<1> DEFINE t == Probed("tunnel", child.tunnel)
<1>1. /\ phase = "probe" /\ UNCHANGED <<proxySeen, stopFile, asked, proxy, calm>>
      /\ child' = [child EXCEPT !.tunnel = t]
      /\ \E left \in IF t.proc = "none" THEN LeftBehind("tunnel") ELSE {{}} :
           stray' = stray \cup left
      /\ \/ ~ Overflowed(t) /\ phase' = "sleep" /\ Publish(TopState(child'))
         \/ phase' = "failing" /\ PublishFails
  BY DEF Probe
<1>2. /\ "mcp" \in Children /\ "tunnel" \in Children
      /\ child.mcp \in Kids(MaxPower + 1) /\ child.tunnel \in Kids(MaxPower + 1)
  BY <1>1, Running
<1>3. /\ t \in Kids(MaxPower + 2)
      /\ child.tunnel.proc = "none" => t.proc = "none"
  BY <1>2, ProbedType
<1> HIDE DEF t
<1>4. /\ ChildOK' /\ child'.mcp = child.mcp /\ child'.tunnel = t
      /\ \A c \in Children : c = "mcp" \/ c = "tunnel"
  BY <1>1, <1>2, <1>3 DEF SupervisorInv, ChildOK, Children
<1>5. NoneOverflowed'
  <2>1. ~ Overflowed(child.mcp)
    BY <1>1, <1>2 DEF SupervisorInv, NoneOverflowed
  <2>2. phase' # "failing" => \A c \in Children : ~ Overflowed(child'[c])
    BY <1>1, <1>4, <2>1
  <2> QED
    BY <2>2 DEF NoneOverflowed, Overflowed
<1>6. phase' \in Phases /\ TunnelNeedsServer' /\ HealthyIsOwn' /\ NoneYet' /\ DoctorOK'
  BY <1>1, <1>3, <1>4 DEF SupervisorInv, Phases, TunnelNeedsServer, HealthyIsOwn, NoneYet, DoctorOK
<1>7. StrayOK'
  BY <1>1, <1>2, StrayType DEF SupervisorInv, StrayOK
<1>8. Flags'
  <2>1. TopState(child') \in {"degraded", "starting_mcp", "waiting_for_proxy", "starting_tunnel",
                              "healthy"}
    BY DEF TopState
  <2> QED
    BY <1>1, <2>1 DEF SupervisorInv, Publish, PublishFails, Flags
<1> QED
  BY <1>4, <1>5, <1>6, <1>7, <1>8 DEF SupervisorInv

LEMMA SleepStep == SupervisorInv /\ Sleep => SupervisorInv'
<1> SUFFICES ASSUME SupervisorInv, Sleep PROVE SupervisorInv'
  OBVIOUS
<1>1. /\ phase = "sleep" /\ phase' = "loop"
      /\ child' = [c \in Children |-> Later(child[c], 1)]
      /\ UNCHANGED <<proxySeen, status, fresh, stopFile, asked, stray, proxy, calm>>
  BY DEF Sleep, world
<1>2. /\ "mcp" \in Children /\ "tunnel" \in Children
      /\ \A c \in Children : child[c] \in Kids(MaxPower + 1)
  BY <1>1, Running
<1>3. \A c \in Children :
        /\ child'[c] \in Kids(MaxPower + 2)
        /\ child'[c].proc = child[c].proc /\ child'[c].state = child[c].state
        /\ child'[c].failures = child[c].failures
  BY <1>1, <1>2, LaterType, KidsGrow
<1>4. ChildOK'
  BY <1>1, <1>3 DEF ChildOK
<1>5. NoneOverflowed'
  BY <1>1, <1>3 DEF SupervisorInv, NoneOverflowed, Overflowed
<1>6. phase' \in Phases /\ TunnelNeedsServer' /\ HealthyIsOwn' /\ NoneYet' /\ DoctorOK'
  BY <1>1, <1>2, <1>3 DEF SupervisorInv, Phases, TunnelNeedsServer, HealthyIsOwn, NoneYet, DoctorOK
<1>7. Flags' /\ StrayOK'
  BY <1>1 DEF SupervisorInv, Flags, StrayOK
<1> QED
  BY <1>4, <1>5, <1>6, <1>7 DEF SupervisorInv

LEMMA SeeStopStep == SupervisorInv /\ SeeStop => SupervisorInv'
<1> SUFFICES ASSUME SupervisorInv, SeeStop PROVE SupervisorInv'
  OBVIOUS
<1>1. /\ phase = "loop" /\ phase' = "closing" /\ child' = child
      /\ UNCHANGED <<proxySeen, status, fresh, stopFile, asked, stray, proxy, calm>>
  BY DEF SeeStop, world
<1>2. ChildOK' /\ HealthyIsOwn' /\ NoneOverflowed'
  BY <1>1, ChildKept
<1>3. phase' \in Phases /\ TunnelNeedsServer' /\ NoneYet' /\ DoctorOK' /\ Flags' /\ StrayOK'
  BY <1>1 DEF SupervisorInv, Phases, TunnelNeedsServer, NoneYet, DoctorOK, Flags, StrayOK
<1> QED
  BY <1>2, <1>3 DEF SupervisorInv

(* The three ways a supervisor ends.                                       *)
LEMMA EndSteps == SupervisorInv /\ (Close \/ ForceStop \/ Die) => SupervisorInv'
<1> SUFFICES ASSUME SupervisorInv, Close \/ ForceStop \/ Die PROVE SupervisorInv'
  OBVIOUS
<1>1. phase' = "off" /\ child' = Initial
  BY DEF Close, ForceStop, Die
<1>2. /\ phase' \in Phases /\ ChildOK' /\ TunnelNeedsServer' /\ HealthyIsOwn'
      /\ NoneOverflowed' /\ NoneYet' /\ DoctorOK'
  BY <1>1, Gone
<1>3. "mcp" \in Children /\ "tunnel" \in Children
  BY DEF Children
<1>4. StrayOK'
  BY <1>3, StrayType DEF SupervisorInv, StrayOK, Close, ForceStop, Die
<1>5. Flags'
  BY DEF SupervisorInv, Flags, Close, ForceStop, Die
<1> QED
  BY <1>2, <1>4, <1>5 DEF SupervisorInv

(* The steps of the others that leave the supervisor and its files alone.  *)
LEMMA OutsideSteps ==
  SupervisorInv /\ (Decide \/ Request \/ Leave \/ StrayEnds \/ ProxyFlips \/ Calm) => SupervisorInv'
<1> SUFFICES ASSUME SupervisorInv, Decide \/ Request \/ Leave \/ StrayEnds \/ ProxyFlips \/ Calm
             PROVE  SupervisorInv'
  OBVIOUS
<1>1. UNCHANGED service
  BY DEF Decide, Request, Leave, StrayEnds, ProxyFlips, Calm
<1>2. phase' = phase /\ child' = child /\ proxySeen' = proxySeen
  BY <1>1 DEF service
<1>3. /\ phase' \in Phases /\ ChildOK' /\ TunnelNeedsServer' /\ HealthyIsOwn'
      /\ NoneOverflowed' /\ NoneYet' /\ DoctorOK'
  BY <1>2 DEF SupervisorInv, Phases, ChildOK, TunnelNeedsServer, HealthyIsOwn, NoneOverflowed,
     NoneYet, DoctorOK, Overflowed
<1>4. Flags'
  BY <1>1 DEF SupervisorInv, Flags, service, world, Decide, Request, Leave, StrayEnds, ProxyFlips,
     Calm
<1>5. StrayOK'
  BY DEF SupervisorInv, StrayOK, world, Decide, Request, Leave, StrayEnds, ProxyFlips, Calm
<1> QED
  BY <1>3, <1>4, <1>5 DEF SupervisorInv

LEMMA StrayBootsStep ==
  ASSUME NEW c \in Children, SupervisorInv, StrayBoots(c)
  PROVE  SupervisorInv'
<1>1. /\ UNCHANGED service /\ UNCHANGED <<stopFile, asked, proxy, calm>>
      /\ stray' \subseteq stray \cup {<<c, "up">>}
  BY DEF StrayBoots
<1>2. phase' = phase /\ child' = child /\ proxySeen' = proxySeen
  BY <1>1 DEF service
<1>3. /\ phase' \in Phases /\ ChildOK' /\ TunnelNeedsServer' /\ HealthyIsOwn'
      /\ NoneOverflowed' /\ NoneYet' /\ DoctorOK'
  BY <1>2 DEF SupervisorInv, Phases, ChildOK, TunnelNeedsServer, HealthyIsOwn, NoneOverflowed,
     NoneYet, DoctorOK, Overflowed
<1>4. Flags' /\ StrayOK'
  BY <1>1 DEF SupervisorInv, Flags, StrayOK, service, LiveStates
<1> QED
  BY <1>3, <1>4 DEF SupervisorInv

(* A child's program gets ready, ends or hangs.                            *)
LEMMA ChildSteps ==
  ASSUME NEW c \in Children, SupervisorInv, Boot(c) \/ Fail(c)
  PROVE  SupervisorInv'
<1>1. PICK p \in {"up", "exited", "hung"} :
        /\ child' = [child EXCEPT ![c].proc = p]
        /\ child[c].proc \in LiveStates
  BY DEF Boot, Fail, Live, LiveStates
<1>2. UNCHANGED <<phase, proxySeen, status, fresh, stopFile, asked, stray, proxy, calm>>
  BY DEF Boot, Fail, world
<1>3. child \in [Children -> Kids(MaxPower + 2)] /\ child[c] \in Kids(MaxPower + 2)
  BY DEF SupervisorInv, ChildOK
<1> DEFINE k == [child[c] EXCEPT !.proc = p]
<1>4. k \in Kids(MaxPower + 2) /\ k.proc = p /\ SameBut(k, child[c], "proc")
  <2>1. p \in LiveStates \cup {"none", "exited"}
    BY <1>1 DEF LiveStates
  <2> QED
    BY <1>3, <2>1, KidUpdates
<1>5. k.state = child[c].state /\ k.failures = child[c].failures
  BY <1>4 DEF SameBut, Fields
<1>6. child' = [child EXCEPT ![c] = k]
  BY <1>1
<1> HIDE DEF k
<1>7. /\ ChildOK' /\ child'[c] = k
      /\ \A b \in Children \ {c} : child'[b] = child[b]
  BY <1>3, <1>4, <1>6 DEF ChildOK
<1>8. phase \notin {"off", "recover"}
  BY <1>1, InitialType DEF SupervisorInv, NoneYet, LiveStates
<1>9. phase' \in Phases /\ NoneYet' /\ Flags' /\ StrayOK'
  BY <1>2, <1>8 DEF SupervisorInv, Phases, NoneYet, Flags, StrayOK
<1>10. /\ \A b \in Children : child'[b].state = child[b].state
       /\ \A b \in Children : child'[b].failures = child[b].failures
       /\ \A b \in Children : child'[b].proc # "none" <=> child[b].proc # "none"
  BY <1>1, <1>5, <1>7 DEF LiveStates
<1>11. "mcp" \in Children /\ "tunnel" \in Children
  BY DEF Children
<1>12. NoneOverflowed' /\ TunnelNeedsServer' /\ DoctorOK'
  BY <1>2, <1>10, <1>11 DEF SupervisorInv, NoneOverflowed, Overflowed, TunnelNeedsServer, DoctorOK
<1>13. HealthyIsOwn'
  BY <1>1, <1>4, <1>7, <1>10, <1>11 DEF SupervisorInv, HealthyIsOwn
<1> QED
  BY <1>7, <1>9, <1>12, <1>13 DEF SupervisorInv

LEMMA SupervisorStepInv == SupervisorInv /\ [SupervisorNext]_supervisor_vars => SupervisorInv'
<1> SUFFICES ASSUME SupervisorInv, [SupervisorNext]_supervisor_vars PROVE SupervisorInv'
  OBVIOUS
<1>1. CASE Start
  BY <1>1, StartStep
<1>2. CASE Run
  BY <1>2, RecoverStep, TickServerStep, TickTunnelStep, DiagnoseStep, ProbeStep, SleepStep,
     SeeStopStep, EndSteps DEF Run
<1>3. CASE Decide \/ Request \/ Leave \/ StrayEnds \/ ProxyFlips \/ Calm
  BY <1>3, OutsideSteps
<1>4. CASE ForceStop \/ Die
  BY <1>4, EndSteps
<1>5. CASE \E c \in Children : Boot(c) \/ Fail(c) \/ StrayBoots(c)
  BY <1>5, ChildSteps, StrayBootsStep
<1>6. CASE UNCHANGED supervisor_vars
  <2>1. UNCHANGED <<phase, child, proxySeen, status, fresh, stopFile, asked, stray, proxy, calm>>
    BY <1>6 DEF supervisor_vars, service, world
  <2> QED
    BY <2>1 DEF SupervisorInv, Phases, ChildOK, Flags, StrayOK, TunnelNeedsServer, HealthyIsOwn,
       NoneOverflowed, NoneYet, DoctorOK, Overflowed
<1> QED
  BY <1>1, <1>2, <1>3, <1>4, <1>5, <1>6 DEF SupervisorNext

(* For every back-off, timeout and platform: the supervisor keeps what its *)
(* steps rely on - a tunnel that runs after a tick runs because the server *)
(* was healthy and the proxy there, and a server reported healthy is the   *)
(* supervisor's own, whatever the orphans of earlier ones do.              *)
THEOREM ServiceDependenciesHold == SupervisorSpec => []DependenciesHold
<1>1. SupervisorSpec => []SupervisorInv
  BY SupervisorInitInv, SupervisorStepInv, PTL DEF SupervisorSpec
<1> QED
  BY <1>1, SupervisorInvImplies, PTL

(* A step that ends the supervisor of itself is the closing one.           *)
LEMMA OwnEnd ==
  ASSUME SupervisorInv, [SupervisorNext]_supervisor_vars,
         phase # "off", phase' = "off", ~ Die, ~ ForceStop
  PROVE  Close
<1>1. ~ UNCHANGED phase
  OBVIOUS
<1>2. SupervisorNext
  BY <1>1 DEF supervisor_vars, service
<1>3. ~ (Decide \/ Request \/ Leave \/ StrayEnds \/ ProxyFlips \/ Calm)
  BY <1>1 DEF Decide, Request, Leave, StrayEnds, ProxyFlips, Calm, service
<1>4. ~ (\E c \in Children : Boot(c) \/ Fail(c) \/ StrayBoots(c))
  BY <1>1 DEF Boot, Fail, StrayBoots, service
<1>5. ~ (Start \/ Recover \/ TickTunnel \/ Sleep \/ SeeStop)
  BY DEF Start, Recover, TickTunnel, Sleep, SeeStop
<1>6. ~ (TickServer \/ Diagnose \/ Probe)
  BY DEF TickServer, Diagnose, Probe
<1> QED
  BY <1>2, <1>3, <1>4, <1>5, <1>6 DEF SupervisorNext, Run

(* However the loop ends, at a stop request or by an exception at any      *)
(* point of a tick, no process of the children is left but one that        *)
(* survives being killed.                                                  *)
THEOREM SupervisorEndsAreClean == SupervisorSpec => EndsAreClean
<1>1. SupervisorSpec => []SupervisorInv
  BY SupervisorInitInv, SupervisorStepInv, PTL DEF SupervisorSpec
<1>2. SupervisorInv /\ [SupervisorNext]_supervisor_vars =>
        [phase # "off" /\ phase' = "off" /\ ~ Die /\ ~ ForceStop =>
           \A s \in stray' \ stray : s[1] \in Stubborn]_supervisor_vars
  <2> SUFFICES ASSUME SupervisorInv, [SupervisorNext]_supervisor_vars,
                      phase # "off", phase' = "off", ~ Die, ~ ForceStop
               PROVE  \A s \in stray' \ stray : s[1] \in Stubborn
    OBVIOUS
  <2>1. Close
    BY OwnEnd
  <2>2. "mcp" \in Children /\ "tunnel" \in Children
    BY DEF Children
  <2> QED
    BY <2>1, <2>2, StrayType DEF Close
<1> QED
  BY <1>1, <1>2, PTL DEF SupervisorSpec, EndsAreClean

-----------------------------------------------------------------------------
(* Patches: which edits a call can undo, for any files, texts and number   *)
(* of calls.  Nothing is used of PatchText but that git changes files of   *)
(* the workspace only.                                                     *)

AllEdits == OtherEdits \cup 1 .. MaxCalls
Abouts == Patched \cup {OneEdit(f) : f \in Files}

Calls ==
  [at : {"hash", "apply", "write"}, about : Abouts, left : SUBSET Files, locked : BOOLEAN,
   checkOnly : BOOLEAN, base : [Files -> SUBSET AllEdits], during : SUBSET AllEdits]

(* A file that is still to be written was read with every edit that is not *)
(* hidden.                                                                 *)
BaseInv ==
  call.at = "write" =>
    \A f \in call.left : call.base[f] \subseteq made[f] /\ made[f] \ hidden \subseteq call.base[f]

PatchesInv ==
  /\ file \in [Files -> SUBSET AllEdits] /\ made \in [Files -> SUBSET AllEdits]
  /\ seen \in [Files -> SUBSET AllEdits]
  /\ \A f \in Files : file[f] \cup seen[f] \subseteq made[f] /\ made[f] \ hidden \subseteq file[f]
  /\ calls \in 0 .. MaxCalls
  /\ call = NoPatch \/ (call \in Calls /\ calls \in 1 .. MaxCalls)
  /\ BaseInv

-----------------------------------------------------------------------------

LEMMA TargetsAreFiles == \A a \in Abouts : a.targets \subseteq Files
<1>1. ASSUME NEW p \in Sent PROVE About(p).targets \subseteq Files
  <2>1. About(p).targets = Targets(Strip(Text(p)))
    BY DEF About
  <2>2. \A t : Targets(t) \subseteq Files
    BY DEF Targets
  <2> QED BY <2>1, <2>2
<1>2. ASSUME NEW f \in Files PROVE OneEdit(f).targets \subseteq Files
  BY DEF OneEdit, Nothing
<1> QED BY <1>1, <1>2 DEF Abouts, Patched

LEMMA PatchesInitInv == PatchesInit => PatchesInv
BY PatchesAssumption DEF PatchesInit, PatchesInv, BaseInv, NoPatch

(* Calls that end, or go on without writing.                               *)
LEMMA Quiet ==
  ASSUME PatchesInv, UNCHANGED <<file, made, hidden>>,
         seen' = seen \/ seen' = file,
         calls' \in 0 .. MaxCalls,
         call' = NoPatch \/ (call' \in Calls /\ calls' \in 1 .. MaxCalls),
         call'.at = "write" =>
           \A f \in call'.left :
             \/ call'.base[f] = file[f]
             \/ call.at = "write" /\ f \in call.left /\ call'.base[f] = call.base[f]
  PROVE  PatchesInv'
<1>1. BaseInv'
  <2> SUFFICES ASSUME call'.at = "write", NEW f \in call'.left
               PROVE  call'.base[f] \subseteq made[f] /\ made[f] \ hidden \subseteq call'.base[f]
    BY DEF BaseInv
  <2>1. f \in Files
    BY DEF Calls, NoPatch
  <2> QED BY <2>1 DEF PatchesInv, BaseInv
<1> QED BY <1>1 DEF PatchesInv

LEMMA AskedTyped ==
  ASSUME PatchesInv, NEW about \in Abouts, NEW left \in SUBSET Files, NEW locked \in BOOLEAN,
         NEW checkOnly \in BOOLEAN
  PROVE  /\ Asked(about, left, locked, checkOnly) \in Calls
         /\ Asked(about, left, locked, checkOnly).at = "hash"
         /\ Asked(about, left, locked, checkOnly).left = left
         /\ Asked(about, left, locked, checkOnly).base = file
BY DEF Asked, Calls, PatchesInv

LEMMA ExternalInv ==
  ASSUME PatchesInv, NEW f \in Files, NEW e \in OtherEdits, External(f, e)
  PROVE  PatchesInv'
<1>1. /\ file' = [file EXCEPT ![f] = @ \cup {e}] /\ made' = [made EXCEPT ![f] = @ \cup {e}]
      /\ hidden' = IF call.at = "write" /\ f \in call.left THEN hidden \cup {e} ELSE hidden
      /\ call' = IF call = NoPatch THEN NoPatch ELSE [call EXCEPT !.during = @ \cup {e}]
      /\ seen' = seen /\ calls' = calls
  BY DEF External
<1>2. file' \in [Files -> SUBSET AllEdits] /\ made' \in [Files -> SUBSET AllEdits]
  BY <1>1 DEF PatchesInv, AllEdits
<1>3. \A g \in Files : file'[g] \cup seen'[g] \subseteq made'[g]
                     /\ made'[g] \ hidden' \subseteq file'[g]
  BY <1>1 DEF PatchesInv
<1>4. CASE call = NoPatch
  BY <1>1, <1>2, <1>3, <1>4 DEF PatchesInv, BaseInv, NoPatch
<1>5. CASE call # NoPatch
  <2>1. /\ call' \in Calls /\ call'.at = call.at /\ call'.left = call.left
        /\ call'.base = call.base /\ call \in Calls
    BY <1>1, <1>5 DEF PatchesInv, Calls, AllEdits
  <2>2. BaseInv'
    <3> SUFFICES ASSUME call.at = "write", NEW g \in call.left
                 PROVE  call.base[g] \subseteq made'[g] /\ made'[g] \ hidden' \subseteq call.base[g]
      BY <2>1 DEF BaseInv
    <3>1. g \in Files
      BY <2>1 DEF Calls
    <3> QED BY <1>1, <3>1 DEF PatchesInv, BaseInv
  <2> QED BY <1>1, <1>2, <1>3, <1>5, <2>1, <2>2 DEF PatchesInv
<1> QED BY <1>4, <1>5

LEMMA ReadFilesInv == ASSUME PatchesInv, ReadFiles PROVE PatchesInv'
BY Quiet DEF ReadFiles, PatchesInv, NoPatch

LEMMA ApplyInv ==
  ASSUME PatchesInv, NEW about \in Patched, NEW locked \in BOOLEAN, NEW checkOnly \in BOOLEAN,
         ApplyPatch(about, locked, checkOnly)
  PROVE  PatchesInv'
<1>1. calls' \in 1 .. MaxCalls /\ UNCHANGED <<file, made, hidden, seen>>
  BY PatchesAssumption DEF PatchesInv, ApplyPatch
<1>2. about \in Abouts
  BY DEF Abouts
<1>3. CASE about.taken
  <2> DEFINE left == IF locked THEN Files ELSE {}
  <2>1. call' = Asked(about, left, locked, checkOnly)
    BY <1>3 DEF ApplyPatch
  <2>2. call' \in Calls /\ call'.at = "hash"
    BY <1>2, <2>1, AskedTyped
  <2> QED BY <1>1, <2>2, Quiet
<1>4. CASE ~ about.taken
  <2>1. call' = NoPatch
    BY <1>4 DEF ApplyPatch, Conclude
  <2> QED BY <1>1, <2>1, Quiet DEF NoPatch
<1> QED BY <1>3, <1>4

LEMMA RefuseInv ==
  ASSUME PatchesInv, call' = NoPatch, calls' \in 0 .. MaxCalls,
         UNCHANGED <<file, made, hidden, seen>>
  PROVE  PatchesInv'
BY Quiet DEF NoPatch

LEMMA HeadMovedInv == ASSUME PatchesInv, HeadMoved PROVE PatchesInv'
BY RefuseInv, PatchesAssumption DEF HeadMoved, Refuse, Conclude, PatchesInv

LEMMA CheckHashInv == ASSUME PatchesInv, NEW f \in Files, CheckHash(f) PROVE PatchesInv'
<1>1. call.at = "hash" /\ calls' = calls /\ UNCHANGED <<file, made, hidden, seen>>
  BY DEF CheckHash
<1>2. CASE file[f] = seen[f]
  <2>1. call' = [call EXCEPT !.left = @ \ {f}]
    BY <1>2 DEF CheckHash, GoOn
  <2>2. call \in Calls /\ calls \in 1 .. MaxCalls
    BY <1>1 DEF PatchesInv, NoPatch
  <2>3. call' \in Calls /\ call'.at = "hash"
    BY <1>1, <2>1, <2>2 DEF Calls
  <2> QED BY <1>1, <2>2, <2>3, Quiet DEF PatchesInv
<1>3. CASE file[f] # seen[f]
  BY <1>1, <1>3, RefuseInv DEF CheckHash, Refuse, Conclude, PatchesInv
<1> QED BY <1>2, <1>3

LEMMA GitCheckInv == ASSUME PatchesInv, GitCheck PROVE PatchesInv'
<1>1. call.at = "hash" /\ calls' = calls /\ UNCHANGED <<file, made, hidden, seen>>
  BY DEF GitCheck
<1>2. CASE Refuse
  BY <1>1, <1>2, RefuseInv DEF Refuse, Conclude, PatchesInv
<1>3. CASE GoOn([call EXCEPT !.at = "apply"])
  <2>1. call \in Calls /\ calls \in 1 .. MaxCalls
    BY <1>1 DEF PatchesInv, NoPatch
  <2>2. call' \in Calls /\ call'.at = "apply"
    BY <1>3, <2>1 DEF GoOn, Calls
  <2> QED BY <1>1, <2>1, <2>2, Quiet DEF PatchesInv
<1> QED BY <1>2, <1>3 DEF GitCheck

(* git reads the files as they are.                                        *)
LEMMA GitReadsInv == ASSUME PatchesInv, GitReads PROVE PatchesInv'
<1>1. call.at = "apply" /\ calls' = calls /\ UNCHANGED <<file, made, hidden, seen>>
  BY DEF GitReads
<1>2. CASE Refuse
  BY <1>1, <1>2, RefuseInv DEF Refuse, Conclude, PatchesInv
<1>3. CASE GoOn([call EXCEPT !.at = "write", !.left = call.about.targets, !.base = file])
  <2>1. call \in Calls /\ calls \in 1 .. MaxCalls
    BY <1>1 DEF PatchesInv, NoPatch
  <2>2. call.about.targets \subseteq Files
    BY <2>1, TargetsAreFiles DEF Calls
  <2>3. call' \in Calls /\ call'.base = file
    BY <1>3, <2>1, <2>2 DEF GoOn, Calls, PatchesInv
  <2> QED BY <1>1, <2>1, <2>3, Quiet DEF PatchesInv
<1> QED BY <1>2, <1>3 DEF GitReads

(* A write adds to what was read, and only hidden edits are not in that.   *)
LEMMA WriteInv == ASSUME PatchesInv, NEW f \in Files, Write(f) PROVE PatchesInv'
<1>1. /\ call.at = "write" /\ f \in call.left /\ UNCHANGED <<hidden, seen, calls>>
      /\ file' = [file EXCEPT ![f] = call.base[f] \cup {calls}]
      /\ made' = [made EXCEPT ![f] = @ \cup {calls}]
      /\ call' = [call EXCEPT !.left = @ \ {f}]
  BY DEF Write, Updated
<1>2. call \in Calls /\ calls \in 1 .. MaxCalls
  BY <1>1 DEF PatchesInv, NoPatch
<1>3. call.base[f] \subseteq made[f] /\ made[f] \ hidden \subseteq call.base[f]
  BY <1>1 DEF PatchesInv, BaseInv
<1>4. /\ call' \in Calls /\ call'.left = call.left \ {f}
      /\ call'.base = call.base
  BY <1>1, <1>2 DEF Calls
<1>5. file' \in [Files -> SUBSET AllEdits] /\ made' \in [Files -> SUBSET AllEdits]
  BY <1>1, <1>2, <1>3 DEF PatchesInv, AllEdits
<1>6. \A g \in Files : file'[g] \cup seen'[g] \subseteq made'[g]
                     /\ made'[g] \ hidden' \subseteq file'[g]
  BY <1>1, <1>3 DEF PatchesInv
<1>7. BaseInv'
  <2> SUFFICES ASSUME NEW g \in call.left \ {f}
               PROVE  call.base[g] \subseteq made'[g] /\ made'[g] \ hidden \subseteq call.base[g]
    BY <1>1, <1>4 DEF BaseInv
  <2>1. g \in Files /\ g # f
    BY <1>2 DEF Calls
  <2> QED BY <1>1, <2>1 DEF PatchesInv, BaseInv
<1> QED BY <1>1, <1>2, <1>4, <1>5, <1>6, <1>7 DEF PatchesInv

LEMMA EndInv == ASSUME PatchesInv, WriteStops \/ Report PROVE PatchesInv'
BY RefuseInv DEF WriteStops, Report, Conclude, PatchesInv

LEMMA ReplaceInv ==
  ASSUME PatchesInv, NEW f \in Files, NEW locked \in BOOLEAN, ReplaceText(f, locked)
  PROVE  PatchesInv'
<1>1. calls' \in 1 .. MaxCalls /\ UNCHANGED <<file, made, hidden, seen>>
  BY PatchesAssumption DEF PatchesInv, ReplaceText
<1>2. CASE Refuse
  BY <1>1, <1>2, RefuseInv DEF Refuse, Conclude
<1>3. CASE call' = [Asked(OneEdit(f), {f}, locked, FALSE) EXCEPT !.at = "write"]
  <2>1. OneEdit(f) \in Abouts
    BY DEF Abouts
  <2> DEFINE first == Asked(OneEdit(f), {f}, locked, FALSE)
  <2>2. /\ first \in Calls
        /\ first.base = file
    <3>1. {f} \subseteq Files
      OBVIOUS
    <3>2. first \in Calls
      BY <2>1, <3>1, AskedTyped
    <3> QED
      BY <3>2 DEF Asked
  <2> HIDE DEF first
  <2>3. call' \in Calls /\ call'.base = file
    BY <1>3, <2>2 DEF Calls, first
  <2> QED BY <1>1, <2>3, Quiet
<1> QED BY <1>2, <1>3 DEF ReplaceText

LEMMA PatchesStepInv == PatchesInv /\ [PatchesNext]_patches_vars => PatchesInv'
<1> SUFFICES ASSUME PatchesInv, [PatchesNext]_patches_vars PROVE PatchesInv'
  OBVIOUS
<1>1. CASE \E f \in Files, e \in OtherEdits : External(f, e)
  BY <1>1, ExternalInv
<1>2. CASE ReadFiles \/ HeadMoved \/ GitCheck \/ GitReads \/ WriteStops \/ Report
  BY <1>2, ReadFilesInv, HeadMovedInv, GitCheckInv, GitReadsInv, EndInv
<1>3. CASE \E about \in Patched : \E locked, checkOnly \in BOOLEAN :
             ApplyPatch(about, locked, checkOnly)
  BY <1>3, ApplyInv
<1>4. CASE \E f \in Files : \/ CheckHash(f) \/ Write(f)
                          \/ \E locked \in BOOLEAN : ReplaceText(f, locked)
  BY <1>4, CheckHashInv, WriteInv, ReplaceInv
<1>5. CASE UNCHANGED patches_vars
  BY <1>5 DEF patches_vars, PatchesInv, BaseInv
<1> QED BY <1>1, <1>2, <1>3, <1>4, <1>5 DEF PatchesNext

LEMMA PatchesInvImplies == PatchesInv => EditsSurvive
BY DEF PatchesInv, AllEdits, EditsSurvive, PatchesTypeOK, NoPatch, Calls

(* Neither git apply nor replace_text undoes an edit of a process or of an *)
(* earlier call, but for one made between its read of the file and its     *)
(* write.                                                                  *)
THEOREM EditsAlwaysSurvive == PatchesSpec => []EditsSurvive
BY PatchesInitInv, PatchesStepInv, PatchesInvImplies, PTL DEF PatchesSpec

-----------------------------------------------------------------------------
(* What a call answers.  A new call has a number that no edit has; until   *)
(* git writes, no file has it, and then the files that were written have.  *)
(* Of a file that was compared with its hash, only what was made during    *)
(* the call is unknown to the client.                                      *)
Fresh == \A f \in Files : calls \notin made[f]
Numbers == \A f \in Files : made[f] \ OtherEdits \subseteq 1 .. calls

CallTruth ==
  call # NoPatch =>
    /\ Kept(call.about)
    /\ call.at \in {"hash", "apply"} => Fresh
    /\ call.at = "apply" => call.left = {}
    /\ call.at = "write" =>
         /\ call.left \subseteq call.about.targets
         /\ \A f \in Files : calls \in made[f] <=> f \in call.about.targets \ call.left

Compared ==
  call # NoPatch /\ call.locked =>
    /\ call.at # "write" => \A f \in Files \ call.left : file[f] \ seen[f] \subseteq call.during
    /\ call.at = "write" =>
         \A f \in call.about.targets : call.base[f] \ seen[f] \subseteq call.during

Placed == answer.applied => answer.about.edits \subseteq Files

TruthInv == PatchesInv /\ Numbers /\ CallTruth /\ Compared /\ Placed /\ AnswersAreTrue

LEMMA TruthInit == PatchesInit => TruthInv
<1> SUFFICES ASSUME PatchesInit PROVE TruthInv
  OBVIOUS
<1>1. PatchesInv
  BY PatchesInitInv
<1>2. /\ \A f \in Files : made[f] = {}
      /\ call = NoPatch /\ answer.applied = FALSE
  BY DEF PatchesInit, Silence
<1> QED
  BY <1>1, <1>2 DEF TruthInv, Numbers, CallTruth, Compared, Placed, AnswersAreTrue

(* The number of a new call is new.                                        *)
LEMMA NewNumber ==
  ASSUME TruthInv, calls < MaxCalls, calls' = calls + 1, made' = made
  PROVE  Fresh' /\ Numbers'
<1>1. calls \in 0 .. MaxCalls /\ calls + 1 \in 1 .. MaxCalls /\ calls + 1 \notin 1 .. calls
  BY PatchesAssumption DEF TruthInv, PatchesInv
<1>2. calls + 1 \notin OtherEdits
  BY <1>1, PatchesAssumption
<1>3. 1 .. calls \subseteq 1 .. calls + 1
  BY <1>1
<1> QED
  BY <1>1, <1>2, <1>3 DEF TruthInv, Fresh, Numbers

LEMMA SilenceIs == Silence.applied = FALSE /\ Silence.stopped = FALSE
BY DEF Silence

(* A call that begins.                                                     *)
LEMMA Begun ==
  ASSUME TruthInv, PatchesInv', Fresh', Numbers', call' # NoPatch, Kept(call'.about),
         call'.at = "hash" \/ (call'.at = "write" /\ call'.left = call'.about.targets),
         Compared', answer' = answer \/ answer' = Silence
  PROVE  TruthInv'
BY SilenceIs DEF TruthInv, CallTruth, Placed, AnswersAreTrue, Fresh

(* A call that is answered without success and has written nothing.        *)
LEMMA NothingDone ==
  ASSUME PatchesInv', Numbers', call' = NoPatch, answer'.applied = FALSE, answer'.stopped \/ Fresh'
  PROVE  TruthInv'
BY DEF TruthInv, CallTruth, Compared, Placed, AnswersAreTrue, Fresh

LEMMA OneEditKept == \A f \in Files : Kept(OneEdit(f)) /\ OneEdit(f).targets = {f}
BY DEF OneEdit, Nothing, Kept

LEMMA ExternalTruth ==
  ASSUME TruthInv, PatchesInv', NEW f \in Files, NEW e \in OtherEdits, External(f, e)
  PROVE  TruthInv'
<1>1. /\ file' = [file EXCEPT ![f] = @ \cup {e}] /\ made' = [made EXCEPT ![f] = @ \cup {e}]
      /\ call' = IF call = NoPatch THEN NoPatch ELSE [call EXCEPT !.during = @ \cup {e}]
      /\ UNCHANGED <<seen, answer, calls>>
  BY DEF External
<1>2. calls # e
  BY PatchesAssumption DEF TruthInv, PatchesInv
<1>3. /\ \A g \in Files : calls \in made'[g] <=> calls \in made[g]
      /\ \A g \in Files : made'[g] \ OtherEdits = made[g] \ OtherEdits
      /\ \A g \in Files : file'[g] \subseteq file[g] \cup {e}
  BY <1>1, <1>2 DEF TruthInv, PatchesInv
<1>4. Numbers'
  BY <1>1, <1>3 DEF TruthInv, Numbers
<1>5. Placed'
  BY <1>1 DEF TruthInv, Placed
<1>6. CASE call = NoPatch
  <2>1. AnswersAreTrue'
    BY <1>1, <1>3, <1>6 DEF TruthInv, Placed, AnswersAreTrue
  <2> QED
    BY <1>1, <1>4, <1>5, <1>6, <2>1 DEF TruthInv, CallTruth, Compared
<1>7. CASE call # NoPatch
  <2>1. call \in Calls
    BY <1>7 DEF TruthInv, PatchesInv
  <2>2. /\ call'.at = call.at /\ call'.about = call.about /\ call'.left = call.left
        /\ call'.base = call.base /\ call'.locked = call.locked
        /\ call'.during = call.during \cup {e}
    BY <1>1, <1>7, <2>1 DEF Calls
  <2>3. CallTruth' /\ AnswersAreTrue'
    <3>1. call'.at # "idle"
      BY <2>1, <2>2 DEF Calls
    <3> QED
      BY <1>1, <1>3, <1>7, <2>2, <3>1 DEF TruthInv, CallTruth, Fresh, AnswersAreTrue, NoPatch
  <2>4. Compared'
    BY <1>1, <1>3, <1>7, <2>2 DEF TruthInv, Compared
  <2> QED
    BY <1>4, <1>5, <2>3, <2>4 DEF TruthInv
<1> QED
  BY <1>6, <1>7

LEMMA ReadFilesTruth == ASSUME TruthInv, PatchesInv', ReadFiles PROVE TruthInv'
BY DEF ReadFiles, TruthInv, Numbers, CallTruth, Compared, Placed, AnswersAreTrue

LEMMA ApplyTruth ==
  ASSUME TextIsKept, TruthInv, PatchesInv', NEW about \in Patched, NEW locked \in BOOLEAN,
         NEW checkOnly \in BOOLEAN, ApplyPatch(about, locked, checkOnly)
  PROVE  TruthInv'
<1>1. Fresh' /\ Numbers'
  BY NewNumber DEF ApplyPatch
<1>2. CASE about.taken
  <2> DEFINE new == Asked(about, IF locked THEN Files ELSE {}, locked, checkOnly)
  <2>1. call' = new
    BY <1>2 DEF ApplyPatch
  <2>2. /\ new.at = "hash" /\ new.about = about /\ new.locked = locked
        /\ new.left = IF locked THEN Files ELSE {}
    BY DEF Asked
  <2> HIDE DEF new
  <2>3. call' # NoPatch
    BY <2>1, <2>2 DEF NoPatch
  <2>4. Kept(call'.about)
    BY <1>2, <2>1, <2>2 DEF TextIsKept
  <2>5. Compared'
    BY <2>1, <2>2 DEF Compared
  <2>6. answer' = Silence
    BY <1>2 DEF ApplyPatch
  <2> QED
    BY <1>1, <2>1, <2>2, <2>3, <2>4, <2>5, <2>6, Begun
<1>3. CASE ~ about.taken
  <2>1. call' = NoPatch /\ answer' = [Silence EXCEPT !.about = about]
    BY <1>3 DEF ApplyPatch, Conclude
  <2>2. answer'.applied = FALSE
    BY <2>1 DEF Silence
  <2> QED
    BY <1>1, <2>1, <2>2, NothingDone
<1> QED
  BY <1>2, <1>3

LEMMA HeadMovedTruth == ASSUME TruthInv, PatchesInv', HeadMoved PROVE TruthInv'
<1>1. Fresh' /\ Numbers'
  BY NewNumber DEF HeadMoved
<1> QED
  BY <1>1, SilenceIs, NothingDone DEF HeadMoved, Refuse, Conclude

(* A refusal by the hashes or by git.                                      *)
LEMMA RefusedTruth ==
  ASSUME TruthInv, PatchesInv', Refuse, call.at \in {"hash", "apply"}, UNCHANGED <<made, calls>>
  PROVE  TruthInv'
<1>1. call # NoPatch
  BY DEF NoPatch
<1>2. Fresh' /\ Numbers'
  BY <1>1 DEF TruthInv, CallTruth, Fresh, Numbers
<1> QED
  BY <1>2, SilenceIs, NothingDone DEF Refuse, Conclude

LEMMA CheckHashTruth ==
  ASSUME TruthInv, PatchesInv', NEW f \in Files, CheckHash(f) PROVE TruthInv'
<1>1. call.at = "hash" /\ UNCHANGED <<file, made, hidden, seen, calls>>
  BY DEF CheckHash
<1>2. call \in Calls /\ call # NoPatch
  BY <1>1 DEF TruthInv, PatchesInv, NoPatch
<1>3. CASE file[f] = seen[f]
  <2>1. call' = [call EXCEPT !.left = @ \ {f}]
    BY <1>3 DEF CheckHash, GoOn
  <2>2. /\ call'.at = "hash" /\ call'.about = call.about /\ call'.left = call.left \ {f}
        /\ call'.locked = call.locked /\ call'.during = call.during
    BY <1>1, <1>2, <2>1 DEF Calls
  <2>3. call' # NoPatch
    BY <1>2, <2>2 DEF NoPatch
  <2>4. Kept(call'.about) /\ Fresh' /\ Numbers'
    BY <1>1, <1>2, <2>2 DEF TruthInv, CallTruth, Fresh, Numbers
  <2>5. Compared'
    BY <1>1, <1>2, <1>3, <2>2 DEF TruthInv, Compared
  <2> QED
    BY <1>3, <2>2, <2>3, <2>4, <2>5, Begun DEF CheckHash, GoOn
<1>4. CASE file[f] # seen[f]
  BY <1>1, <1>4, RefusedTruth DEF CheckHash
<1> QED
  BY <1>3, <1>4

LEMMA GitCheckTruth == ASSUME TruthInv, PatchesInv', GitCheck PROVE TruthInv'
<1>1. call.at = "hash" /\ call.left = {} /\ UNCHANGED <<file, made, hidden, seen, calls>>
  BY DEF GitCheck
<1>2. call \in Calls /\ call # NoPatch
  BY <1>1 DEF TruthInv, PatchesInv, NoPatch
<1>3. CASE Refuse
  BY <1>1, <1>3, RefusedTruth
<1>4. CASE GoOn([call EXCEPT !.at = "apply"])
  <2>1. /\ call'.at = "apply" /\ call'.about = call.about /\ call'.left = {}
        /\ call'.locked = call.locked /\ call'.during = call.during
    BY <1>1, <1>2, <1>4 DEF GoOn, Calls
  <2>2. call' # NoPatch
    BY <1>2, <2>1 DEF NoPatch
  <2>3. CallTruth' /\ Numbers'
    BY <1>1, <1>2, <2>1 DEF TruthInv, CallTruth, Fresh, Numbers
  <2>4. Compared'
    BY <1>1, <1>2, <2>1 DEF TruthInv, Compared
  <2> QED
    BY <1>4, <2>2, <2>3, <2>4 DEF TruthInv, GoOn, Placed, AnswersAreTrue
<1> QED
  BY <1>3, <1>4 DEF GitCheck

LEMMA GitReadsTruth == ASSUME TruthInv, PatchesInv', GitReads PROVE TruthInv'
<1>1. call.at = "apply" /\ UNCHANGED <<file, made, hidden, seen, calls>>
  BY DEF GitReads
<1>2. call \in Calls /\ call # NoPatch
  BY <1>1 DEF TruthInv, PatchesInv, NoPatch
<1>3. CASE Refuse
  BY <1>1, <1>3, RefusedTruth
<1>4. CASE GoOn([call EXCEPT !.at = "write", !.left = call.about.targets, !.base = file])
  <2>1. /\ call'.at = "write" /\ call'.about = call.about /\ call'.left = call.about.targets
        /\ call'.base = file /\ call'.locked = call.locked /\ call'.during = call.during
    BY <1>2, <1>4 DEF GoOn, Calls
  <2>2. call' # NoPatch
    BY <1>2, <2>1 DEF NoPatch
  <2>3. call.about.targets \subseteq Files
    BY <1>2, TargetsAreFiles DEF Calls
  <2>4. Kept(call'.about) /\ Fresh' /\ Numbers'
    BY <1>1, <1>2, <2>1 DEF TruthInv, CallTruth, Fresh, Numbers
  <2>5. Compared'
    BY <1>1, <1>2, <2>1, <2>3 DEF TruthInv, Compared, CallTruth
  <2> QED
    BY <1>4, <2>1, <2>2, <2>4, <2>5, Begun DEF GoOn
<1> QED
  BY <1>3, <1>4 DEF GitReads

LEMMA WriteTruth == ASSUME TruthInv, PatchesInv', NEW f \in Files, Write(f) PROVE TruthInv'
<1>1. /\ call.at = "write" /\ f \in call.left /\ UNCHANGED <<hidden, seen, answer, calls>>
      /\ made' = [made EXCEPT ![f] = @ \cup {calls}]
      /\ call' = [call EXCEPT !.left = @ \ {f}]
  BY DEF Write
<1>2. call \in Calls /\ call # NoPatch /\ calls \in 1 .. MaxCalls
  BY <1>1 DEF TruthInv, PatchesInv, NoPatch
<1>3. /\ call'.at = "write" /\ call'.about = call.about /\ call'.left = call.left \ {f}
      /\ call'.base = call.base /\ call'.locked = call.locked /\ call'.during = call.during
  BY <1>1, <1>2 DEF Calls
<1>4. call' # NoPatch
  BY <1>2, <1>3 DEF NoPatch
<1>5. \A g \in Files : made'[g] = IF g = f THEN made[g] \cup {calls} ELSE made[g]
  BY <1>1 DEF TruthInv, PatchesInv
<1>6. Numbers'
  <2>1. calls \in 1 .. calls
    BY <1>2
  <2> QED
    BY <1>1, <1>5, <2>1 DEF TruthInv, Numbers
<1>7. CallTruth'
  BY <1>1, <1>2, <1>3, <1>5 DEF TruthInv, CallTruth
<1>8. Compared'
  BY <1>1, <1>2, <1>3 DEF TruthInv, Compared
<1> QED
  BY <1>1, <1>4, <1>6, <1>7, <1>8 DEF TruthInv, Placed, AnswersAreTrue

LEMMA StopTruth == ASSUME TruthInv, PatchesInv', WriteStops PROVE TruthInv'
<1>1. /\ call.at = "write" /\ call' = NoPatch /\ UNCHANGED <<made, calls>>
      /\ answer' = [Silence EXCEPT !.stopped = call.left # call.about.targets]
  BY DEF WriteStops, Conclude
<1>2. answer'.applied = FALSE /\ answer'.stopped = (call.left # call.about.targets)
  BY <1>1 DEF Silence
<1>3. call # NoPatch
  BY <1>1 DEF NoPatch
<1>4. Numbers' /\ (call.left = call.about.targets => Fresh')
  BY <1>1, <1>3 DEF TruthInv, CallTruth, Fresh, Numbers
<1> QED
  BY <1>1, <1>2, <1>4, NothingDone

LEMMA ReportTruth == ASSUME TruthInv, PatchesInv', Report PROVE TruthInv'
<1>1. /\ call.at = "write" /\ call.left = {} /\ call' = NoPatch /\ UNCHANGED <<made, calls>>
      /\ answer'.applied = TRUE /\ answer'.about = call.about
      /\ answer'.informed = (call.locked => \A f \in call.about.targets :
                               call.base[f] \ seen[f] \subseteq call.during)
  BY DEF Report, Conclude
<1>2. call # NoPatch /\ call \in Calls
  BY <1>1 DEF TruthInv, PatchesInv, NoPatch
<1>3. call.about.targets \subseteq Files
  BY <1>2, TargetsAreFiles DEF Calls
<1>4. Kept(call.about) /\ \A f \in call.about.targets : calls \in made[f]
  BY <1>1, <1>2, <1>3 DEF TruthInv, CallTruth
<1>5. answer'.informed
  BY <1>1, <1>2 DEF TruthInv, Compared
<1>6. AnswersAreTrue' /\ Placed'
  BY <1>1, <1>3, <1>4, <1>5 DEF Kept, AnswersAreTrue, Placed
<1> QED
  BY <1>1, <1>6 DEF TruthInv, Numbers, CallTruth, Compared

LEMMA ReplaceTruth ==
  ASSUME TruthInv, PatchesInv', NEW f \in Files, NEW locked \in BOOLEAN, ReplaceText(f, locked)
  PROVE  TruthInv'
<1>1. Fresh' /\ Numbers' /\ UNCHANGED <<file, seen>>
  BY NewNumber DEF ReplaceText
<1>2. CASE Refuse
  BY <1>1, <1>2, SilenceIs, NothingDone DEF Refuse, Conclude
<1>3. CASE /\ locked => file[f] = seen[f]
           /\ call' = [Asked(OneEdit(f), {f}, locked, FALSE) EXCEPT !.at = "write"]
           /\ answer' = Silence
  <2>1. /\ call'.at = "write" /\ call'.about = OneEdit(f) /\ call'.left = {f}
        /\ call'.base = file /\ call'.locked = locked
    BY <1>3 DEF Asked
  <2>2. call' # NoPatch
    BY <2>1 DEF NoPatch
  <2>3. Compared'
    <3>1. OneEdit(f).targets = {f}
      BY OneEditKept
    <3>2. file' = file /\ seen' = seen
      BY <1>1
    <3> QED
      BY <1>3, <2>1, <3>1, <3>2 DEF Compared
  <2> QED
    BY <1>1, <1>3, <2>1, <2>2, <2>3, OneEditKept, Begun
<1> QED
  BY <1>2, <1>3 DEF ReplaceText

LEMMA TruthStep ==
  ASSUME TextIsKept, TruthInv, [PatchesNext]_patches_vars
  PROVE  TruthInv'
<1>1. PatchesInv'
  BY PatchesStepInv DEF TruthInv
<1>2. CASE \E f \in Files, e \in OtherEdits : External(f, e)
  BY <1>1, <1>2, ExternalTruth
<1>3. CASE ReadFiles \/ HeadMoved \/ GitCheck \/ GitReads \/ WriteStops \/ Report
  BY <1>1, <1>3, ReadFilesTruth, HeadMovedTruth, GitCheckTruth, GitReadsTruth, StopTruth,
     ReportTruth
<1>4. CASE \E about \in Patched : \E locked, checkOnly \in BOOLEAN :
             ApplyPatch(about, locked, checkOnly)
  BY <1>1, <1>4, ApplyTruth
<1>5. CASE \E f \in Files : \/ CheckHash(f) \/ Write(f)
                          \/ \E locked \in BOOLEAN : ReplaceText(f, locked)
  BY <1>1, <1>5, CheckHashTruth, WriteTruth, ReplaceTruth
<1>6. CASE UNCHANGED patches_vars
  BY <1>1, <1>6 DEF patches_vars, TruthInv, Numbers, CallTruth, Compared, Placed, AnswersAreTrue, Fresh
<1> QED
  BY <1>2, <1>3, <1>4, <1>5, <1>6 DEF PatchesNext

(* If the text functions keep what is in a patch they take, an answer of   *)
(* success means that all hunks are in their files, that these are the     *)
(* files it names and that no file that was to be checked by its hash had  *)
(* an edit from before the call that the client did not know; any other    *)
(* answer means that nothing was changed, but when git was stopped.        *)
THEOREM AnswersStayTrue ==
  ASSUME TextIsKept
  PROVE  PatchesSpec => []AnswersAreTrue
<1>1. TruthInv /\ [PatchesNext]_patches_vars => TruthInv'
  BY TruthStep
<1>2. TruthInv => AnswersAreTrue
  BY DEF TruthInv
<1> QED
  BY <1>1, <1>2, TruthInit, PTL DEF PatchesSpec
=============================================================================
