------------------------------ MODULE ToolCalls ------------------------------
(***************************************************************************)
(* The middleware that every tool call passes (app/services/               *)
(* tool_registry.py) and the idempotency keys of the calls that change     *)
(* something (app/storage/idempotency.py).                                 *)
(*                                                                         *)
(* A key is looked up twice: by execute_tool before the concurrency lock,  *)
(* and by with_idempotency inside the handler.  Both layers keep their     *)
(* result in the one row of the key.  A handler runs on the event loop, to *)
(* its end, or in a worker thread that a cancelled request leaves behind.  *)
(* Clients repeat a call with its key; every call here is one request.     *)
(***************************************************************************)
EXTENDS Integers, SequencesExt

CONSTANTS
  Calls,               \* requests
  Keys, KeyOf,         \* the idempotency_key of a request
  InputOf,             \* its other arguments
  Locks, LockOf,       \* its concurrency_key, which is part of its inputs
  Threaded,            \* handlers in asyncio.to_thread: run_pwsh, run_check
  Layered,             \* handlers that call with_idempotency
  Digested,            \* of these, the ones that hash digests of their
                       \*   arguments: run_pwsh, apply_patch, replace_text
  Writers,             \* requests that a workspace in need of recovery refuses
  Commits,             \* commit_change_set, which is not one of them
  NoCall, NoRow,
  MaxCancels, MaxCrashes, MaxErrors    \* bounds

Results == Calls \cup {"none", "mismatch", "failed", "refused"}
Hashes == [layer : {"outer", "inner"}, input : {InputOf[c] : c \in Calls}]
Rows == [hash : Hashes, result : Results]

ASSUME CallsAssumption ==
  /\ KeyOf \in [Calls -> Keys] /\ LockOf \in [Calls -> Locks]
  /\ \A c, d \in Calls : InputOf[c] = InputOf[d] => LockOf[c] = LockOf[d]
  /\ Threaded \subseteq Layered /\ Digested \subseteq Layered /\ Layered \subseteq Calls
  /\ Commits \subseteq Calls \ (Layered \cup Writers) /\ NoCall \notin Calls /\ NoRow \notin Rows
  /\ MaxCancels \in Nat /\ MaxCrashes \in Nat /\ MaxErrors \in Nat

VARIABLES
  step,        \* where a request is
  result,      \* what its handler returned, or the request was answered
  holder,      \* the request that holds an asyncio.Lock
  queue,       \* and the ones that wait for it
  loop,        \* the handler that occupies the event loop
  orphans,     \* requests that were cancelled while their thread runs on
  rows,        \* the table idempotency_keys
  ran,         \* requests whose operation took place
  blocked,     \* locks of workspaces with a change set in recovery_required
  cancels, crashes, errors

locks == <<holder, queue>>
counters == <<cancels, crashes, errors>>
vars == <<step, result, locks, loop, orphans, rows, ran, blocked, counters>>

OuterHash(c) == [layer |-> "outer", input |-> InputOf[c]]
InnerHash(c) == IF c \in Digested THEN [layer |-> "inner", input |-> InputOf[c]]
                                  ELSE OuterHash(c)

Known(c) == rows[KeyOf[c]] # NoRow

(* get_idempotent_result; answers name the request whose operation they    *)
(* report.                                                                 *)
Stored(c, hash) ==
  IF rows[KeyOf[c]].hash = hash THEN rows[KeyOf[c]].result ELSE "mismatch"

Store(c, hash, value) == rows' = [rows EXCEPT ![KeyOf[c]] = [hash |-> hash, result |-> value]]

MoveTo(c, s) == step' = [step EXCEPT ![c] = s]
Gives(c, value) == result' = [result EXCEPT ![c] = value]

Init ==
  /\ step = [c \in Calls |-> "new"] /\ result = [c \in Calls |-> "none"]
  /\ holder = [l \in Locks |-> NoCall] /\ queue = [l \in Locks |-> <<>>]
  /\ loop = NoCall /\ orphans = {}
  /\ rows = [k \in Keys |-> NoRow]
  /\ ran = {} /\ blocked = {}
  /\ cancels = 0 /\ crashes = 0 /\ errors = 0

-----------------------------------------------------------------------------
(* The event loop.                                                         *)

(* The lock is taken; a handler that is not threaded keeps the loop.       *)
Enter(c) ==
  /\ MoveTo(c, "entered")
  /\ holder' = [holder EXCEPT ![LockOf[c]] = c]
  /\ loop' = IF c \in Threaded THEN NoCall ELSE c

(* execute_tool up to the lock, which is fair: who finds requests waiting  *)
(* waits behind them.  Every request here has a key; the permission        *)
(* profile of a registered tool is always allowed.                         *)
Replay(c) ==
  /\ Known(c)
  /\ MoveTo(c, "answered") /\ Gives(c, Stored(c, OuterHash(c)))
  /\ UNCHANGED <<locks, loop>>

(* _workspace_preflight.                                                   *)
Forbidden(c) == c \in Writers /\ LockOf[c] \in blocked

Refuse(c) ==
  /\ ~Known(c) /\ Forbidden(c)
  /\ MoveTo(c, "answered") /\ Gives(c, "refused")
  /\ UNCHANGED <<locks, loop>>

(* Mutant: the lock is not waited for.                                     *)
AcquireAtOnce(c) ==
  /\ ~Known(c) /\ ~Forbidden(c)
  /\ Enter(c) /\ UNCHANGED <<queue, result>>

Acquire(c) ==
  /\ ~Known(c) /\ ~Forbidden(c)
  /\ LET l == LockOf[c]
     IN IF holder[l] = NoCall /\ queue[l] = <<>>
          THEN Enter(c) /\ UNCHANGED queue
          ELSE /\ MoveTo(c, "queued") /\ queue' = [queue EXCEPT ![l] = Append(@, c)]
               /\ UNCHANGED <<holder, loop>>
  /\ UNCHANGED result

Arrive(c) ==
  /\ loop = NoCall /\ step[c] = "new"
  /\ Replay(c) \/ Refuse(c) \/ Acquire(c)
  /\ UNCHANGED <<orphans, rows, ran, blocked, counters>>

(* The first waiter takes the released lock; nothing is looked up again.   *)
Wake(c) ==
  /\ loop = NoCall /\ step[c] = "queued"
  /\ holder[LockOf[c]] = NoCall /\ c = Head(queue[LockOf[c]])
  /\ queue' = [queue EXCEPT ![LockOf[c]] = Tail(@)]
  /\ Enter(c)
  /\ UNCHANGED <<result, orphans, rows, ran, blocked, counters>>

(* The rest of execute_tool: the lock is released and the result stored    *)
(* before any other request runs.  Mutant: nothing is stored.              *)
ReturnUnstored(c) ==
  /\ step[c] = "returned" /\ c \notin orphans /\ loop = IF c \in Threaded THEN NoCall ELSE c
  /\ holder' = [holder EXCEPT ![LockOf[c]] = NoCall] /\ loop' = NoCall
  /\ MoveTo(c, "answered")
  /\ UNCHANGED <<result, queue, orphans, rows, ran, blocked, counters>>

Return(c) ==
  /\ step[c] = "returned" /\ c \notin orphans /\ loop = IF c \in Threaded THEN NoCall ELSE c
  /\ holder' = [holder EXCEPT ![LockOf[c]] = NoCall] /\ loop' = NoCall
  /\ Store(c, OuterHash(c), result[c])
  /\ MoveTo(c, "answered")
  /\ UNCHANGED <<result, queue, orphans, ran, blocked, counters>>

-----------------------------------------------------------------------------
(* The handler, on the loop or in its thread.                              *)

Proceeds(c) == c \in Threaded \/ loop = c

(* with_idempotency: the second lookup.  Mutant: there is none.            *)
LookUnlayered(c) ==
  /\ step[c] = "entered" /\ Proceeds(c)
  /\ MoveTo(c, "running")
  /\ UNCHANGED <<result, locks, loop, orphans, rows, ran, blocked, counters>>

Look(c) ==
  /\ step[c] = "entered" /\ Proceeds(c)
  /\ IF c \in Layered /\ Known(c)
       THEN MoveTo(c, "returned") /\ Gives(c, Stored(c, InnerHash(c)))
       ELSE MoveTo(c, "running") /\ UNCHANGED result
  /\ UNCHANGED <<locks, loop, orphans, rows, ran, blocked, counters>>

(* The operation.  A commit may leave its workspace in need of recovery.   *)
Run(c) ==
  /\ step[c] = "running" /\ Proceeds(c)
  /\ ran' = ran \cup {c} /\ Gives(c, c)
  /\ MoveTo(c, IF c \in Layered THEN "ran" ELSE "returned")
  /\ \/ UNCHANGED blocked
     \/ c \in Commits /\ blocked' = blocked \cup {LockOf[c]}
  /\ UNCHANGED <<locks, loop, orphans, rows, counters>>

(* An operation that raises is not stored by with_idempotency;             *)
(* execute_tool makes an error of it, which it stores.                     *)
Raise(c) ==
  /\ step[c] = "running" /\ Proceeds(c) /\ errors < MaxErrors
  /\ errors' = errors + 1
  /\ MoveTo(c, "returned") /\ Gives(c, "failed")
  /\ UNCHANGED <<locks, loop, orphans, rows, ran, blocked, cancels, crashes>>

InnerStore(c) ==
  /\ step[c] = "ran" /\ Proceeds(c)
  /\ Store(c, InnerHash(c), result[c])
  /\ MoveTo(c, "returned")
  /\ UNCHANGED <<result, locks, loop, orphans, ran, blocked, counters>>

-----------------------------------------------------------------------------
(* Interruptions.                                                          *)

(* The client cancels its request.  CancelledError releases the lock and   *)
(* passes the except clause of execute_tool: nothing is stored.  A thread  *)
(* that has started goes on.  Mutant: the lock is kept.                    *)
CancelKeepsLock(c) ==
  /\ loop = NoCall /\ cancels < MaxCancels /\ cancels' = cancels + 1
  /\ step[c] \in {"entered", "running", "ran"} /\ c \in Threaded \ orphans
  /\ orphans' = orphans \cup {c}
  /\ UNCHANGED <<step, result, locks, loop, rows, ran, blocked, crashes, errors>>

CancelQueued(c) ==
  /\ step[c] = "queued"
  /\ MoveTo(c, "gone")
  /\ queue' = [queue EXCEPT ![LockOf[c]] = RemoveFirst(@, c)]
  /\ UNCHANGED <<holder, orphans>>

CancelInside(c) ==
  /\ c \in Threaded \ orphans
  /\ \/ step[c] \in {"entered", "returned"} /\ MoveTo(c, "gone") /\ UNCHANGED orphans
     \/ /\ step[c] \in {"entered", "running", "ran"}
        /\ orphans' = orphans \cup {c} /\ UNCHANGED step
  /\ holder' = [holder EXCEPT ![LockOf[c]] = NoCall]
  /\ UNCHANGED queue

Cancel(c) ==
  /\ loop = NoCall /\ cancels < MaxCancels /\ cancels' = cancels + 1
  /\ CancelQueued(c) \/ CancelInside(c)
  /\ UNCHANGED <<result, loop, rows, ran, blocked, crashes, errors>>

OrphanEnds(c) ==
  /\ step[c] = "returned" /\ c \in orphans
  /\ MoveTo(c, "gone") /\ orphans' = orphans \ {c}
  /\ UNCHANGED <<result, locks, loop, rows, ran, blocked, counters>>

(* The server dies and starts again: only the database is left.            *)
Crash ==
  /\ crashes < MaxCrashes /\ crashes' = crashes + 1
  /\ step' = [c \in Calls |-> IF step[c] \in {"new", "answered"} THEN step[c] ELSE "gone"]
  /\ holder' = [l \in Locks |-> NoCall] /\ queue' = [l \in Locks |-> <<>>]
  /\ loop' = NoCall /\ orphans' = {}
  /\ UNCHANGED <<result, rows, ran, blocked, cancels, errors>>

-----------------------------------------------------------------------------

Advance(c) ==
  Wake(c) \/ Return(c) \/ Look(c) \/ Run(c) \/ Raise(c) \/ InnerStore(c) \/ OrphanEnds(c)

Next == Crash \/ \E c \in Calls : Arrive(c) \/ Advance(c) \/ Cancel(c)

Spec == Init /\ [][Next]_vars

(* Threads and the event loop go on; an operation ends, by its own timeout *)
(* if nothing else.                                                        *)
FairSpec == Spec /\ \A c \in Calls : WF_vars(Advance(c))

-----------------------------------------------------------------------------

TypeOK ==
  /\ step \in [Calls -> {"new", "queued", "entered", "running", "ran", "returned",
                         "answered", "gone"}]
  /\ result \in [Calls -> Results]
  /\ holder \in [Locks -> Calls \cup {NoCall}]
  /\ queue \in [Locks -> Seq(Calls)]
  /\ \A l \in Locks : \A i \in DOMAIN queue[l] : step[queue[l][i]] = "queued"
  /\ loop \in (Calls \ Threaded) \cup {NoCall} /\ orphans \subseteq Threaded
  /\ rows \in [Keys -> Rows \cup {NoRow}]
  /\ ran \subseteq Calls /\ blocked \subseteq Locks
  /\ cancels \in 0 .. MaxCancels /\ crashes \in 0 .. MaxCrashes /\ errors \in 0 .. MaxErrors

SameRequest(c, d) == KeyOf[c] = KeyOf[d] /\ InputOf[c] = InputOf[d]
Undisturbed == cancels = 0 /\ crashes = 0

(* Copies of one request, in any overlap, make the operation happen once,  *)
(* if no client cancelled and the server did not die.                      *)
RunsAtMostOnce ==
  Undisturbed => \A c, d \in ran \cap Layered : SameRequest(c, d) => c = d

(* Whatever was cancelled or crashed: after one copy of a request has been *)
(* answered with the outcome of its operation, a copy that arrives later   *)
(* is answered at once and does nothing.                                   *)
AnsweredIsNeverRepeated ==
  [][\A c, d \in Calls :
       /\ SameRequest(c, d) /\ step[c] = "answered" /\ result[c] # "refused"
       /\ step[d] = "new" /\ step'[d] # "new"
       => step'[d] = "answered" /\ d \notin ran']_vars

(* To its client a request is new, open, answered or cancelled: all the    *)
(* rest behaves as IdempotentCalls says.                                   *)
Stage ==
  [c \in Calls |-> IF c \in orphans THEN "left"
                   ELSE IF step[c] \in {"new", "answered", "gone"} THEN step[c]
                   ELSE "open"]
Answers == [c \in Calls |-> IF step[c] = "answered" THEN result[c] ELSE "none"]

Promised == INSTANCE IdempotentCalls WITH
  stage <- Stage, answer <- Answers, disturbed <- ~ Undisturbed

ImplementsIdempotency == Promised!Spec

Inside == {"entered", "running", "ran", "returned"}

(* Two operations in one workspace never overlap, except with one whose    *)
(* request was cancelled and whose thread still runs.                      *)
OneWriterAtATime ==
  \A c, d \in Calls \ orphans :
    step[c] \in Inside /\ step[d] \in Inside /\ LockOf[c] = LockOf[d] => c = d

(* Every request that arrived is answered or was interrupted, also behind  *)
(* requests that were cancelled while they held or awaited the lock.       *)
CallsEnd ==
  \A c \in Calls : step[c] # "new" ~> step[c] \in {"answered", "gone"}
=============================================================================
