----------------------------- MODULE EventStore -----------------------------
(***************************************************************************)
(* The durable event stream (app/services/event_store.py) and its readers, *)
(* get_events and subscribe_process (app/tools/events.py), which run in    *)
(* threads of their own.                                                   *)
(*                                                                         *)
(* Writers append while they hold the condition of the notifier.  A reader *)
(* lists once without it, in three separate reads of the database; if the  *)
(* page is empty it may wait: then each listing happens under the          *)
(* condition, so it is one step, and so is the wake-up of all who wait.    *)
(* Events and watermarks survive a restart of the server, the notifier and *)
(* the calls in progress do not.                                           *)
(***************************************************************************)
EXTENDS Integers, FiniteSets

CONSTANTS
  Readers,             \* clients, each with one call at a time
  Workspaces,
  Procs,               \* process ids
  Home,                \* the workspace of each process
  Any,                 \* no filter on the process
  PageSize,            \* the limit of a page
  MaxWaiters,          \* events.max_waiters
  MaxKept,             \* events.max_events_per_workspace
  MaxEvents,           \* bound: events ever appended
  MaxRestarts          \* bound: restarts of the server

ASSUME StoreAssumption ==
  /\ Workspaces # {} /\ Home \in [Procs -> Workspaces] /\ Any \notin Procs
  /\ PageSize \in Nat \ {0} /\ MaxWaiters \in Nat \ {0} /\ MaxKept \in Nat \ {0}
  /\ MaxEvents \in Nat /\ MaxRestarts \in Nat

VARIABLES
  written,     \* every event that was ever appended (history)
  events,      \* the rows of the table events
  expired,     \* event_retention_state.expired_through, 0 without a row
  discarded,   \* workspaces that delete_workspace has removed
  waiters, shutting,   \* the notifier
  serving,     \* FALSE while create_app has not cleaned up yet
  restarts,
  step,        \* where the call of each reader is
  call,        \* its arguments, and the event id it reads after
  answer       \* what the last call of each reader returned

store == <<written, events, expired, discarded>>
notifier == <<waiters, shutting>>
readers == <<step, call, answer>>
vars == <<store, notifier, serving, restarts, readers>>

-----------------------------------------------------------------------------

Newest(S) == CHOOSE n \in S \cup {0} : \A m \in S : m <= n
Ids(E) == {e.id : e \in E}
Of(w) == {e \in events : e.workspace = w}

(* What a call that reads after the id "after" asks for.                   *)
Matching(E, c, after) ==
  {e \in E : /\ e.workspace = c.workspace /\ e.id > after
             /\ c.process \in {Any, e.process}}

(* The SELECT of list_after: the oldest PageSize rows.                     *)
Page(c) ==
  LET rows == Matching(events, c, c.after)
  IN {e \in rows : Cardinality({f \in rows : f.id < e.id}) < PageSize}

(* The per-process sequence of the next event.                             *)
NextSequence(p) == Newest({e.sequence : e \in {f \in events : f.process = p}}) + 1

NoCall == [workspace |-> CHOOSE w \in Workspaces : TRUE, process |-> Any, after |-> 0]
NoAnswer == [kind |-> "none", ids |-> {}, cursor |-> 0, from |-> NoCall]

Answer(kind, c, E) ==
  [kind |-> kind, ids |-> Ids(E), from |-> c,
   cursor |-> IF kind = "expired" THEN expired[c.workspace]
              ELSE IF E = {} THEN c.after ELSE Newest(Ids(E))]

(* The call of a reader returns.                                           *)
Return(r, ans) ==
  /\ answer' = [answer EXCEPT ![r] = ans]
  /\ step' = [step EXCEPT ![r] = "idle"]
  /\ call' = [call EXCEPT ![r] = NoCall]

-----------------------------------------------------------------------------

Init ==
  /\ written = {} /\ events = {}
  /\ expired = [w \in Workspaces |-> 0]
  /\ discarded = {}
  /\ waiters = 0 /\ shutting = FALSE
  /\ serving = TRUE /\ restarts = 0
  /\ step = [r \in Readers |-> "idle"]
  /\ call = [r \in Readers |-> NoCall]
  /\ answer = [r \in Readers |-> NoAnswer]

(* notify_all.  Mutant: nobody is woken.                                   *)
NobodyNotified == step

Notified == [r \in Readers |-> IF step[r] = "waiting" THEN "woken" ELSE step[r]]

(* append, start_process and transition_process: one transaction under the *)
(* condition.  The row of the workspace must exist (a foreign key).        *)
Append(w, p) ==
  /\ serving /\ Cardinality(written) < MaxEvents
  /\ w \notin discarded /\ (p \in Procs => Home[p] = w)
  /\ LET e == [id |-> Newest(Ids(written)) + 1, workspace |-> w, process |-> p,
               sequence |-> IF p = Any THEN 0 ELSE NextSequence(p)]
     IN written' = written \cup {e} /\ events' = events \cup {e}
  /\ step' = Notified
  /\ UNCHANGED <<expired, discarded, notifier, serving, restarts, call, answer>>

(* database.delete_workspace, after discard_workspace; without condition.  *)
Discard(w) ==
  /\ serving /\ w \notin discarded
  /\ events' = events \ Of(w)
  /\ expired' = [expired EXCEPT ![w] = 0]
  /\ discarded' = discarded \cup {w}
  /\ UNCHANGED <<written, notifier, serving, restarts, readers>>

Shutdown ==
  /\ serving /\ ~ shutting
  /\ shutting' = TRUE
  /\ step' = Notified
  /\ UNCHANGED <<store, waiters, serving, restarts, call, answer>>

(* The server stops or crashes; calls in progress are lost.                *)
Restart ==
  /\ serving /\ restarts < MaxRestarts
  /\ serving' = FALSE /\ restarts' = restarts + 1
  /\ waiters' = 0 /\ shutting' = FALSE
  /\ step' = [r \in Readers |-> "idle"]
  /\ call' = [r \in Readers |-> NoCall]
  /\ UNCHANGED <<store, answer>>

(* cleanup, which create_app calls before it serves: what is older than    *)
(* retention_days is a prefix of the stream, and in each workspace all but *)
(* the newest MaxKept rows go.  Mutant: the watermark stays.               *)
ExpiredThrough(w, aged) ==
  LET excess == {e \in Of(w) : Cardinality({f \in Of(w) : f.id > e.id}) >= MaxKept}
      old == {e \in Of(w) : e.id <= aged}
  IN Newest(Ids(excess \cup old))

CleanupWithoutWatermark ==
  /\ ~ serving /\ serving' = TRUE
  /\ \E aged \in 0 .. MaxEvents :
       events' = {e \in events : e.id > ExpiredThrough(e.workspace, aged)}
  /\ UNCHANGED <<written, expired, discarded, notifier, restarts, readers>>

Cleanup ==
  /\ ~ serving /\ serving' = TRUE
  /\ \E aged \in 0 .. MaxEvents :
       /\ events' = {e \in events : e.id > ExpiredThrough(e.workspace, aged)}
       /\ expired' = [w \in Workspaces |-> Newest({expired[w], ExpiredThrough(w, aged)})]
  /\ UNCHANGED <<written, discarded, notifier, restarts, readers>>

-----------------------------------------------------------------------------
(* A call of get_events.                                                   *)

(* The workspace and the process are checked before the store is asked.  A *)
(* client may hold the cursor of any event; from_beginning stands for 0.   *)
Request(r) ==
  /\ serving /\ step[r] = "idle"
  /\ \E w \in Workspaces \ discarded, n \in 0 .. Newest(Ids(written)) :
       \E p \in {Any} \cup {q \in Procs : Home[q] = w} :
         call' = [call EXCEPT ![r] = [workspace |-> w, process |-> p, after |-> n]]
  /\ step' = [step EXCEPT ![r] = "check"]
  /\ answer' = [answer EXCEPT ![r] = NoAnswer]
  /\ UNCHANGED <<store, notifier, serving, restarts>>

(* A call without a cursor: _resolve_after reads the tail of the workspace.*)
RequestTail(r) ==
  /\ serving /\ step[r] = "idle"
  /\ \E w \in Workspaces \ discarded :
       \E p \in {Any} \cup {q \in Procs : Home[q] = w} :
         call' = [call EXCEPT ![r] = [workspace |-> w, process |-> p, after |-> 0]]
  /\ step' = [step EXCEPT ![r] = "resolve"]
  /\ answer' = [answer EXCEPT ![r] = NoAnswer]
  /\ UNCHANGED <<store, notifier, serving, restarts>>

Resolve(r) ==
  /\ step[r] = "resolve"
  /\ call' = [call EXCEPT ![r].after = Newest(Ids(Of(call[r].workspace)))]
  /\ step' = [step EXCEPT ![r] = "check"]
  /\ UNCHANGED <<store, notifier, serving, restarts, answer>>

(* _check_retention.  Mutant: no check.                                    *)
NotRefused(c) == FALSE

Refused(c) == c.after < expired[c.workspace]

CheckRetention(r) ==
  /\ step[r] = "check"
  /\ IF Refused(call[r])
       THEN Return(r, Answer("expired", call[r], {}))
       ELSE /\ step' = [step EXCEPT ![r] = "select"]
            /\ UNCHANGED <<call, answer>>
  /\ UNCHANGED <<store, notifier, serving, restarts>>

(* list_after returns.  wait_after goes on when the page is empty and      *)
(* wait_seconds is not 0.                                                  *)
Select(r) ==
  /\ step[r] = "select"
  /\ \/ Return(r, Answer("page", call[r], Page(call[r])))
     \/ /\ Page(call[r]) = {}
        /\ step' = [step EXCEPT ![r] = "enter"]
        /\ UNCHANGED <<call, answer>>
  /\ UNCHANGED <<store, notifier, serving, restarts>>

(* What one turn of the loop of wait_after decides, under the condition.   *)
(* Mutant: the deadline is looked at before the page.                      *)
DeadlineFirst(c, late) ==
  IF Refused(c) THEN "expired"
  ELSE IF late THEN "timed_out"
  ELSE IF Page(c) # {} THEN "page"
  ELSE IF shutting THEN "shutdown" ELSE "wait"

Verdict(c, late) ==
  IF Refused(c) THEN "expired"
  ELSE IF Page(c) # {} THEN "page"
  ELSE IF shutting THEN "shutdown"
  ELSE IF late THEN "timed_out" ELSE "wait"

(* The turn of a call beside which "others" wait: it answers, and is not   *)
(* counted any more, or it waits.  Mutant: an answer leaves it counted.    *)
LookAndStay(r, others, late) ==
  LET c == call[r]  v == Verdict(c, late)
  IN /\ waiters' = others + 1
     /\ IF v = "wait" THEN step' = [step EXCEPT ![r] = "waiting"] /\ UNCHANGED <<call, answer>>
                      ELSE Return(r, Answer(v, c, IF v = "page" THEN Page(c) ELSE {}))
     /\ UNCHANGED <<store, shutting, serving, restarts>>

Look(r, others, late) ==
  LET c == call[r]  v == Verdict(c, late)
  IN /\ IF v = "wait"
          THEN /\ step' = [step EXCEPT ![r] = "waiting"] /\ waiters' = others + 1
               /\ UNCHANGED <<call, answer>>
          ELSE /\ Return(r, Answer(v, c, IF v = "page" THEN Page(c) ELSE {}))
               /\ waiters' = others
     /\ UNCHANGED <<store, shutting, serving, restarts>>

(* wait_after takes the condition: too many waiters, or the first turn.    *)
Enter(r) ==
  /\ step[r] = "enter"
  /\ IF waiters >= MaxWaiters
       THEN /\ Return(r, Answer("limited", call[r], {}))
            /\ UNCHANGED <<store, notifier, serving, restarts>>
       ELSE \E late \in BOOLEAN : Look(r, waiters, late)

(* A waiter that was notified takes the condition again.                   *)
Wake(r) == step[r] = "woken" /\ \E late \in BOOLEAN : Look(r, waiters - 1, late)

(* condition.wait returns at the deadline.                                 *)
Timeout(r) == step[r] = "waiting" /\ Look(r, waiters - 1, TRUE)

ReadStep(r) == Resolve(r) \/ CheckRetention(r) \/ Select(r) \/ Enter(r) \/ Wake(r)

Next ==
  \/ \E w \in Workspaces : \/ \E p \in {Any} \cup Procs : Append(w, p)
                           \/ Discard(w)
  \/ Shutdown \/ Restart \/ Cleanup
  \/ \E r \in Readers : Request(r) \/ RequestTail(r) \/ ReadStep(r) \/ Timeout(r)

Spec == Init /\ [][Next]_vars

(* The threads of a running server run.  That the deadline of a wait comes *)
(* is not assumed: wake-ups must do without it.                            *)
FairSpec == Spec /\ \A r \in Readers : WF_vars(ReadStep(r))

-----------------------------------------------------------------------------

Calls == [workspace : Workspaces, process : {Any} \cup Procs,
          after : 0 .. MaxEvents]
Events == [id : 1 .. MaxEvents, workspace : Workspaces, process : {Any} \cup Procs,
           sequence : 0 .. MaxEvents]

TypeOK ==
  /\ events \subseteq written /\ written \subseteq Events
  /\ expired \in [Workspaces -> 0 .. MaxEvents] /\ discarded \subseteq Workspaces
  /\ waiters \in 0 .. MaxWaiters /\ shutting \in BOOLEAN
  /\ serving \in BOOLEAN /\ restarts \in 0 .. MaxRestarts
  /\ step \in [Readers -> {"idle", "resolve", "check", "select", "enter", "waiting", "woken"}]
  /\ call \in [Readers -> Calls]
  /\ answer \in [Readers ->
       [kind : {"none", "page", "expired", "limited", "shutdown", "timed_out"},
        ids : SUBSET (1 .. MaxEvents), cursor : 0 .. MaxEvents, from : Calls]]

(* A client that follows its cursors misses nothing in silence and gets    *)
(* nothing twice: a page holds every event that was ever appended to the   *)
(* workspace, and matches, between the cursor it was asked for and the     *)
(* cursor it returns, whatever was appended, expired or restarted between  *)
(* the reads it was made from.                                             *)
PagesAreComplete ==
  \A r \in Readers : LET got == answer[r] IN
    got.kind \in {"page", "timed_out", "shutdown"} =>
      got.ids = {i \in Ids(Matching(written, got.from, got.from.after)) : i <= got.cursor}

(* The answers "timed out" and "shutdown", and an empty page, are only     *)
(* given when nothing is there to read.                                    *)
EmptyAnswersAreTrue ==
  [][\A r \in Readers :
       answer'[r] # answer[r] /\ answer'[r].ids = {}
         /\ answer'[r].kind \in {"page", "timed_out", "shutdown"}
       => Matching(events, call[r], call[r].after) = {}]_vars

(* Seen by its readers, all of this is a log that each question is asked   *)
(* of in one step (EventLog): the three reads, the waits, the wake-ups and *)
(* the clean-up cannot be told from it.                                    *)
Stage ==
  [r \in Readers |-> CASE step[r] = "idle" -> "idle"
                       [] step[r] = "resolve" -> "tail"
                       [] OTHER -> "asked"]

Log == INSTANCE EventLog WITH
  log <- written, forgotten <- expired, gone <- discarded,
  stage <- Stage, asked <- call, told <- answer

ImplementsEventLog == Log!Spec

(* The sequences of the rows of one process have no gap and follow the     *)
(* order of the ids, also after retention has taken a prefix (migration    *)
(* 005 makes them unique: a double would fail an append).                  *)
SequencesFollowIds ==
  \A p \in Procs : LET E == {e \in events : e.process = p} IN
    \A e, f \in E : f.id > e.id =>
      f.sequence - e.sequence = Cardinality({g \in E : e.id < g.id /\ g.id <= f.id})

(* The watermark is exact: all that was appended after it is there, and    *)
(* nothing up to it, so that EVENT_CURSOR_EXPIRED is never wrong about a   *)
(* cursor, nor missing; and the sequences survive the deletion.            *)
RetentionIsExact ==
  /\ \A w \in Workspaces \ discarded :
       Of(w) = {e \in written : e.workspace = w /\ e.id > expired[w]}
  /\ SequencesFollowIds

(* The count that bounds the waiters is the number of calls that wait.     *)
WaitersAreCounted ==
  TypeOK /\ waiters = Cardinality({r \in Readers : step[r] \in {"waiting", "woken"}})

(* No wake-up is lost: a call that waits ends once an event it asks for is *)
(* there or the service shuts down, without the help of its deadline.      *)
Overdue(r) ==
  /\ step[r] \in {"enter", "waiting", "woken"}
  /\ shutting \/ Matching(events, call[r], call[r].after) # {}

WaitEnds(r) == Overdue(r) ~> ~ Overdue(r)
=============================================================================
