------------------------------ MODULE EventLog -------------------------------
(***************************************************************************)
(* What the event stream promises its readers (app/tools/events.py), as if *)
(* nothing happened between a question and its answer: no rows, no         *)
(* notifier, no waits, no separate reads.  Each workspace has a log that   *)
(* only grows; of its beginning a part may be forgotten, but not during a  *)
(* call.  An answer is true of one moment: it has the next events behind   *)
(* the cursor, or there are none, or the cursor is in the forgotten part.  *)
(***************************************************************************)
EXTENDS Integers, FiniteSets

CONSTANTS Readers, Workspaces, Procs, Home, Any, PageSize, NoCall, NoAnswer

VARIABLES
  log,         \* every event that was ever appended
  forgotten,   \* in each workspace, the id up to which events are forgotten
  gone,        \* workspaces that were discarded, with their logs
  stage,       \* of each reader: "idle", "tail" (without a cursor), "asked"
  asked,       \* what it asked for
  told         \* its last answer

readers == <<stage, asked, told>>
vars == <<log, forgotten, gone, readers>>

Newest(S) == CHOOSE n \in S \cup {0} : \A m \in S : m <= n
Ids(E) == {e.id : e \in E}

Kept(w) == {e \in log : e.workspace = w /\ w \notin gone /\ e.id > forgotten[w]}

Behind(c) == {e \in Kept(c.workspace) : e.id > c.after /\ c.process \in {Any, e.process}}

Page(c) == {e \in Behind(c) : Cardinality({f \in Behind(c) : f.id < e.id}) < PageSize}

Init ==
  /\ log = {} /\ forgotten = [w \in Workspaces |-> 0] /\ gone = {}
  /\ stage = [r \in Readers |-> "idle"]
  /\ asked = [r \in Readers |-> NoCall] /\ told = [r \in Readers |-> NoAnswer]

(* The sequence of an event follows that of the newest event of its        *)
(* process that is kept.                                                   *)
Append(w, p) ==
  /\ w \notin gone /\ (p \in Procs => Home[p] = w)
  /\ UNCHANGED <<forgotten, gone, readers>>
  /\ LET own == {e \in Kept(w) : e.process = p}
         sequence == IF p = Any THEN 0 ELSE Newest({e.sequence : e \in own}) + 1
     IN log' = log \cup {[id |-> Newest(Ids(log)) + 1, workspace |-> w, process |-> p,
                          sequence |-> sequence]}

Discard(w) ==
  /\ UNCHANGED <<log, readers>>
  /\ gone' = gone \cup {w} /\ forgotten' = [forgotten EXCEPT ![w] = 0]

Forget ==
  /\ \A r \in Readers : stage[r] = "idle"
  /\ UNCHANGED <<log, gone, readers>>
  /\ forgotten' \in [Workspaces -> 0 .. Newest(Ids(log))]
  /\ \A w \in Workspaces : forgotten'[w] >= forgotten[w]

Ask(r) ==
  /\ stage[r] = "idle" /\ UNCHANGED <<log, forgotten, gone>>
  /\ told' = [told EXCEPT ![r] = NoAnswer]
  /\ \E w \in Workspaces \ gone, p \in {Any} \cup Procs :
       /\ p \in Procs => Home[p] = w
       /\ \/ /\ stage' = [stage EXCEPT ![r] = "tail"]
             /\ asked' = [asked EXCEPT ![r] = [workspace |-> w, process |-> p, after |-> 0]]
          \/ \E n \in 0 .. Newest(Ids(log)) :
               /\ stage' = [stage EXCEPT ![r] = "asked"]
               /\ asked' = [asked EXCEPT ![r] = [workspace |-> w, process |-> p, after |-> n]]

(* A call without a cursor begins at the newest event.                     *)
Begin(r) ==
  /\ stage[r] = "tail" /\ stage' = [stage EXCEPT ![r] = "asked"]
  /\ asked' = [asked EXCEPT ![r].after = Newest(Ids(Kept(asked[r].workspace)))]
  /\ UNCHANGED <<log, forgotten, gone, told>>

Forgotten(c) == c.after < forgotten[c.workspace]

Answer(r) ==
  LET c == asked[r]
      Tell(kind, E, cursor) ==
        told' = [told EXCEPT ![r] = [kind |-> kind, ids |-> Ids(E), from |-> c, cursor |-> cursor]]
  IN /\ stage[r] = "asked"
     /\ stage' = [stage EXCEPT ![r] = "idle"] /\ asked' = [asked EXCEPT ![r] = NoCall]
     /\ UNCHANGED <<log, forgotten, gone>>
     /\ \/ Forgotten(c) /\ Tell("expired", {}, forgotten[c.workspace])
        \/ /\ ~ Forgotten(c) /\ Behind(c) # {}
           /\ Tell("page", Page(c), Newest(Ids(Page(c))))
        \/ /\ ~ Forgotten(c) /\ Behind(c) = {}
           /\ \E kind \in {"page", "timed_out", "shutdown"} : Tell(kind, {}, c.after)
        \/ Tell("limited", {}, c.after)

(* The server stops; questions are lost, what was appended is not.         *)
Restart ==
  /\ stage' = [r \in Readers |-> "idle"] /\ asked' = [r \in Readers |-> NoCall]
  /\ UNCHANGED <<log, forgotten, gone, told>>

Next ==
  \/ \E w \in Workspaces : Discard(w) \/ \E p \in {Any} \cup Procs : Append(w, p)
  \/ Forget \/ Restart
  \/ \E r \in Readers : Ask(r) \/ Begin(r) \/ Answer(r)

Spec == Init /\ [][Next]_vars
=============================================================================
