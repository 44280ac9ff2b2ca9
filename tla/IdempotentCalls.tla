-------------------------- MODULE IdempotentCalls ---------------------------
(***************************************************************************)
(* What a client may rely on that sends a request with an idempotency_key, *)
(* without locks, threads, lookups or rows (app/services/tool_registry.py):*)
(* a request that repeats an answered one does nothing; copies that        *)
(* overlap operate once, if their handler looks again under the lock       *)
(* (Layered) and no cancelled request or crash disturbs them; and an       *)
(* answer names an operation of that very request.                         *)
(***************************************************************************)
EXTENDS Naturals

CONSTANTS Calls, KeyOf, InputOf, Layered, Writers

VARIABLES
  stage,       \* "new", "open", "answered"; or cancelled: "left" while its
               \*   thread runs on, "gone"
  answer,      \* what a request was answered, or "none"
  ran,         \* requests whose operation took place
  disturbed    \* a request was cancelled, or the server died

Same(c, d) == KeyOf[c] = KeyOf[d] /\ InputOf[c] = InputOf[d]

Init ==
  /\ stage = [c \in Calls |-> "new"] /\ answer = [c \in Calls |-> "none"]
  /\ ran = {} /\ disturbed = FALSE

Repeats(c) ==
  \E d \in Calls : Same(c, d) /\ stage[d] = "answered" /\ answer[d] # "refused"

Open(c) ==
  /\ stage[c] = "new" /\ ~ Repeats(c)
  /\ stage' = [stage EXCEPT ![c] = "open"]
  /\ UNCHANGED <<answer, ran, disturbed>>

Operate(c) ==
  /\ stage[c] \in {"open", "left"} /\ c \notin ran
  /\ c \in Layered /\ ~ disturbed => \A d \in ran \cap Layered : ~ Same(c, d)
  /\ ran' = ran \cup {c}
  /\ UNCHANGED <<stage, answer, disturbed>>

(* What a request may be told: what it asked for was done, or was tried in *)
(* vain; another request came before it under its key; it is not admitted. *)
Truthful(c, a) ==
  \/ a \in ran /\ Same(c, a)
  \/ a = "failed" /\ \E d \in Calls : Same(c, d) /\ stage[d] # "new"
  \/ a = "mismatch" /\ \E d \in Calls \ {c} : KeyOf[d] = KeyOf[c] /\ stage[d] # "new"
  \/ a = "refused" /\ c \in Writers /\ stage[c] = "new"

Answer(c) ==
  /\ stage[c] \in {"new", "open"}
  /\ \E a \in Calls \cup {"failed", "mismatch", "refused"} :
       Truthful(c, a) /\ answer' = [answer EXCEPT ![c] = a]
  /\ stage' = [stage EXCEPT ![c] = "answered"]
  /\ UNCHANGED <<ran, disturbed>>

Cancel(c) ==
  /\ stage[c] = "open"
  /\ \E s \in {"left", "gone"} : stage' = [stage EXCEPT ![c] = s]
  /\ disturbed' = TRUE
  /\ UNCHANGED <<answer, ran>>

End(c) ==
  /\ stage[c] = "left" /\ stage' = [stage EXCEPT ![c] = "gone"]
  /\ UNCHANGED <<answer, ran, disturbed>>

Crash ==
  /\ stage' = [c \in Calls |-> IF stage[c] \in {"open", "left"} THEN "gone" ELSE stage[c]]
  /\ disturbed' = TRUE
  /\ UNCHANGED <<answer, ran>>

Next ==
  Crash \/ \E c \in Calls : Open(c) \/ Operate(c) \/ Answer(c) \/ Cancel(c) \/ End(c)

Spec == Init /\ [][Next]_<<stage, answer, ran, disturbed>>
=============================================================================
