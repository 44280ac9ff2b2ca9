-------------------------- MODULE AdmissionControl --------------------------
(***************************************************************************)
(* What the scheduler of app/services/process_scheduler.py promises,       *)
(* without queues, turns, counters or a mutex: a caller asks, and is       *)
(* admitted at a moment when its request fits, or is refused.              *)
(***************************************************************************)
EXTENDS Integers, FiniteSets

CONSTANTS Callers, Workspaces, Requests, NoKey, NoRequest,
          GlobalLimit, PerWorkspaceLimit

VARIABLES
  wanted,     \* the request of each caller that asked and has not left
  admitted    \* callers that hold a lease

Clash(k, l) ==
  /\ k # NoKey /\ l # NoKey
  /\ k.resource = l.resource
  /\ "write" \in {k.mode, l.mode}

Fits(r) ==
  /\ Cardinality(admitted) < GlobalLimit
  /\ Cardinality({c \in admitted : wanted[c].workspace = r.workspace}) < PerWorkspaceLimit
  /\ \A c \in admitted : ~ Clash(r.key, wanted[c].key)

Init == wanted = [c \in Callers |-> NoRequest] /\ admitted = {}

Ask(c, r) ==
  /\ wanted[c] = NoRequest
  /\ wanted' = [wanted EXCEPT ![c] = r]
  /\ UNCHANGED admitted

Admit(c) ==
  /\ wanted[c] # NoRequest /\ c \notin admitted
  /\ Fits(wanted[c])
  /\ admitted' = admitted \cup {c}
  /\ UNCHANGED wanted

Leave(c) ==
  /\ wanted[c] # NoRequest
  /\ wanted' = [wanted EXCEPT ![c] = NoRequest]
  /\ admitted' = admitted \ {c}

Next ==
  \E c \in Callers : (\E r \in Requests : Ask(c, r)) \/ Admit(c) \/ Leave(c)

Spec == Init /\ [][Next]_<<wanted, admitted>>
=============================================================================
