--------------------------- MODULE ProcessRecord ----------------------------
(***************************************************************************)
(* What a client may see of a process, without threads, leases, crashes or *)
(* recovery: the status of its record and its events, as the transactions  *)
(* of app/services/event_store.py change them.  A record ends once and for *)
(* good, in one step with the event that says how; the result of a check   *)
(* is announced once, and later.                                           *)
(***************************************************************************)
EXTENDS Sequences

CONSTANTS Procs, Checks, Terminal

VARIABLES
  record,    \* status of each process, or "none"
  log        \* its events; a terminal status stands for process.exited

Happened(p, type) == \E i \in DOMAIN log[p] : log[p][i] = type

Put(p, status, events) ==
  /\ record' = [record EXCEPT ![p] = status]
  /\ log' = [log EXCEPT ![p] = @ \o events]

Init ==
  /\ record = [p \in Procs |-> "none"]
  /\ log = [p \in Procs |-> <<>>]

Accept(p) == record[p] = "none" /\ Put(p, "queued", <<>>)

Announce(p) == record[p] = "queued" /\ log[p] = <<>> /\ Put(p, "queued", <<"tool.queued">>)

Start(p) ==
  /\ record[p] = "queued" /\ log[p] = <<"tool.queued">>
  /\ Put(p, "running", <<"tool.started">>)

(* A server that was restarted goes on with the process.                   *)
Resume(p) == record[p] = "running" /\ Put(p, "running", <<"tool.started">>)

(* Output may be announced late, but never before the start.               *)
Output(p) == Happened(p, "tool.started") /\ Put(p, record[p], <<"process.output">>)

(* What can become of a process: one that never started can only have been *)
(* refused or interrupted.                                                 *)
Ends(p) ==
  {status \in Terminal :
     \/ record[p] = "running"
     \/ record[p] = "queued" /\ status = "interrupted"
     \/ record[p] = "queued" /\ log[p] # <<>> /\ status = "failed"}

End(p) == \E status \in Ends(p) : Put(p, status, <<status>>)

(* The recovery of a supervisor appends no event.                          *)
EndUnannounced(p) ==
  \E status \in Ends(p) \cap {"interrupted", "lost", "recovery_required"} :
    Put(p, status, <<>>)

Report(p) ==
  /\ p \in Checks /\ Happened(p, record[p]) /\ ~ Happened(p, "check.completed")
  /\ Put(p, record[p], <<"check.completed">>)

Next ==
  \E p \in Procs :
    \/ Accept(p) \/ Announce(p) \/ Start(p) \/ Resume(p) \/ Output(p)
    \/ End(p) \/ EndUnannounced(p) \/ Report(p)

Spec == Init /\ [][Next]_<<record, log>>
=============================================================================
