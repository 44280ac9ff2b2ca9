----------------------------- MODULE Supervisor -----------------------------
(***************************************************************************)
(* The background service (app/services/supervisor.py): one supervisor     *)
(* under a kernel lock starts the MCP server and, while that is healthy    *)
(* and the proxy answers, the tunnel; it probes both, restarts them with a *)
(* bounded exponential back-off, and ends at the request of a stop command *)
(* (app/service.py), which talks to it through two files                   *)
(* (app/services/service_state.py).                                        *)
(*                                                                         *)
(* A tick is cut where other processes can come between: the server's      *)
(* half, the decision about the tunnel, the tunnel doctor, the tunnel's    *)
(* probe with the status.  Time is counted in poll intervals and every     *)
(* timer is relative, stopped at the value beyond which nothing changes.   *)
(* tunnel_enabled and proxy.enabled are TRUE.                              *)
(***************************************************************************)
EXTENDS Integers

CONSTANTS
  Windows,         \* TRUE where the owner of a port and a process tree are known
  InitialDelay, Multiplier, MaxDelay,   \* service.restart
  StableReset,     \* stable_reset_seconds
  StartTimeout,    \* startup_timeout_seconds
  MaxPower,        \* the largest n with Multiplier ** n a float: 1023 for 2
  Stubborn         \* children of which a process may survive being killed

Children == {"mcp", "tunnel"}

ASSUME SupervisorAssumption ==
  /\ Windows \in BOOLEAN /\ Stubborn \subseteq Children
  /\ InitialDelay \in Nat \ {0} /\ Multiplier \in Nat \ {0} /\ MaxDelay \in Nat
  /\ MaxDelay >= InitialDelay
  /\ StableReset \in Nat /\ StartTimeout \in Nat \ {0} /\ MaxPower \in Nat

VARIABLES
  phase,       \* where run() is; "off" without a supervisor
  child,       \* the ChildRuntime of each child
  proxySeen,   \* what the last tick found at the proxy's port
  status, fresh,  \* status.json: its state; is it this supervisor's and recent
  stopFile,    \* stop.request.json exists
  asked,       \* a stop command: "no", "decided" (it saw a live one), "waiting"
  stray,       \* living processes of children that nobody supervises
  proxy,       \* the proxy listens
  calm         \* from now on nothing outside fails any more

service == <<phase, child, proxySeen, status, fresh>>
world == <<stray, proxy, calm>>
supervisor_vars == <<service, stopFile, asked, world>>

-----------------------------------------------------------------------------

Least(a, b) == IF a < b THEN a ELSE b
Most(a, b) == IF a > b THEN a ELSE b

LiveStates == {"booting", "up", "hung"}
Live(k) == k.proc \in LiveStates
Serving == phase \notin {"off", "closing", "failing"}

(* A child that was never started.  "bad" is the time since it was last    *)
(* seen healthy (-1: it is), "wait" what is left until its next start.     *)
NewChild ==
  [proc |-> "none", state |-> "stopped", wait |-> 0, bad |-> -1, age |-> 0, failures |-> 0]

Initial == [c \in Children |-> NewChild]

(* d polls later.                                                          *)
Later(k, d) ==
  [k EXCEPT !.wait = Most(0, @ - d), !.age = Least(StableReset, @ + d),
            !.bad = IF @ = -1 THEN -1 ELSE Least(StartTimeout, @ + d)]

(* multiplier ** n.                                                        *)
Power[n \in Nat] == IF n = 0 THEN 1 ELSE Multiplier * Power[n - 1]

(* The next start is measured from the start of the tick, lag polls ago.   *)
Retried(k, lag) ==
  LET delay == Least(InitialDelay * Power[k.failures], MaxDelay)
  IN  [k EXCEPT !.failures = @ + 1, !.state = "backoff", !.wait = Most(0, delay - lag)]

(* Multiplier ** (failures - 1) leaves the range of a float: OverflowError.*)
Overflowed(k) == k.failures > MaxPower + 1

Stopped(k) == [k EXCEPT !.proc = "none", !.bad = -1, !.state = "stopped"]

Observed(k) ==
  IF k.proc = "exited" THEN Retried([k EXCEPT !.proc = "none", !.bad = -1], 0) ELSE k

(* Popen, which may fail.                                                  *)
Launched(k) ==
  {[k EXCEPT !.proc = "booting", !.state = "starting", !.age = 0, !.bad = 0]}
    \cup (IF calm THEN {} ELSE {Retried(k, 0)})

AnswersAnyone(c, k) ==
  /\ k.proc = "up" \/ <<c, "up">> \in stray
  /\ IF c = "mcp" THEN Live(k) ELSE k.proc # "none"

(* netstat names the listener of the server's port, on Windows.            *)
Owns(c, k) == c # "mcp" \/ ~ Windows \/ k.proc \in {"up", "hung"}

(* The server is asked only while its process lives and owns the port; the *)
(* answer to a probe of the tunnel may come from any tunnel.               *)
Answers(c, k) ==
  /\ k.proc = "up" \/ <<c, "up">> \in stray
  /\ IF c = "mcp" THEN Live(k) ELSE k.proc # "none"
  /\ Owns(c, k)

ProbedForever(c, k) ==
  IF k.proc # "none" /\ Answers(c, k)
  THEN [k EXCEPT !.state = "healthy", !.bad = -1,
                 !.failures = IF k.age >= StableReset THEN 0 ELSE @]
  ELSE IF k.proc = "none" THEN k ELSE [k EXCEPT !.state = "starting", !.bad = Most(0, @)]

Probed(c, k) ==
  CASE k.proc = "none" -> k
    [] k.proc # "none" /\ Answers(c, k) ->
         [k EXCEPT !.state = "healthy", !.bad = -1,
                   !.failures = IF k.age >= StableReset THEN 0 ELSE @]
    [] OTHER ->
         LET j == [k EXCEPT !.state = "starting", !.bad = Most(0, @)]
         IN  IF j.bad >= StartTimeout THEN Retried(Stopped(j), 0) ELSE j

(* Stopping the process of c may fail; nobody looks after it then.         *)
LeftBehind(c) ==
  IF Live(child[c]) /\ c \in Stubborn /\ ~ calm THEN {{}, {<<c, child[c].proc>>}} ELSE {{}}

(* status.json is replaced as a whole; the replacement may fail for good.  *)
Publish(s) == status' = s /\ fresh' = TRUE
PublishFails == UNCHANGED <<status, fresh>>

-----------------------------------------------------------------------------

SupervisorInit ==
  /\ phase = "off" /\ child = Initial /\ proxySeen = FALSE
  /\ status = "stopped" /\ fresh = FALSE /\ stopFile = FALSE /\ asked = "no"
  /\ stray = {} /\ proxy \in BOOLEAN /\ calm = FALSE

(* run(): the lock is free, since its holder is off; what is left of an    *)
(* earlier stop request is removed.  A stop command that waits sees that   *)
(* the supervisor it addressed is gone.                                    *)
Start ==
  /\ phase = "off"
  /\ phase' = "recover" /\ child' = Initial /\ proxySeen' = FALSE
  /\ stopFile' = FALSE /\ fresh' = FALSE
  /\ asked' = IF asked = "waiting" THEN "no" ELSE asked
  /\ UNCHANGED <<status, world>>

RecoverThenClear ==
  /\ phase = "recover"
  /\ phase' = "loop" /\ status' = "starting" /\ fresh' = TRUE
  /\ stopFile' = FALSE
  /\ UNCHANGED <<child, proxySeen, asked, world>>

(* reconcile_runtime_state and the first status, either of which may raise.*)
Recover ==
  /\ phase = "recover"
  /\ \/ phase' = "loop" /\ Publish("starting")
     \/ ~ calm /\ phase' = "failing" /\ PublishFails
  /\ UNCHANGED <<child, proxySeen, stopFile, asked, world>>

(* First half of tick(): exits are noticed, the server is started when it  *)
(* is due and probed.                                                      *)
ServerTurns(k) ==
  LET due == k.proc = "none" /\ k.wait = 0
  IN  {IF Overflowed(j) THEN j ELSE Probed("mcp", j) : j \in IF due THEN Launched(k) ELSE {k}}

TickServer ==
  /\ phase = "loop" /\ ~ stopFile
  /\ LET seen == [c \in Children |-> Observed(child[c])]
         raised == \E c \in Children : Overflowed(seen[c])
     IN  \E k \in IF raised THEN {seen.mcp} ELSE ServerTurns(seen.mcp) :
           /\ child' = [seen EXCEPT !.mcp = k]
           /\ phase' = IF raised \/ Overflowed(k) THEN "failing" ELSE "tunnel"
           /\ \E left \in IF k.proc = "none" THEN LeftBehind("mcp") ELSE {{}} :
                stray' = stray \cup left
  /\ UNCHANGED <<proxySeen, status, fresh, stopFile, asked, proxy, calm>>

(* Second half: without a healthy server and a proxy there is no tunnel;   *)
(* one that is due is started if the doctor agrees.                        *)
Ready == child.mcp.state = "healthy" /\ proxy

TickTunnel ==
  /\ phase = "tunnel"
  /\ proxySeen' = proxy
  /\ IF Ready
     THEN /\ phase' = IF child.tunnel.proc = "none" /\ child.tunnel.wait = 0
                      THEN "doctor" ELSE "probe"
          /\ UNCHANGED <<child, stray>>
     ELSE /\ child' = [child EXCEPT !.tunnel = [Stopped(@) EXCEPT !.state = "backoff"]]
          /\ \E left \in LeftBehind("tunnel") : stray' = stray \cup left
          /\ phase' = "probe"
  /\ UNCHANGED <<status, fresh, stopFile, asked, proxy, calm>>

(* The doctor may take its whole timeout: the server's timers go on, and   *)
(* the status grows old.                                                   *)
Diagnose ==
  /\ phase = "doctor"
  /\ \E d \in {0, StartTimeout}, agrees \in BOOLEAN :
       /\ calm => agrees /\ d = 0
       /\ fresh' = (fresh /\ d = 0)
       /\ \E t \in IF agrees THEN Launched(Later(child.tunnel, d))
                   ELSE {Retried(child.tunnel, d)} :
            /\ child' = [mcp |-> Later(child.mcp, d), tunnel |-> t]
            /\ phase' = IF Overflowed(t) THEN "failing" ELSE "probe"
  /\ UNCHANGED <<proxySeen, status, stopFile, asked, world>>

(* End of tick(), and the status of the whole, written to the file.        *)
TopState(c) ==
  CASE c.mcp.state # "healthy" -> IF c.mcp.proc # "none" THEN "starting_mcp" ELSE "degraded"
    [] c.mcp.state = "healthy" /\ ~ proxySeen -> "waiting_for_proxy"
    [] c.mcp.state = "healthy" /\ proxySeen /\ c.tunnel.state # "healthy" -> "starting_tunnel"
    [] OTHER -> "healthy"

Probe ==
  /\ phase = "probe"
  /\ LET t == Probed("tunnel", child.tunnel) IN
       /\ child' = [child EXCEPT !.tunnel = t]
       /\ \E left \in IF t.proc = "none" THEN LeftBehind("tunnel") ELSE {{}} :
            stray' = stray \cup left
       /\ \/ /\ ~ Overflowed(t)
             /\ phase' = "sleep" /\ Publish(TopState(child'))
          \/ /\ Overflowed(t) \/ ~ calm
             /\ phase' = "failing" /\ PublishFails
  /\ UNCHANGED <<proxySeen, stopFile, asked, proxy, calm>>

Sleep ==
  /\ phase = "sleep"
  /\ child' = [c \in Children |-> Later(child[c], 1)]
  /\ phase' = "loop"
  /\ UNCHANGED <<proxySeen, status, fresh, stopFile, asked, world>>

SeeStop ==
  /\ phase = "loop" /\ stopFile
  /\ phase' = "closing"
  /\ UNCHANGED <<child, proxySeen, status, fresh, stopFile, asked, world>>

(* The processes that lose their supervisor when it ends without a word.   *)
Orphans == {<<c, child[c].proc>> : c \in {b \in Children : Live(child[b])}}

CloseAtOnce ==
  /\ phase \in {"closing", "failing"}
  /\ phase' = "off" /\ child' = Initial
  /\ stray' = stray \cup (IF phase = "failing" THEN Orphans ELSE {})
  /\ stopFile' = FALSE /\ status' = "stopped" /\ fresh' = FALSE
  /\ UNCHANGED <<proxySeen, asked, proxy, calm>>

(* _shutdown_children, the last status and the release of the lock.  After *)
(* an exception the state "failed" is overwritten with "stopping" before   *)
(* it is written, and writing may raise again.                             *)
Close ==
  /\ phase \in {"closing", "failing"}
  /\ phase' = "off" /\ child' = Initial
  /\ \E m \in LeftBehind("mcp"), t \in LeftBehind("tunnel") : stray' = stray \cup m \cup t
  /\ IF phase = "closing"
     THEN stopFile' = FALSE /\ status' = "stopped"
     ELSE stopFile' = stopFile /\ status' \in {status, "stopping"}
  /\ fresh' = FALSE
  /\ UNCHANGED <<proxySeen, asked, proxy, calm>>

-----------------------------------------------------------------------------
(* The process of the status file lives, and its heartbeat is recent.      *)
Heard == phase # "off" /\ fresh

(* command_stop: without a running supervisor it answers already_stopped   *)
(* and changes nothing.                                                    *)
Decide ==
  /\ asked = "no" /\ Heard /\ ~ calm
  /\ asked' = "decided"
  /\ UNCHANGED <<service, stopFile, world>>

Request ==
  /\ asked = "decided"
  /\ asked' = "waiting" /\ stopFile' = TRUE
  /\ UNCHANGED <<service, world>>

(* It is gone, or the command gives up.                                    *)
Leave ==
  /\ asked = "waiting"
  /\ asked' = "no"
  /\ UNCHANGED <<service, stopFile, world>>

(* The supervisor ends without its own doing: it is killed, interrupted    *)
(* (KeyboardInterrupt passes by "except Exception"), or the user logs off.  *)
(* Its children live on.                                                   *)
Die ==
  /\ phase # "off" /\ ~ calm
  /\ phase' = "off" /\ child' = Initial /\ fresh' = FALSE
  /\ stray' = stray \cup Orphans
  /\ UNCHANGED <<proxySeen, status, stopFile, asked, proxy, calm>>

(* stop --force after its timeout: on Windows the children go with it.     *)
ForceStop ==
  /\ asked = "waiting" /\ phase # "off" /\ ~ calm
  /\ asked' = "no"
  /\ phase' = "off" /\ child' = Initial /\ fresh' = FALSE
  /\ stray' = IF Windows THEN stray ELSE stray \cup Orphans
  /\ UNCHANGED <<proxySeen, status, stopFile, proxy, calm>>

-----------------------------------------------------------------------------
(* What the children's programs do.  Only one process can have the port of *)
(* a child; the others exit when they try to bind it.                      *)
Bound(c) == child[c].proc \in {"up", "hung"} \/ stray \cap {<<c, "up">>, <<c, "hung">>} # {}

Boot(c) ==
  /\ child[c].proc = "booting"
  /\ child' = [child EXCEPT ![c].proc = IF Bound(c) THEN "exited" ELSE "up"]
  /\ UNCHANGED <<phase, proxySeen, status, fresh, stopFile, asked, world>>

Fail(c) ==
  /\ Live(child[c]) /\ ~ calm
  /\ \E p \in {"exited", "hung"} :
       /\ p = "hung" => child[c].proc = "up"
       /\ child' = [child EXCEPT ![c].proc = p]
  /\ UNCHANGED <<phase, proxySeen, status, fresh, stopFile, asked, world>>

StrayBoots(c) ==
  /\ <<c, "booting">> \in stray
  /\ stray' = (stray \ {<<c, "booting">>}) \cup (IF Bound(c) THEN {} ELSE {<<c, "up">>})
  /\ UNCHANGED <<service, stopFile, asked, proxy, calm>>

StrayEnds ==
  /\ \E s \in stray : stray' = stray \ {s}
  /\ UNCHANGED <<service, stopFile, asked, proxy, calm>>

ProxyFlips ==
  /\ ~ calm
  /\ proxy' = ~ proxy
  /\ UNCHANGED <<service, stopFile, asked, stray, calm>>

(* No action of the program: from here on the environment is well.         *)
Calm ==
  /\ ~ calm /\ proxy /\ stray = {} /\ ~ stopFile /\ asked = "no"
  /\ calm' = TRUE
  /\ UNCHANGED <<service, stopFile, asked, stray, proxy>>

Run ==
  Recover \/ TickServer \/ TickTunnel \/ Diagnose \/ Probe \/ Sleep \/ SeeStop \/ Close

SupervisorNext ==
  \/ Start \/ Run
  \/ Decide \/ Request \/ Leave \/ ForceStop
  \/ Die \/ ProxyFlips \/ StrayEnds \/ Calm
  \/ \E c \in Children : Boot(c) \/ Fail(c) \/ StrayBoots(c)

SupervisorSpec == SupervisorInit /\ [][SupervisorNext]_supervisor_vars

(* The loop of the supervisor goes on.  A child that is started again and  *)
(* again gets ready within its timeout at last: strong fairness, since the *)
(* timeout takes the chance away each time.                                *)
SupervisorFairSpec ==
  /\ SupervisorSpec /\ WF_supervisor_vars(Run)
  /\ \A c \in Children : SF_supervisor_vars(Boot(c))

-----------------------------------------------------------------------------

ChildStates == {"stopped", "starting", "healthy", "backoff"}

SupervisorTypeOK ==
  /\ phase \in {"off", "recover", "loop", "tunnel", "doctor", "probe", "sleep", "closing", "failing"}
  /\ child \in [Children -> [proc : LiveStates \cup {"none", "exited"}, state : ChildStates,
                             wait : 0 .. MaxDelay, bad : -1 .. StartTimeout,
                             age : 0 .. StableReset, failures : 0 .. MaxPower + 2]]
  /\ proxySeen \in BOOLEAN /\ fresh \in BOOLEAN /\ stopFile \in BOOLEAN
  /\ status \in {"stopped", "stopping", "starting", "healthy", "degraded", "starting_mcp",
                 "waiting_for_proxy", "starting_tunnel"}
  /\ asked \in {"no", "decided", "waiting"}
  /\ stray \subseteq Children \X LiveStates
  /\ proxy \in BOOLEAN /\ calm \in BOOLEAN

(* While the supervisor sleeps, a tunnel runs only if the tick before      *)
(* found the server healthy and the proxy there; during a tick that also   *)
(* holds of a tunnel that was started in it.                               *)
TunnelNeedsServer ==
  phase \in {"probe", "sleep", "loop"} /\ child.tunnel.proc # "none" =>
    child.mcp.state = "healthy" /\ proxySeen

(* Where the owner of a port is known, a server is reported healthy only   *)
(* after the supervisor's own process answered, although an orphan of a    *)
(* supervisor that crashed may hold the port and answer.                   *)
HealthyIsOwn ==
  Windows /\ child.mcp.state = "healthy" => child.mcp.proc \in {"up", "hung", "exited"}

(* The state of the service that the steps rely on.                        *)
DependenciesHold == SupervisorTypeOK /\ TunnelNeedsServer /\ HealthyIsOwn

(* A supervisor that ends by its own doing, at a request or after an       *)
(* exception at any point of its loop, leaves no process of its children   *)
(* behind, except one that survives being killed.                          *)
EndsAreClean ==
  [][phase # "off" /\ phase' = "off" /\ ~ Die /\ ~ ForceStop =>
       \A s \in stray' \ stray : s[1] \in Stubborn]_supervisor_vars

(* A stop request that a running supervisor finds ends it, whatever its    *)
(* children, the doctor and the disk do.                                   *)
StopEnds == stopFile /\ Serving ~> phase = "off"

(* Once nothing fails any more, a supervisor brings server and tunnel up   *)
(* and keeps them, however deep in back-off it was, unless it ends.        *)
Recovers == calm ~> [](Serving => status = "healthy")
=============================================================================
