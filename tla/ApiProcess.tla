----------------------------- MODULE ApiProcess -----------------------------
(***************************************************************************)
(* cmd/api: one run of the service process.  The main goroutine waits for  *)
(* a signal and drains; one goroutine listens, one absorbs the repeated    *)
(* signals, and net/http runs one for each request, through `admit' of     *)
(* package api.  They meet in the admission gate (module Gate) and in the  *)
(* http.Server, of which only what this program relies on is modelled:     *)
(* Close cuts every connection, Shutdown waits for the active ones, read   *)
(* and write deadlines end a stuck request, and the answer of a handler    *)
(* reaches the client only after the handler has returned.                 *)
(***************************************************************************)
EXTENDS Gate

VARIABLES
  main,      \* where the main goroutine is
  exit,      \* how the process ended, "running" until it does
  listener,  \* the listening goroutine's socket
  pending,   \* a signal is buffered in the stop channel
  timer,     \* the context of the drain timeout
  phase,     \* where each request is
  conn,      \* the connection of each request
  seen,      \* some client has got a 503 or a draining /readyz
  warned     \* the requests sent after that

serverVars == <<listener, phase, conn, warned>>
procVars == <<gateVars, main, exit, listener, pending, timer, phase, conn,
              seen, warned>>

MainPoints ==
  {"boot", "wait", "barrier", "arm", "check", "select", "parked",
   "force", "markForced", "exitForced",
   "shutdown", "quiesce", "markClean", "markFailed", "exitFailed", "return"}

ProcInit ==
  /\ GateInit
  /\ main = "boot"
  /\ exit = "running"
  /\ listener = "starting"
  /\ pending = FALSE
  /\ timer = "unset"
  /\ phase = [r \in Requests |-> "idle"]
  /\ conn = [r \in Requests |-> "none"]
  /\ seen = FALSE
  /\ warned = [r \in Requests |-> FALSE]

Running == exit = "running"

\* A step of the main goroutine that only moves on.
Goto(here, there) ==
  /\ Running
  /\ main = here
  /\ main' = there

-----------------------------------------------------------------------------
(* Signals: signal.Notify, the stop channel of capacity one, the absorber. *)

Notify ==
  /\ Goto("boot", "wait")
  /\ UNCHANGED <<gateVars, exit, pending, timer, seen, serverVars>>

\* SIGTERM or SIGINT.  Before Notify its default action ends the process;
\* after it the signal is buffered, or dropped when one is buffered already.
Signal ==
  /\ Running
  /\ IF main = "boot"
       THEN exit' = "killed" /\ UNCHANGED pending
       ELSE pending' = TRUE /\ UNCHANGED exit
  /\ UNCHANGED <<gateVars, main, timer, seen, serverVars>>

TakeSignal ==
  /\ Goto("wait", "barrier")
  /\ pending
  /\ pending' = FALSE
  /\ UNCHANGED <<gateVars, exit, timer, seen, serverVars>>

\* An absorber started before main took the first signal.
AbsorbFromStart ==
  /\ Running
  /\ main # "boot"
  /\ pending
  /\ pending' = FALSE
  /\ UNCHANGED <<gateVars, main, exit, timer, seen, serverVars>>

\* An absorber that lets a second signal end the wait.
AbsorbForces ==
  /\ Running
  /\ main \notin {"boot", "wait"}
  /\ pending
  /\ pending' = FALSE
  /\ main' = IF main = "parked" THEN "force" ELSE main
  /\ UNCHANGED <<gateVars, exit, timer, seen, serverVars>>

\* The goroutine started right after the first signal eats the others.
Absorb ==
  /\ Running
  /\ main \notin {"boot", "wait"}
  /\ pending
  /\ pending' = FALSE
  /\ UNCHANGED <<gateVars, main, exit, timer, seen, serverVars>>

-----------------------------------------------------------------------------
(* The drain, in the main goroutine.                                       *)

\* A drain that forgets the gate.
DrainWithoutBarrier ==
  /\ Goto("barrier", "arm")
  /\ UNCHANGED <<gateVars, exit, pending, timer, seen, serverVars>>

FallBarrier ==
  /\ Goto("barrier", "arm")
  /\ BeginDrain
  /\ UNCHANGED <<exit, pending, timer, seen, serverVars>>

\* context.WithTimeout: DRAIN_TIMEOUT may be zero or negative, and then the
\* context is born expired.
ArmTimer ==
  /\ Goto("arm", "check")
  /\ timer' \in {"running", "expired"}
  /\ UNCHANGED <<gateVars, exit, pending, seen, serverVars>>

\* The deadline passes.  It wakes main when main sleeps in the second select.
Expire ==
  /\ Running
  /\ timer = "running"
  /\ timer' = "expired"
  /\ main' = IF main = "parked" THEN "force" ELSE main
  /\ UNCHANGED <<gateVars, exit, pending, seen, serverVars>>

\* A WaitDrained without its first select.
CheckSkipped ==
  /\ Goto("check", "select")
  /\ UNCHANGED <<gateVars, exit, pending, timer, seen, serverVars>>

\* A WaitDrained whose first select also returns when the time is over, with
\* the error dropped.
CheckEither ==
  /\ Goto("check", IF drained \/ timer = "expired" THEN "shutdown" ELSE "select")
  /\ UNCHANGED <<gateVars, exit, pending, timer, seen, serverVars>>

\* WaitDrained, first select: only the channel counts.
Check ==
  /\ Goto("check", IF drained THEN "shutdown" ELSE "select")
  /\ UNCHANGED <<gateVars, exit, pending, timer, seen, serverVars>>

\* WaitDrained, second select: one of the ready cases, or sleep.
Select ==
  /\ Running
  /\ main = "select"
  /\ \/ drained /\ main' = "shutdown"
     \/ timer = "expired" /\ main' = "force"
     \/ ~drained /\ timer = "running" /\ main' = "parked"
  /\ UNCHANGED <<gateVars, exit, pending, timer, seen, serverVars>>

\* The requests whose connection the server still tracks as active.
Active == {r \in Requests : phase[r] \notin {"idle", "done"}}

\* srv.Close: no more connections, and every active one is cut.
ForceClose ==
  /\ Goto("force", "markForced")
  /\ listener' = "closed"
  /\ conn' = [r \in Requests |-> IF r \in Active /\ conn[r] = "open"
                                   THEN "cut" ELSE conn[r]]
  /\ UNCHANGED <<gateVars, exit, pending, timer, seen, phase, warned>>

MarkForced ==
  /\ Goto("markForced", "exitForced")
  /\ MarkStopped
  /\ UNCHANGED <<exit, pending, timer, seen, serverVars>>

ExitForced ==
  /\ Running
  /\ main = "exitForced"
  /\ exit' = "forced"
  /\ UNCHANGED <<gateVars, main, pending, timer, seen, serverVars>>

\* srv.Shutdown stops the listener ...
BeginShutdown ==
  /\ Goto("shutdown", "quiesce")
  /\ listener' = "closed"
  /\ UNCHANGED <<gateVars, exit, pending, timer, seen, phase, conn, warned>>

\* A drain that takes the drained gate for the end of every answer.
QuiesceAtOnce ==
  /\ Goto("quiesce", "markClean")
  /\ UNCHANGED <<gateVars, exit, pending, timer, seen, serverVars>>

\* ... and returns when no connection is active, with the error closing the
\* listener may have given.
Quiesce ==
  /\ \/ Goto("quiesce", "markClean")
     \/ Goto("quiesce", "markFailed")
  /\ Active = {}
  /\ UNCHANGED <<gateVars, exit, pending, timer, seen, serverVars>>

MarkAfterShutdown ==
  /\ \/ Goto("markClean", "return")
     \/ Goto("markFailed", "exitFailed")
  /\ MarkStopped
  /\ UNCHANGED <<exit, pending, timer, seen, serverVars>>

Return ==
  /\ Running
  /\ \/ main = "return" /\ exit' = "ok"
     \/ main = "exitFailed" /\ exit' = "shutdown_error"
  /\ UNCHANGED <<gateVars, main, pending, timer, seen, serverVars>>

-----------------------------------------------------------------------------
(* The listening goroutine.                                                *)

Listen ==
  /\ Running
  /\ listener = "starting"
  /\ listener' = "open"
  /\ UNCHANGED <<gateVars, main, exit, pending, timer, seen, phase, conn, warned>>

\* The port cannot be bound or Accept fails for good: log.Fatalf.
ListenerFails ==
  /\ Running
  /\ listener # "closed"
  /\ exit' = "fatal"
  /\ UNCHANGED <<gateVars, main, pending, timer, seen, serverVars>>

-----------------------------------------------------------------------------
(* A business request.                                                     *)

\* A new connection, or one kept alive that Shutdown has not closed yet.
Reachable == listener = "open" \/ main = "quiesce"

\* Its header arrives.
Arrive(r) ==
  /\ Running
  /\ phase[r] = "idle"
  /\ Reachable
  /\ phase' = [phase EXCEPT ![r] = "arrived"]
  /\ conn' = [conn EXCEPT ![r] = "open"]
  /\ warned' = [warned EXCEPT ![r] = seen]
  /\ UNCHANGED <<gateVars, main, exit, listener, pending, timer, seen>>

\* A step of r's goroutine from one phase to the next.
Moves(r, here, there) ==
  /\ Running
  /\ phase[r] = here
  /\ phase' = [phase EXCEPT ![r] = there]
  /\ UNCHANGED <<listener, conn, warned>>

\* admit: the handler is entered with a lease, or a 503 is written.
Admit(r) ==
  /\ Moves(r, "arrived", IF state = "accepting" THEN "body" ELSE "flush")
  /\ Acquire(r)
  /\ UNCHANGED <<main, exit, pending, timer, seen>>

\* The handler reads the request body to its end ...
ReadBody(r) ==
  /\ Moves(r, "body", "work")
  /\ conn[r] = "open"
  /\ UNCHANGED <<gateVars, main, exit, pending, timer, seen>>

\* ... or answers without it: a wrong method, a connection cut or broken, or
\* the read deadline.
BodyFails(r) ==
  /\ Moves(r, "body", "written")
  /\ UNCHANGED <<gateVars, main, exit, pending, timer, seen>>

Respond(r) ==
  /\ Moves(r, "work", "written")
  /\ UNCHANGED <<gateVars, main, exit, pending, timer, seen>>

\* A handler that keeps its lease when its client is gone.
ReturnLeaseIfOpen(r) ==
  /\ Moves(r, "written", "flush")
  /\ IF conn[r] = "open"
       THEN Release(r)
       ELSE UNCHANGED gateVars
  /\ main' = IF main = "parked" /\ drained' THEN "shutdown" ELSE main
  /\ UNCHANGED <<exit, pending, timer, seen>>

\* A handler that releases its lease itself, before the deferred release.
ReturnLeaseTwice(r) ==
  /\ Moves(r, "written", "flush")
  /\ lease[r] = "held"
  /\ lease' = [lease EXCEPT ![r] = "returned"]
  /\ inflight' = inflight - 2
  /\ UNCHANGED <<state, drained, panicked, main, exit, pending, timer, seen>>

\* The deferred release, when the handler returns.  It wakes main when it
\* closes the drained channel main sleeps on.
ReturnLease(r) ==
  /\ Moves(r, "written", "flush")
  /\ Release(r)
  /\ main' = IF main = "parked" /\ drained' THEN "shutdown" ELSE main
  /\ UNCHANGED <<exit, pending, timer, seen>>

\* net/http sends what the handler left in the buffer, if it still can.
Flush(r) ==
  /\ Moves(r, "flush", "done")
  /\ seen' = (seen \/ (lease[r] = "refused" /\ conn[r] = "open"))
  /\ UNCHANGED <<gateVars, main, exit, pending, timer>>

\* The client goes away, or a deadline of the server ends the exchange.
Breaks(r) ==
  /\ Running
  /\ r \in Active
  /\ conn[r] = "open"
  /\ conn' = [conn EXCEPT ![r] = "broken"]
  /\ UNCHANGED <<gateVars, main, exit, listener, pending, timer, seen, phase, warned>>

\* A /readyz that turns to draining with the signal, ahead of the gate.
ReadyzAhead ==
  /\ Running
  /\ Reachable
  /\ state # "accepting" \/ main = "barrier"
  /\ seen' = TRUE
  /\ UNCHANGED <<gateVars, main, exit, pending, timer, serverVars>>

\* GET /readyz, never behind the barrier, tells its client the phase.
Readyz ==
  /\ Running
  /\ Reachable
  /\ state # "accepting"
  /\ seen' = TRUE
  /\ UNCHANGED <<gateVars, main, exit, pending, timer, serverVars>>

-----------------------------------------------------------------------------

Drain ==
  \/ Notify \/ TakeSignal \/ FallBarrier \/ ArmTimer
  \/ Check \/ Select
  \/ ForceClose \/ MarkForced \/ ExitForced
  \/ BeginShutdown \/ Quiesce \/ MarkAfterShutdown \/ Return

Handle(r) ==
  \/ Admit(r) \/ ReadBody(r) \/ BodyFails(r) \/ Respond(r)
  \/ ReturnLease(r) \/ Flush(r)

ProcNext ==
  \/ Drain
  \/ Signal \/ Absorb \/ Expire
  \/ Listen \/ ListenerFails
  \/ Readyz
  \/ \E r \in Requests : Arrive(r) \/ Handle(r) \/ Breaks(r)

ProcSpec == ProcInit /\ [][ProcNext]_procVars

\* The scheduler runs main, the timer fires, and every goroutine of a request
\* goes on: a body that never comes ends with the read deadline.  Nothing is
\* assumed of clients, signals or the network.
ProcFairness ==
  /\ WF_procVars(Drain)
  /\ WF_procVars(Expire)
  /\ \A r \in Requests :
       /\ WF_procVars(Admit(r))
       /\ WF_procVars(BodyFails(r))
       /\ WF_procVars(Respond(r))
       /\ WF_procVars(ReturnLease(r))
       /\ WF_procVars(Flush(r))

ProcFairSpec == ProcSpec /\ ProcFairness

-----------------------------------------------------------------------------

\* Every variable of the process keeps its type; a request that released its
\* lease twice would drive the gate's counter below zero.
ProcTypeOK ==
  /\ GateTypeOK
  /\ main \in MainPoints
  /\ exit \in {"running", "ok", "forced", "shutdown_error", "fatal", "killed"}
  /\ listener \in {"starting", "open", "closed"}
  /\ pending \in BOOLEAN
  /\ timer \in {"unset", "running", "expired"}
  /\ phase \in [Requests -> {"idle", "arrived", "body", "work", "written",
                             "flush", "done"}]
  /\ conn \in [Requests -> {"none", "open", "cut", "broken"}]
  /\ seen \in BOOLEAN
  /\ warned \in [Requests -> BOOLEAN]

\* The requests inside a handler.
InHandler == {r \in Requests : phase[r] \in {"body", "work", "written"}}

\* admit: what the drain waits for, the gate's counter, is the number of
\* requests inside their handlers, on every path in and out of them, also when
\* the connection is cut, the client is gone or the body never came.
InflightCountsHandlers == inflight = Cardinality(InHandler)

\* main calls Shutdown, and ends cleanly, only when every lease granted before
\* the barrier has come back and none can be granted any more.
ShutdownAfterLastLease ==
  main \in {"shutdown", "quiesce", "markClean", "markFailed", "return", "exitFailed"}
    => drained /\ Holders = {}

\* Exit code 0 means that the process has settled every request that reached the
\* server: its answer has been sent, though the lease came back before that, or
\* its connection was broken first, by its client or by a read or write deadline
\* of the server.  The process itself has cut none.
CleanExitLosesNothing ==
  exit = "ok" => \A r \in Requests : phase[r] \in {"idle", "done"} /\ conn[r] # "cut"

\* The process cuts a request's connection only after the drain timeout ran
\* out; in particular no number of repeated signals does it.
CutOnlyAfterTimeout ==
  \A r \in Requests : conn[r] = "cut" => timer = "expired" /\ state # "accepting"

\* Once any client has been told that the service drains, by a 503 or by
\* /readyz, no request sent after that enters a handler.
BarrierVisible ==
  \A r \in Requests : warned[r] => lease[r] \in {"none", "refused"}

\* The process uses its gate as package lifecycle means it to be used.
KeepsGateContract == GateSpec

\* "An already drained gate wins the tie against an already expired context":
\* a process whose gate has drained when WaitDrained is called never forces
\* the close, not even with a zero timeout.
DrainedGateWinsTie ==
  [](drained /\ main \in {"arm", "check"} => [](exit # "forced"))

\* A signal that arrived once Notify had run ends the process: nothing a
\* client does, no repeated signal and no full or empty channel prevents it.
SignalEndsProcess == pending ~> ~Running

-----------------------------------------------------------------------------
(* Three things the comments say and the program does not do.              *)

\* "Stopped means the in-flight count reached zero" (package lifecycle).
StoppedMeansDrained == state = "stopped" => inflight = 0

\* "The first SIGTERM or SIGINT flips the shared admission gate ... while
\* requests that already hold a lease run to completion" (cmd/api).
FirstSignalSparesLeases == exit = "killed" => Holders = {}

\* "Once the in-flight count reaches zero the HTTP server is shut down exactly
\* once and the process exits 0.  If the leases do not drain within
\* DRAIN_TIMEOUT the server is force-closed" (cmd/api): leases that drain
\* within the timeout do not end in a forced close.
DrainInTimeIsClean == [](drained /\ timer = "running" => [](exit # "forced"))

=============================================================================
