-------------------------- MODULE ApiProcessProofs --------------------------
(***************************************************************************)
(* Proofs about the service process for any finite set of requests.  The   *)
(* process keeps the contract of its gate, so everything proved of the     *)
(* gate holds inside it; on top of that, what a drain promises to clients. *)
(***************************************************************************)
EXTENDS ApiProcess, GateProofs

\* Main has begun the drain in all the places from which it may stop the gate.
BarrierFirst == main \notin {"boot", "wait", "barrier"} => state # "accepting"

\* No step of the process loses it.
LEMMA BarrierFirstStep ==
  BarrierFirst /\ [ProcNext]_procVars => BarrierFirst'
  <1> SUFFICES ASSUME BarrierFirst, [ProcNext]_procVars PROVE BarrierFirst'
    OBVIOUS
  <1> USE DEF BarrierFirst
  <1>1. CASE UNCHANGED procVars
    BY <1>1 DEF procVars, gateVars
  <1>2. CASE Drain
    BY <1>2 DEF Drain, Notify, TakeSignal, FallBarrier, ArmTimer, Check, Select,
                ForceClose, MarkForced, ExitForced, BeginShutdown, Quiesce,
                MarkAfterShutdown, Return, Goto, BeginDrain, MarkStopped, gateVars
  <1>3. CASE Signal \/ Absorb \/ Expire \/ Listen \/ ListenerFails \/ Readyz
    BY <1>3 DEF Signal, Absorb, Expire, Listen, ListenerFails, Readyz, gateVars
  <1>4. ASSUME NEW r \in Requests, Arrive(r) \/ Handle(r) \/ Breaks(r)
        PROVE  BarrierFirst'
    BY <1>4 DEF Arrive, Handle, Breaks, Admit, ReadBody, BodyFails, Respond,
                ReturnLease, Flush, Acquire, Grant, Refuse, Release, gateVars
  <1> QED
    BY <1>1, <1>2, <1>3, <1>4 DEF ProcNext

\* Whatever the process does to its gate is one of the gate's methods, called
\* as the gate expects.
LEMMA GateStep ==
  BarrierFirst /\ [ProcNext]_procVars => [GateNext]_gateVars
  <1> SUFFICES ASSUME BarrierFirst, [ProcNext]_procVars
               PROVE  [GateNext]_gateVars
    OBVIOUS
  <1>1. CASE UNCHANGED procVars
    BY <1>1 DEF procVars
  <1>2. CASE FallBarrier
    BY <1>2 DEF FallBarrier, GateNext
  <1>3. CASE MarkForced \/ MarkAfterShutdown
    BY <1>3 DEF BarrierFirst, MarkForced, MarkAfterShutdown, Goto, GateNext
  <1>4. CASE \/ Notify \/ TakeSignal \/ ArmTimer \/ Check \/ Select \/ ForceClose
             \/ ExitForced \/ BeginShutdown \/ Quiesce \/ Return
             \/ Signal \/ Absorb \/ Expire \/ Listen \/ ListenerFails \/ Readyz
    BY <1>4 DEF Notify, TakeSignal, ArmTimer, Check, Select, ForceClose,
                ExitForced, BeginShutdown, Quiesce, Return, Signal, Absorb,
                Expire, Listen, ListenerFails, Readyz
  <1>5. ASSUME NEW r \in Requests, Admit(r) \/ ReturnLease(r) PROVE GateNext
    BY <1>5 DEF Admit, ReturnLease, GateNext
  <1>6. ASSUME NEW r \in Requests,
               \/ Arrive(r) \/ ReadBody(r) \/ BodyFails(r) \/ Respond(r)
               \/ Flush(r) \/ Breaks(r)
        PROVE  UNCHANGED gateVars
    BY <1>6 DEF Arrive, ReadBody, BodyFails, Respond, Flush, Breaks
  <1> QED
    BY <1>1, <1>2, <1>3, <1>4, <1>5, <1>6 DEF ProcNext, Drain, Handle

\* main goes no further than its wait before the gate has fallen.
LEMMA BarrierFirstInvariant == ProcSpec => []BarrierFirst
  <1>1. ProcInit => BarrierFirst
    BY DEF ProcInit, BarrierFirst
  <1> QED
    BY <1>1, BarrierFirstStep, PTL DEF ProcSpec

\* The service process uses its gate as package lifecycle means it to be
\* used: every step of it is a call of one of the gate's methods or none.
THEOREM ProcessKeepsGate == ProcSpec => KeepsGateContract
  <1>1. ProcInit => GateInit
    BY DEF ProcInit
  <1> QED
    BY <1>1, GateStep, BarrierFirstInvariant, PTL
       DEF ProcSpec, KeepsGateContract, GateSpec

\* So what the gate keeps by itself it keeps inside the process.
LEMMA GateInvInProcess == ProcSpec => []GateInv
  BY ProcessKeepsGate, GateInvariant, PTL DEF KeepsGateContract

-----------------------------------------------------------------------------

\* What each request's progress says about its lease.
LeaseFollowsPhase ==
  \A r \in Requests :
    /\ lease[r] = "none" <=> phase[r] \in {"idle", "arrived"}
    /\ lease[r] = "held" <=> phase[r] \in {"body", "work", "written"}

\* What each place of main says about the server and the timer.
MainKnows ==
  /\ main \in {"shutdown", "quiesce", "markClean", "markFailed", "return", "exitFailed"}
       => drained
  /\ main \in {"quiesce", "markClean", "markFailed", "return", "exitFailed"}
       => listener = "closed"
  /\ main \in {"markClean", "markFailed", "return", "exitFailed"} => Active = {}
  /\ main \in {"force", "markForced", "exitForced"} => timer = "expired"
  /\ exit = "ok" => main = "return"

\* Connections are cut only by the forced close, which is nearly the last
\* thing the process does.
CutsAreForced ==
  \A r \in Requests : conn[r] = "cut" => main \in {"markForced", "exitForced"}

\* Nobody is refused, or told of the drain, before the barrier falls.
WarningsFollowBarrier ==
  /\ seen => state # "accepting"
  /\ \A r \in Requests : lease[r] = "refused" => state # "accepting"
  /\ \A r \in Requests : warned[r] => /\ state # "accepting"
                                      /\ lease[r] \in {"none", "refused"}

ProcInv ==
  /\ ProcTypeOK
  /\ LeaseFollowsPhase
  /\ MainKnows
  /\ CutsAreForced
  /\ WarningsFollowBarrier

\* It holds of a process that has just started to listen,
LEMMA ProcInitInv == ProcInit => ProcInv
  <1> SUFFICES ASSUME ProcInit PROVE ProcInv
    OBVIOUS
  <1>1. GateTypeOK
    BY GateInitInv DEF ProcInit, GateInv
  <1>2. warned \in [Requests -> BOOLEAN] /\ seen \in BOOLEAN /\ pending \in BOOLEAN
    BY DEF ProcInit
  <1>3. ProcTypeOK
    BY <1>1, <1>2 DEF ProcInit, ProcTypeOK, MainPoints
  <1>4. LeaseFollowsPhase
    BY DEF ProcInit, GateInit, LeaseFollowsPhase
  <1>5. MainKnows /\ CutsAreForced
    BY DEF ProcInit, MainKnows, CutsAreForced
  <1>6. WarningsFollowBarrier
    BY DEF ProcInit, GateInit, WarningsFollowBarrier
  <1> QED
    BY <1>3, <1>4, <1>5, <1>6 DEF ProcInv

\* Main's own steps.
LEMMA DrainStepInv ==
  ASSUME ProcInv, BarrierFirst, GateTypeOK', Drain PROVE ProcInv'
  <1> USE DEF ProcInv
  <1>1. /\ UNCHANGED <<lease, phase, warned, seen>>
        /\ state # "accepting" => state' # "accepting"
        /\ drained => drained'
    BY DEF Drain, Notify, TakeSignal, FallBarrier, ArmTimer, Check, Select,
           ForceClose, MarkForced, ExitForced, BeginShutdown, Quiesce,
           MarkAfterShutdown, Return, BeginDrain, CloseDrained, MarkStopped,
           gateVars, serverVars, ProcTypeOK, GateTypeOK
  <1>2. LeaseFollowsPhase' /\ WarningsFollowBarrier'
    BY <1>1 DEF LeaseFollowsPhase, WarningsFollowBarrier
  <1>3. Active' = Active
    BY <1>1 DEF Active
  <1>4. ProcTypeOK'
    <2>1. CASE Notify \/ TakeSignal
      BY <1>1, <2>1 DEF Notify, TakeSignal, Goto, serverVars, ProcTypeOK, MainPoints
    <2>2. CASE FallBarrier \/ ArmTimer
      BY <1>1, <2>2 DEF FallBarrier, ArmTimer, Goto, serverVars, ProcTypeOK, MainPoints
    <2>3. CASE Check \/ Select
      BY <1>1, <2>3 DEF Check, Select, Goto, serverVars, ProcTypeOK, MainPoints
    <2>4. CASE ForceClose
      BY <1>1, <2>4 DEF ForceClose, Goto, serverVars, ProcTypeOK, MainPoints
    <2>5. CASE MarkForced \/ ExitForced
      BY <1>1, <2>5 DEF MarkForced, ExitForced, Goto, serverVars, ProcTypeOK, MainPoints
    <2>6. CASE BeginShutdown \/ Quiesce
      BY <1>1, <2>6 DEF BeginShutdown, Quiesce, Goto, serverVars, ProcTypeOK, MainPoints
    <2>7. CASE MarkAfterShutdown \/ Return
      BY <1>1, <2>7 DEF MarkAfterShutdown, Return, Goto, serverVars, ProcTypeOK, MainPoints
    <2> QED
      BY <2>1, <2>2, <2>3, <2>4, <2>5, <2>6, <2>7 DEF Drain
  <1>5. MainKnows'
    <2>1. CASE Notify \/ TakeSignal
      BY <1>1, <1>3, <2>1 DEF Notify, TakeSignal, Goto, Running, serverVars,
          gateVars, ProcTypeOK, MainKnows
    <2>2. CASE FallBarrier \/ ArmTimer
      BY <1>1, <1>3, <2>2 DEF FallBarrier, ArmTimer, Goto, Running, serverVars,
          gateVars, ProcTypeOK, MainKnows
    <2>3. CASE Check \/ Select
      BY <1>1, <1>3, <2>3 DEF Check, Select, Goto, Running, serverVars,
          gateVars, ProcTypeOK, MainKnows
    <2>4. CASE ForceClose
      BY <1>1, <1>3, <2>4 DEF ForceClose, Goto, Running, serverVars,
          gateVars, ProcTypeOK, MainKnows
    <2>5. CASE MarkForced \/ ExitForced
      BY <1>1, <1>3, <2>5 DEF MarkForced, ExitForced, Goto, Running, serverVars,
          gateVars, ProcTypeOK, MainKnows
    <2>6. CASE BeginShutdown \/ Quiesce
      BY <1>1, <1>3, <2>6 DEF BeginShutdown, Quiesce, Goto, Running, serverVars,
          gateVars, ProcTypeOK, MainKnows
    <2>7. CASE MarkAfterShutdown \/ Return
      BY <1>1, <1>3, <2>7 DEF MarkAfterShutdown, Return, Goto, Running, serverVars,
          gateVars, ProcTypeOK, MainKnows
    <2> QED
      BY <2>1, <2>2, <2>3, <2>4, <2>5, <2>6, <2>7 DEF Drain
  <1>6. CutsAreForced'
    <2>1. CASE Notify \/ TakeSignal
      BY <1>1, <2>1 DEF Notify, TakeSignal, Goto, serverVars, ProcTypeOK,
          CutsAreForced
    <2>2. CASE FallBarrier \/ ArmTimer
      BY <1>1, <2>2 DEF FallBarrier, ArmTimer, Goto, serverVars, ProcTypeOK,
          CutsAreForced
    <2>3. CASE Check \/ Select
      BY <1>1, <2>3 DEF Check, Select, Goto, serverVars, ProcTypeOK,
          CutsAreForced
    <2>4. CASE ForceClose
      BY <1>1, <2>4 DEF ForceClose, Goto, serverVars, ProcTypeOK,
          CutsAreForced
    <2>5. CASE MarkForced \/ ExitForced
      BY <1>1, <2>5 DEF MarkForced, ExitForced, Goto, serverVars, ProcTypeOK,
          CutsAreForced
    <2>6. CASE BeginShutdown \/ Quiesce
      BY <1>1, <2>6 DEF BeginShutdown, Quiesce, Goto, serverVars, ProcTypeOK,
          CutsAreForced
    <2>7. CASE MarkAfterShutdown \/ Return
      BY <1>1, <2>7 DEF MarkAfterShutdown, Return, Goto, serverVars, ProcTypeOK,
          CutsAreForced
    <2> QED
      BY <2>1, <2>2, <2>3, <2>4, <2>5, <2>6, <2>7 DEF Drain
  <1> QED
    BY <1>2, <1>4, <1>5, <1>6

\* Signals, the timer, the listening goroutine and the probe.
LEMMA SurroundingsStepInv ==
  ASSUME ProcInv, GateTypeOK',
         Signal \/ Absorb \/ Expire \/ Listen \/ ListenerFails \/ Readyz
  PROVE  ProcInv'
  <1> USE DEF ProcInv
  <1>1. UNCHANGED <<gateVars, phase, conn, warned>>
    BY DEF Signal, Absorb, Expire, Listen, ListenerFails, Readyz, serverVars
  <1>2. LeaseFollowsPhase' /\ Active' = Active
    BY <1>1 DEF LeaseFollowsPhase, gateVars, Active
  <1>t. pending' \in BOOLEAN /\ seen' \in BOOLEAN
    BY DEF Signal, Absorb, Expire, Listen, ListenerFails, Readyz, ProcTypeOK
  <1>3. ProcTypeOK'
    BY <1>1, <1>t DEF Signal, Absorb, Expire, Listen, ListenerFails, Readyz,
                serverVars, ProcTypeOK, MainPoints
  <1>4. MainKnows'
    BY <1>1, <1>2 DEF Signal, Absorb, Expire, Listen, ListenerFails, Readyz, Running,
                serverVars, gateVars, ProcTypeOK, MainKnows
  <1>5. CutsAreForced'
    BY <1>1 DEF Signal, Absorb, Expire, Listen, ListenerFails, Readyz, serverVars,
                CutsAreForced
  <1>6. WarningsFollowBarrier'
    BY <1>1 DEF Signal, Absorb, Expire, Listen, ListenerFails, Readyz, gateVars,
                WarningsFollowBarrier
  <1> QED
    BY <1>2, <1>3, <1>4, <1>5, <1>6

\* The goroutine of a request.
LEMMA RequestStepInv ==
  ASSUME ProcInv, GateInv, GateTypeOK', NEW r \in Requests,
         Arrive(r) \/ Handle(r) \/ Breaks(r)
  PROVE  ProcInv'
  <1> USE DEF ProcInv
  <1>1. CASE Arrive(r)
    BY <1>1 DEF Arrive, Reachable, Running, Active, gateVars, ProcTypeOK,
                LeaseFollowsPhase, MainKnows, CutsAreForced, WarningsFollowBarrier
  <1>2. CASE Admit(r)
    BY <1>2 DEF Admit, Moves, Acquire, Grant, Refuse, Running, Active, ProcTypeOK,
                GateTypeOK, LeaseFollowsPhase, MainKnows, CutsAreForced,
                WarningsFollowBarrier
  <1>3. CASE ReadBody(r) \/ BodyFails(r) \/ Respond(r)
    BY <1>3 DEF ReadBody, BodyFails, Respond, Moves, Running, Active, gateVars,
                ProcTypeOK, LeaseFollowsPhase, MainKnows, CutsAreForced,
                WarningsFollowBarrier
  <1>4. CASE ReturnLease(r)
    BY <1>4 DEF ReturnLease, Moves, Release, CloseDrained, Running, Active,
                ProcTypeOK, MainPoints, GateTypeOK, LeaseFollowsPhase, MainKnows,
                CutsAreForced, WarningsFollowBarrier
  <1>5. CASE Flush(r)
    <2>1. seen' = (seen \/ (lease[r] = "refused" /\ conn[r] = "open"))
      BY <1>5 DEF Flush
    <2>2. seen' \in BOOLEAN
      BY <2>1
    <2>3. ProcTypeOK'
      BY <1>5, <2>2 DEF Flush, Moves, ProcTypeOK
    <2>4. LeaseFollowsPhase' /\ MainKnows' /\ CutsAreForced'
      BY <1>5 DEF Flush, Moves, Active, gateVars, ProcTypeOK,
                  LeaseFollowsPhase, MainKnows, CutsAreForced
    <2>5. lease[r] = "refused" => state # "accepting"
      BY DEF WarningsFollowBarrier
    <2> QED
      BY <1>5, <2>1, <2>3, <2>4, <2>5
         DEF Flush, Moves, gateVars, WarningsFollowBarrier
  <1>6. CASE Breaks(r)
    BY <1>6 DEF Breaks, Running, Active, gateVars, ProcTypeOK,
                LeaseFollowsPhase, MainKnows, CutsAreForced, WarningsFollowBarrier
  <1> QED
    BY <1>1, <1>2, <1>3, <1>4, <1>5, <1>6 DEF Handle

\* and every step of main, of a request or of the surroundings keeps it.
LEMMA ProcStepInv ==
  ProcInv /\ BarrierFirst /\ GateInv /\ GateInv' /\ [ProcNext]_procVars => ProcInv'
  <1> SUFFICES ASSUME ProcInv, BarrierFirst, GateInv, GateInv', [ProcNext]_procVars
               PROVE  ProcInv'
    OBVIOUS
  <1>1. GateTypeOK'
    BY DEF GateInv
  <1>2. CASE UNCHANGED procVars
    BY <1>1, <1>2 DEF procVars, gateVars, ProcInv, ProcTypeOK, LeaseFollowsPhase,
                      MainKnows, Active, CutsAreForced, WarningsFollowBarrier
  <1>3. CASE Drain
    BY <1>1, <1>3, DrainStepInv
  <1>4. CASE Signal \/ Absorb \/ Expire \/ Listen \/ ListenerFails \/ Readyz
    BY <1>1, <1>4, SurroundingsStepInv
  <1>5. CASE \E r \in Requests : Arrive(r) \/ Handle(r) \/ Breaks(r)
    BY <1>1, <1>5, RequestStepInv
  <1> QED
    BY <1>2, <1>3, <1>4, <1>5 DEF ProcNext

\* What a place of main or a phase of a request implies is always true.
THEOREM ProcInvariant == ProcSpec => []ProcInv
  BY ProcInitInv, ProcStepInv, BarrierFirstInvariant, GateInvInProcess, PTL
     DEF ProcSpec

\* All variables of the process keep their types.
THEOREM ProcTypeCorrect == ProcSpec => []ProcTypeOK
  BY ProcInvariant, PTL DEF ProcInv

\* The gate's counter is the number of requests inside their handlers.
THEOREM CounterIsHandlers == ProcSpec => []InflightCountsHandlers
  <1>1. LeaseFollowsPhase => InHandler = Holders
    BY DEF LeaseFollowsPhase, InHandler, Holders
  <1>2. ProcInv /\ GateInv => InflightCountsHandlers
    BY <1>1 DEF ProcInv, GateInv, InflightCountsLeases, InflightCountsHandlers
  <1> QED
    BY <1>2, ProcInvariant, GateInvInProcess, PTL

\* Shutdown is called only after the last lease has come back.
THEOREM ShutdownIsLast == ProcSpec => []ShutdownAfterLastLease
  <1>1. ProcInv /\ GateInv => ShutdownAfterLastLease
    BY DEF ProcInv, MainKnows, GateInv, DrainedExactly, ShutdownAfterLastLease
  <1> QED
    BY <1>1, ProcInvariant, GateInvInProcess, PTL

\* A process that exits with 0 has cut no connection, and has sent the answer to
\* every request that reached it unless its connection broke first.
THEOREM CleanExitIsClean == ProcSpec => []CleanExitLosesNothing
  <1>1. ProcInv => CleanExitLosesNothing
    BY DEF ProcInv, ProcTypeOK, MainKnows, Active, CutsAreForced,
           CleanExitLosesNothing
  <1> QED
    BY <1>1, ProcInvariant, PTL

\* Only an expired drain timeout makes the process cut a connection.
THEOREM CutIsLate == ProcSpec => []CutOnlyAfterTimeout
  <1>1. ProcInv /\ BarrierFirst => CutOnlyAfterTimeout
    BY DEF ProcInv, MainKnows, CutsAreForced, BarrierFirst, CutOnlyAfterTimeout
  <1> QED
    BY <1>1, ProcInvariant, BarrierFirstInvariant, PTL

\* A request sent after any client was told of the drain is never admitted.
THEOREM BarrierIsVisible == ProcSpec => []BarrierVisible
  <1>1. ProcInv => BarrierVisible
    BY DEF ProcInv, WarningsFollowBarrier, BarrierVisible
  <1> QED
    BY <1>1, ProcInvariant, PTL

-----------------------------------------------------------------------------
(* The wait of main: what it rests on, and what decides it.                *)

\* A forced exit comes from the one place that forces it, the gate is stopped
\* last of all, and main sleeps only on a channel that is open and a timer that
\* runs.
WaitInv ==
  /\ state = "stopped" => main \in {"exitForced", "return", "exitFailed"}
  /\ exit = "forced" => main = "exitForced"
  /\ main = "parked" => ~drained /\ timer = "running"

\* No step puts main to sleep, or leaves it asleep, over a wakeup it missed.
LEMMA WaitStep ==
  ProcTypeOK /\ WaitInv /\ [ProcNext]_procVars => WaitInv'
  <1> SUFFICES ASSUME ProcTypeOK, WaitInv, [ProcNext]_procVars PROVE WaitInv'
    OBVIOUS
  <1> USE DEF WaitInv
  <1>1. CASE UNCHANGED procVars
    BY <1>1 DEF procVars, gateVars
  <1>2. CASE Drain
    BY <1>2 DEF Drain, Notify, TakeSignal, FallBarrier, ArmTimer, Check, Select,
                ForceClose, MarkForced, ExitForced, BeginShutdown, Quiesce,
                MarkAfterShutdown, Return, Goto, Running, BeginDrain, MarkStopped,
                gateVars
  <1>3. CASE Signal \/ Absorb \/ Expire \/ Listen \/ ListenerFails \/ Readyz
    BY <1>3 DEF Signal, Absorb, Expire, Listen, ListenerFails, Readyz, Running,
                gateVars
  <1>4. ASSUME NEW r \in Requests, Arrive(r) \/ Handle(r) \/ Breaks(r)
        PROVE  WaitInv'
    <2>1. CASE ReturnLease(r)
      BY <2>1 DEF ReturnLease, Moves, Release, Running
    <2>2. CASE Admit(r)
      BY <2>2 DEF Admit, Acquire, Grant, Refuse
    <2>3. CASE \/ Arrive(r) \/ ReadBody(r) \/ BodyFails(r) \/ Respond(r)
               \/ Flush(r) \/ Breaks(r)
      BY <2>3 DEF Arrive, ReadBody, BodyFails, Respond, Flush, Breaks, gateVars
    <2> QED
      BY <1>4, <2>1, <2>2, <2>3 DEF Handle
  <1> QED
    BY <1>1, <1>2, <1>3, <1>4 DEF ProcNext

\* It is so from the start on.
LEMMA WaitInvariant == ProcSpec => []WaitInv
  <1>1. ProcInit => WaitInv
    BY DEF ProcInit, GateInit, WaitInv
  <1> QED
    BY <1>1, WaitStep, ProcTypeCorrect, PTL DEF ProcSpec

\* When main sleeps in the second select of WaitDrained, something is left to
\* wake it: the timer, which runs, and the last of the leases still held.
SleepHasAnEnd ==
  main = "parked" => ~drained /\ timer = "running" /\ Holders # {}

\* No wakeup is lost between the look at the channel and the sleep on it: main
\* never sleeps over a gate that has drained or a context that has expired.
THEOREM NoLostWakeup == ProcSpec => []SleepHasAnEnd
  <1>1. WaitInv /\ BarrierFirst /\ GateInv => SleepHasAnEnd
    BY DEF WaitInv, BarrierFirst, GateInv, GateTypeOK, Phases, DrainedExactly,
           SleepHasAnEnd
  <1> QED
    BY <1>1, WaitInvariant, BarrierFirstInvariant, GateInvInProcess, PTL

\* WaitDrained is called on a gate that has drained.
DrainedInTime == drained /\ main \in {"arm", "check"}

NotForced == exit # "forced"

\* From there main can only shut down, return and exit.
OnTheCleanPath ==
  /\ drained
  /\ NotForced
  /\ main \in {"arm", "check", "shutdown", "quiesce", "markClean", "markFailed",
               "return", "exitFailed"}

\* No step leaves that path, not even the timer's or a second signal's.
LEMMA CleanPathStep ==
  ProcTypeOK /\ OnTheCleanPath /\ [ProcNext]_procVars => OnTheCleanPath'
  <1> SUFFICES ASSUME ProcTypeOK, OnTheCleanPath, [ProcNext]_procVars
               PROVE  OnTheCleanPath'
    OBVIOUS
  <1> USE DEF OnTheCleanPath, NotForced
  <1>1. CASE UNCHANGED procVars
    BY <1>1 DEF procVars, gateVars
  <1>2. CASE Drain
    BY <1>2 DEF Drain, Notify, TakeSignal, FallBarrier, ArmTimer, Check, Select,
                ForceClose, MarkForced, ExitForced, BeginShutdown, Quiesce,
                MarkAfterShutdown, Return, Goto, MarkStopped, gateVars
  <1>3. CASE Signal \/ Absorb \/ Expire \/ Listen \/ ListenerFails \/ Readyz
    BY <1>3 DEF Signal, Absorb, Expire, Listen, ListenerFails, Readyz, gateVars
  <1>4. ASSUME NEW r \in Requests, Arrive(r) \/ Handle(r) \/ Breaks(r)
        PROVE  OnTheCleanPath'
    BY <1>4 DEF Arrive, Handle, Breaks, Admit, ReadBody, BodyFails, Respond,
                ReturnLease, Flush, Acquire, Grant, Refuse, Release, CloseDrained,
                ProcTypeOK, GateTypeOK, gateVars
  <1> QED
    BY <1>1, <1>2, <1>3, <1>4 DEF ProcNext

\* An already drained gate wins the tie against an already expired context: a
\* process whose gate has drained when WaitDrained is called never forces the
\* close, whatever the timeout, the timer, clients and signals do.
THEOREM DrainedGateIsSpared == ProcSpec => DrainedGateWinsTie
  <1>1. WaitInv /\ DrainedInTime => OnTheCleanPath
    BY DEF WaitInv, DrainedInTime, OnTheCleanPath, NotForced
  <1>2. OnTheCleanPath => NotForced
    BY DEF OnTheCleanPath
  <1>3. ProcSpec => [](DrainedInTime => []NotForced)
    BY <1>1, <1>2, WaitInvariant, CleanPathStep, ProcTypeCorrect, PTL DEF ProcSpec
  <1>4. DrainedInTime <=> drained /\ main \in {"arm", "check"}
    BY DEF DrainedInTime
  <1>5. NotForced <=> exit # "forced"
    BY DEF NotForced
  <1> QED
    BY <1>3, <1>4, <1>5, PTL DEF DrainedGateWinsTie

=============================================================================
