----------------------------- MODULE EventProofs -----------------------------
(***************************************************************************)
(* Proofs about a stored event, for any network, any callers and any       *)
(* minutes: increments are exact, answers are views, rejections last, and  *)
(* the event implements the propagation clock.                             *)
(***************************************************************************)
EXTENDS Event, TLAPS

\* The parameters fixed at creation: the first release is the earliest arrival.
FirstIsEarliest ==
  /\ \E v \in Nodes : dist[v] = first
  /\ \A v \in Nodes : dist[v] >= first

\* The status is the one of the committed minute.
StatusFollowsClock ==
  /\ ~started => current = 0 /\ status = "scheduled"
  /\ started => status = StatusAt(current)

\* An increment tells only of nodes reached by now.
IncrementsAreReached ==
  \A c \in Callers : \A v \in increment[c] :
    v \in Nodes /\ started /\ dist[v] <= current

\* Two answers never tell of the same node, so of several requests for one
\* minute at most one carries an increment.
IncrementsDisjoint ==
  \A c, d \in Callers : c # d => increment[c] \cap increment[d] = {}

EventInv ==
  /\ EventTypeOK
  /\ FirstIsEarliest
  /\ StatusFollowsClock
  /\ ReportedExactlyOnce
  /\ IncrementsAreReached
  /\ IncrementsDisjoint
  /\ RepliesAreViews
  /\ RejectionsStayTrue

\* Every arrival minute is a number.
LEMMA DistIsInt == ASSUME EventTypeOK PROVE \A v \in Nodes : dist[v] \in Int
  BY HorizonAssumption DEF EventTypeOK, Minutes

\* The verdict of a minute is one of the statuses.
LEMMA StatusAtType == ASSUME NEW t PROVE StatusAt(t) \in Statuses
  BY DEF StatusAt, Statuses

\* The invariant holds of every event Create can make,
LEMMA EventInitInv == EventInit => EventInv
  <1> SUFFICES ASSUME EventInit PROVE EventInv
    OBVIOUS
  <1>1. EventTypeOK
    <2>1. 0 \in Minutes /\ 0 \in Targets /\ 0 \in 0 .. deadline
      BY HorizonAssumption DEF EventInit, Minutes, Targets
    <2>2. Blank \in [minute : Minutes, status : Statuses, reached : SUBSET Nodes]
      BY <2>1 DEF Blank, Statuses
    <2>3. snapshot \in [Callers -> [minute : Minutes, status : Statuses,
                                    reached : SUBSET Nodes]]
      BY <2>2 DEF EventInit
    <2>4. started \in BOOLEAN
      BY DEF EventInit
    <2> QED
      BY <2>1, <2>3, <2>4 DEF EventInit, EventTypeOK, Statuses
  <1>2. FirstIsEarliest
    BY DEF EventInit, FirstIsEarliest
  <1>3. StatusFollowsClock /\ ReportedExactlyOnce
    BY DEF EventInit, StatusFollowsClock, ReportedExactlyOnce
  <1>4. IncrementsAreReached /\ IncrementsDisjoint
    BY DEF EventInit, IncrementsAreReached, IncrementsDisjoint
  <1>5. RepliesAreViews /\ RejectionsStayTrue
    BY DEF EventInit, RepliesAreViews, RejectionsStayTrue
  <1> QED
    BY <1>1, <1>2, <1>3, <1>4, <1>5 DEF EventInv

\* What a commit does to the clock.
LEMMA CommitMovesOn ==
  ASSUME EventInv, NEW c \in Callers, Commit(c)
  PROVE  /\ target[c] \in Minutes
         /\ target[c] \in 0 .. deadline
         /\ target[c] >= current
         /\ started => target[c] > current
         /\ Lower < target[c]
         /\ started' /\ current' = target[c] /\ status' = StatusAt(target[c])
         /\ UNCHANGED specVars
  <1>1. /\ target[c] \in Int /\ deadline \in Int /\ deadline <= Horizon
        /\ current \in Int /\ current >= 0 /\ Horizon \in Int
    BY HorizonAssumption DEF EventInv, EventTypeOK, Targets, Minutes
  <1>2. target[c] >= 0 /\ (started => target[c] > current)
    BY <1>1 DEF Commit, IsRetry, IsRegression
  <1>3. ~started => current = 0
    BY DEF EventInv, StatusFollowsClock
  <1>4. target[c] <= deadline
    BY DEF Commit
  <1>5. started' /\ current' = target[c] /\ status' = StatusAt(target[c])
        /\ UNCHANGED specVars
    BY DEF Commit, CommitTo, specVars
  <1> QED
    BY <1>1, <1>2, <1>3, <1>4, <1>5 DEF Minutes, Lower

\* The verdict depends on what Create fixed, and nothing changes that.
LEMMA StaticStatus ==
  ASSUME UNCHANGED specVars
  PROVE  \A t : StatusAt(t)' = StatusAt(t)
  BY DEF specVars, StatusAt, IntakeReached

\* The snapshot a commit hands out is the view at the minute asked for.
LEMMA CommittedSnapshot ==
  ASSUME EventInv, NEW c \in Callers, Commit(c)
  PROVE  /\ SnapshotNow' = [minute |-> target[c], status |-> StatusAt(target[c]),
                            reached |-> {v \in Nodes : dist[v] <= target[c]}]
         /\ snapshot' = [snapshot EXCEPT ![c] = SnapshotNow']
  <1>1. started' /\ current' = target[c] /\ status' = StatusAt(target[c])
        /\ UNCHANGED dist
    BY CommitMovesOn DEF specVars
  <1> QED
    BY <1>1 DEF SnapshotNow, Commit, CommitTo

\* a call that commits keeps it,
LEMMA CommitInv ==
  ASSUME EventInv, NEW c \in Callers, Commit(c) PROVE EventInv'
  <1> USE DEF EventInv
  <1>1. /\ target[c] \in Minutes
        /\ target[c] \in 0 .. deadline
        /\ target[c] >= current
        /\ started => target[c] > current
        /\ started' /\ current' = target[c] /\ status' = StatusAt(target[c])
        /\ UNCHANGED specVars
    BY CommitMovesOn
  <1>2. /\ SnapshotNow' = [minute |-> target[c], status |-> StatusAt(target[c]),
                           reached |-> {v \in Nodes : dist[v] <= target[c]}]
        /\ snapshot' = [snapshot EXCEPT ![c] = SnapshotNow']
    BY CommittedSnapshot
  <1>3. /\ \A v \in Nodes : dist[v] \in Int
        /\ current \in Int /\ target[c] \in Int /\ first >= 0
    BY <1>1, DistIsInt, HorizonAssumption DEF EventTypeOK, Targets, Minutes
  <1>4. UNCHANGED <<dist, intakes, deadline, first, target>>
    BY DEF Commit, CommitTo, specVars
  <1>5. increment' = [increment EXCEPT ![c] = NewArrivals(target[c])]
        /\ answer' = [answer EXCEPT ![c] = "ok"]
        /\ reported' = [v \in Nodes |->
             reported[v] + (IF v \in NewArrivals(target[c]) THEN 1 ELSE 0)]
        /\ ~Terminal
    BY DEF Commit, CommitTo
  <1>6. EventTypeOK'
    <2>1. SnapshotNow' \in [minute : Minutes, status : Statuses,
                            reached : SUBSET Nodes]
      BY <1>1, <1>2, StatusAtType
    <2>2. snapshot' \in [Callers -> [minute : Minutes, status : Statuses,
                                     reached : SUBSET Nodes]]
      BY <1>2, <2>1 DEF EventTypeOK
    <2>3. increment' \in [Callers -> SUBSET Nodes]
      BY <1>5 DEF EventTypeOK, NewArrivals
    <2>4. reported' \in [Nodes -> Nat]
      BY <1>5 DEF EventTypeOK
    <2>5. answer' \in [Callers -> {"none", "waiting", "ok"} \cup Rejections]
      BY <1>5 DEF EventTypeOK
    <2>6. started' \in BOOLEAN /\ status' \in Statuses
      <3>1. started' = TRUE
        BY DEF Commit, CommitTo
      <3> QED
        BY <1>1, <3>1, StatusAtType
    <2>7. current' \in 0 .. deadline'
      BY <1>1, <1>4
    <2> QED
      BY <1>4, <2>2, <2>3, <2>4, <2>5, <2>6, <2>7 DEF EventTypeOK
  <1>7. FirstIsEarliest'
    BY <1>4 DEF FirstIsEarliest
  <1>8. StatusFollowsClock'
    BY <1>1, StaticStatus DEF StatusFollowsClock
  <1>9. ReportedExactlyOnce'
    <2> SUFFICES ASSUME NEW v \in Nodes
                 PROVE  reported'[v] = IF dist[v] <= target[c] THEN 1 ELSE 0
      BY <1>1, <1>4 DEF ReportedExactlyOnce
    <2>1. reported[v] = IF started /\ dist[v] <= current THEN 1 ELSE 0
      BY DEF ReportedExactlyOnce
    <2>2. dist[v] >= 0
      BY <1>3 DEF FirstIsEarliest, EventTypeOK, Minutes
    <2>3. v \in NewArrivals(target[c])
            <=> (~started \/ dist[v] > current) /\ dist[v] <= target[c]
      BY <1>3, <2>2 DEF NewArrivals, Lower
    <2> QED
      BY <1>1, <1>3, <1>5, <2>1, <2>3
  <1>10. IncrementsAreReached'
    BY <1>1, <1>3, <1>4, <1>5 DEF IncrementsAreReached, NewArrivals, EventTypeOK
  <1>11. IncrementsDisjoint'
    <2>1. \A d \in Callers : increment[d] \cap NewArrivals(target[c]) = {}
      BY <1>3 DEF IncrementsAreReached, NewArrivals, Lower
    <2> QED
      BY <1>5, <2>1 DEF IncrementsDisjoint, EventTypeOK
  <1>12. RepliesAreViews'
    BY <1>1, <1>2, <1>4, <1>5, StaticStatus DEF RepliesAreViews, EventTypeOK
  <1>13. RejectionsStayTrue'
    <2> SUFFICES ASSUME NEW d \in Callers
                 PROVE  /\ answer'[d] = "clock_regression"
                             => target[d] < current' \/ target[d] < 0
                        /\ answer'[d] # "incident_terminal"
                        /\ answer'[d] = "past_deadline" => target[d] > deadline
      BY <1>4 DEF RejectionsStayTrue
    <2>1. target[d] \in Int
      BY HorizonAssumption DEF EventTypeOK, Targets
    <2>2. answer'[d] = "ok" \/ answer'[d] = answer[d]
      BY <1>5 DEF EventTypeOK
    <2> QED
      BY <1>1, <1>3, <1>5, <2>1, <2>2 DEF RejectionsStayTrue
  <1> QED
    BY <1>6, <1>7, <1>8, <1>9, <1>10, <1>11, <1>12, <1>13

\* Steps that leave the event itself alone keep most of the invariant.
LEMMA FrozenInv ==
  ASSUME EventInv, UNCHANGED <<specVars, clockVars, reported>>
  PROVE  /\ FirstIsEarliest' /\ StatusFollowsClock' /\ ReportedExactlyOnce'
         /\ SnapshotNow' = SnapshotNow
  BY StaticStatus
     DEF EventInv, specVars, clockVars, FirstIsEarliest, StatusFollowsClock,
         ReportedExactlyOnce, SnapshotNow

\* so does the call of a handler that has not taken the mutex yet,
LEMMA CallInv ==
  ASSUME EventInv, NEW c \in Callers, Call(c) PROVE EventInv'
  <1> USE DEF EventInv
  <1>1. UNCHANGED <<specVars, clockVars, reported>>
    BY DEF Call
  <1>2. FirstIsEarliest' /\ StatusFollowsClock' /\ ReportedExactlyOnce'
    BY <1>1, FrozenInv
  <1>3. PICK t \in Targets : target' = [target EXCEPT ![c] = t]
    BY DEF Call
  <1>4. EventTypeOK'
    BY <1>1, <1>3, HorizonAssumption
       DEF Call, EventTypeOK, specVars, clockVars, Blank, Minutes, Statuses
  <1>5. IncrementsAreReached' /\ IncrementsDisjoint'
    BY <1>1 DEF Call, IncrementsAreReached, IncrementsDisjoint, EventTypeOK,
                specVars, clockVars
  <1>6. RepliesAreViews'
    <2> SUFFICES ASSUME NEW d \in Callers, answer'[d] = "ok"
                 PROVE  snapshot'[d] = [minute |-> target'[d],
                           status |-> StatusAt(target[d])',
                           reached |-> {v \in Nodes : dist'[v] <= target'[d]}]
      BY DEF RepliesAreViews
    <2>1. d # c /\ answer[d] = "ok"
      BY DEF Call, EventTypeOK
    <2>2. snapshot'[d] = snapshot[d] /\ target'[d] = target[d] /\ UNCHANGED dist
      BY <1>1, <1>3, <2>1 DEF Call, EventTypeOK, specVars
    <2>3. StatusAt(target[d])' = StatusAt(target[d])
      BY <1>1, <2>2 DEF specVars, StatusAt, IntakeReached
    <2> QED
      BY <2>1, <2>2, <2>3 DEF RepliesAreViews
  <1>7. RejectionsStayTrue'
    BY <1>1, <1>3 DEF Call, RejectionsStayTrue, EventTypeOK, specVars, clockVars,
                      Terminal
  <1> QED
    BY <1>2, <1>4, <1>5, <1>6, <1>7

\* a call that finds its minute committed,
LEMMA RetryInv ==
  ASSUME EventInv, NEW c \in Callers, Retry(c) PROVE EventInv'
  <1> USE DEF EventInv
  <1>1. UNCHANGED <<specVars, clockVars, reported, target, increment>>
    BY DEF Retry
  <1>2. FirstIsEarliest' /\ StatusFollowsClock' /\ ReportedExactlyOnce'
    BY <1>1, FrozenInv
  <1>3. SnapshotNow = [minute |-> target[c], status |-> StatusAt(target[c]),
                       reached |-> {v \in Nodes : dist[v] <= target[c]}]
    BY DEF Retry, IsRetry, SnapshotNow, StatusFollowsClock
  <1>4. SnapshotNow \in [minute : Minutes, status : Statuses, reached : SUBSET Nodes]
    <2>1. current \in Minutes
      BY HorizonAssumption DEF EventTypeOK, Minutes
    <2> QED
      BY <2>1 DEF SnapshotNow, EventTypeOK
  <1>5. EventTypeOK'
    BY <1>1, <1>4 DEF Retry, EventTypeOK, specVars, clockVars
  <1>6. IncrementsAreReached' /\ IncrementsDisjoint'
    BY <1>1 DEF IncrementsAreReached, IncrementsDisjoint, specVars, clockVars
  <1>7. RepliesAreViews'
    BY <1>1, <1>3, StaticStatus DEF Retry, RepliesAreViews, EventTypeOK, specVars
  <1>8. RejectionsStayTrue'
    BY <1>1 DEF Retry, RejectionsStayTrue, EventTypeOK, specVars, clockVars, Terminal
  <1> QED
    BY <1>2, <1>5, <1>6, <1>7, <1>8

\* and one that is refused.
LEMMA RejectInv ==
  ASSUME EventInv, NEW c \in Callers,
         RejectRegression(c) \/ RejectTerminal(c) \/ RejectPastDeadline(c)
  PROVE  EventInv'
  <1> USE DEF EventInv
  <1>1. UNCHANGED <<specVars, clockVars, reported, target, increment, snapshot>>
    BY DEF RejectRegression, RejectTerminal, RejectPastDeadline, Reject
  <1>2. FirstIsEarliest' /\ StatusFollowsClock' /\ ReportedExactlyOnce'
    BY <1>1, FrozenInv
  <1>3. PICK reason \in Rejections : answer' = [answer EXCEPT ![c] = reason]
    BY DEF RejectRegression, RejectTerminal, RejectPastDeadline, Reject, Rejections
  <1>4. EventTypeOK'
    BY <1>1, <1>3 DEF EventTypeOK, specVars, clockVars
  <1>5. IncrementsAreReached' /\ IncrementsDisjoint'
    BY <1>1 DEF IncrementsAreReached, IncrementsDisjoint, specVars, clockVars
  <1>6. RepliesAreViews'
    BY <1>1, <1>3, StaticStatus
       DEF RepliesAreViews, EventTypeOK, Rejections, specVars
  <1>7. target[c] \in Int /\ current \in Int
    BY HorizonAssumption DEF EventTypeOK, Targets
  <1>8. RejectionsStayTrue'
    <2>1. CASE RejectRegression(c)
      BY <1>1, <1>7, <2>1 DEF RejectRegression, IsRegression, Reject,
         RejectionsStayTrue, EventTypeOK, specVars, clockVars, Terminal
    <2>2. CASE RejectTerminal(c)
      <3>1. started
        BY <2>2 DEF RejectTerminal, Terminal, StatusFollowsClock
      <3>2. target[c] > current
        BY <1>7, <2>2, <3>1 DEF RejectTerminal, IsRetry, IsRegression
      <3> QED
        BY <1>1, <2>2, <3>2 DEF RejectTerminal, Reject, RejectionsStayTrue,
           EventTypeOK, specVars, clockVars, Terminal
    <2>3. CASE RejectPastDeadline(c)
      BY <1>1, <2>3 DEF RejectPastDeadline, Reject, RejectionsStayTrue,
         EventTypeOK, specVars, clockVars, Terminal
    <2> QED
      BY <2>1, <2>2, <2>3
  <1> QED
    BY <1>2, <1>4, <1>5, <1>6, <1>8

\* So does every step.
LEMMA EventNextInv == EventInv /\ [EventNext]_eventVars => EventInv'
  <1> SUFFICES ASSUME EventInv, [EventNext]_eventVars PROVE EventInv'
    OBVIOUS
  <1>1. CASE UNCHANGED eventVars
    <2>1. FirstIsEarliest' /\ StatusFollowsClock' /\ ReportedExactlyOnce'
      BY <1>1, FrozenInv DEF eventVars, replyVars
    <2>2. EventTypeOK' /\ IncrementsAreReached' /\ IncrementsDisjoint'
      BY <1>1 DEF EventInv, eventVars, specVars, clockVars, replyVars, EventTypeOK,
                  IncrementsAreReached, IncrementsDisjoint
    <2>3. RepliesAreViews' /\ RejectionsStayTrue'
      BY <1>1, StaticStatus
         DEF EventInv, eventVars, specVars, clockVars, replyVars, RepliesAreViews,
             RejectionsStayTrue, Terminal
    <2> QED
      BY <2>1, <2>2, <2>3 DEF EventInv
  <1>2. CASE \E c \in Callers : Call(c) \/ Advance(c)
    BY <1>2, CallInv, RetryInv, RejectInv, CommitInv DEF Advance
  <1> QED
    BY <1>1, <1>2 DEF EventNext

\* Answers, increments and status follow the committed clock at all times.
THEOREM EventInvariant == EventSpec => []EventInv
  BY EventInitInv, EventNextInv, PTL DEF EventSpec

\* The event's variables keep their types, the clock its bounds.
THEOREM EventTypeCorrect == EventSpec => []EventTypeOK
  BY EventInvariant, PTL DEF EventInv

\* Every node reached so far has been in exactly one increment, and of several
\* requests for one minute at most one has carried one.
THEOREM IncrementsAreExact == EventSpec => [](ReportedExactlyOnce /\ IncrementsDisjoint)
  BY EventInvariant, PTL DEF EventInv

\* A successful answer is the view at the minute that was asked for.
THEOREM AnswersAreViews == EventSpec => []RepliesAreViews
  BY EventInvariant, PTL DEF EventInv

\* A rejection's reason never ceases to hold.
THEOREM RejectionsLast == EventSpec => []RejectionsStayTrue
  BY EventInvariant, PTL DEF EventInv

\* A breached or contained event does not change any more.
THEOREM TerminalIsFinal == EventSpec => TerminalFrozen
  <1>1. [EventNext]_eventVars
          => [Terminal => UNCHANGED <<clockVars, reported>>]_eventVars
    BY DEF EventNext, Call, Advance, Retry, RejectRegression, RejectTerminal,
           RejectPastDeadline, Reject, Commit
  <1> QED
    BY <1>1, PTL DEF EventSpec, TerminalFrozen

-----------------------------------------------------------------------------

\* The code's early returns and the clock's verdict name the same status.
LEMMA StatusIsVerdict ==
  ASSUME EventInv, NEW t \in Int
  PROVE  StatusAt(t) = Clock!Verdict(t)
  <1>1. Clock!Reached(t) = {v \in Nodes : dist[v] <= t}
    BY DEF Clock!Reached
  <1>2. IntakeReached(t) <=> Clock!Reached(t) \cap intakes # {}
    BY <1>1 DEF IntakeReached, EventInv, EventTypeOK
  <1>3. \A v \in Nodes : dist[v] \in Int /\ dist[v] >= first
    BY DistIsInt DEF EventInv, FirstIsEarliest
  <1>4. first \in Int /\ deadline \in Int
    BY HorizonAssumption DEF EventInv, EventTypeOK, Minutes
  <1>5. t >= first <=> Clock!Reached(t) # {}
    BY <1>1, <1>3, <1>4 DEF EventInv, FirstIsEarliest
  <1> QED
    BY <1>2, <1>4, <1>5 DEF StatusAt, Clock!Verdict

\* A new event is a clock that has not started,
LEMMA ClockInitRefines == EventInit => Clock!Init
  BY DEF EventInit, Clock!Init, Clock!Unstarted, SnapshotNow

\* and every step of the event is a step of the clock or none.
LEMMA ClockStepRefines ==
  EventInv /\ [EventNext]_eventVars => [Clock!Tick]_(Clock!vars)
  <1> SUFFICES ASSUME EventInv, [EventNext]_eventVars
               PROVE  [Clock!Tick]_(Clock!vars)
    OBVIOUS
  <1>1. ASSUME UNCHANGED <<specVars, clockVars, reported>>
        PROVE  UNCHANGED Clock!vars
    BY <1>1 DEF specVars, clockVars, SnapshotNow, Clock!vars
  <1>2. CASE UNCHANGED eventVars
    BY <1>1, <1>2 DEF eventVars, replyVars
  <1>3. ASSUME NEW c \in Callers,
               \/ Call(c) \/ Retry(c) \/ RejectRegression(c)
               \/ RejectTerminal(c) \/ RejectPastDeadline(c)
        PROVE  UNCHANGED Clock!vars
    BY <1>1, <1>3 DEF Call, Retry, RejectRegression, RejectTerminal,
                      RejectPastDeadline, Reject
  <1>4. ASSUME NEW c \in Callers, Commit(c) PROVE Clock!Tick
    <2>1. /\ target[c] \in 0 .. deadline
          /\ started => target[c] > current
          /\ started' /\ current' = target[c]
          /\ UNCHANGED specVars
      BY <1>4, CommitMovesOn
    <2>2. deadline \in Int /\ target[c] \in Int
      BY HorizonAssumption DEF EventInv, EventTypeOK, Minutes, Targets
    <2>3. SnapshotNow' = [minute |-> target[c], status |-> StatusAt(target[c]),
                          reached |-> {v \in Nodes : dist[v] <= target[c]}]
      BY <1>4, CommittedSnapshot
    <2>4. SnapshotNow' = Clock!ViewAt(target[c])
      BY <2>2, <2>3, StatusIsVerdict DEF Clock!ViewAt, Clock!Reached
    <2>5. Clock!ViewAt(target[c]) = Clock!ViewAt(current)'
      BY <2>1 DEF Clock!ViewAt, Clock!Verdict, Clock!Reached, specVars
    <2>6. SnapshotNow.status \notin {"breached", "contained"}
      BY <1>4 DEF Commit, Terminal, SnapshotNow
    <2>7. (IF started THEN current ELSE -1) < target[c]
      BY <2>1, <2>2
    <2> QED
      BY <2>1, <2>2, <2>4, <2>5, <2>6, <2>7 DEF Clock!Tick, specVars
  <1> QED
    BY <1>2, <1>3, <1>4 DEF EventNext, Advance

\* An event with its lock, advanced by any number of callers at a time,
\* implements the propagation clock.
THEOREM EventImplementsClock == EventSpec => ImplementsClock
  BY ClockInitRefines, ClockStepRefines, EventInvariant, PTL
     DEF EventSpec, ImplementsClock, Clock!Spec

-----------------------------------------------------------------------------
(* Races: what calls come to that are let go together.                     *)

\* The clock has got to every minute it said ok to.
OksAreBehind == \A c \in Callers : answer[c] = "ok" => started /\ target[c] <= current

\* A call that is answered, for a minute the event can stand at.
Served(c) == answer[c] \notin {"none", "waiting"} /\ target[c] \in 0 .. deadline

\* In whatever order the calls of a race are served, once one of them is
\* answered whose minute decides the event, the event is decided that very way:
\* no earlier or later minute of another caller changes the verdict.
VerdictOutlivesRace ==
  \A c \in Callers :
    /\ Served(c)
    /\ StatusAt(target[c]) \in {"breached", "contained"}
    => status = StatusAt(target[c])

\* And the clock has got as far as that minute, unless the event is decided.
RaceGetsThere ==
  \A c \in Callers : Served(c) => started /\ (target[c] <= current \/ Terminal)

\* Clocks only move forward.
LEMMA OksStayBehind ==
  EventInv /\ OksAreBehind /\ [EventNext]_eventVars => OksAreBehind'
  <1> SUFFICES ASSUME EventInv, OksAreBehind, [EventNext]_eventVars
               PROVE  OksAreBehind'
    OBVIOUS
  <1> USE DEF OksAreBehind
  <1>1. CASE UNCHANGED eventVars
    BY <1>1 DEF eventVars, clockVars, replyVars
  <1>2. ASSUME NEW c \in Callers,
               \/ Call(c) \/ RejectRegression(c) \/ RejectTerminal(c)
               \/ RejectPastDeadline(c)
        PROVE  OksAreBehind'
    BY <1>2 DEF Call, RejectRegression, RejectTerminal, RejectPastDeadline, Reject,
                EventInv, EventTypeOK, clockVars
  <1>3. ASSUME NEW c \in Callers, Retry(c) PROVE OksAreBehind'
    <2>1. current \in Int /\ target[c] = current /\ started
      BY <1>3, HorizonAssumption DEF Retry, IsRetry, EventInv, EventTypeOK, Minutes
    <2> QED
      BY <1>3, <2>1 DEF Retry, EventInv, EventTypeOK, clockVars
  <1>4. ASSUME NEW c \in Callers, Commit(c) PROVE OksAreBehind'
    <2>1. started' /\ current' = target[c] /\ target[c] >= current
      BY <1>4, CommitMovesOn
    <2>2. current \in Int /\ \A d \in Callers : target[d] \in Int
      BY HorizonAssumption DEF EventInv, EventTypeOK, Minutes, Targets
    <2>3. \A d \in Callers : target[d] <= current => target[d] <= current'
      BY <2>1, <2>2
    <2>4. target[c] <= current'
      BY <2>1, <2>2
    <2>5. target' = target /\ answer' = [answer EXCEPT ![c] = "ok"]
      BY <1>4 DEF Commit, CommitTo
    <2> QED
      BY <2>1, <2>3, <2>4, <2>5 DEF EventInv, EventTypeOK
  <1> QED
    BY <1>1, <1>2, <1>3, <1>4 DEF EventNext, Advance

\* So it is at all times.
LEMMA OksInvariant == EventSpec => []OksAreBehind
  <1>1. EventInit => OksAreBehind
    BY DEF EventInit, OksAreBehind
  <1> QED
    BY <1>1, OksStayBehind, EventInvariant, PTL DEF EventSpec

\* A call that is answered left the clock where it asked, or further, or found
\* the event decided.
LEMMA ServedMeansThere ==
  ASSUME EventInv, OksAreBehind, NEW c \in Callers, Served(c)
  PROVE  started /\ (target[c] <= current \/ (Terminal /\ current < target[c]))
  <1>1. target[c] \in Int /\ target[c] >= 0 /\ target[c] <= deadline
        /\ current \in Int /\ deadline \in Int
    BY HorizonAssumption DEF Served, EventInv, EventTypeOK, Minutes, Targets
  <1>2. ~started => current = 0 /\ status = "scheduled"
    BY DEF EventInv, StatusFollowsClock
  <1>3. answer[c] \in {"ok", "clock_regression", "incident_terminal", "past_deadline"}
    BY DEF Served, EventInv, EventTypeOK, Rejections
  <1>4. CASE answer[c] = "ok"
    BY <1>4 DEF OksAreBehind
  <1>5. CASE answer[c] = "clock_regression"
    <2>1. target[c] < current
      BY <1>1, <1>5 DEF EventInv, RejectionsStayTrue
    <2> QED
      BY <1>1, <1>2, <2>1
  <1>6. CASE answer[c] = "incident_terminal"
    <2>1. Terminal /\ target[c] > current
      BY <1>6 DEF EventInv, RejectionsStayTrue
    <2> QED
      BY <1>1, <1>2, <2>1 DEF Terminal
  <1>7. answer[c] # "past_deadline"
    BY <1>1 DEF EventInv, RejectionsStayTrue
  <1> QED
    BY <1>3, <1>4, <1>5, <1>6, <1>7

\* Races converge: the order in which the calls are served never decides the
\* event, and no answered call leaves the clock short of its minute.
THEOREM RacesConverge == EventSpec => [](VerdictOutlivesRace /\ RaceGetsThere)
  <1>1. ASSUME EventInv, OksAreBehind PROVE RaceGetsThere
    BY <1>1, ServedMeansThere DEF RaceGetsThere
  <1>2. ASSUME EventInv, OksAreBehind PROVE VerdictOutlivesRace
    <2> SUFFICES ASSUME NEW c \in Callers, Served(c),
                        StatusAt(target[c]) \in {"breached", "contained"}
                 PROVE  status = StatusAt(target[c])
      BY DEF VerdictOutlivesRace
    <2>1. started /\ (target[c] <= current \/ (Terminal /\ current < target[c]))
      BY <1>2, ServedMeansThere
    <2>2. status = StatusAt(current)
      BY <1>2, <2>1 DEF EventInv, StatusFollowsClock
    <2>3. target[c] \in Int /\ target[c] <= deadline
          /\ current \in Int /\ current <= deadline /\ deadline \in Int
      BY <1>2, HorizonAssumption DEF Served, EventInv, EventTypeOK, Minutes, Targets
    <2>4. \A v \in intakes : dist[v] \in Int
      BY <1>2, DistIsInt DEF EventInv, EventTypeOK
    <2>5. CASE target[c] <= current
      <3>1. IntakeReached(target[c]) => IntakeReached(current)
        BY <2>3, <2>4, <2>5 DEF IntakeReached
      <3>2. CASE IntakeReached(target[c])
        BY <2>2, <3>1, <3>2 DEF StatusAt
      <3>3. CASE ~IntakeReached(target[c])
        <4>1. target[c] >= deadline
          BY <3>3 DEF StatusAt
        <4>2. target[c] = current
          BY <2>3, <2>5, <4>1
        <4> QED
          BY <2>2, <4>2
      <3> QED
        BY <3>2, <3>3
    <2>6. CASE Terminal /\ current < target[c]
      <3>1. ~(current >= deadline)
        BY <2>3, <2>6
      <3>2. IntakeReached(current) /\ status = "breached"
        BY <2>2, <2>6, <3>1 DEF Terminal, StatusAt
      <3>3. IntakeReached(target[c])
        BY <2>3, <2>4, <2>6, <3>2 DEF IntakeReached
      <3> QED
        BY <3>2, <3>3 DEF StatusAt
    <2> QED
      BY <2>1, <2>5, <2>6
  <1> QED
    BY <1>1, <1>2, EventInvariant, OksInvariant, PTL

\* Any number of callers, at least one, each wait for a minute up to the
\* deadline of an event that has not been started: verifyConcurrentAdvances.
RaceInit ==
  /\ EventInv
  /\ ~started
  /\ Callers # {}
  /\ \A c \in Callers : answer[c] = "waiting" /\ target[c] \in 0 .. deadline

RaceSpec == RaceInit /\ [][\E c \in Callers : Advance(c)]_eventVars

\* The clock stands where it has granted some caller to bring it.
RaceInv ==
  /\ Callers # {}
  /\ \A c \in Callers : answer[c] # "none" /\ target[c] \in 0 .. deadline
  /\ started => \E w \in Callers : answer[w] = "ok" /\ target[w] = current

\* When all are answered, the clock stands at the greatest minute that was
\* granted, and the caller who was granted it has been shown the event as it
\* is; who asked for less was granted it or came too late, and who asked for
\* more found the event decided.
RaceEndsAtGreatest ==
  (\A c \in Callers : answer[c] # "waiting") =>
    \E w \in Callers :
      /\ answer[w] = "ok" /\ target[w] = current /\ snapshot[w] = SnapshotNow
      /\ \A c \in Callers :
           \/ answer[c] = "ok" /\ target[c] <= current
           \/ answer[c] = "clock_regression" /\ target[c] < current
           \/ answer[c] = "incident_terminal" /\ target[c] > current /\ Terminal

\* Every call of the race keeps it.
LEMMA RaceStep ==
  ASSUME EventInv, RaceInv, NEW c \in Callers, Advance(c) PROVE RaceInv'
  <1> USE DEF RaceInv
  <1>1. answer \in [Callers -> {"none", "waiting", "ok"} \cup Rejections]
    BY DEF EventInv, EventTypeOK
  <1>2. CASE Retry(c)
    <2>1. /\ answer' = [answer EXCEPT ![c] = "ok"] /\ answer[c] = "waiting"
          /\ UNCHANGED <<target, deadline, started, current>>
      BY <1>2 DEF Retry, specVars, clockVars
    <2> QED
      BY <1>1, <2>1
  <1>3. CASE RejectRegression(c) \/ RejectTerminal(c) \/ RejectPastDeadline(c)
    <2>1. PICK reason \in Rejections : Reject(c, reason)
      BY <1>3 DEF RejectRegression, RejectTerminal, RejectPastDeadline, Rejections
    <2>2. /\ answer' = [answer EXCEPT ![c] = reason] /\ answer[c] = "waiting"
          /\ UNCHANGED <<target, deadline, started, current>>
      BY <2>1 DEF Reject, specVars, clockVars
    <2>3. reason # "none"
      BY DEF Rejections
    <2> QED
      BY <1>1, <2>2, <2>3
  <1>4. CASE Commit(c)
    <2>1. /\ answer' = [answer EXCEPT ![c] = "ok"]
          /\ current' = target[c] /\ UNCHANGED <<target, deadline>>
      BY <1>4 DEF Commit, CommitTo, specVars
    <2> QED
      BY <1>1, <2>1
  <1> QED
    BY <1>2, <1>3, <1>4 DEF Advance

\* A race of any number of advances, served in whatever order, leaves the clock
\* at the greatest minute any of them was granted, where a last retry shows
\* what the caller who brought it there was shown.
THEOREM RaceEndsThere == RaceSpec => []RaceEndsAtGreatest
  <1>1. RaceInit => EventInv /\ OksAreBehind /\ RaceInv
    BY DEF RaceInit, OksAreBehind, RaceInv
  <1>2. EventInv /\ OksAreBehind /\ RaceInv /\ [\E c \in Callers : Advance(c)]_eventVars
          => EventInv' /\ OksAreBehind' /\ RaceInv'
    <2>1. ASSUME RaceInv, UNCHANGED eventVars PROVE RaceInv'
      BY <2>1 DEF RaceInv, eventVars, specVars, clockVars, replyVars
    <2> QED
      BY <2>1, RaceStep, EventNextInv, OksStayBehind DEF EventNext
  <1>3. EventInv /\ OksAreBehind /\ RaceInv => RaceEndsAtGreatest
    <2> SUFFICES ASSUME EventInv, OksAreBehind, RaceInv,
                        \A c \in Callers : answer[c] # "waiting"
                 PROVE  \E w \in Callers :
                   /\ answer[w] = "ok" /\ target[w] = current /\ snapshot[w] = SnapshotNow
                   /\ \A c \in Callers :
                        \/ answer[c] = "ok" /\ target[c] <= current
                        \/ answer[c] = "clock_regression" /\ target[c] < current
                        \/ answer[c] = "incident_terminal" /\ target[c] > current /\ Terminal
      BY DEF RaceEndsAtGreatest
    <2>1. \A c \in Callers : Served(c)
      BY DEF RaceInv, Served
    <2>2. started
      BY <2>1, ServedMeansThere DEF RaceInv
    <2>3. PICK w \in Callers : answer[w] = "ok" /\ target[w] = current
      BY <2>2 DEF RaceInv
    <2>4. snapshot[w] = SnapshotNow
      BY <2>2, <2>3 DEF EventInv, RepliesAreViews, StatusFollowsClock, SnapshotNow
    <2>5. ASSUME NEW c \in Callers
          PROVE  \/ answer[c] = "ok" /\ target[c] <= current
                 \/ answer[c] = "clock_regression" /\ target[c] < current
                 \/ answer[c] = "incident_terminal" /\ target[c] > current /\ Terminal
      <3>1. target[c] \in Int /\ target[c] >= 0 /\ target[c] <= deadline /\ deadline \in Int
        BY HorizonAssumption DEF RaceInv, EventInv, EventTypeOK, Minutes
      <3>2. answer[c] \in {"ok", "clock_regression", "incident_terminal", "past_deadline"}
        BY DEF RaceInv, EventInv, EventTypeOK, Rejections
      <3>3. answer[c] # "past_deadline"
        BY <3>1 DEF EventInv, RejectionsStayTrue
      <3>4. answer[c] = "ok" => target[c] <= current
        BY DEF OksAreBehind
      <3>5. answer[c] = "clock_regression" => target[c] < current
        BY <3>1 DEF EventInv, RejectionsStayTrue
      <3>6. answer[c] = "incident_terminal" => target[c] > current /\ Terminal
        BY DEF EventInv, RejectionsStayTrue
      <3> QED
        BY <3>2, <3>3, <3>4, <3>5, <3>6
    <2> QED
      BY <2>3, <2>4, <2>5
  <1> QED
    BY <1>1, <1>2, <1>3, PTL DEF RaceSpec

\* Any number of callers, at least one, wait for one minute of an event in
\* which something is reached by then; the event has not been started.
FanInit ==
  /\ EventInv
  /\ ~started
  /\ Callers # {}
  /\ \A c \in Callers : /\ answer[c] = "waiting"
                       /\ target[c] \in first .. deadline
                       /\ \A d \in Callers : target[d] = target[c]

FanSpec == FanInit /\ [][\E c \in Callers : Advance(c)]_eventVars

\* Until the first is served nothing moves; that one takes all there is.
FanInv ==
  /\ Callers # {}
  /\ \A c, d \in Callers : target[d] = target[c]
  /\ \A c \in Callers : target[c] \in first .. deadline
                        /\ answer[c] \in {"waiting", "ok"}
  /\ ~started => \A c \in Callers : answer[c] = "waiting" /\ increment[c] = {}
  /\ started => \E w \in Callers :
       /\ current = target[w]
       /\ increment[w] = {v \in Nodes : dist[v] <= current}
       /\ \A c \in Callers \ {w} : increment[c] = {}

\* When all are answered all were granted and shown the same, and exactly one
\* was told of all that the minute brought, the others of nothing.
FanOutHolds ==
  (\A c \in Callers : answer[c] # "waiting") =>
    /\ \A c \in Callers : answer[c] = "ok"
    /\ \A c, d \in Callers : snapshot[c] = snapshot[d]
    /\ \E w \in Callers :
         /\ increment[w] = {v \in Nodes : dist[v] <= target[w]}
         /\ increment[w] # {}
         /\ \A c \in Callers \ {w} : increment[c] = {}

\* Every call of the fan keeps it.
LEMMA FanStep ==
  ASSUME EventInv, FanInv, NEW c \in Callers, Advance(c) PROVE FanInv'
  <1> USE DEF FanInv
  <1>1. target[c] \in Int /\ first \in Int /\ first >= 0 /\ deadline \in Int
        /\ first <= target[c] /\ target[c] <= deadline
    BY HorizonAssumption DEF EventInv, EventTypeOK, Minutes, Targets
  <1>2. started => current = target[c]
    OBVIOUS
  <1>3. CASE started
    <2>1. IsRetry(c) /\ ~IsRegression(c)
      BY <1>1, <1>2, <1>3 DEF IsRetry, IsRegression
    <2>2. Retry(c)
      BY <2>1 DEF Advance, RejectRegression, RejectTerminal, RejectPastDeadline, Commit
    <2>3. /\ answer' = [answer EXCEPT ![c] = "ok"]
          /\ UNCHANGED <<specVars, clockVars, target, increment>>
      BY <2>2 DEF Retry
    <2> QED
      BY <1>3, <2>3 DEF EventInv, EventTypeOK, specVars, clockVars
  <1>4. CASE ~started
    <2>1. ~Terminal
      BY <1>4 DEF EventInv, StatusFollowsClock, Terminal
    <2>2. Commit(c)
      BY <1>1, <1>4, <2>1 DEF Advance, Retry, IsRetry, RejectRegression, IsRegression,
                              RejectTerminal, RejectPastDeadline
    <2>3. started' /\ current' = target[c] /\ UNCHANGED specVars
      BY <2>2, CommitMovesOn
    <2>4. /\ answer' = [answer EXCEPT ![c] = "ok"]
          /\ increment' = [increment EXCEPT ![c] = NewArrivals(target[c])]
          /\ UNCHANGED target
      BY <2>2 DEF Commit, CommitTo
    <2>5. NewArrivals(target[c]) = {v \in Nodes : dist[v] <= target[c]}
      <3>1. \A v \in Nodes : dist[v] \in Int /\ dist[v] >= first
        BY DistIsInt DEF EventInv, FirstIsEarliest
      <3> QED
        BY <1>1, <1>4, <3>1 DEF NewArrivals, Lower
    <2>6. /\ increment'[c] = {v \in Nodes : dist'[v] <= current'}
          /\ \A d \in Callers \ {c} : increment'[d] = {}
      BY <1>4, <2>3, <2>4, <2>5 DEF EventInv, EventTypeOK, specVars
    <2> QED
      BY <1>4, <2>3, <2>4, <2>6 DEF EventInv, EventTypeOK, specVars
  <1> QED
    BY <1>3, <1>4

\* One minute asked for by any number of callers at once is committed once:
\* all are granted it, and exactly one of them is told of the new arrivals.
THEOREM OneOfTheFanIsTold == FanSpec => []FanOutHolds
  <1>1. FanInit => EventInv /\ FanInv
    BY DEF FanInit, FanInv, EventInv, EventTypeOK, IncrementsAreReached
  <1>2. EventInv /\ FanInv /\ [\E c \in Callers : Advance(c)]_eventVars
          => EventInv' /\ FanInv'
    <2>1. ASSUME EventInv, FanInv, UNCHANGED eventVars PROVE FanInv'
      BY <2>1 DEF FanInv, eventVars, specVars, clockVars, replyVars
    <2> QED
      BY <2>1, FanStep, EventNextInv DEF EventNext
  <1>3. EventInv /\ FanInv => FanOutHolds
    <2> SUFFICES ASSUME EventInv, FanInv, \A c \in Callers : answer[c] # "waiting"
                 PROVE  /\ \A c \in Callers : answer[c] = "ok"
                        /\ \A c, d \in Callers : snapshot[c] = snapshot[d]
                        /\ \E w \in Callers :
                             /\ increment[w] = {v \in Nodes : dist[v] <= target[w]}
                             /\ increment[w] # {}
                             /\ \A c \in Callers \ {w} : increment[c] = {}
      BY DEF FanOutHolds
    <2>1. started
      BY DEF FanInv
    <2>2. PICK w \in Callers :
            /\ current = target[w]
            /\ increment[w] = {v \in Nodes : dist[v] <= current}
            /\ \A c \in Callers \ {w} : increment[c] = {}
      BY <2>1 DEF FanInv
    <2>3. PICK v \in Nodes : dist[v] = first
      BY DEF EventInv, FirstIsEarliest
    <2>4. dist[v] <= current
      BY <2>2, <2>3, HorizonAssumption DEF FanInv, EventInv, EventTypeOK, Minutes
    <2>5. \A c \in Callers : answer[c] = "ok"
      BY DEF FanInv
    <2>6. ASSUME NEW c \in Callers, NEW d \in Callers PROVE snapshot[c] = snapshot[d]
      <3>1. target[c] = target[d]
        BY DEF FanInv
      <3> QED
        BY <2>5, <3>1 DEF EventInv, RepliesAreViews
    <2> QED
      BY <2>2, <2>4, <2>5, <2>6
  <1> QED
    BY <1>1, <1>2, <1>3, PTL DEF FanSpec

=============================================================================
