-------------------------------- MODULE Event --------------------------------
(***************************************************************************)
(* internal/incident: one stored event and the callers that advance it.    *)
(* Advance holds the event's mutex from its first line to its last, so a   *)
(* call takes effect in one action; calls overlap, and a caller may call   *)
(* again, with the same minute or another, whether or not it kept the      *)
(* answer to its last call.  What Dijkstra computed at creation is a       *)
(* parameter of the event, chosen in the initial state.                    *)
(***************************************************************************)
EXTENDS Integers, FiniteSets

CONSTANTS
  Nodes,     \* the nodes of the pipe network
  Callers,   \* the clients that advance the event
  Horizon,   \* bound on deadlines and minutes
  Never      \* math.MaxInt64, the arrival minute of an unreachable node

ASSUME HorizonAssumption == Horizon \in Nat /\ Never \in Int /\ Never > Horizon + 1

VARIABLES
  dist,       \* earliest arrival per node
  intakes,    \* intake nodes
  deadline,
  first,      \* minute of the first release
  started,    \* some advance has succeeded
  current,    \* committed clock minute
  status,
  answer,     \* what each caller's last call came to
  target,     \* the minute it asked for
  increment,  \* the new arrivals it was told of
  snapshot,   \* the snapshot it was given
  reported    \* how many increments each node has been in

specVars == <<dist, intakes, deadline, first>>
clockVars == <<started, current, status>>
replyVars == <<answer, target, increment, snapshot, reported>>
eventVars == <<specVars, clockVars, replyVars>>

Minutes == 0 .. Horizon
Targets == -1 .. Horizon + 1
Statuses == {"scheduled", "propagating", "breached", "contained"}
Rejections == {"clock_regression", "incident_terminal", "past_deadline"}

Terminal == status \in {"breached", "contained"}

\* The snapshot a caller would get now.
SnapshotNow ==
  [minute |-> current, status |-> status,
   reached |-> IF started THEN {v \in Nodes : dist[v] <= current} ELSE {}]

Blank == [minute |-> 0, status |-> "scheduled", reached |-> {}]

\* Validate bounds every release by the deadline, so the first of them, which
\* is the earliest arrival of all, is not after it.
EventInit ==
  /\ dist \in [Nodes -> Minutes \cup {Never}]
  /\ intakes \in SUBSET Nodes \ {{}}
  /\ deadline \in Minutes
  /\ first \in 0 .. deadline
  /\ \E v \in Nodes : dist[v] = first
  /\ \A v \in Nodes : dist[v] >= first
  /\ started = FALSE
  /\ current = 0
  /\ status = "scheduled"
  /\ answer = [c \in Callers |-> "none"]
  /\ target = [c \in Callers |-> 0]
  /\ increment = [c \in Callers |-> {}]
  /\ snapshot = [c \in Callers |-> Blank]
  /\ reported = [v \in Nodes |-> 0]

IntakeReached(t) == \E v \in intakes : dist[v] <= t

\* A statusAt that takes the first release for a minute later than it is.
StatusAtLate(t) ==
  CASE IntakeReached(t)                                -> "breached"
    [] ~IntakeReached(t) /\ t >= deadline              -> "contained"
    [] ~IntakeReached(t) /\ t < deadline /\ t > first  -> "propagating"
    [] OTHER                                           -> "scheduled"

StatusAt(t) ==
  CASE IntakeReached(t)                                -> "breached"
    [] ~IntakeReached(t) /\ t >= deadline              -> "contained"
    [] ~IntakeReached(t) /\ t < deadline /\ t >= first -> "propagating"
    [] OTHER                                           -> "scheduled"

\* An increment that starts at the committed minute, started or not.
LowerFromZero == current

\* The increment starts after the committed minute, or at minute 0.
Lower == IF started THEN current ELSE -1

NewArrivals(t) == {v \in Nodes : Lower < dist[v] /\ dist[v] <= t}

-----------------------------------------------------------------------------

\* c sends a request; the answer to its last one, if any, is forgotten.
Call(c) ==
  /\ answer[c] # "waiting"
  /\ answer' = [answer EXCEPT ![c] = "waiting"]
  /\ \E t \in Targets : target' = [target EXCEPT ![c] = t]
  /\ increment' = [increment EXCEPT ![c] = {}]
  /\ snapshot' = [snapshot EXCEPT ![c] = Blank]
  /\ UNCHANGED <<specVars, clockVars, reported>>

\* Advance, same-minute retry, also of a terminal event.
IsRetry(c) == started /\ target[c] = current

Retry(c) ==
  /\ answer[c] = "waiting"
  /\ IsRetry(c)
  /\ answer' = [answer EXCEPT ![c] = "ok"]
  /\ snapshot' = [snapshot EXCEPT ![c] = SnapshotNow]
  /\ UNCHANGED <<specVars, clockVars, target, increment, reported>>

Reject(c, reason) ==
  /\ answer[c] = "waiting"
  /\ answer' = [answer EXCEPT ![c] = reason]
  /\ UNCHANGED <<specVars, clockVars, target, increment, snapshot, reported>>

IsRegression(c) == IF started THEN target[c] < current ELSE target[c] < 0

RejectRegression(c) ==
  /\ ~IsRetry(c)
  /\ IsRegression(c)
  /\ Reject(c, "clock_regression")

\* A decided event that no longer looks at the minute asked for.
RejectTerminalFirst(c) ==
  /\ Terminal
  /\ Reject(c, "incident_terminal")

RejectTerminal(c) ==
  /\ ~IsRetry(c)
  /\ ~IsRegression(c)
  /\ Terminal
  /\ Reject(c, "incident_terminal")

RejectPastDeadline(c) ==
  /\ ~IsRetry(c)
  /\ ~IsRegression(c)
  /\ ~Terminal
  /\ target[c] > deadline
  /\ Reject(c, "past_deadline")

\* The clock, the status, the increment and the snapshot change together.
CommitTo(c, newStatus) ==
  /\ answer[c] = "waiting"
  /\ UNCHANGED <<specVars, target>>
  /\ increment' = [increment EXCEPT ![c] = NewArrivals(target[c])]
  /\ reported' = [v \in Nodes |->
                    reported[v] + (IF v \in NewArrivals(target[c]) THEN 1 ELSE 0)]
  /\ started' = TRUE
  /\ current' = target[c]
  /\ status' = newStatus
  /\ snapshot' = [snapshot EXCEPT ![c] = SnapshotNow']
  /\ answer' = [answer EXCEPT ![c] = "ok"]

\* Commits without the check for a terminal status.
CommitDecided(c) ==
  /\ ~IsRetry(c) /\ ~IsRegression(c)
  /\ target[c] <= deadline
  /\ CommitTo(c, StatusAt(target[c]))

\* Commits without the check of the deadline.
CommitPastDeadline(c) ==
  /\ ~IsRetry(c) /\ ~IsRegression(c)
  /\ ~Terminal
  /\ CommitTo(c, StatusAt(target[c]))

\* A status of the minute before the clock moved.
CommitStaleStatus(c) ==
  /\ ~IsRetry(c) /\ ~IsRegression(c)
  /\ ~Terminal
  /\ target[c] <= deadline
  /\ CommitTo(c, StatusAt(current))

Commit(c) ==
  /\ ~IsRetry(c) /\ ~IsRegression(c)
  /\ ~Terminal
  /\ target[c] <= deadline
  /\ CommitTo(c, StatusAt(target[c]))

Advance(c) ==
  \/ Retry(c)
  \/ RejectRegression(c) \/ RejectTerminal(c) \/ RejectPastDeadline(c)
  \/ Commit(c)

EventNext == \E c \in Callers : Call(c) \/ Advance(c)

EventSpec == EventInit /\ [][EventNext]_eventVars

-----------------------------------------------------------------------------

\* The variables keep their types; in particular the committed clock never
\* leaves the minutes up to the deadline, whatever minutes callers ask for.
EventTypeOK ==
  /\ dist \in [Nodes -> Minutes \cup {Never}]
  /\ intakes \in SUBSET Nodes
  /\ deadline \in Minutes
  /\ first \in 0 .. deadline
  /\ started \in BOOLEAN
  /\ current \in 0 .. deadline
  /\ status \in Statuses
  /\ answer \in [Callers -> {"none", "waiting", "ok"} \cup Rejections]
  /\ target \in [Callers -> Targets]
  /\ increment \in [Callers -> SUBSET Nodes]
  /\ snapshot \in [Callers -> [minute : Minutes, status : Statuses,
                               reached : SUBSET Nodes]]
  /\ reported \in [Nodes -> Nat]

\* The increments the event hands out, over all callers, retries and jumps of
\* the clock, tell of every node reached so far exactly once, and of no other.
ReportedExactlyOnce ==
  \A v \in Nodes :
    reported[v] = IF started /\ dist[v] <= current THEN 1 ELSE 0

\* A successful answer shows the event at the very minute that was asked for:
\* what had been reached by then and what the status is at that minute.  Other
\* callers, before or after, change nothing in it, and a retry sees it again.
RepliesAreViews ==
  \A c \in Callers : answer[c] = "ok" =>
    snapshot[c] = [minute |-> target[c], status |-> StatusAt(target[c]),
                   reached |-> {v \in Nodes : dist[v] <= target[c]}]

\* The reason a call was rejected for stays true, however long its caller
\* takes to read it: sending the call again cannot succeed.
RejectionsStayTrue ==
  \A c \in Callers :
    /\ answer[c] = "clock_regression" => target[c] < current \/ target[c] < 0
    /\ answer[c] = "incident_terminal" => Terminal /\ target[c] > current
    /\ answer[c] = "past_deadline" => target[c] > deadline

\* No call changes an event that is breached or contained.
TerminalFrozen == [][Terminal => UNCHANGED <<clockVars, reported>>]_eventVars

Clock == INSTANCE PropagationClock
           WITH arrival <- dist,
                clock <- IF started THEN current ELSE -1,
                published <- SnapshotNow

\* The event is a propagation clock: concurrent calls take effect one at a
\* time, and its snapshot is a function of the committed minute.
ImplementsClock == Clock!Spec

\* "Advancing to the current minute is an idempotent retry that reports no new
\* arrivals and the same snapshot" (package incident).
CurrentMinuteIsRetry ==
  [][\A c \in Callers :
       Advance(c) /\ target[c] = current
         => increment'[c] = {} /\ SnapshotNow' = SnapshotNow]_eventVars

=============================================================================
