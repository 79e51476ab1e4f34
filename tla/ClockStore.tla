------------------------------ MODULE ClockStore ------------------------------
(***************************************************************************)
(* What the service promises its clients: a store of propagation clocks    *)
(* that does each call at one instant between the call and its answer, one *)
(* call at a time, and answers with what it did at that instant.  Once it  *)
(* is frozen nothing in it changes any more.                               *)
(***************************************************************************)
EXTENDS Requests

CONSTANTS Requests, Ids, Nothing

VARIABLES
  events,    \* the clocks, under their identifiers
  call,      \* what each request asks for, and of which clock
  sent,      \* the requests that have been made
  input,     \* their bodies
  answer,    \* the codes they were answered with, "none" before
  reply,     \* the clock they were told of, and the view of it
  received,  \* the requests whose answers have arrived
  frozen     \* the store is closed for good

vars == <<events, call, sent, input, answer, reply, received, frozen>>

Clock(i) == INSTANCE PropagationClock
              WITH Nodes <- 0 .. MaxNodes - 1,
                   arrival <- events[i].arrival,
                   intakes <- events[i].intakes,
                   deadline <- events[i].deadline,
                   clock <- events[i].clock,
                   published <- events[i].published

Routes == {"mincut", "create", "advance"}

Init ==
  /\ events = [i \in Ids |-> Nothing]
  /\ call \in [Requests -> [route : Routes, id : Ids \cup {Nothing}]]
  /\ sent = {}
  /\ input = [r \in Requests |-> Nothing]
  /\ answer = [r \in Requests |-> "none"]
  /\ reply = [r \in Requests |-> Nothing]
  /\ received = {}
  /\ ~frozen

Pending(r) == r \in sent /\ answer[r] = "none"

Send(r) ==
  /\ r \notin sent
  /\ sent' = sent \cup {r}
  /\ \E c \in [route : Routes, id : Ids \cup {Nothing}] :
       call' = [call EXCEPT ![r] = c]
  /\ UNCHANGED <<events, input, answer, reply, received, frozen>>

\* A body is read once and stays what it is.
Read(r) ==
  /\ Pending(r)
  /\ input[r] = Nothing
  /\ input' = [input EXCEPT ![r] = input'[r]]
  /\ UNCHANGED <<events, call, sent, answer, reply, received, frozen>>

\* r is answered, now.
Answers(r, code) ==
  /\ Pending(r)
  /\ answer' = [answer EXCEPT ![r] = code]
  /\ UNCHANGED <<call, sent, input, received, frozen>>

\* and told of clock i what it shows.
Tells(r, i, view) == reply' = [reply EXCEPT ![r] = [id |-> i, snapshot |-> view]]

\* No clock but i changes.
Only(i) == events' = [events EXCEPT ![i] = events'[i]]

\* A new clock, made of what was sent.
Create(r) ==
  /\ ~frozen
  /\ call[r].route = "create"
  /\ input[r] # Nothing
  /\ Validate(input[r])
  /\ Answers(r, "ok")
  /\ \E i \in Ids :
       /\ events[i] = Nothing
       /\ Only(i)
       /\ Clock(i)!Init'
       /\ events'[i].arrival \in Arrivals
       /\ IsEarliest(input[r], events'[i].arrival)
       /\ events'[i].intakes = IntakesOf(input[r])
       /\ events'[i].deadline = input[r].deadline
       /\ Tells(r, i, Clock(i)!Unstarted)

\* The clock that was asked for stands at the minute that was asked for, by a
\* tick or because it stood there already.
Advance(r) ==
  LET i == call[r].id IN
  /\ ~frozen
  /\ call[r].route = "advance"
  /\ input[r] # Nothing
  /\ i \in Ids /\ events[i] # Nothing
  /\ Answers(r, "ok")
  /\ Only(i)
  /\ Clock(i)!Tick \/ UNCHANGED events
  /\ events'[i].clock = input[r].minute
  /\ Tells(r, i, events'[i].published)

\* No tick takes the clock to that minute, for the reason that is given.
Refuse(r) ==
  LET e == events[call[r].id]
      m == input[r].minute
  IN
  /\ ~frozen
  /\ call[r].route = "advance"
  /\ input[r] # Nothing
  /\ call[r].id \in Ids /\ e # Nothing
  /\ m # e.clock
  /\ \/ m < e.clock /\ Answers(r, "clock_regression")
     \/ /\ e.published.status \in {"breached", "contained"}
        /\ Answers(r, "incident_terminal")
     \/ m > e.deadline /\ Answers(r, "past_deadline")
  /\ UNCHANGED <<events, reply>>

\* An answer that no clock has a part in.
TurnAway(r) ==
  /\ \/ Answers(r, "draining")
     \/ /\ ~frozen
        /\ \/ Answers(r, "method_not_allowed")
           \/ Answers(r, "invalid_json")
           \/ Answers(r, "invalid_input")
           \/ Answers(r, "internal_error")
           \/ call[r].route = "mincut" /\ input[r] # Nothing /\ Answers(r, "ok")
           \/ /\ call[r].route = "advance"
              /\ call[r].id \in Ids => events[call[r].id] = Nothing
              /\ Answers(r, "not_found")
  /\ UNCHANGED <<events, reply>>

Receive(r) ==
  /\ answer[r] # "none"
  /\ received' = received \cup {r}
  /\ UNCHANGED <<events, call, sent, input, answer, reply, frozen>>

Freeze ==
  /\ frozen' = TRUE
  /\ UNCHANGED <<events, call, sent, input, answer, reply, received>>

Next ==
  \/ Freeze
  \/ \E r \in Requests :
       \/ Send(r) \/ Read(r) \/ Receive(r)
       \/ Create(r) \/ Advance(r) \/ Refuse(r) \/ TurnAway(r)

Spec == Init /\ [][Next]_vars

=============================================================================
