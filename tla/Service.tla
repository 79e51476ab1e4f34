-------------------------------- MODULE Service --------------------------------
(***************************************************************************)
(* internal/api in front of internal/incident: the business routes behind  *)
(* the admission gate (module Gate), the store and the events in it, each  *)
(* a PropagationClock, which module Event is shown to implement.  A        *)
(* request is admitted, its body decoded and checked, then its handler     *)
(* works, answers and returns the lease; the client has the answer later   *)
(* or never.  Requests overlap at every step, and a client may repeat a    *)
(* call whose answer is lost.  The method and the body of a request are    *)
(* what its handler finds when it looks.                                   *)
(***************************************************************************)
EXTENDS Gate, Requests

CONSTANTS
  Ids,        \* what newID may return
  Creations,  \* bodies sent to /incidents
  Cuts,       \* bodies sent to /mincut
  Nothing     \* no event, no identifier, no body, no reply

VARIABLES
  events,    \* Store.byID: the events created so far
  call,      \* the route of each request, with the event it names
  phase,     \* how far it has come
  input,     \* the body, once it is found good
  answer,    \* the code of its answer
  reply,     \* the identifier and the snapshot in it
  received,  \* the requests whose clients have their answer
  before     \* history: what had been received when each was sent

Snapshot ==
  [minute : 0 .. MaxMinutes,
   status : {"scheduled", "propagating", "breached", "contained"},
   reached : SUBSET (0 .. MaxNodes - 1)]

Incident ==
  [arrival : Arrivals, intakes : SUBSET (0 .. MaxNodes - 1), deadline : 0 .. MaxMinutes,
   clock : -1 .. MaxMinutes, published : Snapshot]

Reply == [id : Ids, snapshot : Snapshot \cup {Nothing}]

Body == Creations \cup Cuts \cup [minute : -1 .. MaxMinutes + 1]

\* The bodies have the JSON shape of their route.
ASSUME BodiesAssumption ==
  /\ \A b \in Creations :
       /\ b.n \in Int /\ b.deadline \in Int
       /\ b.pipes \in Seq([from : Int, to : Int, minutes : Int])
       /\ b.releases \in Seq([node : Int, at : Int])
       /\ b.intakes \in Seq(Int)
  /\ \A b \in Cuts :
       /\ b.n \in Int
       /\ b.edges \in Seq([from : Int, to : Int, cost : Int])
       /\ b.sources \in Seq(Int) /\ b.sinks \in Seq(Int)

ASSUME NothingAssumption ==
  /\ Nothing \notin Ids /\ Nothing \notin Body
  /\ Nothing \notin Snapshot /\ Nothing \notin Incident /\ Nothing \notin Reply

requestVars == <<call, input, answer, reply>>
serviceVars == <<gateVars, events, phase, requestVars, received, before>>

Calls ==
  [route : {"mincut", "create"}, id : {Nothing}]
    \cup [route : {"advance"}, id : Ids \cup {Nothing}]

ServiceInit ==
  /\ GateInit
  /\ events = [i \in Ids |-> Nothing]
  /\ call = [r \in Requests |-> [route |-> "create", id |-> Nothing]]
  /\ phase = [r \in Requests |-> "idle"]
  /\ input = [r \in Requests |-> Nothing]
  /\ answer = [r \in Requests |-> "none"]
  /\ reply = [r \in Requests |-> Nothing]
  /\ received = {}
  /\ before = [r \in Requests |-> {}]

Stored == {i \in Ids : events[i] # Nothing}

-----------------------------------------------------------------------------

\* Identifiers counted up, which anyone can name as soon as they are drawn.
AllNamed == Stored

\* The identifiers a client can name without having been told: of those newID
\* draws, 128 random bits, none.
Guessable == {}

Told == {reply[r].id : r \in {s \in received : reply[s] # Nothing}}

\* A client sends a request.
Send(r) ==
  /\ phase[r] = "idle"
  /\ phase' = [phase EXCEPT ![r] = "sent"]
  /\ \E c \in Calls :
       /\ c.id \in Told \cup Guessable \cup {Nothing}
       /\ call' = [call EXCEPT ![r] = c]
  /\ before' = [before EXCEPT ![r] = received]
  /\ UNCHANGED <<gateVars, events, input, answer, reply, received>>

\* A step of r's goroutine, from one phase to the next.
Steps(r, here, there) ==
  /\ phase[r] = here
  /\ phase' = [phase EXCEPT ![r] = there]
  /\ UNCHANGED <<call, received, before>>

\* An admit that writes the 503 and goes on into the handler.
AdmitAnyway(r) ==
  /\ Acquire(r)
  /\ Steps(r, "sent", "entered")
  /\ UNCHANGED <<events, input, answer, reply>>

\* admit: with a lease into the handler, without one a 503.
Admit(r) ==
  /\ Acquire(r)
  /\ IF state = "accepting"
       THEN Steps(r, "sent", "entered") /\ UNCHANGED answer
       ELSE /\ Steps(r, "sent", "returned")
            /\ answer' = [answer EXCEPT ![r] = "draining"]
  /\ UNCHANGED <<events, input, reply>>

\* The handler of r writes an error and is done.
Rejects(r, code) ==
  /\ answer' = [answer EXCEPT ![r] = code]
  /\ UNCHANGED <<gateVars, events, input, reply>>

\* Any method but POST.
WrongMethod(r) ==
  /\ Steps(r, "entered", "answered")
  /\ Rejects(r, "method_not_allowed")

\* handleAdvance looks for the event before it reads the body.  What it finds
\* stays in the store for good.
MissingEvent(r) == call[r].route = "advance" /\ call[r].id \notin Stored

NotFound(r) ==
  /\ Steps(r, "entered", "answered")
  /\ MissingEvent(r)
  /\ Rejects(r, "not_found")

\* The body never comes, or is too large, or is not one JSON object with the
\* fields of the route.
NoObject(r) ==
  /\ Steps(r, "entered", "answered")
  /\ ~MissingEvent(r)
  /\ Rejects(r, "invalid_json")

\* The bodies a client may send to the route of r, of the right JSON shape.
Bodies(r) ==
  CASE call[r].route = "mincut"  -> Cuts
    [] call[r].route = "create"  -> Creations
    [] call[r].route = "advance" -> [minute : -1 .. MaxMinutes + 1]

\* What the route of r lets through to its computation.
Fits(r, b) ==
  CASE call[r].route = "mincut"  -> ValidateCut(b)
    [] call[r].route = "create"  -> BuildSpec(b)
    [] call[r].route = "advance" -> b.minute >= 0

BadInput(r) ==
  /\ Steps(r, "entered", "answered")
  /\ ~MissingEvent(r)
  /\ \E b \in Bodies(r) : ~Fits(r, b)
  /\ Rejects(r, "invalid_input")

GoodInput(r) ==
  /\ Steps(r, "entered", "work")
  /\ ~MissingEvent(r)
  /\ \E b \in Bodies(r) : Fits(r, b) /\ input' = [input EXCEPT ![r] = b]
  /\ UNCHANGED <<gateVars, events, answer, reply>>

\* handleMinCut: an answer computed from nothing but the body.
Solve(r) ==
  /\ call[r].route = "mincut"
  /\ Steps(r, "work", "answered")
  /\ answer' = [answer EXCEPT ![r] = "ok"]
  /\ UNCHANGED <<gateVars, events, input, reply>>

-----------------------------------------------------------------------------
(* handleCreateIncident and Store.Create.                                  *)

\* newID: random bits, no identifier drawn before.
FreshIds == Ids \ Stored

Unstarted == [minute |-> 0, status |-> "scheduled", reached |-> {}]

\* NewIncident's record of the event, not started.
NewEvent(s, d) ==
  [arrival |-> d, intakes |-> IntakesOf(s), deadline |-> s.deadline, clock |-> -1,
   published |-> Unstarted]

\* The arrivals computed for each specification.
EarliestArrivals ==
  [s \in {b \in Creations : Validate(b)} |-> {d \in Arrivals : IsEarliest(s, d)}]

\* Create: an event with its arrivals is in the store, under a new identifier.
Publish(r) ==
  /\ call[r].route = "create"
  /\ Steps(r, "work", "published")
  /\ Validate(input[r])
  /\ \E i \in FreshIds, d \in EarliestArrivals[input[r]] :
       /\ events' = [events EXCEPT ![i] = NewEvent(input[r], d)]
       /\ reply' = [reply EXCEPT ![r] = [id |-> i, snapshot |-> Nothing]]
  /\ UNCHANGED <<gateVars, input, answer>>

\* Nothing is stored when the specification is not valid after all, or there
\* are no random bits.
CreateFails(r) ==
  /\ call[r].route = "create"
  /\ Steps(r, "work", "answered")
  /\ Rejects(r, IF Validate(input[r]) THEN "internal_error" ELSE "invalid_input")

\* The handler reads the snapshot of the event, which is in the store by now.
AnswerCreated(r) ==
  /\ Steps(r, "published", "answered")
  /\ answer' = [answer EXCEPT ![r] = "ok"]
  /\ reply' = [reply EXCEPT ![r] = [id |-> @.id, snapshot |-> events[@.id].published]]
  /\ UNCHANGED <<gateVars, events, input>>

-----------------------------------------------------------------------------
(* handleAdvance; the event serves one call at a time.                     *)

Event(e) == INSTANCE PropagationClock
              WITH Nodes <- 0 .. MaxNodes - 1,
                   arrival <- e.arrival,
                   intakes <- e.intakes,
                   deadline <- e.deadline,
                   clock <- e.clock,
                   published <- e.published

\* An event that takes every minute up to its deadline while it is undecided.
OutcomeUnordered(e, m) ==
  CASE m # e.clock /\ e.published.status \in {"breached", "contained"} ->
         "incident_terminal"
    [] m # e.clock /\ e.published.status \notin {"breached", "contained"}
         /\ m > e.deadline -> "past_deadline"
    [] OTHER -> "ok"

\* An event that does not look at its deadline.
OutcomeEndless(e, m) ==
  CASE m < e.clock -> "clock_regression"
    [] m > e.clock /\ e.published.status \in {"breached", "contained"} ->
         "incident_terminal"
    [] OTHER -> "ok"

\* The code handleAdvance answers when event e is asked for minute m.
Outcome(e, m) ==
  CASE m < e.clock -> "clock_regression"
    [] m > e.clock /\ e.published.status \in {"breached", "contained"} ->
         "incident_terminal"
    [] m > e.clock /\ e.published.status \notin {"breached", "contained"}
         /\ m > e.deadline -> "past_deadline"
    [] OTHER -> "ok"

\* The event after it has said ok to minute m.
Ticked(e, m) ==
  IF m = e.clock
    THEN e
    ELSE [e EXCEPT !.clock = m, !.published = Event(e)!ViewAt(m)]

AdvanceEvent(r) ==
  LET i == call[r].id
      m == input[r].minute
      code == Outcome(events[i], m)
  IN
  /\ call[r].route = "advance"
  /\ Steps(r, "work", "answered")
  /\ answer' = [answer EXCEPT ![r] = code]
  /\ IF code = "ok"
       THEN /\ events' = [events EXCEPT ![i] = Ticked(@, m)]
            /\ reply' = [reply EXCEPT ![r] =
                           [id |-> i, snapshot |-> Ticked(events[i], m).published]]
       ELSE UNCHANGED <<events, reply>>
  /\ UNCHANGED <<gateVars, input>>

-----------------------------------------------------------------------------

\* The handler returns and with it the lease.
Return(r) ==
  /\ Release(r)
  /\ Steps(r, "answered", "returned")
  /\ UNCHANGED <<events, input, answer, reply>>

\* The answer reaches the client; one that is lost never does.
Receive(r) ==
  /\ phase[r] = "returned"
  /\ r \notin received
  /\ received' = received \cup {r}
  /\ UNCHANGED <<gateVars, events, phase, requestVars, before>>

\* The main goroutine drains the gate and stops it.
DrainGate ==
  /\ BeginDrain \/ (state # "accepting" /\ MarkStopped)
  /\ UNCHANGED <<events, phase, requestVars, received, before>>

ServiceNext ==
  \/ DrainGate
  \/ \E r \in Requests :
       \/ Send(r) \/ Admit(r)
       \/ WrongMethod(r) \/ NotFound(r) \/ NoObject(r) \/ BadInput(r) \/ GoodInput(r)
       \/ Solve(r) \/ Publish(r) \/ CreateFails(r) \/ AnswerCreated(r)
       \/ AdvanceEvent(r)
       \/ Return(r) \/ Receive(r)

ServiceSpec == ServiceInit /\ [][ServiceNext]_serviceVars

-----------------------------------------------------------------------------

\* The variables keep their types; no event's clock ever leaves the minutes up
\* to its own deadline, whatever minutes clients ask for.
ServiceTypeOK ==
  /\ GateTypeOK
  /\ events \in [Ids -> Incident \cup {Nothing}]
  /\ \A i \in Stored : events[i].clock <= events[i].deadline
  /\ call \in [Requests -> Calls]
  /\ phase \in [Requests -> {"idle", "sent", "entered", "work", "published",
                             "answered", "returned"}]
  /\ input \in [Requests -> Body \cup {Nothing}]
  /\ \A r \in Requests : input[r] # Nothing => input[r] \in Bodies(r)
  /\ answer \in [Requests ->
       {"none", "draining", "method_not_allowed", "not_found", "invalid_json",
        "invalid_input", "internal_error", "ok", "clock_regression",
        "incident_terminal", "past_deadline"}]
  /\ reply \in [Requests -> Reply \cup {Nothing}]
  /\ received \subseteq Requests
  /\ before \in [Requests -> SUBSET Requests]

\* What the clients make of it: a store that does each call at one instant.  A
\* creation is done when its event is in the store, though its handler has the
\* snapshot still to read for the answer; the drained gate closes the store.
Sent == {r \in Requests : phase[r] # "idle"}

Done(r) == phase[r] = "published"

DoneAnswer == [r \in Requests |-> IF Done(r) THEN "ok" ELSE answer[r]]

DoneReply ==
  [r \in Requests |->
     IF Done(r) THEN [id |-> reply[r].id, snapshot |-> Unstarted] ELSE reply[r]]

Store == INSTANCE ClockStore
           WITH sent <- Sent, answer <- DoneAnswer, reply <- DoneReply,
                frozen <- drained

\* The handlers, with their separate steps under the gate, the lock of the
\* store and the mutexes of the events, are linearizable: each answer is the
\* answer of a store that serves one call at a time, and once the drain is over
\* no event is created or moved.
ImplementsStore == Store!Spec

Created(r) == call[r].route = "create" /\ answer[r] = "ok"

\* An answer to a creation tells of a new event of its own, not started and
\* made of the very specification that was sent, though the event is in the
\* store, where others could find it, before the handler reads it for the
\* answer.
CreateAnswersHold ==
  \A r \in Requests : Created(r) =>
    LET e == events[reply[r].id] IN
    /\ reply[r].snapshot = Unstarted
    /\ IsEarliest(input[r], e.arrival)
    /\ e.intakes = IntakesOf(input[r]) /\ e.deadline = input[r].deadline
    /\ \A s \in Requests \ {r} : Created(s) => reply[s].id # reply[r].id

\* A client that has one answer about an event and then asks again never gets
\* an earlier state of it: minute and reached nodes only grow from an answer
\* to the next, over all clients, whatever overlaps and whatever got lost.
AnswersNeverRunBack ==
  \A r, s \in Requests :
    /\ r \in before[s]
    /\ answer[r] = "ok" /\ answer[s] = "ok"
    /\ reply[r] # Nothing /\ reply[s] # Nothing /\ reply[r].id = reply[s].id
    => /\ reply[r].snapshot.minute <= reply[s].snapshot.minute
       /\ reply[r].snapshot.reached \subseteq reply[s].snapshot.reached

NodesOf(b) == 0 .. b.n - 1

\* A cut for MinShutdownCost to find: edges between nodes of the network that
\* cost something, endpoints on both sides, and a side with all the sources and
\* none of the sinks.
Cuttable(b) ==
  /\ \A i \in DOMAIN b.edges :
       /\ {b.edges[i].from, b.edges[i].to} \subseteq NodesOf(b)
       /\ b.edges[i].cost > 0
  /\ b.sources # <<>> /\ b.sinks # <<>>
  /\ \E side \in SUBSET NodesOf(b) :
       /\ \A i \in DOMAIN b.sources : b.sources[i] \in side
       /\ \A i \in DOMAIN b.sinks : b.sinks[i] \in NodesOf(b) \ side

\* Event e is about the network of s: the pipes and releases it was computed
\* from and its intakes are at nodes of s, contamination arrives nowhere else,
\* and somewhere it arrives in time, so the event can be decided.
MadeOf(e, s) ==
  /\ \A i \in DOMAIN s.pipes :
       /\ {s.pipes[i].from, s.pipes[i].to} \subseteq NodesOf(s)
       /\ s.pipes[i].minutes > 0
  /\ \A i \in DOMAIN s.releases : s.releases[i].node \in NodesOf(s)
  /\ e.intakes # {} /\ e.intakes \subseteq NodesOf(s)
  /\ \A v \in DOMAIN e.arrival : e.arrival[v] # Never => v \in NodesOf(s)
  /\ \E v \in NodesOf(s) : e.arrival[v] <= e.deadline

\* The computations behind the checks meet only nodes that their own request
\* has, though every array they index is as long as that request's n says, and
\* no client is ever told of another node.  A body that reaches the solver has
\* a cut; an event that reaches the store has what modules Dijkstra and Event
\* take for granted; and whoever advances it, each answer about it names only
\* nodes of the body that created it.
SolversGetValidInput ==
  /\ \A r \in Requests :
       call[r].route = "mincut" /\ input[r] # Nothing => Cuttable(input[r])
  /\ \A r \in Requests : Done(r) \/ Created(r) =>
       /\ MadeOf(events[reply[r].id], input[r])
       /\ \A q \in Requests :
            answer[q] = "ok" /\ reply[q] # Nothing /\ reply[q].id = reply[r].id
            => reply[q].snapshot.reached \subseteq NodesOf(input[r])

=============================================================================
