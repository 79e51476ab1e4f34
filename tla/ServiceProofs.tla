---------------------------- MODULE ServiceProofs ----------------------------
(***************************************************************************)
(* Proofs about the service for any finite set of requests, any set of     *)
(* identifiers and any bodies of the right shape: what the checks let      *)
(* through, what a drain freezes, what answers say of the events, that     *)
(* every body has one result, and that every call takes effect at one      *)
(* instant.                                                                *)
(***************************************************************************)
EXTENDS Service, GateProofs, SumTheorems

\* The steps of r's handler that leave its lease alone.
Handler(r) ==
  \/ WrongMethod(r) \/ NotFound(r) \/ NoObject(r) \/ BadInput(r) \/ GoodInput(r)
  \/ Solve(r) \/ Publish(r) \/ CreateFails(r) \/ AnswerCreated(r)
  \/ AdvanceEvent(r)

\* A step of the service is a step of one request, of the drain, or none.
LEMMA StepCases ==
  ASSUME [ServiceNext]_serviceVars
  PROVE  \/ UNCHANGED serviceVars
         \/ DrainGate
         \/ \E r \in Requests :
              Send(r) \/ Admit(r) \/ Handler(r) \/ Return(r) \/ Receive(r)
  BY DEF ServiceNext, Handler

\* What the steps of a handler have in common.
LEMMA HandlerStep ==
  ASSUME NEW r \in Requests, Handler(r)
  PROVE  /\ UNCHANGED <<gateVars, call, received, before>>
         /\ phase[r] \in {"entered", "work", "published"}
         /\ \E p \in {"work", "published", "answered"} :
              phase' = [phase EXCEPT ![r] = p]
  BY DEF Handler, Steps, Rejects, WrongMethod, NotFound, NoObject, BadInput,
         GoodInput, Solve, Publish, CreateFails, AnswerCreated, AdvanceEvent

-----------------------------------------------------------------------------
(* The gate.                                                               *)

\* A step of the service calls the gate once or not at all.
LEMMA GateStep == [ServiceNext]_serviceVars => [GateNext]_gateVars
  <1> SUFFICES ASSUME [ServiceNext]_serviceVars PROVE [GateNext]_gateVars
    OBVIOUS
  <1>1. CASE UNCHANGED serviceVars
    BY <1>1 DEF serviceVars
  <1>2. CASE DrainGate
    BY <1>2 DEF DrainGate, GateNext
  <1>3. ASSUME NEW r \in Requests, Send(r) \/ Receive(r) PROVE UNCHANGED gateVars
    BY <1>3 DEF Send, Receive
  <1>4. ASSUME NEW r \in Requests, Admit(r) \/ Return(r) PROVE GateNext
    BY <1>4 DEF Admit, Return, GateNext
  <1>5. ASSUME NEW r \in Requests, Handler(r) PROVE UNCHANGED gateVars
    BY <1>5, HandlerStep
  <1> QED
    BY <1>1, <1>2, <1>3, <1>4, <1>5, StepCases

\* The business routes use the gate as package lifecycle means it to be used.
THEOREM ServiceKeepsGate == ServiceSpec => GateSpec
  <1>1. ServiceInit => GateInit
    BY DEF ServiceInit
  <1> QED
    BY <1>1, GateStep, PTL DEF ServiceSpec, GateSpec

\* So what the gate keeps by itself it keeps in front of the routes.
LEMMA GateInvInService == ServiceSpec => []GateInv
  BY ServiceKeepsGate, GateInvariant, PTL

PhasesNamed ==
  phase \in [Requests -> {"idle", "sent", "entered", "work", "published",
                          "answered", "returned"}]

\* Each request's lease is what its progress says.
LeaseFollowsPhase ==
  /\ PhasesNamed
  /\ \A r \in Requests :
       /\ lease[r] = "none" <=> phase[r] \in {"idle", "sent"}
       /\ lease[r] = "held" <=> phase[r] \in {"entered", "work", "published", "answered"}

\* No step separates a handler from its lease,
LEMMA LeaseStep ==
  GateTypeOK /\ LeaseFollowsPhase /\ [ServiceNext]_serviceVars => LeaseFollowsPhase'
  <1> SUFFICES ASSUME GateTypeOK, LeaseFollowsPhase, [ServiceNext]_serviceVars
               PROVE  LeaseFollowsPhase'
    OBVIOUS
  <1> USE DEF LeaseFollowsPhase, PhasesNamed
  <1>1. CASE UNCHANGED serviceVars
    BY <1>1 DEF serviceVars, gateVars
  <1>2. CASE DrainGate
    BY <1>2 DEF DrainGate, BeginDrain, MarkStopped, gateVars
  <1>3. ASSUME NEW r \in Requests, Send(r) \/ Receive(r) PROVE LeaseFollowsPhase'
    BY <1>3 DEF Send, Receive, gateVars
  <1>4. ASSUME NEW r \in Requests, Admit(r) PROVE LeaseFollowsPhase'
    BY <1>4 DEF Admit, Steps, Acquire, Grant, Refuse, GateTypeOK
  <1>5. ASSUME NEW r \in Requests, Return(r) PROVE LeaseFollowsPhase'
    BY <1>5 DEF Return, Steps, Release, GateTypeOK
  <1>6. ASSUME NEW r \in Requests, Handler(r) PROVE LeaseFollowsPhase'
    BY <1>6, HandlerStep DEF gateVars
  <1> QED
    BY <1>1, <1>2, <1>3, <1>4, <1>5, <1>6, StepCases

\* so a handler that works holds one.
LEMMA LeaseInvariant == ServiceSpec => []LeaseFollowsPhase
  <1>1. ServiceInit => LeaseFollowsPhase
    BY DEF ServiceInit, GateInit, LeaseFollowsPhase, PhasesNamed
  <1>2. GateInv => GateTypeOK
    BY DEF GateInv
  <1> QED
    BY <1>1, <1>2, LeaseStep, GateInvInService, PTL DEF ServiceSpec

\* Once the drain is over no event is created or moved: what a client is told
\* by an answer to a call it made before is the last state of the service.
DrainedIsFrozen == [][drained => UNCHANGED events]_serviceVars

\* After the drain is over no event is created or moved: whoever could do it
\* holds a lease, and then the drain is not over.
THEOREM DrainFreezesEvents == ServiceSpec => DrainedIsFrozen
  <1>1. ASSUME GateInv, LeaseFollowsPhase, [ServiceNext]_serviceVars, drained
        PROVE  UNCHANGED events
    <2>1. Holders = {}
      BY <1>1 DEF GateInv, DrainedExactly
    <2>2. ASSUME NEW r \in Requests, Handler(r) PROVE FALSE
      BY <1>1, <2>1, <2>2, HandlerStep DEF LeaseFollowsPhase, Holders
    <2>3. ASSUME NEW r \in Requests, Send(r) \/ Admit(r) \/ Return(r) \/ Receive(r)
          PROVE  UNCHANGED events
      BY <2>3 DEF Send, Admit, Return, Receive
    <2> QED
      BY <1>1, <2>2, <2>3, StepCases DEF serviceVars, DrainGate
  <1>2. GateInv /\ LeaseFollowsPhase /\ [ServiceNext]_serviceVars
          => [drained => UNCHANGED events]_serviceVars
    BY <1>1
  <1> QED
    BY <1>2, GateInvInService, LeaseInvariant, PTL DEF ServiceSpec, DrainedIsFrozen

-----------------------------------------------------------------------------
(* One event: how it is made and how it moves.                             *)

\* An event that shows what it has committed to, and can be decided.
Lawful(e) ==
  /\ e.clock <= e.deadline
  /\ e.clock = -1 => e.published = Unstarted
  /\ e.clock >= 0 => e.published = Event(e)!ViewAt(e.clock)
  /\ e.intakes # {}
  /\ \E v \in DOMAIN e.arrival : e.arrival[v] <= e.deadline

\* An element of a sequence.
LEMMA ElementOf ==
  ASSUME NEW S, NEW q \in Seq(S), NEW i \in DOMAIN q PROVE q[i] \in S
  OBVIOUS

\* The contamination of a valid incident arrives somewhere in time.
LEMMA NewEventLawful ==
  ASSUME NEW s \in Creations, Validate(s), NEW d \in Arrivals, IsEarliest(s, d)
  PROVE  NewEvent(s, d) \in Incident /\ Lawful(NewEvent(s, d))
  <1> DEFINE e == NewEvent(s, d)
  <1>1. /\ e.arrival = d /\ e.intakes = IntakesOf(s) /\ e.deadline = s.deadline
        /\ e.clock = -1 /\ e.published = Unstarted
        /\ e = [arrival |-> d, intakes |-> IntakesOf(s), deadline |-> s.deadline,
                clock |-> -1, published |-> Unstarted]
    BY DEF NewEvent
  <1>2. /\ s.n \in 2 .. MaxNodes /\ s.deadline \in 0 .. MaxMinutes
        /\ ReleasesFit(s) /\ IntakesFit(s)
    BY DEF Validate
  <1>3. s.releases \in Seq([node : Int, at : Int]) /\ s.intakes \in Seq(Int)
    BY BodiesAssumption
  <1>4. IntakesOf(s) \subseteq 0 .. MaxNodes - 1 /\ IntakesOf(s) # {}
    <2>1. ASSUME NEW i \in DOMAIN s.intakes PROVE s.intakes[i] \in 0 .. MaxNodes - 1
      BY <1>2, <1>3, BoundsAssumption DEF IntakesFit, IsNode
    <2>2. 1 \in DOMAIN s.intakes
      BY <1>2, <1>3 DEF IntakesFit
    <2> QED
      BY <2>1, <2>2 DEF IntakesOf
  <1>5. Unstarted \in Snapshot
    BY BoundsAssumption DEF Unstarted, Snapshot
  <1>6. \E v \in DOMAIN d : d[v] <= s.deadline
    <2> DEFINE q == s.releases[1]
    <2>1. 1 \in DOMAIN s.releases
      BY <1>2, <1>3 DEF ReleasesFit
    <2>2. q.node \in 0 .. MaxNodes - 1 /\ q.at \in 0 .. s.deadline /\ d[q.node] <= q.at
      <3>1. q \in [node : Int, at : Int]
        BY <1>3, <2>1, ElementOf
      <3>2. IsNode(q.node, s.n) /\ q.at \in 0 .. s.deadline
        BY <1>2, <2>1 DEF ReleasesFit
      <3>3. d[q.node] <= q.at
        BY <2>1 DEF IsEarliest
      <3> QED
        BY <1>2, <3>1, <3>2, <3>3, BoundsAssumption DEF IsNode
    <2>3. q.node \in DOMAIN d /\ d[q.node] \in Int
      BY <2>2, BoundsAssumption DEF Arrivals
    <2> QED
      BY <1>2, <2>2, <2>3
  <1>7. e \in Incident
    BY <1>1, <1>2, <1>4, <1>5, BoundsAssumption DEF Incident
  <1>8. Lawful(e)
    BY <1>1, <1>2, <1>4, <1>6 DEF Lawful
  <1> QED
    BY <1>7, <1>8

\* A tick that is accepted keeps the event lawful, leaves what it was made of
\* alone, and only adds to what it shows.
LEMMA TickedLawful ==
  ASSUME NEW e \in Incident, Lawful(e), NEW m \in Nat, Outcome(e, m) = "ok"
  PROVE  /\ Ticked(e, m) \in Incident /\ Lawful(Ticked(e, m))
         /\ Ticked(e, m).arrival = e.arrival
         /\ Ticked(e, m).intakes = e.intakes
         /\ Ticked(e, m).deadline = e.deadline
         /\ e.published.minute <= Ticked(e, m).published.minute
         /\ e.published.reached \subseteq Ticked(e, m).published.reached
  <1>1. /\ e.arrival \in Arrivals /\ e.intakes \in SUBSET (0 .. MaxNodes - 1)
        /\ e.deadline \in 0 .. MaxMinutes /\ e.clock \in -1 .. MaxMinutes
        /\ e.published \in Snapshot
    BY DEF Incident
  <1>2. CASE m = e.clock
    BY <1>1, <1>2, BoundsAssumption DEF Ticked, Snapshot
  <1>3. CASE m # e.clock
    <2>1. m > e.clock /\ m <= e.deadline
      BY <1>1, <1>3, BoundsAssumption DEF Outcome
    <2> DEFINE view == Event(e)!ViewAt(m)
               t == [e EXCEPT !.clock = m, !.published = view]
               here == {v \in 0 .. MaxNodes - 1 : e.arrival[v] <= m}
    <2>2. Ticked(e, m) = t
      BY <1>3 DEF Ticked
    <2>4. view.minute = m /\ view.reached = here
      BY DEF Event!ViewAt, Event!Reached
    <2>5. view \in Snapshot
      <3>1. Event(e)!Verdict(m) \in {"scheduled", "propagating", "breached", "contained"}
        BY DEF Event!Verdict
      <3>2. m \in 0 .. MaxMinutes /\ here \in SUBSET (0 .. MaxNodes - 1)
        BY <1>1, <2>1, BoundsAssumption
      <3> QED
        BY <3>1, <3>2 DEF Snapshot, Event!ViewAt, Event!Reached
    <2> HIDE DEF view
    <2>3. /\ t.arrival = e.arrival /\ t.intakes = e.intakes
          /\ t.deadline = e.deadline /\ t.clock = m /\ t.published = view
          /\ t \in Incident
      <3>1. m \in -1 .. MaxMinutes
        BY <1>1, <2>1, BoundsAssumption
      <3>2. t \in Incident
        BY <3>1, <2>5 DEF Incident
      <3>3. /\ t.arrival = e.arrival /\ t.intakes = e.intakes
            /\ t.deadline = e.deadline /\ t.clock = m /\ t.published = view
        BY DEF Incident
      <3> QED
        BY <3>2, <3>3
    <2> HIDE DEF t
    <2> USE DEF view
    <2>7. t.published = Event(t)!ViewAt(t.clock)
      BY <2>3 DEF Event!ViewAt, Event!Reached, Event!Verdict
    <2>8. Lawful(t)
      BY <1>1, <2>1, <2>3, <2>7 DEF Lawful
    <2>9. e.published.minute <= m /\ e.published.reached \subseteq here
      <3>1. CASE e.clock = -1
        BY <3>1, <2>1 DEF Lawful, Unstarted
      <3>2. CASE e.clock >= 0
        <4>1. /\ e.published.minute = e.clock
              /\ e.published.reached = {v \in 0 .. MaxNodes - 1 : e.arrival[v] <= e.clock}
          BY <3>2 DEF Lawful, Event!ViewAt, Event!Reached
        <4>2. \A v \in 0 .. MaxNodes - 1 : e.arrival[v] \in Int
          BY <1>1, BoundsAssumption DEF Arrivals
        <4> QED
          BY <1>1, <2>1, <4>1, <4>2
      <3> QED
        BY <1>1, <3>1, <3>2
    <2> QED
      BY <2>2, <2>3, <2>4, <2>8, <2>9
  <1> QED
    BY <1>2, <1>3

-----------------------------------------------------------------------------
(* The store and the fields of each request.                               *)

\* What each request's progress says about what its handler has found.
FieldsFollowPhase ==
  \A r \in Requests :
    /\ phase[r] \in {"idle", "sent", "entered"} => input[r] = Nothing
    /\ phase[r] \in {"idle", "sent", "entered", "work"} => reply[r] = Nothing
    /\ answer[r] = "ok" => phase[r] \in {"answered", "returned"}
    /\ phase[r] \in {"work", "published"} \/ Created(r) => input[r] # Nothing
    /\ Created(r) => reply[r] # Nothing
    /\ input[r] # Nothing => Fits(r, input[r])
    /\ phase[r] = "work" /\ call[r].route = "advance" => call[r].id \in Stored
    /\ phase[r] = "published" => call[r].route = "create" /\ reply[r] # Nothing
    /\ reply[r] # Nothing => reply[r].id \in Stored

EventsLawful == \A i \in Stored : Lawful(events[i])

StoreInv == ServiceTypeOK /\ FieldsFollowPhase /\ EventsLawful

\* Nothing is no event, no body and no answer.
LEMMA NothingApart ==
  ASSUME NEW r \in Requests, call[r] \in Calls
  PROVE  Bodies(r) \subseteq Body /\ Nothing \notin Bodies(r)
  BY NothingAssumption DEF Bodies, Body, Calls

\* The invariant holds of an empty store.
LEMMA StoreInit == ServiceInit => StoreInv
  <1> SUFFICES ASSUME ServiceInit PROVE StoreInv
    OBVIOUS
  <1>1. GateTypeOK
    BY GateInitInv DEF ServiceInit, GateInv
  <1>2. Stored = {}
    BY DEF ServiceInit, Stored
  <1>3. ServiceTypeOK
    BY <1>1, <1>2 DEF ServiceInit, ServiceTypeOK, Calls
  <1> QED
    BY <1>2, <1>3 DEF ServiceInit, StoreInv, FieldsFollowPhase, EventsLawful, Created

\* Steps that leave the store and the fields alone.
LEMMA QuietStep ==
  ASSUME StoreInv, GateTypeOK',
         \/ UNCHANGED serviceVars \/ DrainGate
         \/ \E r \in Requests : Receive(r) \/ Return(r)
  PROVE  StoreInv'
  <1>1. UNCHANGED <<events, requestVars>>
    BY DEF serviceVars, DrainGate, Receive, Return, Steps, requestVars
  <1>2. Stored' = Stored
    BY <1>1 DEF Stored
  <1>3. \A r \in Requests :
          /\ Bodies(r)' = Bodies(r)
          /\ Fits(r, input[r])' = Fits(r, input[r])
    BY <1>1 DEF Bodies, Fits, requestVars
  <1>4. \/ UNCHANGED <<phase, received, before>>
        \/ \E r \in Requests : received' = received \cup {r} /\ UNCHANGED <<phase, before>>
        \/ \E r \in Requests : /\ phase[r] = "answered"
                              /\ phase' = [phase EXCEPT ![r] = "returned"]
                              /\ UNCHANGED <<received, before>>
    BY DEF serviceVars, DrainGate, Receive, Return, Steps
  <1>5. ServiceTypeOK'
    BY <1>1, <1>2, <1>3, <1>4 DEF StoreInv, ServiceTypeOK, requestVars
  <1>6. FieldsFollowPhase'
    BY <1>1, <1>2, <1>3, <1>4
       DEF StoreInv, ServiceTypeOK, FieldsFollowPhase, Created, requestVars
  <1>7. EventsLawful'
    BY <1>1, <1>2 DEF StoreInv, EventsLawful, Lawful
  <1> QED
    BY <1>5, <1>6, <1>7 DEF StoreInv

\* A request that is sent keeps it,
LEMMA SendStep ==
  ASSUME StoreInv, GateTypeOK', NEW r \in Requests, Send(r) PROVE StoreInv'
  <1> USE DEF StoreInv
  <1>1. PICK c \in Calls : call' = [call EXCEPT ![r] = c]
    BY DEF Send
  <1>2. /\ phase[r] = "idle" /\ phase' = [phase EXCEPT ![r] = "sent"]
        /\ before' = [before EXCEPT ![r] = received]
        /\ UNCHANGED <<events, input, answer, reply, received>>
        /\ Stored' = Stored
    BY DEF Send, Stored
  <1>3. input[r] = Nothing
    BY <1>2 DEF FieldsFollowPhase
  <1>4. \A s \in Requests : input[s] # Nothing =>
          /\ s # r
          /\ Bodies(s)' = Bodies(s)
          /\ Fits(s, input[s])' = Fits(s, input[s])
    BY <1>1, <1>2, <1>3 DEF Bodies, Fits, ServiceTypeOK
  <1>5. ServiceTypeOK'
    BY <1>1, <1>2, <1>4 DEF ServiceTypeOK
  <1>6. FieldsFollowPhase'
    BY <1>1, <1>2, <1>3, <1>4 DEF ServiceTypeOK, FieldsFollowPhase, Created
  <1>7. EventsLawful'
    BY <1>2 DEF EventsLawful, Lawful
  <1> QED
    BY <1>5, <1>6, <1>7

\* The gate's verdict, the errors, and the answer to /mincut.
LEMMA AnswerStep ==
  ASSUME StoreInv, GateTypeOK', NEW r \in Requests,
         \/ Admit(r) \/ WrongMethod(r) \/ NotFound(r) \/ NoObject(r) \/ BadInput(r)
         \/ CreateFails(r) \/ Solve(r)
  PROVE  StoreInv'
  <1> USE DEF StoreInv
  <1>1. /\ UNCHANGED <<events, call, input, reply, received, before>>
        /\ Stored' = Stored
    BY DEF Admit, WrongMethod, NotFound, NoObject, BadInput, CreateFails, Solve,
           Rejects, Steps, Stored
  <1>2. \/ /\ phase[r] = "sent" /\ phase' = [phase EXCEPT ![r] = "entered"]
           /\ UNCHANGED answer
        \/ /\ phase[r] = "sent" /\ phase' = [phase EXCEPT ![r] = "returned"]
           /\ answer' = [answer EXCEPT ![r] = "draining"]
        \/ /\ phase[r] \in {"entered", "work"}
           /\ phase' = [phase EXCEPT ![r] = "answered"]
           /\ \E code \in {"method_not_allowed", "not_found", "invalid_json",
                           "invalid_input", "internal_error"} :
                answer' = [answer EXCEPT ![r] = code]
        \/ /\ phase[r] = "work" /\ phase' = [phase EXCEPT ![r] = "answered"]
           /\ call[r].route = "mincut"
           /\ answer' = [answer EXCEPT ![r] = "ok"]
    BY DEF Admit, WrongMethod, NotFound, NoObject, BadInput, CreateFails, Solve,
           Rejects, Steps
  <1>3. \A s \in Requests :
          /\ Bodies(s)' = Bodies(s)
          /\ Fits(s, input[s])' = Fits(s, input[s])
    BY <1>1 DEF Bodies, Fits
  <1>4. ServiceTypeOK'
    BY <1>1, <1>2, <1>3 DEF ServiceTypeOK
  <1>5. FieldsFollowPhase'
    BY <1>1, <1>2, <1>3 DEF ServiceTypeOK, FieldsFollowPhase, Created
  <1>6. EventsLawful'
    BY <1>1 DEF EventsLawful, Lawful
  <1> QED
    BY <1>4, <1>5, <1>6

\* so does a body that is read and checked,
LEMMA InputStep ==
  ASSUME StoreInv, GateTypeOK', NEW r \in Requests, GoodInput(r) PROVE StoreInv'
  <1> USE DEF StoreInv
  <1>1. PICK b \in Bodies(r) : Fits(r, b) /\ input' = [input EXCEPT ![r] = b]
    BY DEF GoodInput
  <1>2. /\ phase[r] = "entered" /\ phase' = [phase EXCEPT ![r] = "work"]
        /\ UNCHANGED <<events, call, answer, reply, received, before>>
        /\ Stored' = Stored
        /\ call[r].route = "advance" => call[r].id \in Stored
    BY DEF GoodInput, Steps, Stored, MissingEvent
  <1>3. b # Nothing /\ b \in Body
    BY NothingApart DEF ServiceTypeOK
  <1>4. \A s \in Requests : Bodies(s)' = Bodies(s)
    BY <1>2 DEF Bodies
  <1>5. \A s \in Requests : input'[s] = IF s = r THEN b ELSE input[s]
    BY <1>1 DEF ServiceTypeOK
  <1>6. \A s \in Requests : input'[s] # Nothing => Fits(s, input[s])'
    BY <1>1, <1>2, <1>5 DEF FieldsFollowPhase, Fits
  <1>7. ServiceTypeOK'
    BY <1>1, <1>2, <1>3, <1>4, <1>5 DEF ServiceTypeOK
  <1>8. FieldsFollowPhase'
    BY <1>2, <1>3, <1>5, <1>6 DEF ServiceTypeOK, FieldsFollowPhase, Created
  <1>9. EventsLawful'
    BY <1>2 DEF EventsLawful, Lawful
  <1> QED
    BY <1>7, <1>8, <1>9

\* A published event is a new one, made of what its creator sent.
LEMMA Published ==
  ASSUME StoreInv, NEW r \in Requests, Publish(r)
  PROVE  \E i \in Ids \ Stored, d \in Arrivals :
           /\ IsEarliest(input[r], d)
           /\ NewEvent(input[r], d) \in Incident /\ Lawful(NewEvent(input[r], d))
           /\ events' = [events EXCEPT ![i] = NewEvent(input[r], d)]
           /\ Stored' = Stored \cup {i}
           /\ reply' = [reply EXCEPT ![r] = [id |-> i, snapshot |-> Nothing]]
  <1>1. input[r] \in Creations /\ Validate(input[r])
    BY DEF Publish, Steps, StoreInv, ServiceTypeOK, FieldsFollowPhase, Bodies
  <1>2. EarliestArrivals[input[r]] = {d \in Arrivals : IsEarliest(input[r], d)}
    BY <1>1 DEF EarliestArrivals
  <1>3. PICK i \in FreshIds, d \in EarliestArrivals[input[r]] :
          /\ events' = [events EXCEPT ![i] = NewEvent(input[r], d)]
          /\ reply' = [reply EXCEPT ![r] = [id |-> i, snapshot |-> Nothing]]
    BY DEF Publish
  <1>4. i \in Ids \ Stored /\ d \in Arrivals /\ IsEarliest(input[r], d)
    BY <1>2 DEF FreshIds
  <1>5. NewEvent(input[r], d) \in Incident /\ Lawful(NewEvent(input[r], d))
    BY <1>1, <1>4, NewEventLawful
  <1>6. NewEvent(input[r], d) # Nothing
    BY <1>5, NothingAssumption
  <1>7. Stored' = Stored \cup {i}
    BY <1>3, <1>4, <1>6 DEF Stored, StoreInv, ServiceTypeOK
  <1> QED
    BY <1>3, <1>4, <1>5, <1>7

\* an event that is put into the store,
LEMMA PublishStep ==
  ASSUME StoreInv, GateTypeOK', NEW r \in Requests, Publish(r) PROVE StoreInv'
  <1> USE DEF StoreInv
  <1>1. PICK i \in Ids \ Stored, d \in Arrivals :
          /\ NewEvent(input[r], d) \in Incident /\ Lawful(NewEvent(input[r], d))
          /\ events' = [events EXCEPT ![i] = NewEvent(input[r], d)]
          /\ Stored' = Stored \cup {i}
          /\ reply' = [reply EXCEPT ![r] = [id |-> i, snapshot |-> Nothing]]
    BY Published
  <1>2. /\ phase[r] = "work" /\ phase' = [phase EXCEPT ![r] = "published"]
        /\ call[r].route = "create"
        /\ UNCHANGED <<call, input, answer, received, before>>
    BY DEF Publish, Steps
  <1>3. \A s \in Requests :
          /\ Bodies(s)' = Bodies(s)
          /\ Fits(s, input[s])' = Fits(s, input[s])
    BY <1>2 DEF Bodies, Fits
  <1> DEFINE e == NewEvent(input[r], d)
             a == [id |-> i, snapshot |-> Nothing]
  <1>4. a \in Reply /\ a # Nothing /\ a.id = i
    BY NothingAssumption DEF Reply
  <1>5. e \in Incident /\ e.clock <= e.deadline
    BY <1>1 DEF Lawful
  <1> HIDE DEF e, a
  <1>6. events' = [events EXCEPT ![i] = e] /\ reply' = [reply EXCEPT ![r] = a]
    BY <1>1 DEF e, a
  <1>7. ServiceTypeOK'
    BY <1>1, <1>2, <1>3, <1>4, <1>5, <1>6 DEF ServiceTypeOK
  <1>8. FieldsFollowPhase'
    BY <1>1, <1>2, <1>3, <1>4, <1>6 DEF ServiceTypeOK, FieldsFollowPhase, Created
  <1>9. EventsLawful'
    <2>1. ASSUME NEW j \in Stored' PROVE Lawful(events[j])'
      BY <1>1, <2>1 DEF EventsLawful, ServiceTypeOK
    <2> QED
      BY <2>1 DEF EventsLawful, Lawful
  <1> QED
    BY <1>7, <1>8, <1>9

\* the answer that reads it back,
LEMMA AnswerCreatedStep ==
  ASSUME StoreInv, GateTypeOK', NEW r \in Requests, AnswerCreated(r) PROVE StoreInv'
  <1> USE DEF StoreInv
  <1>1. /\ phase[r] = "published" /\ phase' = [phase EXCEPT ![r] = "answered"]
        /\ answer' = [answer EXCEPT ![r] = "ok"]
        /\ UNCHANGED <<events, call, input, received, before>>
        /\ Stored' = Stored
    BY DEF AnswerCreated, Steps, Stored
  <1> DEFINE a == [id |-> reply[r].id, snapshot |-> events[reply[r].id].published]
  <1>2. reply' = [reply EXCEPT ![r] = a]
    BY DEF AnswerCreated, ServiceTypeOK
  <1>3. reply[r].id \in Stored /\ input[r] # Nothing
    BY <1>1 DEF FieldsFollowPhase
  <1>4. a \in Reply /\ a # Nothing /\ a.id \in Stored
    <2>1. events[reply[r].id] \in Incident /\ reply[r].id \in Ids
      BY <1>3 DEF ServiceTypeOK, Stored
    <2>2. events[reply[r].id].published \in Snapshot
      BY <2>1 DEF Incident
    <2> QED
      BY <1>3, <2>1, <2>2, NothingAssumption DEF Reply
  <1> HIDE DEF a
  <1>5. \A s \in Requests :
          /\ Bodies(s)' = Bodies(s)
          /\ Fits(s, input[s])' = Fits(s, input[s])
    BY <1>1 DEF Bodies, Fits
  <1>6. ServiceTypeOK'
    BY <1>1, <1>2, <1>4, <1>5 DEF ServiceTypeOK
  <1>7. FieldsFollowPhase'
    BY <1>1, <1>2, <1>3, <1>4, <1>5 DEF ServiceTypeOK, FieldsFollowPhase, Created
  <1>8. EventsLawful'
    BY <1>1 DEF EventsLawful, Lawful
  <1> QED
    BY <1>6, <1>7, <1>8

\* An advance moves its event lawfully, or leaves everything as it is.
LEMMA Advanced ==
  ASSUME StoreInv, NEW r \in Requests, AdvanceEvent(r)
  PROVE  \/ /\ UNCHANGED <<events, reply>>
            /\ \E code \in {"clock_regression", "incident_terminal", "past_deadline"} :
                 answer' = [answer EXCEPT ![r] = code]
         \/ \E i \in Stored, e \in Incident :
              /\ call[r].id = i
              /\ events' = [events EXCEPT ![i] = e]
              /\ reply' = [reply EXCEPT ![r] = [id |-> i, snapshot |-> e.published]]
              /\ answer' = [answer EXCEPT ![r] = "ok"]
              /\ Lawful(e)
              /\ e.arrival = events[i].arrival /\ e.intakes = events[i].intakes
              /\ e.deadline = events[i].deadline
              /\ events[i].published.minute <= e.published.minute
              /\ events[i].published.reached \subseteq e.published.reached
  <1> DEFINE i == call[r].id
             m == input[r].minute
  <1>1. phase[r] = "work" /\ call[r].route = "advance"
    BY DEF AdvanceEvent, Steps
  <1>2. i \in Stored /\ input[r] \in Bodies(r) /\ Fits(r, input[r])
    BY <1>1 DEF StoreInv, ServiceTypeOK, FieldsFollowPhase
  <1>3. m \in Nat
    BY <1>1, <1>2, BoundsAssumption DEF Bodies, Fits
  <1>4. events[i] \in Incident /\ Lawful(events[i])
    BY <1>2 DEF Stored, StoreInv, ServiceTypeOK, EventsLawful
  <1>5. CASE Outcome(events[i], m) = "ok"
    <2> DEFINE e == Ticked(events[i], m)
    <2>1. /\ e \in Incident /\ Lawful(e)
          /\ e.arrival = events[i].arrival /\ e.intakes = events[i].intakes
          /\ e.deadline = events[i].deadline
          /\ events[i].published.minute <= e.published.minute
          /\ events[i].published.reached \subseteq e.published.reached
      BY <1>3, <1>4, <1>5, TickedLawful
    <2>2. /\ events' = [events EXCEPT ![i] = e]
          /\ reply' = [reply EXCEPT ![r] = [id |-> i, snapshot |-> e.published]]
          /\ answer' = [answer EXCEPT ![r] = "ok"]
      BY <1>5 DEF AdvanceEvent
    <2> QED
      BY <1>2, <2>1, <2>2
  <1>6. CASE Outcome(events[i], m) # "ok"
    <2>1. Outcome(events[i], m) \in {"clock_regression", "incident_terminal", "past_deadline"}
      BY <1>6 DEF Outcome
    <2> QED
      BY <1>6, <2>1 DEF AdvanceEvent
  <1> QED
    BY <1>5, <1>6

\* a call that moves its clock or is refused,
LEMMA AdvanceStep ==
  ASSUME StoreInv, GateTypeOK', NEW r \in Requests, AdvanceEvent(r) PROVE StoreInv'
  <1> USE DEF StoreInv
  <1>1. /\ phase[r] = "work" /\ phase' = [phase EXCEPT ![r] = "answered"]
        /\ call[r].route = "advance"
        /\ UNCHANGED <<call, input, received, before>>
    BY DEF AdvanceEvent, Steps
  <1>2. \A s \in Requests :
          /\ Bodies(s)' = Bodies(s)
          /\ Fits(s, input[s])' = Fits(s, input[s])
    BY <1>1 DEF Bodies, Fits
  <1>3. CASE /\ UNCHANGED <<events, reply>>
             /\ \E code \in {"clock_regression", "incident_terminal", "past_deadline"} :
                  answer' = [answer EXCEPT ![r] = code]
    <2>1. Stored' = Stored
      BY <1>3 DEF Stored
    <2>2. ServiceTypeOK'
      BY <1>1, <1>2, <1>3, <2>1 DEF ServiceTypeOK
    <2>3. FieldsFollowPhase'
      BY <1>1, <1>2, <1>3, <2>1 DEF ServiceTypeOK, FieldsFollowPhase, Created
    <2>4. EventsLawful'
      BY <1>3, <2>1 DEF EventsLawful, Lawful
    <2> QED
      BY <2>2, <2>3, <2>4
  <1>4. ASSUME NEW i \in Stored, NEW e \in Incident,
               events' = [events EXCEPT ![i] = e],
               reply' = [reply EXCEPT ![r] = [id |-> i, snapshot |-> e.published]],
               answer' = [answer EXCEPT ![r] = "ok"],
               Lawful(e)
        PROVE  StoreInv'
    <2> DEFINE a == [id |-> i, snapshot |-> e.published]
    <2>1. e # Nothing /\ e.clock <= e.deadline /\ e.published \in Snapshot
      BY <1>4, NothingAssumption DEF Lawful, Incident
    <2>2. Stored' = Stored
      BY <1>4, <2>1 DEF Stored, ServiceTypeOK
    <2>3. a \in Reply /\ a # Nothing /\ a.id = i
      BY <2>1, NothingAssumption DEF Reply, Stored
    <2> HIDE DEF a
    <2>4. reply' = [reply EXCEPT ![r] = a]
      BY <1>4 DEF a
    <2>5. ServiceTypeOK'
      <3>1. events' \in [Ids -> Incident \cup {Nothing}]
        BY <1>4 DEF ServiceTypeOK
      <3>2. \A j \in Stored' : events'[j].clock <= events'[j].deadline
        BY <1>4, <2>1, <2>2 DEF ServiceTypeOK, Stored
      <3>3. reply' \in [Requests -> Reply \cup {Nothing}]
        BY <2>3, <2>4 DEF ServiceTypeOK
      <3> QED
        BY <1>1, <1>2, <1>4, <3>1, <3>2, <3>3 DEF ServiceTypeOK
    <2>6. FieldsFollowPhase'
      BY <1>1, <1>2, <1>4, <2>2, <2>3, <2>4
         DEF ServiceTypeOK, FieldsFollowPhase, Created
    <2>7. EventsLawful'
      <3>1. ASSUME NEW j \in Stored PROVE Lawful(events[j])'
        BY <1>4 DEF EventsLawful, ServiceTypeOK, Stored
      <3> QED
        BY <2>2, <3>1 DEF EventsLawful, Lawful
    <2> QED
      BY <2>5, <2>6, <2>7
  <1> QED
    BY <1>3, <1>4, Advanced

\* and so every step.
LEMMA StoreStep ==
  StoreInv /\ GateInv' /\ [ServiceNext]_serviceVars => StoreInv'
  <1> SUFFICES ASSUME StoreInv, GateInv', [ServiceNext]_serviceVars PROVE StoreInv'
    OBVIOUS
  <1>1. GateTypeOK'
    BY DEF GateInv
  <1> QED
    BY <1>1, StepCases, QuietStep, SendStep, AnswerStep, InputStep, PublishStep,
       AnswerCreatedStep, AdvanceStep DEF Handler

\* Fields follow phases and every stored event can be decided, at all times.
LEMMA StoreInvariant == ServiceSpec => []StoreInv
  BY StoreInit, StoreStep, GateInvInService, PTL DEF ServiceSpec

\* The variables keep their types, and no event's clock leaves the minutes up
\* to its own deadline.
THEOREM ServiceTypeCorrect == ServiceSpec => []ServiceTypeOK
  BY StoreInvariant, PTL DEF StoreInv

\* What an index check lets through is a node.
LEMMA NodeInRange ==
  ASSUME NEW n \in Int, NEW k \in Int, IsNode(k, n) PROVE k \in 0 .. n - 1
  BY DEF IsNode

\* A body that validate lets through has a cut: the sources against the rest.
LEMMA ValidCut ==
  ASSUME NEW b \in Cuts, ValidateCut(b) PROVE Cuttable(b)
  <1> DEFINE V == NodesOf(b)
             side == {b.sources[i] : i \in DOMAIN b.sources}
  <1>1. b.n \in Int /\ b.sources \in Seq(Int) /\ b.sinks \in Seq(Int)
        /\ b.edges \in Seq([from : Int, to : Int, cost : Int])
    BY BodiesAssumption
  <1>2. /\ \A i \in DOMAIN b.sources : b.sources[i] \in V
        /\ \A i \in DOMAIN b.sinks : b.sinks[i] \in V
    <2>1. /\ \A i \in DOMAIN b.sources : IsNode(b.sources[i], b.n)
          /\ \A i \in DOMAIN b.sinks : IsNode(b.sinks[i], b.n)
      BY DEF ValidateCut
    <2> QED
      BY <1>1, <2>1, ElementOf, NodeInRange DEF NodesOf
  <1>3. ASSUME NEW i \in DOMAIN b.edges
        PROVE  {b.edges[i].from, b.edges[i].to} \subseteq V /\ b.edges[i].cost > 0
    <2> DEFINE e == b.edges[i]
    <2>1. e \in [from : Int, to : Int, cost : Int]
      BY <1>1, ElementOf
    <2>2. IsNode(e.from, b.n) /\ IsNode(e.to, b.n) /\ e.cost \in 1 .. MaxCost
      BY DEF ValidateCut
    <2> HIDE DEF e
    <2>3. e.from \in Int /\ e.to \in Int
      BY <2>1
    <2>4. e.cost > 0
      BY <2>2, BoundsAssumption
    <2>5. e.from \in V /\ e.to \in V
      BY <1>1, <2>2, <2>3, NodeInRange DEF NodesOf
    <2> QED
      BY <2>4, <2>5 DEF e
  <1>4. \A i \in DOMAIN b.sinks : b.sinks[i] \notin side
    BY DEF ValidateCut
  <1>5. side \in SUBSET V
    BY <1>2
  <1>6. b.sources # <<>> /\ b.sinks # <<>>
    BY DEF ValidateCut
  <1>7. /\ \A i \in DOMAIN b.sources : b.sources[i] \in side
        /\ \A i \in DOMAIN b.sinks : b.sinks[i] \in V \ side
    BY <1>2, <1>4
  <1> HIDE DEF side
  <1>8. \E S \in SUBSET V : /\ \A i \in DOMAIN b.sources : b.sources[i] \in S
                           /\ \A i \in DOMAIN b.sinks : b.sinks[i] \in V \ S
    BY <1>5, <1>7
  <1> QED
    BY <1>3, <1>6, <1>8 DEF Cuttable

\* A body that buildSpec lets through speaks of its own nodes only,
LEMMA OwnNodes ==
  ASSUME NEW s \in Creations, Validate(s)
  PROVE  /\ s.n \in 2 .. MaxNodes /\ s.deadline \in 0 .. MaxMinutes
         /\ \A i \in DOMAIN s.pipes :
              /\ s.pipes[i].from \in NodesOf(s) /\ s.pipes[i].to \in NodesOf(s)
              /\ s.pipes[i].minutes \in 1 .. MaxMinutes
         /\ \A i \in DOMAIN s.releases :
              s.releases[i].node \in NodesOf(s) /\ s.releases[i].at \in 0 .. s.deadline
         /\ \A i \in DOMAIN s.intakes : s.intakes[i] \in NodesOf(s)
         /\ s.releases # <<>> /\ s.intakes # <<>>
  <1>1. /\ s.pipes \in Seq([from : Int, to : Int, minutes : Int])
        /\ s.releases \in Seq([node : Int, at : Int]) /\ s.intakes \in Seq(Int)
        /\ s.n \in Int
    BY BodiesAssumption
  <1>2. /\ s.n \in 2 .. MaxNodes /\ s.deadline \in 0 .. MaxMinutes
        /\ PipesFit(s) /\ ReleasesFit(s) /\ IntakesFit(s)
    BY DEF Validate
  <1>3. ASSUME NEW i \in DOMAIN s.pipes
        PROVE  /\ s.pipes[i].from \in NodesOf(s) /\ s.pipes[i].to \in NodesOf(s)
               /\ s.pipes[i].minutes \in 1 .. MaxMinutes
    <2>1. s.pipes[i] \in [from : Int, to : Int, minutes : Int]
      BY <1>1, ElementOf
    <2>2. /\ IsNode(s.pipes[i].from, s.n) /\ IsNode(s.pipes[i].to, s.n)
          /\ s.pipes[i].minutes \in 1 .. MaxMinutes
          /\ s.pipes[i].from \in Int /\ s.pipes[i].to \in Int
      BY <1>2, <2>1 DEF PipesFit
    <2> QED
      BY <1>1, <2>2, NodeInRange DEF NodesOf
  <1>4. ASSUME NEW i \in DOMAIN s.releases
        PROVE  s.releases[i].node \in NodesOf(s) /\ s.releases[i].at \in 0 .. s.deadline
    <2>1. s.releases[i] \in [node : Int, at : Int]
      BY <1>1, ElementOf
    <2>2. /\ IsNode(s.releases[i].node, s.n) /\ s.releases[i].node \in Int
          /\ s.releases[i].at \in 0 .. s.deadline
      BY <1>2, <2>1 DEF ReleasesFit
    <2> QED
      BY <1>1, <2>2, NodeInRange DEF NodesOf
  <1>5. \A i \in DOMAIN s.intakes : s.intakes[i] \in NodesOf(s)
    BY <1>1, <1>2, ElementOf, NodeInRange DEF IntakesFit, NodesOf
  <1> QED
    BY <1>2, <1>3, <1>4, <1>5 DEF ReleasesFit, IntakesFit

\* and so does the event that is made of it.
LEMMA OwnEvent ==
  ASSUME NEW s \in Creations, Validate(s), NEW e \in Incident, IsEarliest(s, e.arrival),
         e.intakes = IntakesOf(s), e.deadline = s.deadline
  PROVE  MadeOf(e, s)
  <1> DEFINE V == NodesOf(s)
             d == e.arrival
  <1>1. /\ s.pipes \in Seq([from : Int, to : Int, minutes : Int])
        /\ s.releases \in Seq([node : Int, at : Int]) /\ s.intakes \in Seq(Int)
    BY BodiesAssumption
  <1>2. /\ s.n \in 2 .. MaxNodes /\ s.deadline \in 0 .. MaxMinutes
        /\ \A i \in DOMAIN s.pipes :
              /\ s.pipes[i].from \in V /\ s.pipes[i].to \in V
              /\ s.pipes[i].minutes \in 1 .. MaxMinutes
        /\ \A i \in DOMAIN s.releases :
              s.releases[i].node \in V /\ s.releases[i].at \in 0 .. s.deadline
        /\ \A i \in DOMAIN s.intakes : s.intakes[i] \in V
        /\ s.releases # <<>> /\ s.intakes # <<>>
    BY OwnNodes
  <1>3. d \in Arrivals /\ V \subseteq 0 .. MaxNodes - 1
    BY <1>2, BoundsAssumption DEF Incident, NodesOf
  <1>4. e.intakes # {} /\ e.intakes \subseteq V
    <2>1. 1 \in DOMAIN s.intakes
      BY <1>1, <1>2
    <2> QED
      BY <1>2, <2>1 DEF IntakesOf
  <1>5. ASSUME NEW v \in DOMAIN d, d[v] # Never PROVE v \in V
    <2>1. \/ \E i \in DOMAIN s.releases : s.releases[i] = [node |-> v, at |-> d[v]]
          \/ \E i \in DOMAIN s.pipes : s.pipes[i].to = v
      BY <1>5 DEF IsEarliest
    <2> QED
      BY <1>2, <2>1
  <1>6. \E v \in V : d[v] <= e.deadline
    <2>1. 1 \in DOMAIN s.releases
      BY <1>1, <1>2
    <2>2. PICK v \in V, a \in 0 .. s.deadline :
            v = s.releases[1].node /\ a = s.releases[1].at
      BY <1>2, <2>1
    <2>3. d[v] <= a
      BY <2>1, <2>2 DEF IsEarliest
    <2>4. d[v] \in Int
      BY <1>3, BoundsAssumption DEF Arrivals
    <2> QED
      BY <1>2, <2>2, <2>3, <2>4
  <1>7. \A i \in DOMAIN s.pipes : s.pipes[i].minutes > 0
    BY <1>2, BoundsAssumption
  <1> QED
    BY <1>2, <1>4, <1>5, <1>6, <1>7 DEF MadeOf

\* What an event shows as reached has an arrival minute.
LEMMA ReachedArrives ==
  ASSUME NEW e \in Incident, Lawful(e), MaxNodes >= 2
  PROVE  \A v \in e.published.reached : v \in DOMAIN e.arrival /\ e.arrival[v] # Never
  <1>1. /\ e.arrival \in Arrivals /\ e.clock \in -1 .. MaxMinutes
    BY DEF Incident
  <1>2. CASE e.clock = -1
    BY <1>2 DEF Lawful, Unstarted
  <1>3. CASE e.clock >= 0
    <2>1. e.published.reached = {v \in 0 .. MaxNodes - 1 : e.arrival[v] <= e.clock}
      BY <1>3 DEF Lawful, Event!ViewAt, Event!Reached
    <2>2. Never > MaxMinutes /\ MaxMinutes \in Nat
      <3>1. MaxNodes * MaxMinutes >= MaxMinutes
        <4>1. PICK k \in Nat : MaxNodes = k + 1
          <5>1. MaxNodes - 1 \in Nat
            BY BoundsAssumption
          <5> QED
            BY <5>1, BoundsAssumption
        <4>2. (k + 1) * MaxMinutes = k * MaxMinutes + MaxMinutes /\ k * MaxMinutes >= 0
          BY BoundsAssumption
        <4> QED
          BY <4>1, <4>2, BoundsAssumption
      <3>2. MaxNodes * MaxMinutes \in Nat
        BY BoundsAssumption
      <3> QED
        BY <3>1, <3>2, BoundsAssumption
    <2>3. ~(Never <= e.clock)
      BY <1>1, <2>2, BoundsAssumption
    <2> QED
      BY <1>1, <2>1, <2>3 DEF Arrivals
  <1> QED
    BY <1>1, <1>2, <1>3

-----------------------------------------------------------------------------
(* Earliest arrivals: every specification has them, and only one.          *)

\* A specification that Validate lets through is one of nodes and minutes.
LEMMA ValidSpec ==
  ASSUME NEW s \in Creations, Validate(s)
  PROVE  /\ s.n \in Int /\ s.n <= MaxNodes
         /\ \A i \in DOMAIN s.pipes :
              /\ s.pipes[i].from \in 0 .. MaxNodes - 1
              /\ s.pipes[i].to \in 0 .. MaxNodes - 1
              /\ s.pipes[i].minutes \in 1 .. MaxMinutes
         /\ \A i \in DOMAIN s.releases :
              /\ s.releases[i].node \in 0 .. MaxNodes - 1
              /\ s.releases[i].at \in 0 .. MaxMinutes
              /\ s.releases[i] = [node |-> s.releases[i].node, at |-> s.releases[i].at]
  <1>1. /\ s.n \in Int /\ s.deadline \in Int
        /\ s.pipes \in Seq([from : Int, to : Int, minutes : Int])
        /\ s.releases \in Seq([node : Int, at : Int])
    BY BodiesAssumption
  <1>2. /\ \A i \in DOMAIN s.pipes : s.pipes[i] \in [from : Int, to : Int, minutes : Int]
        /\ \A i \in DOMAIN s.releases : s.releases[i] \in [node : Int, at : Int]
    <2>1. ASSUME NEW S, NEW q \in Seq(S) PROVE \A i \in DOMAIN q : q[i] \in S
      OBVIOUS
    <2> QED
      BY <1>1, <2>1
  <1>3. s.n \in 2 .. MaxNodes /\ s.deadline \in 0 .. MaxMinutes
    BY DEF Validate
  <1>4. ASSUME NEW i \in DOMAIN s.pipes
        PROVE  /\ s.pipes[i].from \in 0 .. MaxNodes - 1
               /\ s.pipes[i].to \in 0 .. MaxNodes - 1
               /\ s.pipes[i].minutes \in 1 .. MaxMinutes
    <2>1. /\ IsNode(s.pipes[i].from, s.n) /\ IsNode(s.pipes[i].to, s.n)
          /\ s.pipes[i].minutes \in 1 .. MaxMinutes
          /\ s.pipes[i].from \in Int /\ s.pipes[i].to \in Int
      BY <1>2 DEF Validate, PipesFit
    <2> QED
      BY <1>3, <2>1, BoundsAssumption DEF IsNode
  <1>5. ASSUME NEW i \in DOMAIN s.releases
        PROVE  /\ s.releases[i].node \in 0 .. MaxNodes - 1
               /\ s.releases[i].at \in 0 .. MaxMinutes
    <2>1. /\ IsNode(s.releases[i].node, s.n) /\ s.releases[i].node \in Int
          /\ s.releases[i].at \in 0 .. s.deadline
      BY <1>2 DEF Validate, ReleasesFit
    <2> QED
      BY <1>3, <2>1, BoundsAssumption DEF IsNode
  <1>6. \A i \in DOMAIN s.releases :
          s.releases[i] = [node |-> s.releases[i].node, at |-> s.releases[i].at]
    BY <1>2
  <1> QED
    BY <1>3, <1>4, <1>5, <1>6, BoundsAssumption

\* No other arrivals are earlier than earliest ones: at the first node where
\* they were, the last pipe would come from a node where they are not.
LEMMA NoneIsEarlier ==
  ASSUME NEW s \in Creations, Validate(s), NEW d \in Arrivals, NEW e \in Arrivals,
         IsEarliest(s, d), IsEarliest(s, e), NEW v \in 0 .. MaxNodes - 1
  PROVE  e[v] <= d[v]
  <1> DEFINE V == 0 .. MaxNodes - 1
             Bad == {m \in Nat : \E u \in V : d[u] = m /\ ~(e[u] <= m)}
  <1>0. \A u \in V : /\ d[u] \in Nat /\ d[u] <= Never
                     /\ e[u] \in Nat /\ e[u] <= Never
    BY BoundsAssumption DEF Arrivals
  <1> SUFFICES ASSUME Bad # {} PROVE FALSE
    BY <1>0
  <1>1. PICK m \in Bad : \A k \in Bad : m <= k
    <2>1. Bad \subseteq Nat
      OBVIOUS
    <2> QED
      BY <2>1, LeastNatural
  <1>2. PICK u \in V : d[u] = m /\ ~(e[u] <= m)
    OBVIOUS
  <1>3. d[u] # Never /\ m \in Nat
    BY <1>0, <1>2
  <1>4. V = DOMAIN d
    BY DEF Arrivals
  <1>5. CASE \E i \in DOMAIN s.releases : s.releases[i] = [node |-> u, at |-> d[u]]
    <2>1. PICK i \in DOMAIN s.releases : s.releases[i] = [node |-> u, at |-> d[u]]
      BY <1>5
    <2>2. s.releases[i].node = u /\ s.releases[i].at = m
      BY <1>2, <2>1
    <2>3. e[u] <= m
      BY <2>2 DEF IsEarliest
    <2> QED
      BY <1>2, <2>3
  <1>6. CASE \E i \in DOMAIN s.pipes :
               /\ s.pipes[i].to = u /\ d[s.pipes[i].from] # Never
               /\ d[u] = d[s.pipes[i].from] + s.pipes[i].minutes
    <2>1. PICK i \in DOMAIN s.pipes :
               /\ s.pipes[i].to = u /\ d[s.pipes[i].from] # Never
               /\ d[u] = d[s.pipes[i].from] + s.pipes[i].minutes
      BY <1>6
    <2>2. PICK w \in V, t \in 1 .. MaxMinutes :
            w = s.pipes[i].from /\ t = s.pipes[i].minutes
      BY ValidSpec
    <2>3. d[w] # Never /\ m = d[w] + t
      BY <1>2, <2>1, <2>2
    <2>4. e[w] <= d[w]
      <3>1. d[w] \in Nat /\ d[w] < m
        BY <1>0, <1>3, <2>3, BoundsAssumption
      <3>2. d[w] \notin Bad
        BY <1>1, <1>3, <3>1
      <3> QED
        BY <3>1, <3>2
    <2>5. e[w] # Never
      BY <1>0, <2>3, <2>4, BoundsAssumption
    <2>6. e[u] <= e[w] + t
      BY <2>1, <2>2, <2>5 DEF IsEarliest
    <2> QED
      BY <1>0, <1>2, <2>3, <2>4, <2>6, BoundsAssumption
  <1> QED
    BY <1>3, <1>4, <1>5, <1>6 DEF IsEarliest

\* So there is at most one answer.
LEMMA ArrivalsAreUnique ==
  ASSUME NEW s \in Creations, Validate(s), NEW d \in Arrivals, NEW e \in Arrivals,
         IsEarliest(s, d), IsEarliest(s, e)
  PROVE  d = e
  <1>1. \A v \in 0 .. MaxNodes - 1 : d[v] \in Nat /\ e[v] \in Nat
    BY BoundsAssumption DEF Arrivals
  <1>2. \A v \in 0 .. MaxNodes - 1 : d[v] <= e[v] /\ e[v] <= d[v]
    BY NoneIsEarlier
  <1>3. \A v \in 0 .. MaxNodes - 1 : d[v] = e[v]
    BY <1>1, <1>2
  <1>4. /\ d = [v \in 0 .. MaxNodes - 1 |-> d[v]]
        /\ e = [v \in 0 .. MaxNodes - 1 |-> e[v]]
    BY DEF Arrivals
  <1> QED
    BY <1>3, <1>4

\* A set of nodes and minutes in which contamination stays: it holds every
\* release, and with a node the end of every pipe that starts there.
Spreads(s, C) ==
  /\ \A i \in DOMAIN s.releases : <<s.releases[i].node, s.releases[i].at>> \in C
  /\ \A i \in DOMAIN s.pipes, a \in Nat :
       <<s.pipes[i].from, a>> \in C => <<s.pipes[i].to, a + s.pipes[i].minutes>> \in C

\* Contamination comes to v at minute a, along whatever pipes.
Comes(s, v, a) ==
  \A C \in SUBSET ((0 .. MaxNodes - 1) \X Nat) : Spreads(s, C) => <<v, a>> \in C

Visits(s, v) == {a \in Nat : Comes(s, v, a)}

EarliestOf(s) ==
  [v \in 0 .. MaxNodes - 1 |->
     IF Visits(s, v) = {}
       THEN Never
       ELSE CHOOSE a \in Visits(s, v) : \A b \in Visits(s, v) : a <= b]

\* It comes by a release or through a pipe and not otherwise.
LEMMA ComesFromSomewhere ==
  ASSUME NEW s \in Creations, Validate(s), NEW v \in 0 .. MaxNodes - 1, NEW a \in Nat,
         Comes(s, v, a)
  PROVE  \/ \E i \in DOMAIN s.releases : s.releases[i].node = v /\ s.releases[i].at = a
         \/ \E i \in DOMAIN s.pipes, b \in Nat :
              /\ s.pipes[i].to = v /\ a = b + s.pipes[i].minutes
              /\ Comes(s, s.pipes[i].from, b)
  <1> DEFINE V == 0 .. MaxNodes - 1
             R == {x \in V \X Nat : Comes(s, x[1], x[2])}
             C == R \ {<<v, a>>}
  <1>0. \A x \in V, b \in Nat : Comes(s, x, b) /\ ~(x = v /\ b = a) => <<x, b>> \in C
    OBVIOUS
  <1> SUFFICES ASSUME \A i \in DOMAIN s.releases : s.releases[i].node = v => s.releases[i].at # a,
                      \A i \in DOMAIN s.pipes, b \in Nat :
                        s.pipes[i].to = v /\ Comes(s, s.pipes[i].from, b)
                          => a # b + s.pipes[i].minutes
               PROVE  FALSE
    OBVIOUS
  <1>1. ASSUME NEW i \in DOMAIN s.releases
        PROVE  <<s.releases[i].node, s.releases[i].at>> \in C
    <2>1. s.releases[i].node \in V /\ s.releases[i].at \in Nat
      <3>1. s.releases[i].node \in V /\ s.releases[i].at \in 0 .. MaxMinutes
        BY ValidSpec
      <3> QED
        BY <3>1
    <2>2. Comes(s, s.releases[i].node, s.releases[i].at)
      BY DEF Comes, Spreads
    <2>3. ~(s.releases[i].node = v /\ s.releases[i].at = a)
      OBVIOUS
    <2> HIDE DEF C
    <2> QED
      BY <1>0, <2>1, <2>2, <2>3
  <1>2. ASSUME NEW i \in DOMAIN s.pipes, NEW b \in Nat, <<s.pipes[i].from, b>> \in C
        PROVE  <<s.pipes[i].to, b + s.pipes[i].minutes>> \in C
    <2>1. s.pipes[i].to \in V /\ b + s.pipes[i].minutes \in Nat
      BY ValidSpec, BoundsAssumption
    <2>2. Comes(s, s.pipes[i].from, b)
      BY <1>2
    <2>3. Comes(s, s.pipes[i].to, b + s.pipes[i].minutes)
      BY <2>2 DEF Comes, Spreads
    <2>4. ~(s.pipes[i].to = v /\ b + s.pipes[i].minutes = a)
      BY <2>2
    <2> HIDE DEF C
    <2> QED
      BY <1>0, <2>1, <2>3, <2>4
  <1>3. Spreads(s, C) /\ C \in SUBSET (V \X Nat)
    BY <1>1, <1>2 DEF Spreads
  <1>4. <<v, a>> \notin C
    OBVIOUS
  <1> HIDE DEF C
  <1> QED
    BY <1>3, <1>4 DEF Comes

\* The first time it comes is earliest.
LEMMA FirstVisit ==
  ASSUME NEW s, NEW v \in 0 .. MaxNodes - 1, Visits(s, v) # {}
  PROVE  /\ EarliestOf(s)[v] \in Nat /\ Comes(s, v, EarliestOf(s)[v])
         /\ \A b \in Nat : Comes(s, v, b) => EarliestOf(s)[v] <= b
  <1>1. Visits(s, v) \subseteq Nat
    BY DEF Visits
  <1>2. \E a \in Visits(s, v) : \A b \in Visits(s, v) : a <= b
    BY <1>1, LeastNatural
  <1>3. EarliestOf(s)[v] = CHOOSE a \in Visits(s, v) : \A b \in Visits(s, v) : a <= b
    BY DEF EarliestOf
  <1>4. /\ EarliestOf(s)[v] \in Visits(s, v)
        /\ \A b \in Visits(s, v) : EarliestOf(s)[v] <= b
    BY <1>2, <1>3
  <1> QED
    BY <1>4 DEF Visits

\* That visit is a release, or the first one of another node and a pipe more.
LEMMA VisitsAreExplained ==
  ASSUME NEW s \in Creations, Validate(s), NEW v \in 0 .. MaxNodes - 1, Visits(s, v) # {}
  PROVE  \/ \E i \in DOMAIN s.releases :
              s.releases[i] = [node |-> v, at |-> EarliestOf(s)[v]]
         \/ \E i \in DOMAIN s.pipes :
              /\ s.pipes[i].to = v /\ Visits(s, s.pipes[i].from) # {}
              /\ EarliestOf(s)[v] = EarliestOf(s)[s.pipes[i].from] + s.pipes[i].minutes
  <1> DEFINE d == EarliestOf(s)
  <1>1. d[v] \in Nat /\ Comes(s, v, d[v])
    BY FirstVisit
  <1> HIDE DEF d
  <1>2. CASE \E i \in DOMAIN s.releases :
               s.releases[i].node = v /\ s.releases[i].at = d[v]
    BY <1>2, ValidSpec DEF d
  <1>3. CASE \E i \in DOMAIN s.pipes, b \in Nat :
              /\ s.pipes[i].to = v /\ d[v] = b + s.pipes[i].minutes
              /\ Comes(s, s.pipes[i].from, b)
    <2>1. PICK i \in DOMAIN s.pipes, b \in Nat :
              /\ s.pipes[i].to = v /\ d[v] = b + s.pipes[i].minutes
              /\ Comes(s, s.pipes[i].from, b)
      BY <1>3
    <2>2. PICK u \in 0 .. MaxNodes - 1, t \in 1 .. MaxMinutes :
            u = s.pipes[i].from /\ t = s.pipes[i].minutes
      BY ValidSpec
    <2>3. b \in Visits(s, u)
      BY <2>1, <2>2 DEF Visits
    <2>4. d[u] \in Nat /\ Comes(s, u, d[u]) /\ d[u] <= b
      BY <2>1, <2>2, <2>3, FirstVisit DEF d
    <2>5. Comes(s, v, d[u] + t)
      BY <2>1, <2>2, <2>4 DEF Comes, Spreads
    <2>6. d[v] <= d[u] + t
      <3>1. d[u] + t \in Nat
        BY <2>4, BoundsAssumption
      <3> QED
        BY <2>5, <3>1, FirstVisit DEF d
    <2>7. d[v] = d[u] + t
      BY <1>1, <2>1, <2>2, <2>4, <2>6, BoundsAssumption
    <2> QED
      BY <2>1, <2>2, <2>3, <2>7 DEF d
  <1>4. \/ \E i \in DOMAIN s.releases : s.releases[i].node = v /\ s.releases[i].at = d[v]
        \/ \E i \in DOMAIN s.pipes, b \in Nat :
             /\ s.pipes[i].to = v /\ d[v] = b + s.pipes[i].minutes
             /\ Comes(s, s.pipes[i].from, b)
    BY <1>1, ComesFromSomewhere
  <1> QED
    BY <1>2, <1>3, <1>4

\* The nodes contamination comes to before v.
Earlier(s, v) ==
  {u \in 0 .. MaxNodes - 1 : Visits(s, u) # {} /\ EarliestOf(s)[u] < EarliestOf(s)[v]}

\* No arrival is later than one longest pipe for each node before it, and one.
LEMMA EarliestIsBounded ==
  ASSUME NEW s \in Creations, Validate(s), NEW v \in 0 .. MaxNodes - 1, Visits(s, v) # {}
  PROVE  EarliestOf(s)[v] <= MaxNodes * MaxMinutes
  <1> DEFINE V == 0 .. MaxNodes - 1
             d == EarliestOf(s)
             W == {u \in V : Visits(s, u) # {}}
             Card(u) == Cardinality(Earlier(s, u))
             Bad == {m \in Nat : \E u \in W : d[u] = m /\ ~(m <= (Card(u) + 1) * MaxMinutes)}
  <1>1. \A u \in W : d[u] \in Nat
    BY FirstVisit
  <1>2. IsFiniteSet(V) /\ Cardinality(V) = MaxNodes
    BY FS_Interval, BoundsAssumption
  <1>3. \A u \in V : /\ IsFiniteSet(Earlier(s, u)) /\ Card(u) \in Nat
                      /\ Earlier(s, u) \subseteq V
    BY <1>2, FS_Subset, FS_CardinalityType DEF Earlier
  <1>4. Bad = {}
    <2> SUFFICES ASSUME Bad # {} PROVE FALSE
      OBVIOUS
    <2>1. PICK m \in Bad : \A k \in Bad : m <= k
      <3>1. Bad \subseteq Nat
        OBVIOUS
      <3> HIDE DEF Bad
      <3> QED
        BY <3>1, LeastNatural
    <2>2. PICK u \in W : d[u] = m /\ ~(m <= (Card(u) + 1) * MaxMinutes)
      OBVIOUS
    <2>3. Card(u) \in Nat /\ m \in Nat /\ MaxMinutes \in Nat
      BY <1>3, BoundsAssumption
    <2> HIDE DEF Card
    <2>4. CASE \E i \in DOMAIN s.releases : s.releases[i] = [node |-> u, at |-> d[u]]
      <3>1. m \in 0 .. MaxMinutes
        BY <2>2, <2>4, ValidSpec
      <3>2. (Card(u) + 1) * MaxMinutes = Card(u) * MaxMinutes + MaxMinutes
            /\ Card(u) * MaxMinutes >= 0
        BY <2>3
      <3> QED
        BY <2>2, <2>3, <3>1, <3>2
    <2>5. CASE \E i \in DOMAIN s.pipes :
              /\ s.pipes[i].to = u /\ Visits(s, s.pipes[i].from) # {}
              /\ d[u] = d[s.pipes[i].from] + s.pipes[i].minutes
      <3>1. PICK i \in DOMAIN s.pipes :
              /\ s.pipes[i].to = u /\ Visits(s, s.pipes[i].from) # {}
              /\ d[u] = d[s.pipes[i].from] + s.pipes[i].minutes
        BY <2>5
      <3>2. PICK w \in V, t \in 1 .. MaxMinutes :
              w = s.pipes[i].from /\ t = s.pipes[i].minutes
        BY ValidSpec
      <3>3. w \in W /\ m = d[w] + t /\ d[w] \in Nat
        BY <1>1, <2>2, <3>1, <3>2
      <3>4. d[w] < m /\ d[w] < d[u]
        BY <2>2, <3>3
      <3>5. d[w] <= (Card(w) + 1) * MaxMinutes
        BY <2>1, <2>3, <3>3, <3>4
      <3>6. Card(u) >= Card(w) + 1
        <4>1. w \notin Earlier(s, w)
          BY <3>3 DEF Earlier
        <4>2. Earlier(s, w) \cup {w} \subseteq Earlier(s, u)
          BY <1>1, <2>2, <3>3, <3>4 DEF Earlier
        <4>3. Cardinality(Earlier(s, w) \cup {w}) = Card(w) + 1
          BY <1>3, <4>1, FS_AddElement DEF Card
        <4> QED
          BY <1>3, <4>2, <4>3, FS_Subset DEF Card
      <3>7. Card(w) \in Nat
        BY <1>3 DEF Card
      <3>8. (Card(u) + 1) * MaxMinutes >= (Card(w) + 1) * MaxMinutes + MaxMinutes
        <4>1. PICK k \in Nat : Card(u) + 1 = (Card(w) + 1) + 1 + k
          <5>1. Card(u) - Card(w) - 1 \in Nat
            BY <2>3, <3>6, <3>7
          <5> QED
            BY <2>3, <3>7, <5>1
        <4>2. (Card(w) + 1 + 1 + k) * MaxMinutes
                = (Card(w) + 1) * MaxMinutes + MaxMinutes + k * MaxMinutes
              /\ k * MaxMinutes >= 0
          BY <2>3, <3>7
        <4> QED
          BY <2>3, <3>7, <4>1, <4>2
      <3> QED
        BY <2>2, <2>3, <3>3, <3>5, <3>7, <3>8
    <2> QED
      BY <2>2, <2>4, <2>5, VisitsAreExplained
  <1>5. d[v] <= (Card(v) + 1) * MaxMinutes
    BY <1>1, <1>4
  <1>6. Card(v) + 1 <= MaxNodes
    <2>1. v \notin Earlier(s, v)
      BY <1>1 DEF Earlier
    <2>2. Earlier(s, v) \cup {v} \subseteq V
      BY DEF Earlier
    <2>3. Cardinality(Earlier(s, v) \cup {v}) = Card(v) + 1
      BY <1>3, <2>1, FS_AddElement
    <2> QED
      BY <1>2, <2>2, <2>3, FS_Subset
  <1>7. (Card(v) + 1) * MaxMinutes <= MaxNodes * MaxMinutes
    <2> HIDE DEF Card
    <2>1. Card(v) \in Nat /\ MaxNodes \in Nat /\ MaxMinutes \in Nat
      BY <1>3, BoundsAssumption DEF Card
    <2>2. PICK k \in Nat : MaxNodes = Card(v) + 1 + k
      <3>1. MaxNodes - Card(v) - 1 \in Nat
        BY <1>6, <2>1
      <3> QED
        BY <2>1, <3>1
    <2>3. (Card(v) + 1 + k) * MaxMinutes = (Card(v) + 1) * MaxMinutes + k * MaxMinutes
          /\ k * MaxMinutes >= 0
      BY <2>1
    <2> QED
      BY <2>1, <2>2, <2>3
  <1>8. d[v] \in Nat /\ Card(v) \in Nat
    BY <1>1, <1>3
  <1> HIDE DEF Card, d
  <1> QED
    BY <1>5, <1>7, <1>8, BoundsAssumption DEF d

\* These are arrivals, and earliest ones.
LEMMA ArrivalsExist ==
  ASSUME NEW s \in Creations, Validate(s)
  PROVE  EarliestOf(s) \in Arrivals /\ IsEarliest(s, EarliestOf(s))
  <1> DEFINE V == 0 .. MaxNodes - 1
             d == EarliestOf(s)
  <1>1. \A v \in V : Visits(s, v) = {} => d[v] = Never
    BY DEF EarliestOf
  <1>2. ASSUME NEW v \in V, Visits(s, v) # {}
        PROVE  d[v] \in 0 .. MaxNodes * MaxMinutes /\ d[v] # Never
    <2>1. d[v] \in Nat /\ d[v] <= MaxNodes * MaxMinutes
      BY <1>2, FirstVisit, EarliestIsBounded
    <2>2. MaxNodes * MaxMinutes \in Nat
      BY BoundsAssumption
    <2> HIDE DEF d
    <2> QED
      BY <2>1, <2>2, BoundsAssumption
  <1>3. DOMAIN d = V /\ d = [v \in V |-> d[v]]
    BY DEF EarliestOf
  <1> HIDE DEF d
  <1>4. d \in Arrivals
    BY <1>1, <1>2, <1>3 DEF Arrivals
  <1>5. ASSUME NEW i \in DOMAIN s.releases
        PROVE  d[s.releases[i].node] <= s.releases[i].at
    <2>1. PICK v \in V, a \in 0 .. MaxMinutes :
            v = s.releases[i].node /\ a = s.releases[i].at
      BY ValidSpec
    <2>2. a \in Nat /\ Comes(s, v, a)
      BY <2>1 DEF Comes, Spreads
    <2>3. Visits(s, v) # {}
      BY <2>2 DEF Visits
    <2> QED
      BY <2>1, <2>2, <2>3, FirstVisit DEF d
  <1>6. ASSUME NEW i \in DOMAIN s.pipes, d[s.pipes[i].from] # Never
        PROVE  d[s.pipes[i].to] <= d[s.pipes[i].from] + s.pipes[i].minutes
    <2>1. PICK u \in V, v \in V, t \in 1 .. MaxMinutes :
            u = s.pipes[i].from /\ v = s.pipes[i].to /\ t = s.pipes[i].minutes
      BY ValidSpec
    <2>2. d[u] \in Nat /\ Comes(s, u, d[u])
      BY <1>1, <1>6, <2>1, FirstVisit DEF d
    <2>3. d[u] + t \in Nat /\ Comes(s, v, d[u] + t)
      <3>1. d[u] + t \in Nat
        BY <2>2, BoundsAssumption
      <3> QED
        BY <2>1, <2>2, <3>1 DEF Comes, Spreads
    <2>4. Visits(s, v) # {}
      BY <2>3 DEF Visits
    <2> QED
      BY <2>1, <2>3, <2>4, FirstVisit DEF d
  <1>7. ASSUME NEW v \in V, d[v] # Never
        PROVE  \/ \E i \in DOMAIN s.releases : s.releases[i] = [node |-> v, at |-> d[v]]
               \/ \E i \in DOMAIN s.pipes :
                    /\ s.pipes[i].to = v /\ d[s.pipes[i].from] # Never
                    /\ d[v] = d[s.pipes[i].from] + s.pipes[i].minutes
    <2>1. Visits(s, v) # {}
      BY <1>1, <1>7
    <2>2. \A i \in DOMAIN s.pipes :
            Visits(s, s.pipes[i].from) # {} => d[s.pipes[i].from] # Never
      BY <1>2, ValidSpec
    <2> QED
      BY <2>1, <2>2, VisitsAreExplained DEF d
  <1> QED
    BY <1>3, <1>4, <1>5, <1>6, <1>7 DEF IsEarliest, d

\* A specification that Validate lets through has arrivals, and only ones: what
\* Create stores is what the body says, however the heap breaks its ties.
THEOREM ArrivalsAreDetermined ==
  ASSUME NEW s \in Creations, Validate(s)
  PROVE  EarliestArrivals[s] = {EarliestOf(s)}
  <1>1. EarliestArrivals[s] = {d \in Arrivals : IsEarliest(s, d)}
    BY DEF EarliestArrivals
  <1>2. EarliestOf(s) \in EarliestArrivals[s]
    BY <1>1, ArrivalsExist
  <1>3. \A d \in EarliestArrivals[s] : d = EarliestOf(s)
    BY <1>1, ArrivalsExist, ArrivalsAreUnique
  <1> QED
    BY <1>2, <1>3

-----------------------------------------------------------------------------
(* What answers say of the events.                                         *)

\* Identifiers are known from answers only.
NamesAreTold ==
  /\ \A r \in received : phase[r] = "returned"
  /\ \A r \in Requests : before[r] \subseteq received
  /\ \A s \in Requests : call[s].id # Nothing =>
       \E t \in received : reply[t] # Nothing /\ reply[t].id = call[s].id

\* Every created event belongs to one creation, and until that is answered to
\* nobody else.
CreationsStand ==
  \A r \in Requests : call[r].route = "create" /\ reply[r] # Nothing =>
    /\ IsEarliest(input[r], events[reply[r].id].arrival)
    /\ events[reply[r].id].intakes = IntakesOf(input[r])
    /\ events[reply[r].id].deadline = input[r].deadline
    /\ answer[r] = "ok" => reply[r].snapshot = Unstarted
    /\ phase[r] = "published" => events[reply[r].id].published = Unstarted
    /\ \A s \in Requests \ {r} :
         /\ reply[s] # Nothing
         /\ phase[r] = "published" \/ call[s].route = "create"
         => reply[s].id # reply[r].id

\* An answer never shows more of an event than has happened to it.
Behind(a) ==
  /\ a.snapshot \in Snapshot
  /\ a.snapshot.minute <= events[a.id].published.minute
  /\ a.snapshot.reached \subseteq events[a.id].published.reached

AnswersBehind ==
  \A r \in Requests : answer[r] = "ok" /\ reply[r] # Nothing => Behind(reply[r])

AnswersInv == NamesAreTold /\ CreationsStand /\ AnswersBehind /\ AnswersNeverRunBack

\* What most steps have in common.
LEMMA QuietEffect ==
  ASSUME StoreInv, NamesAreTold,
         \/ UNCHANGED serviceVars \/ DrainGate
         \/ \E r \in Requests :
              \/ Receive(r) \/ Return(r) \/ Admit(r)
              \/ WrongMethod(r) \/ NotFound(r) \/ NoObject(r) \/ BadInput(r)
              \/ CreateFails(r) \/ Solve(r) \/ GoodInput(r)
  PROVE  /\ UNCHANGED <<events, reply, call, before>>
         /\ received \subseteq received'
         /\ \A r \in received' : phase'[r] = "returned"
         /\ \A s \in Requests : phase'[s] = "published" => phase[s] = "published"
         /\ \A s \in Requests : reply[s] # Nothing =>
              answer'[s] = answer[s] /\ input'[s] = input[s]
  <1> USE DEF StoreInv
  <1>1. CASE UNCHANGED serviceVars \/ DrainGate
    BY <1>1 DEF serviceVars, requestVars, DrainGate, NamesAreTold
  <1>2. ASSUME NEW r \in Requests, Receive(r) \/ Return(r)
        PROVE  /\ UNCHANGED <<events, requestVars, before>>
               /\ received \subseteq received'
               /\ \A s \in received' : phase'[s] = "returned"
               /\ \A s \in Requests : phase'[s] = "published" => phase[s] = "published"
    BY <1>2 DEF Receive, Return, Steps, requestVars, NamesAreTold, ServiceTypeOK
  <1>3. ASSUME NEW r \in Requests,
               \/ Admit(r) \/ WrongMethod(r) \/ NotFound(r) \/ NoObject(r)
               \/ BadInput(r) \/ CreateFails(r) \/ Solve(r) \/ GoodInput(r)
        PROVE  /\ UNCHANGED <<events, reply, call, before, received>>
               /\ phase[r] \in {"sent", "entered", "work"}
               /\ \E p \in {"entered", "work", "answered", "returned"} :
                    phase' = [phase EXCEPT ![r] = p]
               /\ UNCHANGED answer \/ \E c : answer' = [answer EXCEPT ![r] = c]
               /\ UNCHANGED input \/ \E b : input' = [input EXCEPT ![r] = b]
    BY <1>3 DEF Admit, WrongMethod, NotFound, NoObject, BadInput, CreateFails,
                Solve, GoodInput, Rejects, Steps
  <1>4. ASSUME NEW r \in Requests,
               \/ Admit(r) \/ WrongMethod(r) \/ NotFound(r) \/ NoObject(r)
               \/ BadInput(r) \/ CreateFails(r) \/ Solve(r) \/ GoodInput(r)
        PROVE  /\ \A s \in received' : phase'[s] = "returned"
               /\ \A s \in Requests : phase'[s] = "published" => phase[s] = "published"
               /\ \A s \in Requests : reply[s] # Nothing =>
                    answer'[s] = answer[s] /\ input'[s] = input[s]
    <2>1. reply[r] = Nothing
      BY <1>3, <1>4 DEF FieldsFollowPhase
    <2> QED
      BY <1>3, <1>4, <2>1 DEF NamesAreTold, ServiceTypeOK
  <1> QED
    BY <1>1, <1>2, <1>3, <1>4 DEF requestVars

\* The invariant of the answers survives the steps that touch neither events
\* nor answers,
LEMMA QuietAnswers ==
  ASSUME StoreInv, AnswersInv,
         UNCHANGED <<events, reply, call, before>>,
         received \subseteq received',
         \A r \in received' : phase'[r] = "returned",
         \A s \in Requests : phase'[s] = "published" => phase[s] = "published",
         \A s \in Requests : reply[s] # Nothing =>
           answer'[s] = answer[s] /\ input'[s] = input[s]
  PROVE  AnswersInv'
  <1> USE DEF AnswersInv
  <1>1. NamesAreTold'
    BY DEF NamesAreTold
  <1>2. CreationsStand'
    <2> SUFFICES ASSUME NEW r \in Requests, call[r].route = "create", reply[r] # Nothing
                 PROVE  /\ IsEarliest(input'[r], events[reply[r].id].arrival)
                        /\ events[reply[r].id].intakes = IntakesOf(input'[r])
                        /\ events[reply[r].id].deadline = input'[r].deadline
                        /\ answer'[r] = "ok" => reply[r].snapshot = Unstarted
                        /\ phase'[r] = "published" => events[reply[r].id].published = Unstarted
                        /\ \A s \in Requests \ {r} :
                             /\ reply[s] # Nothing
                             /\ phase'[r] = "published" \/ call[s].route = "create"
                             => reply[s].id # reply[r].id
      BY DEF CreationsStand
    <2> QED
      BY DEF CreationsStand
  <1>3. AnswersBehind'
    BY DEF AnswersBehind, Behind
  <1>4. AnswersNeverRunBack'
    BY DEF AnswersNeverRunBack, NamesAreTold, ServiceTypeOK
  <1> QED
    BY <1>1, <1>2, <1>3, <1>4

\* a request that names an event some client was told of,
LEMMA SendAnswers ==
  ASSUME StoreInv, AnswersInv, NEW r \in Requests, Send(r) PROVE AnswersInv'
  <1> USE DEF AnswersInv, StoreInv
  <1>1. /\ phase[r] = "idle" /\ phase' = [phase EXCEPT ![r] = "sent"]
        /\ before' = [before EXCEPT ![r] = received]
        /\ UNCHANGED <<events, input, answer, reply, received>>
    BY DEF Send
  <1>2. PICK c \in Calls : /\ c.id \in Told \cup Guessable \cup {Nothing}
                          /\ call' = [call EXCEPT ![r] = c]
    BY DEF Send
  <1>3. reply[r] = Nothing /\ answer[r] # "ok" /\ r \notin received
    BY <1>1 DEF FieldsFollowPhase, NamesAreTold
  <1>4. c.id # Nothing => \E t \in received : reply[t] # Nothing /\ reply[t].id = c.id
    BY <1>2 DEF Told, Guessable
  <1>5. NamesAreTold'
    BY <1>1, <1>2, <1>3, <1>4 DEF NamesAreTold, ServiceTypeOK
  <1>6. \A s \in Requests : reply[s] # Nothing =>
          call'[s] = call[s] /\ phase'[s] = phase[s] /\ before'[s] = before[s]
    BY <1>1, <1>2, <1>3 DEF ServiceTypeOK
  <1>7. CreationsStand'
    BY <1>1, <1>6 DEF CreationsStand
  <1>8. AnswersBehind' /\ AnswersNeverRunBack'
    BY <1>1, <1>3, <1>6 DEF AnswersBehind, Behind, AnswersNeverRunBack
  <1> QED
    BY <1>5, <1>7, <1>8

\* a new event, which nobody has been told of,
LEMMA PublishAnswers ==
  ASSUME StoreInv, AnswersInv, NEW r \in Requests, Publish(r) PROVE AnswersInv'
  <1> USE DEF AnswersInv, StoreInv
  <1>1. /\ phase[r] = "work" /\ phase' = [phase EXCEPT ![r] = "published"]
        /\ UNCHANGED <<call, input, answer, received, before>>
    BY DEF Publish, Steps
  <1>2. PICK i \in Ids \ Stored, d \in Arrivals :
          /\ IsEarliest(input[r], d)
          /\ events' = [events EXCEPT ![i] = NewEvent(input[r], d)]
          /\ reply' = [reply EXCEPT ![r] = [id |-> i, snapshot |-> Nothing]]
    BY Published
  <1> DEFINE e == NewEvent(input[r], d)
             a == [id |-> i, snapshot |-> Nothing]
  <1>3. /\ e.arrival = d /\ e.intakes = IntakesOf(input[r])
        /\ e.deadline = input[r].deadline /\ e.published = Unstarted
        /\ a.id = i
    BY DEF NewEvent
  <1> HIDE DEF e, a
  <1>4. /\ events' = [events EXCEPT ![i] = e] /\ reply' = [reply EXCEPT ![r] = a]
    BY <1>2 DEF e, a
  <1>5. /\ reply'[r] = a /\ events'[i] = e
        /\ answer[r] # "ok" /\ r \notin received /\ reply[r] = Nothing
    BY <1>1, <1>4 DEF ServiceTypeOK, FieldsFollowPhase, NamesAreTold
  <1>6. \A s \in Requests \ {r} :
          /\ reply'[s] = reply[s] /\ phase'[s] = phase[s]
          /\ reply[s] # Nothing => /\ reply[s].id # i
                                  /\ events'[reply[s].id] = events[reply[s].id]
    BY <1>1, <1>4 DEF ServiceTypeOK, FieldsFollowPhase, Stored
  <1>7. NamesAreTold'
    BY <1>1, <1>5, <1>6 DEF NamesAreTold, ServiceTypeOK
  <1>8. CreationsStand'
    BY <1>1, <1>2, <1>3, <1>5, <1>6 DEF CreationsStand
  <1>9. AnswersBehind' /\ AnswersNeverRunBack'
    BY <1>1, <1>5, <1>6 DEF AnswersBehind, Behind, AnswersNeverRunBack
  <1> QED
    BY <1>7, <1>8, <1>9

\* the answer that tells of it,
LEMMA AnswerCreatedAnswers ==
  ASSUME StoreInv, AnswersInv, NEW r \in Requests, AnswerCreated(r) PROVE AnswersInv'
  <1> USE DEF AnswersInv, StoreInv
  <1>1. /\ phase[r] = "published" /\ phase' = [phase EXCEPT ![r] = "answered"]
        /\ answer' = [answer EXCEPT ![r] = "ok"]
        /\ UNCHANGED <<events, call, input, received, before>>
    BY DEF AnswerCreated, Steps
  <1> DEFINE a == [id |-> reply[r].id, snapshot |-> events[reply[r].id].published]
  <1>2. /\ reply[r] # Nothing /\ call[r].route = "create"
        /\ r \notin received
        /\ events[reply[r].id].published = Unstarted
        /\ \A s \in Requests \ {r} : reply[s] # Nothing => reply[s].id # reply[r].id
    BY <1>1 DEF FieldsFollowPhase, NamesAreTold, CreationsStand
  <1>3. reply' = [reply EXCEPT ![r] = a] /\ a.id = reply[r].id /\ a.snapshot = Unstarted
    BY <1>2 DEF AnswerCreated, ServiceTypeOK
  <1>4. Unstarted \in Snapshot /\ Unstarted.minute = 0 /\ Unstarted.reached = {}
    BY BoundsAssumption DEF Unstarted, Snapshot
  <1> HIDE DEF a
  <1>5. /\ \A s \in Requests \ {r} :
             /\ reply'[s] = reply[s] /\ phase'[s] = phase[s] /\ answer'[s] = answer[s]
        /\ reply'[r] = a /\ phase'[r] = "answered"
    BY <1>1, <1>3 DEF ServiceTypeOK
  <1>6. NamesAreTold'
    BY <1>1, <1>2, <1>5 DEF NamesAreTold, ServiceTypeOK
  <1>7. CreationsStand'
    BY <1>1, <1>2, <1>3, <1>5 DEF CreationsStand
  <1>8. AnswersBehind'
    BY <1>1, <1>2, <1>3, <1>4, <1>5 DEF AnswersBehind, Behind
  <1>9. AnswersNeverRunBack'
    BY <1>1, <1>2, <1>3, <1>5 DEF AnswersNeverRunBack, NamesAreTold
  <1> QED
    BY <1>6, <1>7, <1>8, <1>9

\* and a call that moves an event and answers in one step under its mutex.
LEMMA AdvanceAnswers ==
  ASSUME StoreInv, AnswersInv, NEW r \in Requests, AdvanceEvent(r) PROVE AnswersInv'
  <1> USE DEF AnswersInv, StoreInv
  <1>1. /\ phase[r] = "work" /\ phase' = [phase EXCEPT ![r] = "answered"]
        /\ call[r].route = "advance"
        /\ UNCHANGED <<call, input, received, before>>
    BY DEF AdvanceEvent, Steps
  <1>2. reply[r] = Nothing /\ r \notin received
    BY <1>1 DEF FieldsFollowPhase, NamesAreTold
  <1>3. CASE /\ UNCHANGED <<events, reply>>
             /\ \E code \in {"clock_regression", "incident_terminal", "past_deadline"} :
                  answer' = [answer EXCEPT ![r] = code]
    <2>1. \A s \in Requests : reply[s] # Nothing =>
            answer'[s] = answer[s] /\ input'[s] = input[s]
      BY <1>1, <1>2, <1>3 DEF ServiceTypeOK
    <2>2. /\ \A s \in received' : phase'[s] = "returned"
          /\ \A s \in Requests : phase'[s] = "published" => phase[s] = "published"
      BY <1>1, <1>2 DEF NamesAreTold, ServiceTypeOK
    <2> QED
      BY <1>1, <1>3, <2>1, <2>2, QuietAnswers
  <1>4. ASSUME NEW i \in Stored, NEW e \in Incident,
               call[r].id = i,
               events' = [events EXCEPT ![i] = e],
               reply' = [reply EXCEPT ![r] = [id |-> i, snapshot |-> e.published]],
               answer' = [answer EXCEPT ![r] = "ok"],
               e.arrival = events[i].arrival, e.intakes = events[i].intakes,
               e.deadline = events[i].deadline,
               events[i].published.minute <= e.published.minute,
               events[i].published.reached \subseteq e.published.reached
        PROVE  AnswersInv'
    <2> DEFINE a == [id |-> i, snapshot |-> e.published]
    <2>1. a.id = i /\ a.snapshot = e.published
      OBVIOUS
    <2> HIDE DEF a
    <2>2. /\ reply'[r] = a /\ phase'[r] = "answered"
          /\ \A s \in Requests \ {r} :
               reply'[s] = reply[s] /\ phase'[s] = phase[s] /\ answer'[s] = answer[s]
      BY <1>1, <1>4 DEF ServiceTypeOK, a
    <2>3. /\ events'[i] = e
          /\ \A j \in Ids \ {i} : events'[j] = events[j]
      BY <1>4 DEF ServiceTypeOK, Stored
    <2>4. /\ \A s \in Requests : reply[s] # Nothing => reply[s].id \in Ids
          /\ e.published \in Snapshot /\ events[i] \in Incident
          /\ i \in Ids /\ i # Nothing
      BY NothingAssumption DEF FieldsFollowPhase, Stored, ServiceTypeOK, Incident
    <2>5. \A s \in Requests :
            call[s].route = "create" /\ reply[s] # Nothing /\ phase[s] = "published"
              => reply[s].id # i
      <3>1. PICK t \in received : reply[t] # Nothing /\ reply[t].id = i
        BY <1>4, <2>4 DEF NamesAreTold
      <3>2. t \in Requests /\ phase[t] = "returned"
        BY DEF NamesAreTold, ServiceTypeOK
      <3> QED
        BY <3>1, <3>2 DEF CreationsStand
    <2>6. NamesAreTold'
      BY <1>1, <1>2, <2>2 DEF NamesAreTold, ServiceTypeOK
    <2>7. \A s \in Requests : reply[s] # Nothing =>
            /\ events'[reply[s].id].arrival = events[reply[s].id].arrival
            /\ events'[reply[s].id].intakes = events[reply[s].id].intakes
            /\ events'[reply[s].id].deadline = events[reply[s].id].deadline
      BY <1>4, <2>3, <2>4
    <2>8. CreationsStand'
      BY <1>1, <2>1, <2>2, <2>3, <2>4, <2>5, <2>7 DEF CreationsStand
    <2>9. AnswersBehind'
      <3> SUFFICES ASSUME NEW s \in Requests, answer'[s] = "ok", reply'[s] # Nothing
                   PROVE  Behind(reply[s])'
        BY DEF AnswersBehind
      <3>1. CASE s = r
        BY <3>1, <2>1, <2>2, <2>3, <2>4 DEF Behind, Snapshot
      <3>2. CASE s # r /\ reply[s].id # i
        BY <3>2, <2>2, <2>3, <2>4 DEF AnswersBehind, Behind
      <3>3. CASE s # r /\ reply[s].id = i
        <4>1. /\ reply[s].snapshot \in Snapshot
              /\ reply[s].snapshot.minute <= events[i].published.minute
              /\ reply[s].snapshot.reached \subseteq events[i].published.reached
          BY <3>3, <2>2 DEF AnswersBehind, Behind
        <4>2. /\ reply[s].snapshot.minute \in Int /\ events[i].published.minute \in Int
              /\ e.published.minute \in Int
          BY <2>4, <4>1, BoundsAssumption DEF Incident, Snapshot
        <4>3. reply[s].snapshot.minute <= e.published.minute
          BY <1>4, <4>1, <4>2
        <4> QED
          BY <1>4, <3>3, <2>2, <2>3, <4>1, <4>3 DEF Behind
      <3> QED
        BY <3>1, <3>2, <3>3
    <2>10. AnswersNeverRunBack'
      <3> SUFFICES ASSUME NEW p \in Requests, NEW q \in Requests, p \in before[q],
                          answer'[p] = "ok", answer'[q] = "ok",
                          reply'[p] # Nothing, reply'[q] # Nothing,
                          reply'[p].id = reply'[q].id
                   PROVE  /\ reply'[p].snapshot.minute <= reply'[q].snapshot.minute
                          /\ reply'[p].snapshot.reached \subseteq reply'[q].snapshot.reached
        BY <1>1 DEF AnswersNeverRunBack
      <3>1. p # r
        BY <1>2 DEF NamesAreTold
      <3>2. CASE q = r
        <4>1. reply'[p].id = i
          BY <2>1, <2>2, <3>2
        <4>2. /\ reply'[p].snapshot.minute <= e.published.minute
              /\ reply'[p].snapshot.reached \subseteq e.published.reached
          BY <2>3, <2>9, <4>1 DEF AnswersBehind, Behind
        <4> QED
          BY <2>1, <2>2, <3>2, <4>2
      <3>3. CASE q # r
        BY <2>2, <3>1, <3>3 DEF AnswersNeverRunBack
      <3> QED
        BY <3>2, <3>3
    <2> QED
      BY <2>6, <2>8, <2>9, <2>10
  <1> QED
    BY <1>3, <1>4, Advanced

\* So it survives every step,
LEMMA AnswersStep ==
  StoreInv /\ AnswersInv /\ [ServiceNext]_serviceVars => AnswersInv'
  <1> SUFFICES ASSUME StoreInv, AnswersInv, [ServiceNext]_serviceVars PROVE AnswersInv'
    OBVIOUS
  <1>1. NamesAreTold
    BY DEF AnswersInv
  <1>2. CASE \/ UNCHANGED serviceVars \/ DrainGate
             \/ \E r \in Requests :
                  \/ Receive(r) \/ Return(r) \/ Admit(r)
                  \/ WrongMethod(r) \/ NotFound(r) \/ NoObject(r) \/ BadInput(r)
                  \/ CreateFails(r) \/ Solve(r) \/ GoodInput(r)
    BY <1>1, <1>2, QuietEffect, QuietAnswers
  <1> QED
    BY <1>2, StepCases, SendAnswers, PublishAnswers, AnswerCreatedAnswers,
       AdvanceAnswers DEF Handler

\* and it holds before the first request.
LEMMA AnswersInit == ServiceInit => AnswersInv
  BY DEF ServiceInit, AnswersInv, NamesAreTold, CreationsStand, AnswersBehind,
         AnswersNeverRunBack

\* What the answers say of the events, as an inductive invariant.
THEOREM AnswersInvariant == ServiceSpec => []AnswersInv
  BY AnswersInit, AnswersStep, StoreInvariant, PTL DEF ServiceSpec

\* A creation's answer is about a new event of its own, made of what was sent
\* and not started: nobody can name the event before the answer is out.
THEOREM CreationIsTold == ServiceSpec => []CreateAnswersHold
  <1>1. ASSUME StoreInv, AnswersInv PROVE CreateAnswersHold
    <2> SUFFICES ASSUME NEW r \in Requests, Created(r)
                 PROVE  LET e == events[reply[r].id] IN
                        /\ reply[r].snapshot = Unstarted
                        /\ IsEarliest(input[r], e.arrival)
                        /\ e.intakes = IntakesOf(input[r]) /\ e.deadline = input[r].deadline
                        /\ \A s \in Requests \ {r} : Created(s) => reply[s].id # reply[r].id
      BY DEF CreateAnswersHold
    <2>1. \A s \in Requests : Created(s) => reply[s] # Nothing
      BY <1>1 DEF StoreInv, FieldsFollowPhase
    <2> QED
      BY <1>1, <2>1 DEF AnswersInv, CreationsStand, Created
  <1> QED
    BY <1>1, StoreInvariant, AnswersInvariant, PTL

\* Whatever the bodies and however many clients, a minimum cut is computed only
\* for networks that have one, an event is made only of nodes its own body has,
\* and no answer to any client names another node of it.
THEOREM SolversAreSafe == ServiceSpec => []SolversGetValidInput
  <1>1. ASSUME StoreInv, NEW r \in Requests, call[r].route = "mincut", input[r] # Nothing
        PROVE  Cuttable(input[r])
    BY <1>1, ValidCut DEF StoreInv, ServiceTypeOK, FieldsFollowPhase, Bodies, Fits
  <1>2. ASSUME StoreInv, AnswersInv, NEW r \in Requests, Done(r) \/ Created(r)
        PROVE  /\ MadeOf(events[reply[r].id], input[r])
               /\ \A q \in Requests :
                    answer[q] = "ok" /\ reply[q] # Nothing /\ reply[q].id = reply[r].id
                    => reply[q].snapshot.reached \subseteq NodesOf(input[r])
    <2> DEFINE s == input[r]
               e == events[reply[r].id]
    <2>1. call[r].route = "create" /\ s # Nothing /\ reply[r] # Nothing
      BY <1>2 DEF StoreInv, FieldsFollowPhase, Done, Created
    <2>2. s \in Creations /\ Validate(s)
      BY <1>2, <2>1 DEF StoreInv, ServiceTypeOK, FieldsFollowPhase, Bodies, Fits,
                        BuildSpec, Validate
    <2>3. e \in Incident /\ Lawful(e)
      BY <1>2, <2>1 DEF StoreInv, ServiceTypeOK, FieldsFollowPhase, EventsLawful, Stored
    <2>4. IsEarliest(s, e.arrival) /\ e.intakes = IntakesOf(s) /\ e.deadline = s.deadline
      BY <1>2, <2>1 DEF AnswersInv, CreationsStand
    <2> HIDE DEF s, e
    <2>5. MadeOf(e, s)
      BY <2>2, <2>3, <2>4, OwnEvent
    <2>6. MaxNodes >= 2
      BY <2>2, OwnNodes, BoundsAssumption
    <2>7. e.published.reached \subseteq NodesOf(s)
      BY <2>3, <2>5, <2>6, ReachedArrives DEF MadeOf
    <2>8. ASSUME NEW q \in Requests, answer[q] = "ok", reply[q] # Nothing,
                 reply[q].id = reply[r].id
          PROVE  reply[q].snapshot.reached \subseteq e.published.reached
      BY <1>2, <2>8 DEF AnswersInv, AnswersBehind, Behind, e
    <2> QED
      BY <2>5, <2>7, <2>8 DEF s, e
  <1>3. StoreInv /\ AnswersInv => SolversGetValidInput
    BY <1>1, <1>2 DEF SolversGetValidInput
  <1> QED
    BY <1>3, StoreInvariant, AnswersInvariant, PTL

\* What was sent alone says when contamination comes to each node of the event.
ArrivalsAsSent ==
  \A r \in Requests : Created(r) => events[reply[r].id].arrival = EarliestOf(input[r])

\* Two creations of one body make events with the same arrivals, whoever sends
\* them, whatever order the heap takes its ties in, whatever overlaps.
THEOREM SameBodySameArrivals == ServiceSpec => []ArrivalsAsSent
  <1>1. ASSUME StoreInv, CreateAnswersHold, NEW r \in Requests, Created(r)
        PROVE  events[reply[r].id].arrival = EarliestOf(input[r])
    <2>1. input[r] # Nothing /\ reply[r] # Nothing /\ reply[r].id \in Stored
      BY <1>1 DEF StoreInv, FieldsFollowPhase
    <2>2. input[r] \in Creations /\ Fits(r, input[r])
      BY <1>1, <2>1 DEF StoreInv, ServiceTypeOK, FieldsFollowPhase, Bodies, Created
    <2>3. Validate(input[r])
      BY <1>1, <2>2 DEF Fits, Created, BuildSpec, Validate
    <2>4. events[reply[r].id] \in Incident
      BY <1>1, <2>1 DEF StoreInv, ServiceTypeOK, Stored
    <2>5. PICK d \in Arrivals : d = events[reply[r].id].arrival
      BY <2>4 DEF Incident
    <2>6. IsEarliest(input[r], d)
      BY <1>1, <2>5 DEF CreateAnswersHold
    <2> QED
      BY <2>2, <2>3, <2>5, <2>6, ArrivalsExist, ArrivalsAreUnique
  <1>2. StoreInv /\ CreateAnswersHold => ArrivalsAsSent
    BY <1>1 DEF ArrivalsAsSent
  <1> QED
    BY <1>2, StoreInvariant, CreationIsTold, PTL

\* A client that asks again after it has an answer is never shown an earlier
\* state of the event.
THEOREM AnswersMoveForward == ServiceSpec => []AnswersNeverRunBack
  BY AnswersInvariant, PTL DEF AnswersInv

-----------------------------------------------------------------------------
(* The service implements a store that serves one call at a time.          *)

\* A handler that works has not seen the end of the drain.
LEMMA HandlerNotDrained ==
  ASSUME GateInv, LeaseFollowsPhase, NEW r \in Requests, Handler(r)
  PROVE  ~drained
  BY HandlerStep DEF GateInv, DrainedExactly, LeaseFollowsPhase, Holders

\* A request has no answer until it is answered, and then it has one.
AnswerFollowsPhase ==
  \A r \in Requests :
    answer[r] = "none" <=> phase[r] \notin {"answered", "returned"}

\* No step parts the answer of a request from its progress.
LEMMA AnswerFollowsStep ==
  StoreInv /\ AnswerFollowsPhase /\ [ServiceNext]_serviceVars => AnswerFollowsPhase'
  <1> SUFFICES ASSUME StoreInv, AnswerFollowsPhase, [ServiceNext]_serviceVars
               PROVE  AnswerFollowsPhase'
    OBVIOUS
  <1> USE DEF AnswerFollowsPhase, StoreInv, ServiceTypeOK
  <1>1. CASE UNCHANGED serviceVars \/ DrainGate
    BY <1>1 DEF serviceVars, requestVars, DrainGate
  <1>2. ASSUME NEW r \in Requests, Send(r) \/ Receive(r) \/ Return(r)
        PROVE  AnswerFollowsPhase'
    BY <1>2 DEF Send, Receive, Return, Steps, requestVars
  <1>3. ASSUME NEW r \in Requests, Admit(r) PROVE AnswerFollowsPhase'
    BY <1>3 DEF Admit, Steps
  <1>4. ASSUME NEW r \in Requests, Handler(r) PROVE AnswerFollowsPhase'
    <2>1. CASE \/ WrongMethod(r) \/ NotFound(r) \/ NoObject(r) \/ BadInput(r)
               \/ CreateFails(r)
      BY <2>1 DEF WrongMethod, NotFound, NoObject, BadInput, CreateFails, Rejects, Steps
    <2>2. CASE GoodInput(r) \/ Publish(r)
      BY <2>2 DEF GoodInput, Publish, Steps
    <2>3. CASE Solve(r) \/ AnswerCreated(r)
      BY <2>3 DEF Solve, AnswerCreated, Steps
    <2>4. CASE AdvanceEvent(r)
      <3>1. Outcome(events[call[r].id], input[r].minute) # "none"
        BY DEF Outcome
      <3> QED
        BY <2>4, <3>1 DEF AdvanceEvent, Steps
    <2> QED
      BY <1>4, <2>1, <2>2, <2>3, <2>4 DEF Handler
  <1> QED
    BY <1>1, <1>2, <1>3, <1>4, StepCases

\* It is so from the start on.
LEMMA AnswerFollowsInvariant == ServiceSpec => []AnswerFollowsPhase
  <1>1. ServiceInit => AnswerFollowsPhase
    BY DEF ServiceInit, AnswerFollowsPhase
  <1> QED
    BY <1>1, AnswerFollowsStep, StoreInvariant, PTL DEF ServiceSpec

\* An empty service is an empty store.
LEMMA EmptyStore == ServiceInit => Store!Init
  <1> SUFFICES ASSUME ServiceInit PROVE Store!Init
    OBVIOUS
  <1>1. Sent = {} /\ DoneAnswer = [r \in Requests |-> "none"]
    BY DEF ServiceInit, Sent, DoneAnswer, Done
  <1>2. DoneReply = [r \in Requests |-> Nothing]
    BY DEF ServiceInit, DoneReply, Done
  <1> QED
    BY <1>1, <1>2 DEF ServiceInit, GateInit, Store!Init, Store!Routes

\* What a step of r that is not the last of a creation does to the answers.
LEMMA AnswerMapped ==
  ASSUME StoreInv, NEW r \in Requests,
         NEW p, phase' = [phase EXCEPT ![r] = p], p # "published",
         phase[r] # "published",
         NEW c, answer' = [answer EXCEPT ![r] = c]
  PROVE  DoneAnswer' = [DoneAnswer EXCEPT ![r] = c]
  <1>1. /\ DOMAIN DoneAnswer = Requests
        /\ \A s \in Requests \ {r} : DoneAnswer'[s] = DoneAnswer[s]
        /\ DoneAnswer'[r] = c
    BY DEF StoreInv, ServiceTypeOK, DoneAnswer, Done
  <1> QED
    BY <1>1 DEF DoneAnswer

\* A step of r inside its handler is a step of a request that was sent.
LEMMA SentMapped ==
  ASSUME StoreInv, NEW r \in Requests,
         NEW p, phase' = [phase EXCEPT ![r] = p], p # "idle", phase[r] # "idle"
  PROVE  Sent' = Sent /\ r \in Sent
  BY DEF StoreInv, ServiceTypeOK, Sent

\* It does to the replies what it does to that of r.
LEMMA ReplyMapped ==
  ASSUME StoreInv, NEW r \in Requests,
         NEW p, phase' = [phase EXCEPT ![r] = p], p # "published",
         phase[r] # "published"
  PROVE  /\ UNCHANGED reply => UNCHANGED DoneReply
         /\ \A a : reply' = [reply EXCEPT ![r] = a]
              => DoneReply' = [DoneReply EXCEPT ![r] = a]
  <1>1. ASSUME UNCHANGED reply PROVE UNCHANGED DoneReply
    BY <1>1 DEF StoreInv, ServiceTypeOK, DoneReply, Done
  <1>2. ASSUME NEW a, reply' = [reply EXCEPT ![r] = a]
        PROVE  DoneReply' = [DoneReply EXCEPT ![r] = a]
    <2>1. /\ DOMAIN DoneReply = Requests
          /\ \A s \in Requests \ {r} : DoneReply'[s] = DoneReply[s]
          /\ DoneReply'[r] = a
      BY <1>2 DEF StoreInv, ServiceTypeOK, DoneReply, Done
    <2> QED
      BY <2>1 DEF DoneReply
  <1> QED
    BY <1>1, <1>2

\* The instant at which r is answered, by a refusal or by its handler.
LEMMA AnswerInstant ==
  ASSUME StoreInv, AnswerFollowsPhase, NEW r \in Requests,
         phase[r] \in {"sent", "entered", "work"},
         NEW p \in {"answered", "returned"}, phase' = [phase EXCEPT ![r] = p],
         NEW c, answer' = [answer EXCEPT ![r] = c],
         UNCHANGED <<call, input, received, drained>>
  PROVE  Store!Answers(r, c)
  <1>1. DoneAnswer' = [DoneAnswer EXCEPT ![r] = c]
    BY AnswerMapped
  <1>2. Sent' = Sent /\ r \in Sent
    BY SentMapped
  <1>3. DoneAnswer[r] = "none"
    BY DEF AnswerFollowsPhase, DoneAnswer, Done
  <1> QED
    BY <1>1, <1>2, <1>3 DEF Store!Answers, Store!Pending

\* Steps that change nothing the store shows, or close it.
LEMMA StillStep ==
  ASSUME StoreInv,
         \/ UNCHANGED serviceVars \/ DrainGate
         \/ \E r \in Requests : Return(r)
  PROVE  UNCHANGED Store!vars \/ Store!Freeze
  <1>1. UNCHANGED <<events, call, input, answer, reply, received>>
    BY DEF serviceVars, requestVars, DrainGate, Return, Steps
  <1>2. UNCHANGED <<Sent, DoneAnswer, DoneReply>>
    <2>1. CASE UNCHANGED phase
      BY <1>1, <2>1 DEF Sent, DoneAnswer, DoneReply, Done
    <2>2. ASSUME NEW r \in Requests, phase[r] = "answered",
                 phase' = [phase EXCEPT ![r] = "returned"]
          PROVE  UNCHANGED <<Sent, DoneAnswer, DoneReply>>
      <3>1. \A s \in Requests : Done(s) <=> Done(s)'
        BY <2>2 DEF StoreInv, ServiceTypeOK, Done
      <3>2. UNCHANGED <<DoneAnswer, DoneReply>>
        BY <1>1, <3>1 DEF DoneAnswer, DoneReply
      <3>3. UNCHANGED Sent
        BY <2>2, SentMapped
      <3> QED
        BY <3>2, <3>3
    <2> QED
      BY <2>1, <2>2 DEF serviceVars, DrainGate, Return, Steps
  <1>3. drained' = drained \/ drained' = TRUE
    BY DEF serviceVars, gateVars, DrainGate, BeginDrain, MarkStopped, CloseDrained,
           Return, Release
  <1> QED
    BY <1>1, <1>2, <1>3 DEF Store!vars, Store!Freeze

\* A request that is sent, and an answer that arrives.
LEMMA ClientStep ==
  ASSUME StoreInv, AnswerFollowsPhase, NEW r \in Requests, Send(r) \/ Receive(r)
  PROVE  Store!Send(r) \/ Store!Receive(r)
  <1>1. CASE Send(r)
    <2>1. PICK c \in Calls : call' = [call EXCEPT ![r] = c]
      BY <1>1 DEF Send
    <2>2. c \in [route : Store!Routes, id : Ids \cup {Nothing}]
      BY DEF Calls, Store!Routes
    <2>3. r \notin Sent /\ Sent' = Sent \cup {r}
      BY <1>1 DEF Send, Sent, StoreInv, ServiceTypeOK
    <2>4. UNCHANGED <<DoneAnswer, DoneReply>>
      <3>1. \A s \in Requests : Done(s) <=> Done(s)'
        BY <1>1 DEF Send, StoreInv, ServiceTypeOK, Done
      <3>2. UNCHANGED <<answer, reply>>
        BY <1>1 DEF Send
      <3> QED
        BY <3>1, <3>2 DEF DoneAnswer, DoneReply
    <2> QED
      BY <1>1, <2>1, <2>2, <2>3, <2>4 DEF Send, gateVars, Store!Send
  <1>2. CASE Receive(r)
    <2>1. UNCHANGED <<Sent, DoneAnswer, DoneReply>>
      BY <1>2 DEF Receive, requestVars, Sent, DoneAnswer, DoneReply, Done
    <2>2. DoneAnswer[r] # "none"
      BY <1>2 DEF Receive, AnswerFollowsPhase, DoneAnswer, Done
    <2> QED
      BY <1>2, <2>1, <2>2 DEF Receive, requestVars, gateVars, Store!Receive
  <1> QED
    BY <1>1, <1>2

\* A request that is turned away, at the gate or by its handler.
LEMMA TurnAwayStep ==
  ASSUME StoreInv, AnswerFollowsPhase, NEW r \in Requests,
         \/ Admit(r) /\ state # "accepting"
         \/ /\ ~drained
            /\ \/ WrongMethod(r) \/ NotFound(r) \/ NoObject(r) \/ BadInput(r)
               \/ Solve(r) \/ CreateFails(r)
  PROVE  Store!TurnAway(r)
  <1> DEFINE Away(c, p) ==
        /\ answer' = [answer EXCEPT ![r] = c]
        /\ phase' = [phase EXCEPT ![r] = p]
        /\ phase[r] \in {"sent", "entered", "work"}
        /\ \/ c = "draining"
           \/ ~drained /\ c \in {"method_not_allowed", "invalid_json",
                                "invalid_input", "internal_error"}
           \/ ~drained /\ c = "not_found" /\ MissingEvent(r)
           \/ ~drained /\ c = "ok" /\ call[r].route = "mincut" /\ phase[r] = "work"
  <1> HIDE DEF Away
  <1>1. PICK c \in {"draining", "method_not_allowed", "not_found", "invalid_json",
                    "invalid_input", "internal_error", "ok"},
             p \in {"answered", "returned"} : Away(c, p)
    <2>1. CASE Admit(r) /\ state # "accepting"
      <3>1. Away("draining", "returned")
        BY <2>1 DEF Admit, Steps, Away
      <3> QED
        BY <3>1
    <2>2. CASE ~drained /\ WrongMethod(r)
      <3>1. Away("method_not_allowed", "answered")
        BY <2>2 DEF WrongMethod, Rejects, Steps, Away
      <3> QED
        BY <3>1
    <2>3. CASE ~drained /\ NotFound(r)
      <3>1. Away("not_found", "answered")
        BY <2>3 DEF NotFound, Rejects, Steps, Away
      <3> QED
        BY <3>1
    <2>4. CASE ~drained /\ NoObject(r)
      <3>1. Away("invalid_json", "answered")
        BY <2>4 DEF NoObject, Rejects, Steps, Away
      <3> QED
        BY <3>1
    <2>5. CASE ~drained /\ BadInput(r)
      <3>1. Away("invalid_input", "answered")
        BY <2>5 DEF BadInput, Rejects, Steps, Away
      <3> QED
        BY <3>1
    <2>6. CASE ~drained /\ Solve(r)
      <3>1. Away("ok", "answered")
        BY <2>6 DEF Solve, Steps, Away
      <3> QED
        BY <3>1
    <2>7. CASE ~drained /\ CreateFails(r)
      <3>1. Away("internal_error", "answered") \/ Away("invalid_input", "answered")
        BY <2>7 DEF CreateFails, Rejects, Steps, Away
      <3> QED
        BY <3>1
    <2> QED
      BY <2>1, <2>2, <2>3, <2>4, <2>5, <2>6, <2>7
  <1>2. UNCHANGED <<events, call, input, reply, received, drained>>
    BY DEF Admit, Acquire, Grant, Refuse, WrongMethod, NotFound, NoObject, BadInput,
           Solve, CreateFails, Rejects, Steps, gateVars
  <1> USE DEF Away
  <1>3. Store!Answers(r, c)
    BY <1>1, <1>2, AnswerInstant
  <1>4. UNCHANGED DoneReply
    BY <1>1, <1>2, ReplyMapped
  <1>5. MissingEvent(r) =>
          /\ call[r].route = "advance"
          /\ call[r].id \in Ids => events[call[r].id] = Nothing
    BY DEF MissingEvent, Stored
  <1>6. phase[r] = "work" => input[r] # Nothing
    BY DEF StoreInv, FieldsFollowPhase
  <1> QED
    BY <1>1, <1>2, <1>3, <1>4, <1>5, <1>6 DEF Store!TurnAway

\* The store speaks of bodies in the service's words.
LEMMA SameWords ==
  /\ \A b : Store!Validate(b) <=> Validate(b)
  /\ \A b, d : Store!IsEarliest(b, d) <=> IsEarliest(b, d)
  /\ \A b : Store!IntakesOf(b) = IntakesOf(b)
  /\ Store!Arrivals = Arrivals
  <1>1. \A b : Store!Validate(b) <=> Validate(b)
    BY DEF Store!Validate, Store!PipesFit, Store!ReleasesFit, Store!IntakesFit,
           Store!IsNode, Validate, PipesFit, ReleasesFit, IntakesFit, IsNode
  <1>2. \A b, d : Store!IsEarliest(b, d) <=> IsEarliest(b, d)
    BY DEF Store!IsEarliest, IsEarliest
  <1>3. (\A b : Store!IntakesOf(b) = IntakesOf(b)) /\ Store!Arrivals = Arrivals
    BY DEF Store!IntakesOf, IntakesOf, Store!Arrivals, Arrivals
  <1> QED
    BY <1>1, <1>2, <1>3

\* A body that is read and found good.
LEMMA ReadStep ==
  ASSUME StoreInv, AnswerFollowsPhase, NEW r \in Requests, GoodInput(r)
  PROVE  Store!Read(r)
  <1>1. PICK b \in Bodies(r) : input' = [input EXCEPT ![r] = b]
    BY DEF GoodInput
  <1>2. /\ phase[r] = "entered" /\ phase' = [phase EXCEPT ![r] = "work"]
        /\ UNCHANGED <<events, call, answer, reply, received, drained>>
    BY DEF GoodInput, Steps, gateVars
  <1>3. input[r] = Nothing /\ input' = [input EXCEPT ![r] = input'[r]]
    BY <1>1, <1>2 DEF StoreInv, ServiceTypeOK, FieldsFollowPhase
  <1>4. r \in Sent /\ Sent' = Sent /\ UNCHANGED DoneReply
    BY <1>2, SentMapped, ReplyMapped
  <1>5. UNCHANGED DoneAnswer
    <2>1. \A s \in Requests : Done(s) <=> Done(s)'
      BY <1>2 DEF StoreInv, ServiceTypeOK, Done
    <2> QED
      BY <1>2, <2>1 DEF DoneAnswer
  <1>6. DoneAnswer[r] = "none"
    BY <1>2 DEF AnswerFollowsPhase, DoneAnswer, Done
  <1> QED
    BY <1>2, <1>3, <1>4, <1>5, <1>6 DEF Store!Read, Store!Pending

\* An event that is stored is a new clock, and its creation is done.
LEMMA CreateStep ==
  ASSUME StoreInv, AnswerFollowsPhase, ~drained, NEW r \in Requests, Publish(r)
  PROVE  Store!Create(r)
  <1>1. /\ phase[r] = "work" /\ phase' = [phase EXCEPT ![r] = "published"]
        /\ call[r].route = "create" /\ Validate(input[r]) /\ input[r] # Nothing
        /\ UNCHANGED <<call, input, answer, received, drained>>
    BY DEF Publish, Steps, gateVars, StoreInv, FieldsFollowPhase
  <1>2. PICK i \in Ids \ Stored, d \in Arrivals :
          /\ IsEarliest(input[r], d)
          /\ events' = [events EXCEPT ![i] = NewEvent(input[r], d)]
          /\ reply' = [reply EXCEPT ![r] = [id |-> i, snapshot |-> Nothing]]
    BY Published
  <1> DEFINE e == NewEvent(input[r], d)
             a == [id |-> i, snapshot |-> Nothing]
             told == [id |-> i, snapshot |-> Unstarted]
  <1>3. /\ e.arrival = d /\ e.intakes = IntakesOf(input[r])
        /\ e.deadline = input[r].deadline /\ e.clock = -1 /\ e.published = Unstarted
        /\ a.id = i
    BY DEF NewEvent
  <1> HIDE DEF e, a
  <1>4. /\ events' = [events EXCEPT ![i] = e] /\ reply' = [reply EXCEPT ![r] = a]
    BY <1>2 DEF e, a
  <1>5. /\ events'[i] = e /\ events[i] = Nothing
        /\ events' = [events EXCEPT ![i] = events'[i]]
    BY <1>4 DEF StoreInv, ServiceTypeOK, Stored
  <1>6. Store!Clock(i)!Init'
    BY <1>3, <1>5 DEF Store!Clock!Init, Store!Clock!Unstarted, Unstarted
  <1>7. Sent' = Sent /\ r \in Sent
    BY <1>1, SentMapped
  <1>8. DoneAnswer[r] = "none" /\ DoneAnswer' = [DoneAnswer EXCEPT ![r] = "ok"]
    <2>1. DoneAnswer[r] = "none"
      BY <1>1 DEF AnswerFollowsPhase, DoneAnswer, Done
    <2>2. /\ DOMAIN DoneAnswer = Requests
          /\ \A s \in Requests \ {r} : DoneAnswer'[s] = DoneAnswer[s]
          /\ DoneAnswer'[r] = "ok"
      BY <1>1 DEF StoreInv, ServiceTypeOK, DoneAnswer, Done
    <2> QED
      BY <2>1, <2>2 DEF DoneAnswer
  <1>9. DoneReply' = [DoneReply EXCEPT ![r] = told]
    <2> HIDE DEF told
    <2>1. reply'[r].id = i
      BY <1>3, <1>4 DEF StoreInv, ServiceTypeOK
    <2>2. /\ DOMAIN DoneReply = Requests
          /\ \A s \in Requests \ {r} : DoneReply'[s] = DoneReply[s]
          /\ DoneReply'[r] = told
      BY <1>1, <1>4, <2>1 DEF StoreInv, ServiceTypeOK, DoneReply, Done, told
    <2> QED
      BY <2>2 DEF DoneReply
  <1>10. Store!Answers(r, "ok")
    BY <1>1, <1>7, <1>8 DEF Store!Answers, Store!Pending
  <1>11. Store!Tells(r, i, Store!Clock(i)!Unstarted)
    BY <1>9 DEF Store!Tells, Store!Clock!Unstarted, Unstarted
  <1>12. /\ i \in Ids /\ events[i] = Nothing
         /\ Store!Only(i)
         /\ Store!Clock(i)!Init'
         /\ events'[i].arrival \in Store!Arrivals
         /\ Store!IsEarliest(input[r], events'[i].arrival)
         /\ events'[i].intakes = Store!IntakesOf(input[r])
         /\ events'[i].deadline = input[r].deadline
         /\ Store!Tells(r, i, Store!Clock(i)!Unstarted)
    BY <1>2, <1>3, <1>5, <1>6, <1>11, SameWords DEF Store!Only
  <1> QED
    BY <1>1, <1>10, <1>12, SameWords DEF Store!Create


\* An event that is asked for a minute is a clock that ticks to it, stands there
\* already, or cannot be brought there.
LEMMA ClockStep ==
  ASSUME StoreInv, AnswerFollowsPhase, ~drained, NEW r \in Requests, AdvanceEvent(r)
  PROVE  Store!Advance(r) \/ Store!Refuse(r)
  <1> DEFINE i == call[r].id
             m == input[r].minute
             e == events[i]
             t == Ticked(e, m)
  <1>1. /\ phase[r] = "work" /\ phase' = [phase EXCEPT ![r] = "answered"]
        /\ call[r].route = "advance"
        /\ answer' = [answer EXCEPT ![r] = Outcome(e, m)]
        /\ UNCHANGED <<call, input, received, drained>>
    BY DEF AdvanceEvent, Steps, gateVars
  <1>2. i \in Stored /\ input[r] \in Bodies(r) /\ Fits(r, input[r]) /\ input[r] # Nothing
    BY <1>1 DEF StoreInv, ServiceTypeOK, FieldsFollowPhase
  <1>3. m \in Nat
    BY <1>1, <1>2, BoundsAssumption DEF Bodies, Fits
  <1>4. i \in Ids /\ e # Nothing /\ e \in Incident /\ Lawful(e)
    BY <1>2 DEF Stored, StoreInv, ServiceTypeOK, EventsLawful
  <1>5. e.clock \in Int /\ e.deadline \in Int
    BY <1>4, BoundsAssumption DEF Incident
  <1>6. Store!Answers(r, Outcome(e, m))
    BY <1>1, AnswerInstant
  <1>7. CASE Outcome(e, m) = "ok"
    <2>1. t \in Incident /\ t.arrival = e.arrival /\ t.intakes = e.intakes
          /\ t.deadline = e.deadline
      BY <1>3, <1>4, <1>7, TickedLawful
    <2>2. /\ events' = [events EXCEPT ![i] = t]
          /\ reply' = [reply EXCEPT ![r] = [id |-> i, snapshot |-> t.published]]
      BY <1>7 DEF AdvanceEvent
    <2> HIDE DEF t
    <2>3. events'[i] = t /\ Store!Only(i)
      BY <1>4, <2>2 DEF StoreInv, ServiceTypeOK, Store!Only
    <2>4. Store!Tells(r, i, events'[i].published)
      BY <1>1, <2>2, <2>3, ReplyMapped DEF Store!Tells
    <2>5. t.clock = m /\ (Store!Clock(i)!Tick \/ UNCHANGED events)
      <3>1. CASE m = e.clock
        <4>1. t = e
          BY <3>1 DEF t, Ticked
        <4> QED
          BY <1>4, <2>2, <3>1, <4>1 DEF StoreInv, ServiceTypeOK
      <3>2. CASE m # e.clock
        <4>1. /\ m > e.clock /\ m <= e.deadline
              /\ e.published.status \notin {"breached", "contained"}
          BY <1>3, <1>5, <1>7, <3>2 DEF Outcome
        <4>2. t.clock = m /\ t.published = Event(e)!ViewAt(m)
          BY <1>4, <3>2 DEF t, Ticked, Incident
        <4>3. Event(e)!ViewAt(m) = Store!Clock(i)!ViewAt(m)
          BY DEF Event!ViewAt, Event!Verdict, Event!Reached,
                 Store!Clock!ViewAt, Store!Clock!Verdict, Store!Clock!Reached
        <4>4. Store!Clock(i)!Tick
          BY <1>1, <2>1, <2>3, <4>1, <4>2, <4>3 DEF Store!Clock!Tick
        <4> QED
          BY <4>2, <4>4
      <3> QED
        BY <3>1, <3>2
    <2> QED
      BY <1>1, <1>2, <1>4, <1>6, <1>7, <2>3, <2>4, <2>5 DEF Store!Advance
  <1>8. CASE Outcome(e, m) # "ok"
    <2>1. UNCHANGED <<events, reply>>
      BY <1>8 DEF AdvanceEvent
    <2>2. UNCHANGED DoneReply
      BY <1>1, <2>1, ReplyMapped
    <2>3. /\ m # e.clock
          /\ \/ m < e.clock /\ Outcome(e, m) = "clock_regression"
             \/ /\ e.published.status \in {"breached", "contained"}
                /\ Outcome(e, m) = "incident_terminal"
             \/ m > e.deadline /\ Outcome(e, m) = "past_deadline"
      <3> HIDE DEF e, m
      <3>1. CASE m < e.clock
        BY <1>3, <1>5, <3>1 DEF Outcome
      <3>2. CASE m > e.clock
        BY <1>3, <1>5, <1>8, <3>2 DEF Outcome
      <3>3. m # e.clock
        BY <1>3, <1>5, <1>8 DEF Outcome
      <3> QED
        BY <1>3, <1>5, <3>1, <3>2, <3>3
    <2> QED
      BY <1>1, <1>2, <1>4, <1>6, <2>1, <2>2, <2>3 DEF Store!Refuse
  <1> QED
    BY <1>7, <1>8

\* The snapshot a creation answers with, though read after the lock is gone, is
\* the one the event was born with: a step the store does not see.
LEMMA LateSnapshotStep ==
  ASSUME StoreInv, AnswersInv, NEW r \in Requests, AnswerCreated(r)
  PROVE  UNCHANGED Store!vars
  <1>1. /\ phase[r] = "published" /\ phase' = [phase EXCEPT ![r] = "answered"]
        /\ answer' = [answer EXCEPT ![r] = "ok"]
        /\ UNCHANGED <<events, call, input, received, drained>>
    BY DEF AnswerCreated, Steps, gateVars
  <1>2. call[r].route = "create" /\ reply[r] # Nothing
    BY <1>1 DEF StoreInv, FieldsFollowPhase
  <1>3. events[reply[r].id].published = Unstarted
    BY <1>1, <1>2 DEF AnswersInv, CreationsStand
  <1>4. reply' = [reply EXCEPT ![r] = [id |-> reply[r].id, snapshot |-> Unstarted]]
    BY <1>3 DEF AnswerCreated, StoreInv, ServiceTypeOK
  <1>5. UNCHANGED Sent
    BY <1>1, SentMapped
  <1>6. UNCHANGED DoneAnswer
    <2>1. \A s \in Requests : DoneAnswer'[s] = DoneAnswer[s]
      BY <1>1 DEF StoreInv, ServiceTypeOK, DoneAnswer, Done
    <2> QED
      BY <2>1 DEF DoneAnswer
  <1>7. UNCHANGED DoneReply
    <2> DEFINE told == [id |-> reply[r].id, snapshot |-> Unstarted]
    <2>1. DoneReply[r] = told
      BY <1>1 DEF DoneReply, Done
    <2> HIDE DEF told
    <2>2. \A s \in Requests : DoneReply'[s] = DoneReply[s]
      BY <1>1, <1>4, <2>1 DEF StoreInv, ServiceTypeOK, DoneReply, Done, told
    <2> QED
      BY <2>2 DEF DoneReply
  <1> QED
    BY <1>1, <1>5, <1>6, <1>7 DEF Store!vars

\* Every step of the service is one of the store, or none that it sees.
LEMMA StoreRefinement ==
  /\ GateInv /\ LeaseFollowsPhase /\ StoreInv /\ AnswersInv /\ AnswerFollowsPhase
  /\ [ServiceNext]_serviceVars
  => [Store!Next]_Store!vars
  <1> SUFFICES ASSUME GateInv, LeaseFollowsPhase, StoreInv, AnswersInv,
                      AnswerFollowsPhase, [ServiceNext]_serviceVars
               PROVE  Store!Next \/ UNCHANGED Store!vars
    OBVIOUS
  <1>1. CASE \/ UNCHANGED serviceVars \/ DrainGate
             \/ \E r \in Requests : Return(r)
    BY <1>1, StillStep DEF Store!Next
  <1>2. ASSUME NEW r \in Requests, Send(r) \/ Receive(r) PROVE Store!Next
    BY <1>2, ClientStep DEF Store!Next
  <1>3. ASSUME NEW r \in Requests, Admit(r)
        PROVE  Store!Next \/ UNCHANGED Store!vars
    <2>1. CASE state # "accepting"
      BY <1>3, <2>1, TurnAwayStep DEF Store!Next
    <2>2. CASE state = "accepting"
      <3>1. /\ phase[r] = "sent" /\ phase' = [phase EXCEPT ![r] = "entered"]
            /\ UNCHANGED <<events, call, input, answer, reply, received, drained>>
        BY <1>3, <2>2 DEF Admit, Steps, Acquire, Grant, Refuse
      <3>2. UNCHANGED Sent /\ UNCHANGED DoneReply
        BY <3>1, SentMapped, ReplyMapped
      <3>3. UNCHANGED DoneAnswer
        <4>1. \A s \in Requests : Done(s) <=> Done(s)'
          BY <3>1 DEF StoreInv, ServiceTypeOK, Done
        <4> QED
          BY <3>1, <4>1 DEF DoneAnswer
      <3> QED
        BY <3>1, <3>2, <3>3 DEF Store!vars
    <2> QED
      BY <2>1, <2>2
  <1>4. ASSUME NEW r \in Requests, Handler(r)
        PROVE  Store!Next \/ UNCHANGED Store!vars
    <2>1. ~drained
      BY <1>4, HandlerNotDrained
    <2>2. CASE \/ WrongMethod(r) \/ NotFound(r) \/ NoObject(r) \/ BadInput(r)
               \/ Solve(r) \/ CreateFails(r)
      BY <2>1, <2>2, TurnAwayStep DEF Store!Next
    <2>3. CASE GoodInput(r)
      BY <2>3, ReadStep DEF Store!Next
    <2>4. CASE Publish(r)
      BY <2>1, <2>4, CreateStep DEF Store!Next
    <2>5. CASE AnswerCreated(r)
      BY <2>5, LateSnapshotStep
    <2>6. CASE AdvanceEvent(r)
      BY <2>1, <2>6, ClockStep DEF Store!Next
    <2> QED
      BY <1>4, <2>2, <2>3, <2>4, <2>5, <2>6 DEF Handler
  <1> QED
    BY <1>1, <1>2, <1>3, <1>4, StepCases

\* The handlers, the gate and the locks of the store and its events implement
\* a store of clocks that does each call at one instant: the service is
\* linearizable, for any number of requests, identifiers and bodies.
THEOREM ServiceIsLinearizable == ServiceSpec => ImplementsStore
  BY EmptyStore, StoreRefinement, GateInvInService, LeaseInvariant, StoreInvariant,
     AnswersInvariant, AnswerFollowsInvariant, PTL
     DEF ServiceSpec, ImplementsStore, Store!Spec

=============================================================================
