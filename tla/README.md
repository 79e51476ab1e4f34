# Verification of the raincut service

raincut is a Go service with two jobs: `POST /mincut` computes the cheapest set
of pipes to shut, and `POST /incidents`, `POST /incidents/{id}/advance` run
contamination events whose clock callers move forward. On SIGTERM or SIGINT it
drains: requests already inside finish, later ones get a stable 503, and the
process exits 0, or is closed by force after `DRAIN_TIMEOUT`.

This directory holds TLA+ models of that program, TLC runs over small instances
and proofs for the TLA+ proof system (TLAPS). `PROJECT.json` maps every
definition to the source lines it models.

## The system

| Component | State | Operations | Met by |
|---|---|---|---|
| Admission gate, `internal/lifecycle` | phase, in-flight count, `drained` channel, under one mutex | `Acquire`, its release, `BeginDrain`, `MarkStopped`, `State`, `WaitDrained` | every business request, `/readyz`, main |
| Service process, `cmd/api` | main's place, stop channel (one slot), drain timer | wait for a signal, begin the drain, wait, `Shutdown` or `Close`, exit | gate, `http.Server`, signals |
| Routes, `internal/api` | none | `admit`, `/readyz`, `/healthz`, `/mincut`, the incident handlers | gate, incident store, flow |
| Incident event, `internal/incident` | committed clock, started flag, status, under one mutex; arrivals fixed at creation | `Advance`, `Snapshot` | concurrent handlers |
| Earliest arrivals, `internal/incident` | distances, heap | one multi-source Dijkstra run per creation | `NewIncident` |
| Store, `internal/incident` | map of events under a mutex | `Create`, `Get` | incident handlers |
| Minimum cut, `internal/flow` | residual graph, levels, current arcs | Dinic's algorithm | `/mincut` |
| Acceptance programs, `cmd/verify` | the checks left to make, failures counted | mincut and incident checks, racing advances, children with half-sent requests and signals | HTTP, processes |
| Packaging, Docker files | none | | |

What is hard to test here:

- the drain is a race of signals, acquisitions, releases, the timeout, the
  forced close and `os.Exit`, in goroutines nothing orders but one mutex, one
  channel and the HTTP server;
- a lease comes back *before* the answer has left the process, so a clean exit
  depends on the gate and on `Shutdown` together;
- advances of one event overlap, answers arrive late, get lost and are retried;
- arrivals, releases and deadlines meet at equal minutes, and minute 0 is both a
  minute and the clock's value before the first tick;
- a created event is in the store before the handler reads it for its answer;
- every number of a body is checked in the handler, some a second time in
  `Validate`, and only then used as an index;
- the heap holds stale entries and breaks ties in any order;
- the flow solver finds reverse arcs by index, keeps current arcs over several
  searches and has to take back flow it has pushed.

`PROJECT.json` lists these hazards line by line with the properties that
guard against them.

What makes each component correct: the gate counts leases exactly and announces
the end of a drain once, at the right moment; the process loses no answer on a
clean exit but to connections that others broke, cuts connections only after the timeout and always ends after a
signal; an event reports every node once and shows every caller the view of the
minute it asked for; all handlers together answer like a store that does one call
at a time, never show a client an event going back, and change nothing once the
drain is over; what is computed from is what was checked; the arrivals are the earliest ones; the cut is minimal.

## Modules

| Module | What it is |
|---|---|
| `LeaseBarrier` | abstract: what the gate promises, without counter, channel or lock |
| `Gate` | `lifecycle.Gate`, one action for each method |
| `ApiProcess` | extends `Gate` with `cmd/api` main, its two goroutines, `admit`, `/readyz` and what is relied on of `net/http` |
| `PropagationClock` | abstract: a clock that only moves forward and a view that depends on its minute alone |
| `Event` | `incident.Incident` and its concurrent callers |
| `Dijkstra` | `earliestArrivals`, one pop or one pipe at a time |
| `Dinic` | `flow.MinShutdownCost`, one turn of a loop at a time |
| `Requests` | the checks of a body (`buildSpec`, `Validate`, `validate`) and the arrivals of an accepted incident, as operators |
| `ClockStore` | abstract: a store of `PropagationClock`s that does each call at one instant |
| `Service` | extends `Gate` and `Requests` with the business routes and the store; its events are `PropagationClock`s |
| `Checklist` | a client that makes one check after the other |
| `IncidentChecks` | extends `Event` with the mincut and incident scenes of `cmd/verify/main.go` |
| `DrainChecks` | extends `ApiProcess` with the scenes of `cmd/verify/drain.go` |
| `Acceptance` | both suites, one after the other |
| `MCGate`, `MCApiProcess`, `MCEvent`, `MCDijkstra`, `MCDinic`, `MCService`, `MCAcceptance` | instances for TLC |
| `GateProofs`, `ApiProcessProofs`, `EventProofs`, `DijkstraProofs`, `DinicProofs`, `ServiceProofs` | theorems and their proofs |
| `DinicFlowProofs` | theorems about phases, flow, cut, end and amounts of `Dinic` |
| `SumTheorems` | what sums over finite sets do, for the proofs of both solvers |

Next to some actions stands a wrong version of it ("a wrong release that ...").
Nothing uses these; each shows what some property guards against, because
putting it in place of the right one breaks that property.

### Gate

All methods hold the mutex from beginning to end, so each is one action.
`lease[r]` is the caller's side: what `Acquire` gave it. `drained` is TRUE when
the channel is closed, `panicked` when it was closed twice. `Release` closes the
channel only in phase `draining` and at count 0, as the code does; a release
after `MarkStopped` therefore closes nothing. `BeginDrain` has the code's early
return as its first disjunct. The comment "the caller must invoke it exactly
once" is the environment's contract: `admit` defers the release, so `Release(r)`
needs `lease[r] = "held"`.

The refinement to `LeaseBarrier` maps `fallen` to `state # "accepting"`,
`abandoned` to `state = "stopped"` and `announced` to `drained`.

### ApiProcess

`main` is the place of the main goroutine: `boot` (listening, `signal.Notify` not
called yet), `wait`, `barrier`, `arm`, then the two selects of `WaitDrained`
(`check`, `select`, and `parked` while it sleeps in the second), then either
`force`, `markForced`, `exitForced` or `shutdown`, `quiesce`, `markClean` (or
`markFailed`), `return`. A sleeping main is woken by whichever comes first, so
`ReturnLease` and `Expire` move it; when both cases are ready as it looks, either
may be taken, as Go's select does.

A request goes from `idle` over `arrived` (header read) to `body`, `work`,
`written` (inside the handler, with a lease), `flush` (handler returned, lease
back, answer still in the server's buffer) and `done`; a refused one goes from
`arrived` to `flush`. `conn[r]` is its connection: `cut` by `srv.Close`, `broken` by
the client or by a deadline of the server. `seen` and `warned` are history: some
client has been told of the drain, and the requests sent after that.

External, modelled from how the program uses it: `net/http` keeps track of active
connections, `Close` cuts them, `Shutdown` stops listening and returns when none
is active (with the listener's error, if closing it gave one), the answer of a
handler is sent after it returns, read and write deadlines end a stuck
exchange; a signal without `Notify` ends the process; `signal.Notify` drops what
does not fit the channel. Temporary accept errors, which the server retries, are
left out. A request comes over the listener or, until `Shutdown` has found its
connection idle, over a kept-alive one.

### Event

`Advance` holds the event's lock from beginning to end: each of its returns is
one action whose guard negates the returns before it (`Retry`,
`RejectRegression`, `RejectTerminal`, `RejectPastDeadline`, `Commit`). The parameters
`dist`, `intakes`, `deadline` and `first` are variables chosen in the initial state
and never changed, so one run covers every event of its size. `Validate` bounds
releases by the deadline, hence `first <= deadline`. A caller sends a request
(`Call`), the event serves it at some later moment, and the caller may send
another without having used the answer; that covers lost answers and retries.
Increments and snapshots are sets of nodes: their minutes are `dist`, and the
order in the JSON is left out. `reported` is history: how many increments a node
has been in. Negative minutes, which the handler refuses with 422 before
`Advance`, are included, because `Advance` checks for them itself.

The refinement to `PropagationClock` maps `clock` to `current`, or -1 before the
first advance, and `published` to the snapshot of the moment.

### Dijkstra

`queue` is the heap as a set of entries: a node is pushed only with a smaller
minute than before, so no entry occurs twice. `Pop` takes any smallest entry and
drops it when stale; `Relax` scans one pipe of the popped node, in any order,
since the order of submission is arbitrary. `settled` is history: the nodes whose
pipes were scanned.

### Dinic

`network` is a request `validate` lets through, chosen in the initial state.
`AddPipe`, `AddSource` and `AddSink` are the calls of `AddEdge`, with `total` summed on
the way; `WithEdge` gives the first arc of a self-loop its own index as its
reverse, as the code does. The breadth-first search labels one level in a step
(`BfsLayer`): its queue holds the nodes of a level together, and their order
changes no level. `path` is the stack of the recursive `dfs` and `next` its current
arcs: `Skip` passes an arc, `Descend` calls, `Retreat` returns 0 and passes the arc
the call was made for, `Augment` returns through the whole stack, updating every
arc and its reverse. The capacity `dfs` hands down is the least on the path, so
`Augment` computes it there. `distance` is history: how far the super sink was in the
phase before. Integers are unbounded here: the sums stay below 10^14 (100000
edges of at most 10^9), and no capacity exceeds `total + 1`, since an arc and its
reverse keep their sum.

### Service and Requests

A request goes from `idle` over `sent` to `entered` (admitted), `work` (its body is
good), for a creation `published`, then `answered` and `returned` (the lease is
back); `received` are those whose answer the client has, and `before[s]` which of
them it had when it sent `s`. The early returns of a handler are actions:
`WrongMethod`, `NotFound`, `NoObject`, `BadInput`, in the order of the code, which
differs between routes only in that an advance looks for its event first. What
the method and the body are is found when the handler looks. `Fits` is the check
of the route; `Publish` applies `Validate` again, as `Store.Create` does, and
`CreateFails` has its two errors. The handler reads the snapshot in a step of its
own (`AnswerCreated`), after the store has let go of its lock.

Between two calls an event is arrivals, intakes, deadline, clock and published
view, the state of `PropagationClock`, which `Event` is shown to implement:
`Outcome` is the code its handler answers and `Ticked` uses the clock's own
`ViewAt`. The arrivals of a new event are any that satisfy `IsEarliest`, the fixed
point the loop of `Dijkstra` is proved to end in. A client may name an
identifier it was told, or none that exists: `Guessable` is empty, because
`newID` draws 128 random bits. The wrong version beside it is an identifier
counted up; with it `CreateAnswersHold` and `ImplementsStore` fail.

The refinement to `ClockStore` says what the clients may take the service for
(linearizability): every call takes effect at one instant between being sent and
being answered. An advance does so in `AdvanceEvent`, under the mutex of its event.
A creation does so in `Publish`, when its event is in the store; its answer is made
later, from a snapshot read after the store has let go of its lock, so the mapping
lets the abstract request be answered, with an unstarted event, as soon as the
concrete one is `published` (`DoneAnswer`, `DoneReply`), and `AnswerCreated` has to
be a stutter. An error counts as done when it is written. `frozen` is `drained`: no
creation and no advance takes effect once the end of the drain is announced.

`Requests` compares on the `int64` values of the body, before the conversions to
`int`. Bodies are records of the JSON shape of the route (`BodiesAssumption`);
`NoObject` covers everything else. `decodeStrict` looks for more input with
`Decoder.More`, which is false before a stray `}` or `]`: such a body is still
decoded, and so is `null`, as a body of zeros. Both are bodies of the model.

### Checklist, IncidentChecks, DrainChecks, Acceptance

`script` holds the checks that remain of a scene, a function `verify...` of the
program, and `scenes` the scenes after it. A vital check is one whose failure
makes the function return. The incident scenes drive `Event`: a step of the
client sets off one advance, or, in the races, several that the event serves in
any order, and judges the answers by the client's own rules. Expected costs are
compared with `LeastCut`, the definition of a minimum cut that `Dinic` is checked
against, and arrivals with `EarliestArrivals`, by definition as well: the suite
is tested against what the algorithms compute, their loops are other runs.

The drain scenes drive `ApiProcess`, with the children's steps (`Child`) between
the client's. Each scene starts a child in its initial state. What the program
waits for by polling is a guard. Its durations are assumptions, all in
`ChildHealthy`, `Settle`, `BodySent` and `Timely`: a child that answers `/healthz`
has come to `signal.Notify`; 300 ms after its first half the half-sent request
is in its handler; no read deadline expires within a scene; `DRAIN_TIMEOUT` is
over in `verifyDrainTimeout` and only there. They are not checked: real time is not
in the models, so whether a sleep is long enough is a hazard no property covers.
Without the first one the suite could fail by the race of `finding_first_signal`.

## Runs

| Run | Instance | Shows |
|---|---|---|
| `gate` | 4 requests | counter, channel and phase agree in every order of calls; the gate implements `LeaseBarrier`; a drain whose handlers return completes |
| `process` | 3 interchangeable requests | safety of the whole drain: `InflightCountsHandlers`, `ShutdownAfterLastLease`, `CleanExitLosesNothing` (a request whose connection its client or a deadline of the server has broken counts as settled), `CutOnlyAfterTimeout`, `BarrierVisible`; the process keeps the gate's contract |
| `process_live` | 2 requests, fairness | `SignalEndsProcess`: a signal after `Notify` ends the process; `DrainedGateWinsTie`: a gate drained before `WaitDrained` is never closed by force, whatever the timeout |
| `event` | 3 nodes, 3 callers, minutes 0..2 | exact increments, answers that are views, lasting rejections, frozen terminal events; the event implements `PropagationClock` |
| `dijkstra` | 3 nodes, at most 3 pipes of 1 or 3 minutes, at most 2 releases | the loop ends with the earliest arrivals (against a definition over walks, and as a tight fixed point), the first release is the earliest of them, scanned nodes are final |
| `dinic` | 3 nodes, at most 3 edges of cost 1 or 2, 1 or 2 sources; fewer edges with endpoints named twice; one network of 6 nodes | the result is the least cost of a cut, the last search finds such a cut without a super arc, flow is conserved, passed arcs are useless, phases get longer, the solver ends |
| `service` | 3 interchangeable requests of any route, 2 identifiers, 3 nodes, minutes 0..2; 2 good and 14 bad incidents, 1 good and 8 bad cuts | answers that never run back, creations whose answers hold, solvers and events that meet only nodes of their own request; the handlers implement `ClockStore`, which a drain freezes |
| `acceptance` | the suite, with its own incidents and 6 racing advances | no interleaving makes a check fail (`ChecksPass`), and the suite comes to its end (`SuiteEnds`) |
| `finding_stopped` | 2 requests | see Findings |
| `finding_first_signal` | 2 requests | see Findings |
| `finding_drain_in_time` | 2 requests | see Findings |
| `finding_current_minute` | 2 nodes, 2 callers, minutes 0..2 | see Findings |

Bounds. A gate sees only the number of leases, and every race in it is between
two releases, or a release and `BeginDrain`; with four requests some are returned,
some held, some refused and some to come at once. In the process three requests
allow one lost, one answered and one refused. Three nodes are an intake, a
reached node and an unreachable one; minutes 0..2 give every order of two
arrivals and the deadline, with equalities, and a minute beyond it; three
callers give a commit, a retry and a rejection at a time. In `dijkstra` traversal
times 1 and 3 make a detour of two pipes beat a direct pipe, which is what
leaves stale entries, and releases at 0 and 2 let a later release lose to a pipe.
In `dinic` three edges give two phases (a direct edge and a detour), and the
network of six nodes is one in which a later phase must take back flow:
without the update of reverse arcs it alone ends with a wrong cost.
In `service` three requests are a creation, and two calls that follow it or
overlap; the bad bodies miss one bound each, by one, from a body that is good, so
a check that is one off lets one of them through. Two nodes of three in the bad
bodies make a check against `MaxNodes` instead of the body's own `n` let them
through as well. The races of `acceptance` have six
callers where the program has 15 and 20; six are enough for each of its rules
to have a commit, a retry and a refusal at once, and the rules compare callers
with the final state, not with each other's number.
The proofs remove these bounds for the safety properties they cover. `Horizon`,
`MaxPipes` and `MaxReleases` are the only counters bounded in a guard or in an
initial state; no history variable grows without end.

`CHECK_DEADLOCK FALSE` appears where the program ends: the process exits, the
loops of `Dijkstra` and `Dinic` terminate, the requests of `Service` are answered, the
suite of `Acceptance` is over.

Fairness. `GateFairSpec` lets handlers return their leases, which the server's
read and write deadlines justify. `ProcFairness` is weak fairness of main, of the
drain timer, and of the steps a request's goroutine can take without its
client: being admitted, giving up on a body (the 30 s read deadline), computing,
returning its lease, and sending or failing to send its answer (the 30 s write
deadline). Clients, signals, the listener and the absorber have none.
The fairness of `Dijkstra` and `Dinic` is that the loop runs. The one of
`Acceptance` is that client and child go on: its behaviours are finite, so the
suite ends unless the two wait for each other.

## Findings

Four comments say more than the code does. Each is a run that TLC refutes.

- `StoppedMeansDrained`: "Stopped means the in-flight count reached zero"
  (`internal/lifecycle/lifecycle.go:34`). After a timeout main calls `MarkStopped`
  with leases still out (`cmd/api/main.go:76`).
- `FirstSignalSparesLeases`: "The first SIGTERM or SIGINT flips the shared
  admission gate ... while requests that already hold a lease run to completion"
  (`cmd/api/main.go:3`). The server listens (line 51) before `signal.Notify` (line
  58); a signal in between kills the process and the leases it granted.
- `DrainInTimeIsClean`: "If the leases do not drain within DRAIN_TIMEOUT the server
  is force-closed" (`cmd/api/main.go:7`). When the last release and then the
  deadline fall between the two selects of `WaitDrained`, the second one may
  pick the deadline: a drain that ended in time exits 1. What the comment of
  `WaitDrained` itself promises, for a gate drained before the call, holds
  (`DrainedGateWinsTie`).
- `CurrentMinuteIsRetry`: "Advancing to the current minute is an idempotent retry
  that reports no new arrivals and the same snapshot"
  (`internal/incident/incident.go:17`). A new event shows minute 0, but its first
  advance to minute 0 commits, reports the arrivals of minute 0 and may change
  the status.

## Proofs

TLAPS checks these for every value of the constants.

- `GateProofs`. Assumption: the set of requests is finite. The inductive invariant
  `GateInv` joins the four invariants of the run: that the channel is not closed
  twice needs that a lease being returned means it is not closed yet, which needs
  the exact count. `ImplementsBarrier` follows step by step.
- `ApiProcessProofs`. First `BarrierFirst`, which alone is inductive, shows that every
  step of the process is a legal step of the gate (`KeepsGateContract`), so
  `GateInv` holds inside the process. Then `ProcInv` says what each place of main and
  each phase of a request implies: `MainKnows` (a main past the wait knows that
  the channel is closed; past `Quiesce`, that nobody is active and nobody can
  arrive), `LeaseFollowsPhase`, `CutsAreForced`, `WarningsFollowBarrier`.
  Two more arguments are about `WaitDrained`. `WaitInv` (main is `parked` only with
  an open channel and a running timer, because `ReturnLease` and `Expire` move a
  sleeping main in the step in which they close or expire) gives `NoLostWakeup`:
  while main sleeps, a lease is out whose return will close the channel. And a
  main that comes to `check` with the channel closed stays on the path to a
  shutdown (`OnTheCleanPath`), which no timer and no signal leaves
  (`DrainedGateIsSpared`).
- `EventProofs`. Assumption: `Never` is beyond the minutes. `EventInv` adds to the
  run's invariants that the status is the one of the committed minute, and that
  an increment tells only of nodes reached by now: without the latter,
  disjointness of increments is not inductive. `StatusIsVerdict` shows the
  order of the code's early returns and the clock's verdict to agree, using
  that the first release is the earliest arrival.
  The races of `cmd/verify` have six callers in the run; two theorems are about any
  number. In whatever order the calls of a race are served, the clock comes to
  every minute that was answered unless the event is decided, and a call whose
  minute decides the event fixes its status for good (`RacesConverge`, from
  `OksAreBehind`: an answered `ok` is behind the clock). When all callers of an
  unstarted event are answered, the clock stands at the greatest minute any was
  granted, its caller has seen the event as it is, and each refusal fits that
  minute (`RaceEndsThere`). When they all ask for one minute, all are granted it and
  shown the same, and exactly one is told of the new arrivals
  (`OneOfTheFanIsTold`). Both have an initial state of their own.
- `SumTheorems`. `SumFunctionOnSet` of the community modules is a recursion over
  subsets. No induction principle is used: an empty set of counterexamples is
  shown by taking a least one, a natural number (`LeastNatural`) or a subset
  (`SmallestSubset`). That gives that such sums exist, that any element may be
  taken out first, and from these what a sum does when a set grows, a value
  changes, or all values are bounded.
- `DijkstraProofs`. Assumptions: nodes and traversal times are finitely many (the
  code has `MaxNodes` and `MaxMinutes`), and pipes take at least a minute.
  `PipesCovered` (a pipe that can still improve something starts at a node in the
  heap, or is being scanned) and `Witnessed` (every arrival is explained) give the
  fixed point at the end (`DistIsTight`); `SettledBehind` and `EntriesBehind` give that
  scanned nodes are final. `DijkstraIsEarliest` compares the fixed point with the
  arrivals over walks, which recur on the number of pipes: no walk is faster
  (`NoWalkIsFaster`, by a least length of a faster one), and some walk is as fast
  (`SomeWalkIsAsFast`): its last pipe comes from a node reached earlier, so it
  needs no more pipes than there are such nodes.
- `DinicProofs`. Assumption: the networks are ones `validate` lets through. `PairsMatch`
  (the reverse index of an arc points to an arc back, whose reverse index points
  to it unless both belong to a self-loop) survives `AddEdge` by cases on the
  self-loop. `PathClimbs` (the stack goes up one level at a time along current arcs)
  gives that no arc of the path is the reverse of another: so capacities stay
  non-negative, an arc and its reverse keep their sum, and no passed arc
  becomes admissible again, because arcs that gain capacity go down.
- `DinicFlowProofs`, under the same assumption, five arguments.
  *Phases.* The levels of the phase before bound the new ones from below
  (`LevelsFenced`). A node that comes to lie at its old level again must be one
  that the climbing arcs dfs left with capacity still reach, and the super sink
  is none of these (`Fences`): so its level grows (`PhasesLengthen`).
  *Flow.* `FlowConserved` is about the arcs of one node and is not inductive by itself,
  because a push is a sum over a path. `BooksInv` says more: for any set of pairs
  of nodes and any set of nodes that go together (`Accounts`), what is left on
  the arcs between these pairs is what `AddEdge` gave them, moved by the flow. A
  push is then followed arc by arc (`PushAlong`), each arc with its reverse
  (`PushOneArc`).
  *Cut.* The same books, read for the pairs across a cut, bound the flow by the cost
  of every cut (`FlowBelowCuts`). A cut that severs a super arc costs more
  than all edges together, and the flow cannot (`FlowBelowTotal`, for which
  `TotalIsCost` is needed). When bfs misses the super sink, no arc leaves its
  labelled nodes with capacity left, and the bound is met (`FlowIsMinimumCut`).
  *End.* `LevelsFilled` (no level is skipped) gives that levels, phases and paths are
  fewer than nodes. `SolverStops` compares six natural numbers before and after
  each step: the calls of `AddEdge`, the phases, the layers of bfs, the arcs
  ahead, the climbing arcs with capacity, the room on the path. The first that
  changes always goes down. `LoopStops` of `DijkstraProofs` does so with the sum of
  the arrivals, the heap and the pipes being scanned.
  *Sizes.* The solvers compute in `int64`, the models with numbers of any size; that
  this is the same is a theorem of each. With edges of cost at most c the total is at
  most as many times c (`SumBounded`), the flow at most the total, and an arc with its
  reverse holds at most one more (`PairsWithin`, kept because a push moves capacity
  within a pair, `PushKeepsSum`): `AmountsStaySmall`. With `maxEdges` and `maxCost` that
  is 10^14 + 1. An arrival plus a pipe is at most the latest release and the longest
  pipe for every node, because each node is scanned once (`SumsStaySmall` of
  `DijkstraProofs`). With `MaxNodes` and `MaxMinutes` that is 2.0001 * 10^13. Both
  are far from 2^63 - 1, which also stands for `never`.
- `ServiceProofs`. Assumptions: there are finitely many requests, the bounds are
  natural numbers and `Never` is beyond `MaxNodes` pipes of `MaxMinutes`, bodies have
  the JSON shape of their route, and `Nothing` is none of the values it stands
  beside. Every step of the service is a call of the gate or none
  (`ServiceKeepsGate`), and a handler that works holds its lease
  (`LeaseFollowsPhase`), so none works once the gate has drained
  (`DrainFreezesEvents`, from the gate's exact count). `StoreInv` adds to the types
  that a field is set when the phase says so (`FieldsFollowPhase`) and that each event shows its committed minute and can be
  decided (`Lawful`); `NewEventLawful` and `TickedLawful` show that the two ways of
  making an event keep that, and that a tick only adds to the view. `AnswersInv`
  is what makes the two properties about answers inductive: identifiers are known
  from received answers only (`NamesAreTold`), an event belongs to one creation and
  until that is answered to nobody else (`CreationsStand`), and no answer is ahead
  of its event (`AnswersBehind`).
  *Own nodes.* `SolversGetValidInput` follows the two ways from a check to an index. A
  body that `validate` accepts has a cut, the sources against the rest (`ValidCut`).
  A body that `buildSpec` accepts names its own nodes only (`OwnNodes`), so by
  `IsEarliest` contamination arrives nowhere else (`OwnEvent`); what an event shows
  as reached has arrived (`ReachedArrives`), and by `AnswersBehind` no answer shows
  more (`SolversAreSafe`).
  *One instant for each call.* `ServiceIsLinearizable` goes through the steps of a
  request: each is one step of `ClockStore` or none. It needs that a request that
  has not answered has no answer (`AnswerFollowsPhase`), that while a handler works
  the gate has not drained (`HandlerNotDrained`), and for the late snapshot of a
  creation that its event still stands unstarted, because nobody could name it
  (`LateSnapshotStep`, from `CreationsStand`).
  *One result for each body.* The service takes any arrivals that satisfy `IsEarliest`.
  A specification that `Validate` accepts has such arrivals, and one only
  (`ArrivalsAreDetermined`). They exist because the least set of nodes and minutes
  that holds the releases and is closed under the pipes has a first minute for
  each of its nodes (`Visits`), which some release or pipe explains, or the set
  would not be least (`ComesFromSomewhere`); the first minute is at most one longest
  pipe for every node before it, and one (`EarliestIsBounded`). Two are the same,
  since at the first node where one is earlier its last pipe would come from a node
  where it is not (`NoneIsEarlier`). `LoopStoresEarliest` of `DijkstraProofs` shows the
  loop to end in them, so two creations of one body give events with the same
  arrivals however the heap breaks its ties (`SameBodySameArrivals`).

Only model-checked: everything temporal under fairness (`DrainCompletes`,
`SignalEndsProcess`, `SuiteEnds`, `Terminates` of both solvers),
which TLAPS does not reach: of `Terminates`, the theorems `SolverStops` and `LoopStops`
show that a run cannot go on for ever, and TLC that it does not get stuck. Of
`SignalEndsProcess`, `NoLostWakeup` shows the part in which a wakeup could be missed.
And `ChecksPass`, which is about one suite with its own constants: a proof would
unfold its scripts check by check, and say no more than the run. What its races
rely on, `RacesConverge`, `RaceEndsThere` and `OneOfTheFanIsTold` say of any race.

## Not modelled, and why

- The text of JSON and of `DRAIN_TIMEOUT`, error messages, logging: a body is of the
  right shape or not, a timeout expires at some moment.
- Equal identifiers: two draws of the same 128 bits would overwrite an event, which
  nothing in the code checks. `FreshIds` excludes it.
- `/healthz`, which has no state; it is a probe of the acceptance suite.
- Of `cmd/verify`: the two instances of 20000 nodes, whose question is time; bodies
  that are no JSON object or too large, and the 404 of an unknown identifier, which
  need the parser and the store (`Service` has the 404); waiting for the API and
  building the binary.
- The Docker files, which have no behaviour.
- Crashes: nothing is stored, so a restart is a new initial state, which the drain
  scenes go through for each child.

## Plan

Done, in this order: `LeaseBarrier`, `Gate`; `ApiProcess`, which composes the gate
with the process; `PropagationClock`, `Event`; `Dijkstra`; `Dinic`; `Requests` and
`Service`, which compose the gate, the checks and the events; `Acceptance`, which
runs the client's suite against the process and the events; `ClockStore`, the
abstract specification of the whole service; their proofs.
