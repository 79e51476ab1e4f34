---------------------------- MODULE IncidentChecks ----------------------------
(***************************************************************************)
(* cmd/verify/main.go: the checks of minimum cuts and of incidents.  The   *)
(* service is what the other modules say it is: bodies are refused as in   *)
(* module Requests, an answer to /mincut is the cost of a least cut (what  *)
(* module Dinic computes), and an incident is module Event with the        *)
(* earliest arrivals (what module Dijkstra computes).  The callers of the  *)
(* event are the goroutines of one check; each of them calls once.         *)
(***************************************************************************)
EXTENDS Event, Checklist, FiniteSetsExt

ASSUME CallersAssumption == Callers \in SUBSET (Nat \ {0}) /\ 1 \in Callers

VARIABLE best  \* verifyConcurrentAdvances: the latest minute an answer showed

Service == INSTANCE Requests
             WITH MaxNodes <- 6, MaxPipes <- 7, MaxMinutes <- Horizon, MaxCost <- 100

pipe(u, v, m) == [from |-> u, to |-> v, minutes |-> m]
release(v, m) == [node |-> v, at |-> m]
edge(u, v, c) == [from |-> u, to |-> v, cost |-> c]

\* The earliest arrivals, over walks of one more pipe each time.
EarliestArrivals(s) ==
  LET walk[k \in 0 .. s.n] ==
        IF k = 0
          THEN [v \in Nodes |->
                  Min({Never} \cup {r.at : r \in {s.releases[i] : i \in
                         {j \in DOMAIN s.releases : s.releases[j].node = v}}})]
          ELSE LET d == walk[k - 1] IN
               [v \in Nodes |->
                  Min({d[v]} \cup {d[p.from] + p.minutes : p \in {s.pipes[i] : i \in
                         {j \in DOMAIN s.pipes : s.pipes[j].to = v /\ d[s.pipes[j].from] # Never}}})]
  IN walk[s.n]

\* The least cost of edges that part the sources from the sinks.
LeastCut(b) ==
  LET sides == {S \in SUBSET (0 .. b.n - 1) :
                  /\ \A i \in DOMAIN b.sources : b.sources[i] \in S
                  /\ \A i \in DOMAIN b.sinks : b.sinks[i] \notin S}
      Severed(S) == {i \in DOMAIN b.edges : b.edges[i].from \in S /\ b.edges[i].to \notin S}
  IN Min({MapThenSumSet(LAMBDA i : b.edges[i].cost, Severed(S)) : S \in sides})

-----------------------------------------------------------------------------
(* The kinds of checks, and the steps of the program that make them.       *)

cost(n, edges, sources, sinks, want) ==
  [kind |-> "cost", vital |-> FALSE, want |-> want,
   body |-> [n |-> n, edges |-> edges, sources |-> sources, sinks |-> sinks]]
refused(body) == [kind |-> "refused", vital |-> FALSE, body |-> body]
create(spec) == [kind |-> "create", vital |-> TRUE, spec |-> spec]
step(m, want, new) ==
  [kind |-> "step", vital |-> FALSE, minutes |-> <<m>>, want |-> want, new |-> new]
breach(m, new, all) ==
  [kind |-> "breach", vital |-> TRUE, minutes |-> <<m>>, new |-> new, all |-> all]
contain(m, some, never) ==
  [kind |-> "contain", vital |-> TRUE, minutes |-> <<m>>, some |-> some, never |-> never]
conflict(m, code) == [kind |-> "conflict", vital |-> FALSE, minutes |-> <<m>>, code |-> code]
race(minutes) == [kind |-> "race", vital |-> TRUE, minutes |-> minutes]
retry == [kind |-> "retry", vital |-> TRUE]
fan(minutes) == [kind |-> "fan", vital |-> TRUE, minutes |-> minutes]

\* expectCost: 200 with this cost.
ExpectCost ==
  /\ At("cost")
  /\ Judge(Service!ValidateCut(Now.body) /\ LeastCut(Now.body) = Now.want)
  /\ UNCHANGED <<eventVars, best>>

\* expect422Raw, with a body of the right JSON shape.
Expect422 ==
  /\ At("refused")
  /\ Judge(IF "edges" \in DOMAIN Now.body THEN ~Service!ValidateCut(Now.body)
                                          ELSE ~Service!BuildSpec(Now.body))
  /\ UNCHANGED <<eventVars, best>>

NoAnswers ==
  /\ answer' = [c \in Callers |-> "none"]
  /\ target' = [c \in Callers |-> 0]
  /\ increment' = [c \in Callers |-> {}]
  /\ snapshot' = [c \in Callers |-> Blank]

\* createIncident: a new event, of the specification of the scene.
CreateIncident ==
  /\ At("create")
  /\ dist' = EarliestArrivals(Now.spec)
  /\ intakes' = Service!IntakesOf(Now.spec)
  /\ deadline' = Now.spec.deadline
  /\ first' = Min({Now.spec.releases[i].at : i \in DOMAIN Now.spec.releases})
  /\ started' = FALSE /\ current' = 0 /\ status' = "scheduled"
  /\ reported' = [v \in Nodes |-> 0]
  /\ best' = 0
  /\ NoAnswers
  /\ Judge(Service!BuildSpec(Now.spec) /\ SnapshotNow' = Blank)

Asks == {"step", "breach", "contain", "conflict", "race", "retry", "fan"}

Minutes1 == IF Now.kind = "retry" THEN <<best>> ELSE Now.minutes

\* advance: one call, or one in each goroutine, all let go at once.
Ask ==
  /\ script # <<>> /\ Now.kind \in Asks
  /\ \A c \in Callers : answer[c] = "none"
  /\ answer' = [c \in Callers |-> IF c \in DOMAIN Minutes1 THEN "waiting" ELSE "none"]
  /\ target' = [c \in Callers |-> IF c \in DOMAIN Minutes1 THEN Minutes1[c] ELSE 0]
  /\ UNCHANGED <<specVars, clockVars, increment, snapshot, reported, best, checkVars>>

Serve(c) == Advance(c) /\ UNCHANGED <<best, checkVars>>

Known(S) == {<<v, dist[v]>> : v \in S}

Answered == {c \in Callers : answer[c] # "none"}

\* What the program demands of the answers it has got.
Satisfied ==
  CASE At("step") ->
         /\ answer[1] = "ok"
         /\ snapshot[1].status = Now.want /\ snapshot[1].minute = target[1]
         /\ Known(increment[1]) = Now.new
    [] At("breach") ->
         /\ answer[1] = "ok" /\ snapshot[1].status = "breached"
         /\ Known(increment[1]) = Now.new /\ Known(snapshot[1].reached) = Now.all
    [] At("contain") ->
         /\ answer[1] = "ok"
         /\ snapshot[1].status = "contained" /\ snapshot[1].minute = target[1]
         /\ Now.never \notin snapshot[1].reached
         /\ Now.some \in Known(snapshot[1].reached)
    [] At("conflict") -> answer[1] = Now.code
    [] At("race") ->
         \A c \in Answered :
           \/ answer[c] \in {"clock_regression", "incident_terminal"}
           \/ /\ answer[c] = "ok" /\ snapshot[c].minute = target[c]
              /\ \A v \in increment[c] \cup snapshot[c].reached : dist[v] <= target[c]
    [] At("retry") ->
         /\ answer[1] = "ok" /\ increment[1] = {}
         /\ snapshot[1].status = "breached" /\ Cardinality(snapshot[1].reached) = 6
    [] At("fan") ->
         /\ \A c \in Answered : answer[c] = "ok"
         /\ Cardinality({c \in Answered : increment[c] # {}}) = 1

\* All goroutines are done (wg.Wait); the answers are looked at and dropped.
Collect ==
  /\ script # <<>> /\ Now.kind \in Asks
  /\ Answered # {} /\ \A c \in Answered : answer[c] # "waiting"
  /\ Judge(Satisfied)
  /\ best' = Max({0} \cup {snapshot[c].minute : c \in Answered})
  /\ NoAnswers
  /\ UNCHANGED <<specVars, clockVars, reported>>

IncidentNext ==
  \/ ExpectCost \/ Expect422
  \/ CreateIncident \/ Ask \/ Collect
  \/ \E c \in Callers : Serve(c)

-----------------------------------------------------------------------------
(* The scenes.                                                             *)

mincutSuite ==
  <<cost(2, <<edge(0, 1, 7)>>, <<0>>, <<1>>, 7),
    cost(2, <<edge(0, 1, 3), edge(0, 1, 4)>>, <<0>>, <<1>>, 7),
    cost(3, <<edge(0, 0, 100), edge(0, 1, 5), edge(1, 1, 9), edge(1, 2, 2)>>, <<0>>, <<2>>, 2),
    cost(2, <<edge(1, 0, 5)>>, <<0>>, <<1>>, 0),
    cost(4, <<edge(0, 1, 5), edge(2, 3, 6)>>, <<0>>, <<3>>, 0),
    cost(5, <<edge(0, 1, 9), edge(1, 2, 4), edge(2, 3, 6), edge(3, 4, 3)>>, <<0>>, <<4>>, 3),
    cost(4, <<edge(0, 1, 5), edge(1, 3, 5), edge(0, 2, 8), edge(2, 3, 8)>>, <<0>>, <<3>>, 13),
    cost(6, <<edge(0, 2, 10), edge(1, 2, 1), edge(2, 3, 4), edge(3, 4, 3), edge(3, 5, 2),
              edge(0, 4, 12), edge(1, 5, 8)>>, <<0, 1>>, <<4, 5>>, 24),
    cost(3, <<edge(0, 1, 4), edge(0, 2, 6)>>, <<0>>, <<1, 2>>, 10),
    refused([n |-> 1, edges |-> <<>>, sources |-> <<0>>, sinks |-> <<1>>]),
    cost(2, <<edge(0, 1, 11)>>, <<0>>, <<1>>, 11)>>

verifyIncidentLifecycle ==
  <<create([n |-> 5, deadline |-> 30, releases |-> <<release(0, 2)>>, intakes |-> <<4>>,
            pipes |-> <<pipe(0, 1, 2), pipe(0, 1, 10), pipe(1, 1, 1), pipe(1, 2, 3),
                        pipe(2, 0, 1), pipe(2, 3, 2), pipe(3, 4, 4)>>]),
    [step(1, "scheduled", {}) EXCEPT !.vital = TRUE],
    step(3, "propagating", {<<0, 2>>}),
    [step(3, "propagating", {}) EXCEPT !.vital = TRUE],
    conflict(2, "clock_regression"),
    step(6, "propagating", {<<1, 4>>}),
    step(8, "propagating", {<<2, 7>>}),
    step(12, "propagating", {<<3, 9>>}),
    breach(13, {<<4, 13>>}, {<<0, 2>>, <<1, 4>>, <<2, 7>>, <<3, 9>>, <<4, 13>>}),
    conflict(14, "incident_terminal"),
    conflict(12, "clock_regression"),
    step(13, "breached", {})>>

verifyContained ==
  <<create([n |-> 4, deadline |-> 5, releases |-> <<release(0, 0)>>, intakes |-> <<3>>,
            pipes |-> <<pipe(0, 1, 1), pipe(2, 1, 1)>>]),
    conflict(6, "past_deadline"),
    contain(5, <<1, 1>>, 3),
    conflict(6, "incident_terminal")>>

verifyMultiSource ==
  <<create([n |-> 4, deadline |-> 20, intakes |-> <<3>>,
            releases |-> <<release(0, 0), release(2, 6)>>,
            pipes |-> <<pipe(0, 1, 3), pipe(1, 2, 4), pipe(2, 3, 5)>>]),
    step(11, "breached", {<<0, 0>>, <<1, 3>>, <<2, 6>>, <<3, 11>>})>>

\* The good body the bad ones of verifyErrors differ from, each in one place.
good == [n |-> 2, deadline |-> 3, pipes |-> <<>>, releases |-> <<release(0, 0)>>, intakes |-> <<1>>]

verifyErrors ==
  <<refused([good EXCEPT !.n = 1, !.intakes = <<0>>]),
    refused([good EXCEPT !.pipes = <<pipe(0, 5, 1)>>]),
    refused([good EXCEPT !.pipes = <<pipe(0, 1, 0)>>]),
    refused([good EXCEPT !.releases = <<release(0, 9)>>]),
    refused([good EXCEPT !.intakes = <<>>]),
    create([n |-> 3, deadline |-> 5, releases |-> <<release(0, 0)>>, intakes |-> <<2>>,
            pipes |-> <<pipe(0, 1, 1), pipe(1, 2, 5)>>]),
    step(2, "propagating", {<<0, 0>>, <<1, 1>>})>>

chain ==
  [n |-> 6, deadline |-> 20, releases |-> <<release(0, 0)>>, intakes |-> <<5>>,
   pipes |-> [i \in 1 .. 5 |-> pipe(i - 1, i, 2)]]

\* Six of the fifteen minutes the goroutines race for, and six of the twenty
\* requests for one minute.
verifyConcurrentAdvances ==
  <<create(chain), race(<<1, 4, 9, 10, 12, 15>>), retry,
    create(chain), fan([c \in 1 .. 6 |-> 5])>>

IncidentSuite ==
  <<mincutSuite, verifyIncidentLifecycle, verifyContained, verifyMultiSource,
    verifyErrors, verifyConcurrentAdvances>>

=============================================================================
