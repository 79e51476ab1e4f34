--------------------------------- MODULE Dinic ---------------------------------
(***************************************************************************)
(* internal/flow: MinShutdownCost builds a network with a super source and *)
(* a super sink and runs Dinic's algorithm on it.  A breadth-first search  *)
(* gives every node its level; then a depth-first search pushes flow along *)
(* one path after the other, up arcs that climb one level, each node       *)
(* remembering in `next' the arc it has come to.  Sequences start at 1     *)
(* here, slices at 0 there.  The nodes that the breadth-first queue holds  *)
(* at one level are scanned in one step: no level depends on their order.  *)
(***************************************************************************)
EXTENDS Integers, Sequences, FiniteSets, FiniteSetsExt

CONSTANT Networks  \* the requests handleMinCut lets through to the solver

Edge(n) == [from : 0 .. n - 1, to : 0 .. n - 1, cost : Nat \ {0}]

\* validate: ids in range, costs from 1 on, endpoints not empty and disjoint;
\* self-loops, parallel edges and repeated endpoints are let through.
ASSUME NetworksAssumption ==
  \A net \in Networks :
    /\ net.n \in Nat
    /\ net.n >= 2
    /\ net.edges \in Seq(Edge(net.n))
    /\ net.sources \in Seq(0 .. net.n - 1) \ {<<>>}
    /\ net.sinks \in Seq(0 .. net.n - 1) \ {<<>>}
    /\ \A i \in DOMAIN net.sources, j \in DOMAIN net.sinks :
         net.sources[i] # net.sinks[j]

VARIABLES
  network,   \* the request
  added,     \* the calls of AddEdge made so far
  total,     \* the cost of the edges added
  g,         \* the arcs out of each node, with residual capacities
  level,     \* levels of the nodes, -1 where the search has not come
  depth,     \* the level the search has come to
  next,      \* the arc each node has come to
  path,      \* the nodes on the stack of dfs
  flow,      \* the flow pushed so far
  pc,        \* "build", "bfs", "dfs", "done"
  distance   \* history: the level of the super sink in the phase before

solver == <<level, depth, next, path, flow, distance>>
graph == <<network, added, total>>
vars == <<graph, g, pc, solver>>

superSource == network.n
superSink == network.n + 1
V == 0 .. network.n + 1

Init ==
  /\ network \in Networks
  /\ added = 0
  /\ total = 0
  /\ g = [v \in V |-> <<>>]
  /\ level = [v \in V |-> 0]
  /\ depth = 0
  /\ next = [v \in V |-> 1]
  /\ path = <<superSource>>
  /\ flow = 0
  /\ pc = "build"
  /\ distance = 0

-----------------------------------------------------------------------------
(* AddEdge.                                                                *)

\* A reverse index that is one too small.
WithEdgeMisplaced(h, u, v, c) ==
  LET forward == Append(h[u], [to |-> v, rev |-> Len(h[v]), cap |-> c])
      h1 == [h EXCEPT ![u] = forward]
  IN [h1 EXCEPT ![v] = Append(@, [to |-> u, rev |-> Len(forward), cap |-> 0])]

\* The arc u -> v and its reverse, each with the index of the other.  When
\* u = v the first one is given its own index.
WithEdge(h, u, v, c) ==
  LET forward == Append(h[u], [to |-> v, rev |-> Len(h[v]) + 1, cap |-> c])
      h1 == [h EXCEPT ![u] = forward]
  IN [h1 EXCEPT ![v] = Append(@, [to |-> u, rev |-> Len(forward), cap |-> 0])]

\* The call of AddEdge with this number.
AddEdge(k, u, v, c) ==
  /\ pc = "build"
  /\ added = k - 1
  /\ added' = k
  /\ g' = WithEdge(g, u, v, c)
  /\ UNCHANGED <<network, pc, solver>>

\* The loops of MinShutdownCost over the edges and the endpoints.
AddPipe ==
  \E i \in DOMAIN network.edges :
    LET e == network.edges[i] IN
    /\ AddEdge(i, e.from, e.to, e.cost)
    /\ total' = total + e.cost

\* An arc a cut through every edge can afford to sever.
AddSourceCheaply ==
  \E i \in DOMAIN network.sources :
    /\ AddEdge(Len(network.edges) + i, superSource, network.sources[i], total)
    /\ UNCHANGED total

AddSource ==
  \E i \in DOMAIN network.sources :
    /\ AddEdge(Len(network.edges) + i, superSource, network.sources[i], total + 1)
    /\ UNCHANGED total

AddSink ==
  \E i \in DOMAIN network.sinks :
    /\ AddEdge(Len(network.edges) + Len(network.sources) + i,
               network.sinks[i], superSink, total + 1)
    /\ UNCHANGED total

-----------------------------------------------------------------------------
(* bfs.                                                                    *)

Unlabelled == [v \in V |-> IF v = superSource THEN 0 ELSE -1]

StartMaxFlow ==
  /\ pc = "build"
  /\ added = Len(network.edges) + Len(network.sources) + Len(network.sinks)
  /\ pc' = "bfs"
  /\ level' = Unlabelled
  /\ UNCHANGED <<graph, g, depth, next, path, flow, distance>>

Frontier == {v \in V : level[v] = depth}

\* The nodes a residual arc leads to from the nodes at the current depth.
Reached ==
  {v \in V : \E u \in Frontier : \E i \in DOMAIN g[u] :
               g[u][i].to = v /\ g[u][i].cap > 0}

BfsLayer ==
  /\ pc = "bfs"
  /\ Frontier # {}
  /\ level' = [v \in V |-> IF v \in Reached /\ level[v] < 0
                             THEN depth + 1 ELSE level[v]]
  /\ depth' = depth + 1
  /\ UNCHANGED <<graph, g, next, path, flow, pc, distance>>

\* A phase that goes on with the arcs the one before had come to.
KeepCurrentArcs ==
  /\ pc = "bfs"
  /\ Frontier = {}
  /\ pc' = IF level[superSink] >= 0 THEN "dfs" ELSE "done"
  /\ path' = <<superSource>>
  /\ UNCHANGED <<graph, g, level, depth, next, flow, distance>>

\* bfs returns; MaxFlow resets the current arcs, or returns as well.
BfsEnd ==
  /\ pc = "bfs"
  /\ Frontier = {}
  /\ IF level[superSink] >= 0
       THEN pc' = "dfs" /\ next' = [v \in V |-> 1]
       ELSE pc' = "done" /\ UNCHANGED next
  /\ path' = <<superSource>>
  /\ UNCHANGED <<graph, g, level, depth, flow, distance>>

-----------------------------------------------------------------------------
(* dfs: `path' is the stack of its calls.                                  *)

Top == path[Len(path)]

\* An arc with capacity left that climbs one level.
Admissible(u, i) == g[u][i].cap > 0 /\ level[g[u][i].to] = level[u] + 1

\* The loop of the topmost call has another arc to look at.
Looking ==
  /\ pc = "dfs"
  /\ Top # superSink
  /\ next[Top] <= Len(g[Top])

Skip ==
  /\ Looking
  /\ ~Admissible(Top, next[Top])
  /\ next' = [next EXCEPT ![Top] = @ + 1]
  /\ UNCHANGED <<graph, g, level, depth, path, flow, pc, distance>>

Descend ==
  /\ Looking
  /\ Admissible(Top, next[Top])
  /\ path' = Append(path, g[Top][next[Top]].to)
  /\ UNCHANGED <<graph, g, level, depth, next, flow, pc, distance>>

Exhausted(v) == next[v] > Len(g[v])

\* The topmost call returns 0 to its caller, which takes its next arc.
Retreat ==
  /\ pc = "dfs"
  /\ Top # superSink
  /\ Exhausted(Top)
  /\ Len(path) > 1
  /\ path' = SubSeq(path, 1, Len(path) - 1)
  /\ next' = [next EXCEPT ![path[Len(path) - 1]] = @ + 1]
  /\ UNCHANGED <<graph, g, level, depth, flow, pc, distance>>

\* The first call returns 0: MaxFlow searches levels again.
PhaseEnd ==
  /\ pc = "dfs"
  /\ Exhausted(superSource)
  /\ path = <<superSource>>
  /\ pc' = "bfs"
  /\ level' = Unlabelled
  /\ depth' = 0
  /\ distance' = level[superSink]
  /\ UNCHANGED <<graph, g, next, path, flow>>

\* The arcs of the path, and their reverses, as pairs of node and index.
Carrying == {<<path[j], next[path[j]]>> : j \in 1 .. Len(path) - 1}
Reverse(a) == <<g[a[1]][a[2]].to, g[a[1]][a[2]].rev>>
Returning == {Reverse(a) : a \in Carrying}

\* The capacity of the last arc alone.
LastCapacity == g[path[Len(path) - 1]][next[path[Len(path) - 1]]].cap

Bottleneck == Min({g[a[1]][a[2]].cap : a \in Carrying})

\* An update that leaves the reverse arcs alone.
PushedForward(f) ==
  [v \in V |-> [i \in DOMAIN g[v] |->
     [g[v][i] EXCEPT !.cap = @ - (IF <<v, i>> \in Carrying THEN f ELSE 0)]]]

\* The capacities after f units have gone along the path.
Pushed(f) ==
  [v \in V |-> [i \in DOMAIN g[v] |->
     [g[v][i] EXCEPT !.cap = @ - (IF <<v, i>> \in Carrying THEN f ELSE 0)
                               + (IF <<v, i>> \in Returning THEN f ELSE 0)]]]

\* A push that moves every node of the path on to its next arc.
AugmentAndMoveOn ==
  /\ pc = "dfs"
  /\ Top = superSink
  /\ g' = Pushed(Bottleneck)
  /\ flow' = flow + Bottleneck
  /\ next' = [v \in V |-> IF \E a \in Carrying : a[1] = v THEN next[v] + 1 ELSE next[v]]
  /\ path' = <<superSource>>
  /\ UNCHANGED <<graph, level, depth, pc, distance>>

\* dfs has come to the super sink: every call pushes and returns, the current
\* arcs stay, and MaxFlow calls dfs again.
Augment ==
  /\ pc = "dfs"
  /\ Top = superSink
  /\ g' = Pushed(Bottleneck)
  /\ flow' = flow + Bottleneck
  /\ path' = <<superSource>>
  /\ UNCHANGED <<graph, level, depth, next, pc, distance>>

Next ==
  \/ AddPipe \/ AddSource \/ AddSink \/ StartMaxFlow
  \/ BfsLayer \/ BfsEnd
  \/ Skip \/ Descend \/ Retreat \/ Augment
  \/ PhaseEnd

Spec == Init /\ [][Next]_vars

\* The solver runs on.
FairSpec == Spec /\ WF_vars(Next)

-----------------------------------------------------------------------------

\* The variables keep their types: no residual capacity goes below zero, every
\* reverse index points into the arcs of its node, and no node looks further
\* than just past its arcs.
TypeOK ==
  /\ network \in Networks
  /\ added \in Nat
  /\ total \in Nat
  /\ g \in [V -> Seq([to : V, rev : Nat, cap : Nat])]
  /\ \A v \in V : \A i \in DOMAIN g[v] : g[v][i].rev \in DOMAIN g[g[v][i].to]
  /\ level \in [V -> Nat \cup {-1}]
  /\ depth \in Nat
  /\ next \in [V -> Nat \ {0}]
  /\ \A v \in V : pc = "dfs" => next[v] <= Len(g[v]) + 1
  /\ path \in Seq(V)
  /\ flow \in Nat
  /\ pc \in {"build", "bfs", "dfs", "done"}
  /\ distance \in Nat

\* All arcs, as pairs of node and index, and what is left of their capacities.
Arcs == UNION {{v} \X DOMAIN g[v] : v \in V}
CapOf == [a \in Arcs |-> g[a[1]][a[2]].cap]

CapsAt(v) == SumFunctionOnSet(CapOf, {a \in Arcs : a[1] = v})

\* The cost of the edges with these indices.
CostOf(ids) ==
  SumFunctionOnSet([i \in DOMAIN network.edges |-> network.edges[i].cost], ids)

\* The capacity of the arcs AddEdge gave v.
CostFrom(v) ==
  LET Naming(ids) == Cardinality({i \in DOMAIN ids : ids[i] = v}) IN
  IF v = superSource
    THEN Len(network.sources) * (total + 1)
    ELSE CostOf({i \in DOMAIN network.edges : network.edges[i].from = v})
           + Naming(network.sinks) * (total + 1)

\* What MaxFlow has counted is a flow: it has left the super source, arrived
\* at the super sink, and every other node has passed on what it got.
FlowConserved ==
  pc # "build" =>
    \A v \in V :
      CapsAt(v) = CostFrom(v) + (IF v = superSource THEN -flow
                                 ELSE IF v = superSink THEN flow ELSE 0)

\* Flow only moves between an arc and its reverse; the first arc of a
\* self-loop, which has itself for a reverse, never carries any.
PairsKeepTheirSum ==
  [][pc # "build" =>
       \A v \in V : \A i \in DOMAIN g[v] :
         LET r == Reverse(<<v, i>>) IN
         /\ g'[v][i].to = g[v][i].to /\ g'[v][i].rev = g[v][i].rev
         /\ g'[v][i].cap + g'[r[1]][r[2]].cap = g[v][i].cap + g[r[1]][r[2]].cap]_vars

\* The current-arc optimisation loses nothing: an arc a node has moved past in
\* this phase is of no use until the next, because it is saturated, does not
\* climb, or leads to a node that has moved past all of its own.
PassedArcsAreUseless ==
  pc = "dfs" =>
    \A v \in V : \A i \in 1 .. next[v] - 1 :
      i \in DOMAIN g[v] =>
        \/ ~Admissible(v, i)
        \/ g[v][i].to # superSink /\ Exhausted(g[v][i].to)

\* Each phase blocks every shortest path, so the super sink is further away in
\* the next one: there are at most as many phases as nodes.
PhasesGetLonger == pc = "dfs" => level[superSink] > distance

\* The cost of the edges out of a set of nodes.
CutCost(S) ==
  CostOf({i \in DOMAIN network.edges :
            network.edges[i].from \in S /\ network.edges[i].to \notin S})

Sources == {network.sources[i] : i \in DOMAIN network.sources}
Sinks == {network.sinks[i] : i \in DOMAIN network.sinks}

\* MinShutdownCost returns the least total cost of edges whose removal blocks
\* every path from a source to a sink, 0 when there is none; the cut its last
\* search leaves behind costs that much and severs no super arc.
FlowIsMinCut ==
  LET S == {v \in 0 .. network.n - 1 : level[v] >= 0} IN
  pc = "done" =>
    /\ flow = Min({CutCost(T) : T \in {U \in SUBSET (0 .. network.n - 1) :
                                       Sources \subseteq U /\ U \cap Sinks = {}}})
    /\ Sources \subseteq S /\ S \cap Sinks = {} /\ flow = CutCost(S)

\* MaxFlow returns.
Terminates == <>(pc = "done")

=============================================================================
