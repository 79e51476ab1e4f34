---------------------------- MODULE DinicFlowProofs ----------------------------
(***************************************************************************)
(* Further proofs about the solver, for any network: the phases of MaxFlow *)
(* get longer, what it has counted is a flow at every step, what it        *)
(* returns is the cost of a minimum cut, its loops end, and its numbers    *)
(* stay small.                                                             *)
(***************************************************************************)
EXTENDS DinicProofs

-----------------------------------------------------------------------------
(* Phases.                                                                 *)

\* The search starts with nothing from an earlier one.
Fresh == pc = "build" => depth = 0 /\ distance = 0

\* bfs labels no node beyond the layer it is at.
LabelsBehind == pc = "bfs" => \A v \in V : level[v] <= depth

\* A residual arc out of a labelled node, once bfs has scanned that node, leads
\* to a labelled node at most one level up; pushes only add arcs that go down.
ArcsClimbOne ==
  pc \in {"bfs", "dfs", "done"} =>
    \A u \in V : \A i \in DOMAIN g[u] :
      level[u] >= 0 /\ g[u][i].cap > 0 /\ (pc = "bfs" => level[u] < depth) =>
        level[g[u][i].to] >= 0 /\ level[g[u][i].to] <= level[u] + 1

\* The levels h of the phase before bound the new ones from below.  A node that
\* comes to lie at its old level again is one of D, those that the old levels'
\* climbing arcs still reach; the super sink is none of them.
Fences(h, D) ==
  /\ superSource \in D /\ superSink \notin D
  /\ h[superSource] = 0 /\ h[superSink] = distance
  /\ \A u \in V : \A i \in DOMAIN g[u] :
       h[u] >= 0 /\ g[u][i].cap > 0 =>
         /\ h[g[u][i].to] >= 0 /\ h[g[u][i].to] <= h[u] + 1
         /\ u \in D /\ h[g[u][i].to] = h[u] + 1 => g[u][i].to \in D
  /\ \A v \in V : level[v] >= 0 =>
       /\ h[v] >= 0 /\ h[v] <= level[v]
       /\ h[v] = level[v] => v \in D

LevelsFenced ==
  pc = "bfs" => \E h \in [V -> Nat \cup {-1}], D \in SUBSET V : Fences(h, D)

\* The last search leaves the super sink without a level.
SinkCutOff == pc = "done" => level[superSource] = 0 /\ level[superSink] < 0

PhaseInv ==
  /\ Fresh
  /\ LabelsBehind
  /\ ArcsClimbOne
  /\ LevelsFenced
  /\ SinkCutOff
  /\ PhasesGetLonger

\* The invariant of the phases holds of every network before it is built,
LEMMA PhaseInit == Init => PhaseInv
  BY DEF Init, PhaseInv, Fresh, LabelsBehind, ArcsClimbOne, LevelsFenced, SinkCutOff,
         PhasesGetLonger

\* Arcs lead to nodes.
LEMMA ArcType ==
  ASSUME DinicInv, NEW u \in V, NEW i \in DOMAIN g[u]
  PROVE  /\ g[u][i].to \in V /\ g[u][i].rev \in DOMAIN g[g[u][i].to]
         /\ g[u][i].cap \in Nat /\ g[u][i].rev \in Nat
         /\ level[u] \in Int /\ level[g[u][i].to] \in Int
  <1>1. g[u][i] \in Arc /\ \A v \in V : level[v] \in Int
    BY GraphTypes
  <1>2. g[u][i].to \in V /\ g[u][i].cap \in Nat /\ g[u][i].rev \in Nat
    BY <1>1 DEF Arc
  <1> QED
    BY <1>1, <1>2 DEF DinicInv, TypeOK

\* while AddEdge is called,
LEMMA PhaseBuild ==
  ASSUME PhaseInv, AddPipe \/ AddSource \/ AddSink
  PROVE  PhaseInv'
  <1>1. pc' = "build" /\ pc = "build" /\ UNCHANGED <<depth, distance>>
    BY DEF AddPipe, AddSource, AddSink, AddEdge, solver
  <1> QED
    BY <1>1 DEF PhaseInv, Fresh, LabelsBehind, ArcsClimbOne, LevelsFenced, SinkCutOff,
                PhasesGetLonger

\* The first search: any level is at least 0, and the super sink, at 0 in no
\* phase at all, is not the super source.
LEMMA PhaseStart ==
  ASSUME DinicInv, PhaseInv, StartMaxFlow
  PROVE  PhaseInv'
  <1>1. /\ pc = "build" /\ pc' = "bfs" /\ level' = Unlabelled /\ depth' = 0 /\ distance' = 0
        /\ UNCHANGED <<graph, g>>
    BY DEF StartMaxFlow, PhaseInv, Fresh
  <1>2. V' = V /\ superSource' = superSource /\ superSink' = superSink
    BY <1>1, SameNodes DEF graph
  <1>3. superSource \in V /\ superSink \in V /\ superSource # superSink
    BY SuperNodes DEF DinicInv, TypeOK
  <1>4. \A v \in V : level'[v] = IF v = superSource THEN 0 ELSE -1
    BY <1>1 DEF Unlabelled
  <1>5. LabelsBehind' /\ ArcsClimbOne'
    BY <1>1, <1>2, <1>4 DEF LabelsBehind, ArcsClimbOne
  <1>6. PICK h \in [V -> Nat \cup {-1}], D \in SUBSET V :
          h = [v \in V |-> 0] /\ D = V \ {superSink}
    OBVIOUS
  <1>7. Fences(h, D)'
    <2>1. \A u \in V : \A i \in DOMAIN g[u] : g[u][i].to \in V
      BY ArcType
    <2> QED
      BY <1>1, <1>2, <1>3, <1>4, <1>6, <2>1 DEF Fences
  <1>8. LevelsFenced'
    BY <1>2, <1>6, <1>7 DEF LevelsFenced
  <1> QED
    BY <1>1, <1>5, <1>8 DEF PhaseInv, Fresh, SinkCutOff, PhasesGetLonger

\* when bfs has labelled one more layer,
LEMMA PhaseLayer ==
  ASSUME DinicInv, PhaseInv, BfsLayer
  PROVE  PhaseInv'
  <1>1. /\ pc = "bfs" /\ pc' = "bfs" /\ depth' = depth + 1 /\ depth \in Nat
        /\ level' = [v \in V |-> IF v \in Reached /\ level[v] < 0
                                   THEN depth + 1 ELSE level[v]]
        /\ UNCHANGED <<graph, g, distance>>
    BY DEF BfsLayer, DinicInv, TypeOK
  <1>2. V' = V /\ superSource' = superSource /\ superSink' = superSink
    BY <1>1, SameNodes DEF graph
  <1>3. \A v \in V : level[v] \in Int /\ level[v] <= depth
    BY <1>1, GraphTypes DEF PhaseInv, LabelsBehind
  <1>4. \A v \in V : /\ v \in Reached /\ level[v] < 0 => level'[v] = depth + 1
                     /\ ~(v \in Reached /\ level[v] < 0) => level'[v] = level[v]
    BY <1>1
  <1>5. LabelsBehind'
    BY <1>1, <1>2, <1>3, <1>4 DEF LabelsBehind
  <1>6. ArcsClimbOne'
    <2> SUFFICES ASSUME NEW u \in V, NEW i \in DOMAIN g[u],
                        level'[u] >= 0, g[u][i].cap > 0, level'[u] < depth + 1
                 PROVE  level'[g[u][i].to] >= 0 /\ level'[g[u][i].to] <= level'[u] + 1
      BY <1>1, <1>2 DEF ArcsClimbOne
    <2> DEFINE v == g[u][i].to
    <2>1. v \in V
      BY ArcType
    <2>2. level'[u] = level[u]
      BY <1>1, <1>4
    <2>3. CASE level[u] < depth
      <3>1. level[v] >= 0 /\ level[v] <= level[u] + 1
        BY <1>1, <2>2, <2>3 DEF PhaseInv, ArcsClimbOne
      <3> HIDE DEF v
      <3>2. level'[v] = level[v]
        BY <1>3, <1>4, <2>1, <3>1
      <3>3. level'[v] >= 0 /\ level'[v] <= level'[u] + 1
        BY <2>2, <3>1, <3>2
      <3> QED
        BY <3>3 DEF v
    <2>4. CASE level[u] = depth
      <3>1. v \in Reached
        BY <2>1, <2>4 DEF Reached, Frontier
      <3> HIDE DEF v
      <3>2. level'[v] >= 0 /\ level'[v] <= level'[u] + 1
        BY <1>1, <1>3, <1>4, <2>1, <2>2, <2>4, <3>1
      <3> QED
        BY <3>2 DEF v
    <2> QED
      BY <1>1, <1>3, <2>2, <2>3, <2>4
  <1>7. LevelsFenced'
    <2>1. PICK h \in [V -> Nat \cup {-1}], D \in SUBSET V : Fences(h, D)
      BY <1>1 DEF PhaseInv, LevelsFenced
    <2>2. ASSUME NEW v \in V, level'[v] >= 0
          PROVE  h[v] >= 0 /\ h[v] <= level'[v] /\ (h[v] = level'[v] => v \in D)
      <3>1. CASE level'[v] = level[v]
        BY <2>1, <2>2, <3>1 DEF Fences
      <3>2. CASE level'[v] # level[v]
        <4>1. v \in Reached /\ level'[v] = depth + 1
          BY <1>4, <3>2
        <4>a. PICK u \in Frontier : \E i \in DOMAIN g[u] : g[u][i].to = v /\ g[u][i].cap > 0
          BY <4>1 DEF Reached
        <4>b. PICK i \in DOMAIN g[u] : g[u][i].to = v /\ g[u][i].cap > 0
          BY <4>a
        <4>2. u \in V /\ level[u] = depth
          BY DEF Frontier
        <4>3. h[u] >= 0 /\ h[u] <= depth /\ (h[u] = depth => u \in D)
          BY <1>1, <2>1, <4>2 DEF Fences
        <4>4. h[v] >= 0 /\ h[v] <= h[u] + 1 /\ (u \in D /\ h[v] = h[u] + 1 => v \in D)
          BY <2>1, <4>b, <4>2, <4>3 DEF Fences
        <4>5. h[u] \in Int /\ h[v] \in Int
          BY <4>2
        <4> QED
          BY <1>1, <4>1, <4>3, <4>4, <4>5
      <3> QED
        BY <3>1, <3>2
    <2>3. Fences(h, D)'
      BY <1>1, <1>2, <2>1, <2>2 DEF Fences
    <2> QED
      BY <1>2, <2>3 DEF LevelsFenced
  <1> QED
    BY <1>1, <1>5, <1>6, <1>7 DEF PhaseInv, Fresh, SinkCutOff, PhasesGetLonger

\* When the search ends, the super sink has no level or a higher one: it is not
\* one of those that could keep theirs.
LEMMA PhaseSearched ==
  ASSUME DinicInv, PhaseInv, BfsEnd
  PROVE  PhaseInv'
  <1>1. /\ pc = "bfs" /\ Frontier = {} /\ UNCHANGED <<graph, g, level, depth, distance>>
        /\ \/ pc' = "dfs" /\ level[superSink] >= 0
           \/ pc' = "done" /\ ~(level[superSink] >= 0)
    BY DEF BfsEnd
  <1>2. V' = V /\ superSource' = superSource /\ superSink' = superSink
    BY <1>1, SameNodes DEF graph
  <1>3. superSource \in V /\ superSink \in V
    BY SuperNodes DEF DinicInv, TypeOK
  <1>4. \A v \in V : level[v] \in Int /\ level[v] < depth
    <2>1. \A v \in V : level[v] \in Int /\ level[v] <= depth /\ depth \in Int
      BY <1>1, GraphTypes DEF PhaseInv, LabelsBehind, DinicInv, TypeOK
    <2>2. \A v \in V : level[v] # depth
      BY <1>1 DEF Frontier
    <2> QED
      BY <2>1, <2>2
  <1>5. ArcsClimbOne'
    BY <1>1, <1>2, <1>4 DEF PhaseInv, ArcsClimbOne
  <1>6. SinkCutOff'
    BY <1>1, <1>2, <1>3, <1>4 DEF SinkCutOff, DinicInv, SourceAtZero
  <1>7. PhasesGetLonger'
    <2>1. PICK h \in [V -> Nat \cup {-1}], D \in SUBSET V : Fences(h, D)
      BY <1>1 DEF PhaseInv, LevelsFenced
    <2>2. level[superSink] >= 0 => distance <= level[superSink] /\ distance # level[superSink]
      BY <1>3, <2>1 DEF Fences
    <2>3. distance \in Nat
      BY DEF DinicInv, TypeOK
    <2> QED
      BY <1>1, <1>2, <1>3, <1>4, <2>2, <2>3 DEF PhasesGetLonger
  <1> QED
    BY <1>1, <1>5, <1>6, <1>7 DEF PhaseInv, Fresh, LabelsBehind, LevelsFenced

\* The steps of dfs that change neither arcs nor levels.
LEMMA PhaseWalk ==
  ASSUME DinicInv, PhaseInv, Skip \/ Descend \/ Retreat
  PROVE  PhaseInv'
  <1>1. pc = "dfs" /\ UNCHANGED <<graph, g, level, pc, distance>>
    BY DEF Skip, Descend, Retreat, Looking
  <1>2. V' = V /\ superSource' = superSource /\ superSink' = superSink
    BY <1>1, SameNodes DEF graph
  <1> QED
    BY <1>1, <1>2 DEF PhaseInv, Fresh, LabelsBehind, ArcsClimbOne, LevelsFenced, SinkCutOff,
                      PhasesGetLonger

\* when a push has been made: it adds arcs that go down only,
LEMMA PhaseAugment ==
  ASSUME DinicInv, PhaseInv, Augment
  PROVE  PhaseInv'
  <1>1. /\ pc = "dfs" /\ pc' = "dfs" /\ Top = superSink /\ g' = Pushed(Bottleneck)
        /\ UNCHANGED <<graph, level, depth, distance>>
    BY DEF Augment
  <1>2. V' = V /\ superSource' = superSource /\ superSink' = superSink
    BY <1>1, SameNodes DEF graph
  <1>3. /\ \A v \in V :
             /\ DOMAIN g'[v] = DOMAIN g[v]
             /\ \A i \in DOMAIN g[v] :
                  /\ g'[v][i].to = g[v][i].to
                  /\ <<v, i>> \in Carrying => g'[v][i].cap = g[v][i].cap - Bottleneck
                  /\ <<v, i>> \notin Carrying \cup Returning => g'[v][i].cap = g[v][i].cap
    BY <1>1, PushedArcs
  <1>4. Bottleneck \in Nat
    BY <1>1, CarryingArcs
  <1>5. ArcsClimbOne'
    <2> SUFFICES ASSUME NEW u \in V, NEW i \in DOMAIN g[u], level[u] >= 0, g'[u][i].cap > 0
                 PROVE  level[g[u][i].to] >= 0 /\ level[g[u][i].to] <= level[u] + 1
      <3>1. pc' = "dfs" /\ level' = level
        BY <1>1
      <3>2. \A v \in V : \A j \in DOMAIN g'[v] : j \in DOMAIN g[v] /\ g'[v][j].to = g[v][j].to
        BY <1>3
      <3> QED
        BY <1>2, <3>1, <3>2 DEF ArcsClimbOne
    <2>1. /\ g[u][i].cap \in Nat /\ level[u] \in Int /\ level[g[u][i].to] \in Int
          /\ g[u][i].to \in V
      BY ArcType
    <2>2. CASE <<u, i>> \in Returning
      <3>1. /\ level[u] = level[g[u][i].to] + 1
            /\ <<g[u][i].to, g[u][i].rev>> \in Carrying
        BY <1>1, <2>2, ReturningArcs
      <3>2. level[g[u][i].to] >= 0
        <4>1. PICK j \in 1 .. Len(path) - 1 :
                <<g[u][i].to, g[u][i].rev>> = <<path[j], next[path[j]]>>
          BY <3>1 DEF Carrying
        <4>2. Len(path) \in Nat /\ \A k \in 1 .. Len(path) : level[path[k]] = k - 1
          BY <1>1, OnThePath
        <4>3. g[u][i].to = path[j] /\ j \in 1 .. Len(path) /\ j >= 1
          BY <4>1, <4>2
        <4> QED
          BY <4>2, <4>3
      <3> QED
        BY <2>1, <3>1, <3>2
    <2>3. CASE <<u, i>> \notin Returning
      <3>1. g[u][i].cap > 0
        <4>1. \/ g'[u][i].cap = g[u][i].cap - Bottleneck
              \/ g'[u][i].cap = g[u][i].cap
          BY <1>3, <2>3
        <4> QED
          BY <1>4, <2>1, <4>1
      <3> QED
        BY <1>1, <3>1 DEF PhaseInv, ArcsClimbOne
    <2> QED
      BY <2>2, <2>3
  <1> QED
    BY <1>1, <1>2, <1>5 DEF PhaseInv, Fresh, LabelsBehind, LevelsFenced, SinkCutOff,
                            PhasesGetLonger

\* The phase ends with the super source exhausted.  The nodes exhausted, but
\* the super sink, then have no climbing arc out of them.
LEMMA PhaseOver ==
  ASSUME DinicInv, PhaseInv, PhaseEnd
  PROVE  PhaseInv'
  <1>1. /\ pc = "dfs" /\ pc' = "bfs" /\ Exhausted(superSource)
        /\ level' = Unlabelled /\ depth' = 0 /\ distance' = level[superSink]
        /\ UNCHANGED <<graph, g>>
    BY DEF PhaseEnd
  <1>2. V' = V /\ superSource' = superSource /\ superSink' = superSink
    BY <1>1, SameNodes DEF graph
  <1>3. superSource \in V /\ superSink \in V /\ superSource # superSink
    BY SuperNodes DEF DinicInv, TypeOK
  <1>4. \A v \in V : level'[v] = IF v = superSource THEN 0 ELSE -1
    BY <1>1 DEF Unlabelled
  <1>5. LabelsBehind' /\ ArcsClimbOne'
    BY <1>1, <1>2, <1>4 DEF LabelsBehind, ArcsClimbOne
  <1> DEFINE D == {v \in V : v # superSink /\ Exhausted(v)}
  <1>6. /\ superSource \in D /\ superSink \notin D /\ D \in SUBSET V
        /\ level[superSource] = 0
    BY <1>1, <1>3 DEF DinicInv, SourceAtZero
  <1>7. ASSUME NEW u \in V, NEW i \in DOMAIN g[u], level[u] >= 0, g[u][i].cap > 0
        PROVE  /\ level[g[u][i].to] >= 0 /\ level[g[u][i].to] <= level[u] + 1
               /\ u \in D /\ level[g[u][i].to] = level[u] + 1 => g[u][i].to \in D
    <2>1. level[g[u][i].to] >= 0 /\ level[g[u][i].to] <= level[u] + 1
      BY <1>1, <1>7 DEF PhaseInv, ArcsClimbOne
    <2>2. ASSUME u \in D, level[g[u][i].to] = level[u] + 1
          PROVE  g[u][i].to \in D
      <3>1. i \in 1 .. next[u] - 1
        <4>1. next[u] > Len(g[u])
          BY <2>2 DEF Exhausted
        <4>2. next[u] \in Nat /\ Len(g[u]) \in Nat /\ DOMAIN g[u] = 1 .. Len(g[u])
          BY GraphTypes
        <4> QED
          BY <4>1, <4>2
      <3>2. \/ ~Admissible(u, i)
            \/ g[u][i].to # superSink /\ Exhausted(g[u][i].to)
        BY <1>1, <3>1 DEF DinicInv, PassedArcsAreUseless
      <3>3. Admissible(u, i)
        BY <1>7, <2>2 DEF Admissible
      <3>4. g[u][i].to \in V
        BY ArcType
      <3> QED
        BY <3>2, <3>3, <3>4
    <2> QED
      BY <2>1, <2>2
  <1> HIDE DEF D
  <1>8. PICK h \in [V -> Nat \cup {-1}] : h = level
    BY GraphTypes
  <1>9. PICK E \in SUBSET V : E = D
    BY <1>6
  <1>10. Fences(h, E)'
    <2>1. \A u \in V : \A i \in DOMAIN g[u] :
            h[u] >= 0 /\ g[u][i].cap > 0 =>
              /\ h[g[u][i].to] >= 0 /\ h[g[u][i].to] <= h[u] + 1
              /\ u \in E /\ h[g[u][i].to] = h[u] + 1 => g[u][i].to \in E
      BY <1>7, <1>8, <1>9
    <2>2. \A v \in V : level'[v] >= 0 =>
            /\ h[v] >= 0 /\ h[v] <= level'[v]
            /\ h[v] = level'[v] => v \in E
      BY <1>4, <1>6, <1>8, <1>9
    <2> QED
      BY <1>1, <1>2, <1>6, <1>8, <1>9, <2>1, <2>2 DEF Fences
  <1>11. LevelsFenced'
    BY <1>2, <1>10 DEF LevelsFenced
  <1> QED
    BY <1>1, <1>5, <1>11 DEF PhaseInv, Fresh, SinkCutOff, PhasesGetLonger

\* and in a step of somebody else.
LEMMA PhaseStutter == PhaseInv /\ UNCHANGED vars => PhaseInv'
  <1> SUFFICES ASSUME PhaseInv, UNCHANGED vars PROVE PhaseInv'
    OBVIOUS
  <1>1. UNCHANGED <<graph, g, pc, level, depth, distance>>
    BY DEF vars, solver
  <1>2. V' = V /\ superSource' = superSource /\ superSink' = superSink
    BY <1>1, SameNodes DEF graph
  <1>3. UNCHANGED <<Fresh, LabelsBehind, ArcsClimbOne, SinkCutOff, PhasesGetLonger>>
    BY <1>1, <1>2 DEF Fresh, LabelsBehind, ArcsClimbOne, SinkCutOff, PhasesGetLonger
  <1>4. LevelsFenced'
    BY <1>1, <1>2 DEF PhaseInv, LevelsFenced, Fences
  <1> QED
    BY <1>3, <1>4 DEF PhaseInv

\* The levels of a phase stay fenced by those of the phase before it.
THEOREM PhaseInvariant == Spec => [](DinicInv /\ PhaseInv)
  <1>1. Init => PhaseInv
    BY PhaseInit
  <1>2. DinicInv /\ PhaseInv /\ [Next]_vars => PhaseInv'
    BY PhaseBuild, PhaseStart, PhaseLayer, PhaseSearched, PhaseWalk, PhaseAugment,
       PhaseOver, PhaseStutter DEF Next
  <1> QED
    BY <1>1, <1>2, DinicInvariant, PTL DEF Spec

\* Each phase of MaxFlow blocks every shortest path, and the next one has to
\* take longer paths.
THEOREM PhasesLengthen == Spec => []PhasesGetLonger
  BY PhaseInvariant, PTL DEF PhaseInv

-----------------------------------------------------------------------------
(* The books of the solver: what is left of the capacities.                *)

\* The nodes an arc leads from and to.
Ends(a) == <<a[1], g[a[1]][a[2]].to>>

\* The arcs between the pairs of nodes in P, and what is left of their
\* capacities.
Through(P) == {a \in Arcs : Ends(a) \in P}
Residual(P) == SumFunctionOnSet(CapOf, Through(P))

\* The calls of AddEdge so far, and the capacities they gave those arcs.
AddedPipes(P) ==
  {i \in DOMAIN network.edges :
     i <= added /\ <<network.edges[i].from, network.edges[i].to>> \in P}

AddedSources(P) ==
  {i \in DOMAIN network.sources :
     Len(network.edges) + i <= added /\ <<superSource, network.sources[i]>> \in P}

AddedSinks(P) ==
  {i \in DOMAIN network.sinks :
     Len(network.edges) + Len(network.sources) + i <= added
       /\ <<network.sinks[i], superSink>> \in P}

Given(P) ==
  CostOf(AddedPipes(P))
    + (Cardinality(AddedSources(P)) + Cardinality(AddedSinks(P))) * (total + 1)

One(b) == IF b THEN 1 ELSE 0

\* A unit that goes from x to y takes as much off the arcs between the pairs in
\* P, and off none but them, as it carries out of U.  It is so of all arcs out
\* of a node with that node, and of the arcs out of a set with that set.
Accounts(P, U) ==
  \A x, y \in V : x # y =>
    One(<<y, x>> \in P) - One(<<x, y>> \in P) = One(y \in U) - One(x \in U)

\* What has left U, but for what has arrived in it, is missing from those arcs.
FlowLeaves ==
  \A P \in SUBSET (V \X V), U \in SUBSET V : Accounts(P, U) =>
    Residual(P) = Given(P) + (IF superSink \in U THEN flow ELSE 0)
                           - (IF superSource \in U THEN flow ELSE 0)

\* The loops of MinShutdownCost end before MaxFlow starts, with the total of all costs.
AllAdded ==
  pc # "build" =>
    added = Len(network.edges) + Len(network.sources) + Len(network.sinks)

TotalIsCost == total = CostOf({i \in DOMAIN network.edges : i <= added})

BooksInv ==
  /\ IsFiniteSet(Arcs)
  /\ TotalIsCost
  /\ AllAdded
  /\ FlowLeaves

-----------------------------------------------------------------------------

\* What an arc and its capacity are.
LEMMA ArcsAre ==
  ASSUME DinicInv
  PROVE  /\ \A v \in V : \A i \in DOMAIN g[v] : <<v, i>> \in Arcs
         /\ \A a \in Arcs : /\ a = <<a[1], a[2]>> /\ a[1] \in V /\ a[2] \in DOMAIN g[a[1]]
                            /\ CapOf[a] = g[a[1]][a[2]].cap
                            /\ CapOf[a] \in Nat /\ CapOf[a] \in Int
                            /\ g[a[1]][a[2]].to \in V
  <1>1. \A v \in V : \A i \in DOMAIN g[v] : <<v, i>> \in Arcs
    BY DEF Arcs
  <1>2. \A a \in Arcs : a = <<a[1], a[2]>> /\ a[1] \in V /\ a[2] \in DOMAIN g[a[1]]
    BY DEF Arcs
  <1>3. \A a \in Arcs : CapOf[a] = g[a[1]][a[2]].cap
    BY DEF CapOf
  <1>4. \A a \in Arcs : g[a[1]][a[2]].cap \in Nat /\ g[a[1]][a[2]].to \in V
    BY <1>2, ArcType
  <1> QED
    BY <1>1, <1>2, <1>3, <1>4

\* Two values changed.
LEMMA SumTwoChanged ==
  ASSUME NEW S, IsFiniteSet(S), NEW a, NEW b, a # b,
         NEW w, \A x \in S : w[x] \in Int,
         NEW u, \A x \in S : u[x] \in Int,
         \A x \in S \ {a, b} : u[x] = w[x]
  PROVE  SumFunctionOnSet(u, S)
           = SumFunctionOnSet(w, S) + (IF a \in S THEN u[a] - w[a] ELSE 0)
                                    + (IF b \in S THEN u[b] - w[b] ELSE 0)
  <1>1. PICK z : z = [x \in S |-> IF x = a THEN u[x] ELSE w[x]]
    OBVIOUS
  <1>2. \A x \in S : z[x] \in Int /\ (x = a => z[x] = u[x]) /\ (x # a => z[x] = w[x])
    BY <1>1
  <1>3. SumFunctionOnSet(w, S) \in Int /\ SumFunctionOnSet(z, S) \in Int
        /\ SumFunctionOnSet(u, S) \in Int
    BY <1>2, SumInt
  <1>4. SumFunctionOnSet(z, S) = SumFunctionOnSet(w, S) + (IF a \in S THEN u[a] - w[a] ELSE 0)
    <2>1. CASE a \in S
      <3>1. \A x \in S \ {a} : z[x] = w[x]
        BY <1>2
      <3>2. SumFunctionOnSet(z, S) = SumFunctionOnSet(w, S) + (z[a] - w[a])
        BY <1>2, <2>1, <3>1, SumChanged
      <3> QED
        BY <1>2, <2>1, <3>2
    <2>2. CASE a \notin S
      <3>1. SumFunctionOnSet(z, S) = SumFunctionOnSet(w, S)
        BY <1>2, <2>2, SumSame
      <3> QED
        BY <1>3, <2>2, <3>1
    <2> QED
      BY <2>1, <2>2
  <1>5. SumFunctionOnSet(u, S) = SumFunctionOnSet(z, S) + (IF b \in S THEN u[b] - w[b] ELSE 0)
    <2>1. \A x \in S \ {b} : u[x] = z[x]
      BY <1>2
    <2>2. CASE b \in S
      <3>1. SumFunctionOnSet(u, S) = SumFunctionOnSet(z, S) + (u[b] - z[b])
        BY <1>2, <2>1, <2>2, SumChanged
      <3> QED
        BY <1>2, <2>2, <3>1
    <2>3. CASE b \notin S
      <3>1. SumFunctionOnSet(u, S) = SumFunctionOnSet(z, S)
        BY <1>2, <2>1, <2>3, SumSame
      <3> QED
        BY <1>3, <2>3, <3>1
    <2> QED
      BY <2>2, <2>3
  <1>6. (a \in S => u[a] - w[a] \in Int) /\ (b \in S => u[b] - w[b] \in Int)
    OBVIOUS
  <1> QED
    BY <1>3, <1>4, <1>5, <1>6

\* AddEdge.
LEMMA ArcsGrow ==
  ASSUME DinicInv, IsFiniteSet(Arcs), UNCHANGED network,
         NEW u \in V, NEW v \in V, NEW c \in Nat, g' = WithEdge(g, u, v, c),
         NEW P \in SUBSET (V \X V)
  PROVE  /\ IsFiniteSet(Arcs')
         /\ Residual(P)' = Residual(P) + (IF <<u, v>> \in P THEN c ELSE 0)
  <1> DEFINE a1 == <<u, Len(g[u]) + 1>>
             a2 == <<v, IF u = v THEN Len(g[v]) + 2 ELSE Len(g[v]) + 1>>
             Z == Through(P)
  <1>1. V' = V
    BY SameNodes
  <1>2. g \in [V -> Seq(Arc)]
    BY GraphTypes
  <1>g. PICK k : k = g'
    OBVIOUS
  <1>k. k = WithEdge(g, u, v, c)
    BY <1>g
  <1>3. /\ k \in [V -> Seq(Arc)]
        /\ \A w \in V : /\ Len(k[w]) >= Len(g[w])
                        /\ \A i \in 1 .. Len(g[w]) : k[w][i] = g[w][i]
        /\ u # v =>
             /\ Len(k[u]) = Len(g[u]) + 1
             /\ k[u][Len(g[u]) + 1] = [to |-> v, rev |-> Len(g[v]) + 1, cap |-> c]
             /\ Len(k[v]) = Len(g[v]) + 1
             /\ k[v][Len(g[v]) + 1] = [to |-> u, rev |-> Len(g[u]) + 1, cap |-> 0]
        /\ u = v =>
             /\ Len(k[u]) = Len(g[u]) + 2
             /\ k[u][Len(g[u]) + 1] = [to |-> u, rev |-> Len(g[u]) + 1, cap |-> c]
             /\ k[u][Len(g[u]) + 2] = [to |-> u, rev |-> Len(g[u]) + 1, cap |-> 0]
        /\ \A w \in V \ {u, v} : k[w] = g[w]
    <2>1. EdgeAdded(g, k, u, v, c)
      BY <1>2, <1>k, WithEdgeExtends
    <2> QED
      BY <2>1 DEF EdgeAdded
  <1>4. \A w \in V : /\ Len(g[w]) \in Nat /\ DOMAIN g[w] = 1 .. Len(g[w])
                     /\ Len(k[w]) \in Nat /\ DOMAIN k[w] = 1 .. Len(k[w])
    BY <1>2, <1>3
  <1>5. /\ \A a \in Arcs' : a = <<a[1], a[2]>> /\ a[1] \in V /\ a[2] \in DOMAIN k[a[1]]
        /\ \A w \in V : \A i \in DOMAIN k[w] : <<w, i>> \in Arcs'
    BY <1>1, <1>g DEF Arcs
  <1>6. a1[1] = u /\ a1[2] = Len(g[u]) + 1 /\ a2[1] = v /\ a1 # a2
        /\ a2[2] = IF u = v THEN Len(g[v]) + 2 ELSE Len(g[v]) + 1
    BY <1>4
  <1>7. a1 \notin Arcs /\ a2 \notin Arcs
    BY <1>4, <1>6, ArcsAre
  <1>8. a1 \in Arcs' /\ a2 \in Arcs'
    BY <1>3, <1>4, <1>5
  <1>9. /\ k[a1[1]][a1[2]].to = v /\ k[a1[1]][a1[2]].cap = c
        /\ k[a2[1]][a2[2]].to = u /\ k[a2[1]][a2[2]].cap = 0
    <2> HIDE DEF a1, a2
    <2>1. CASE u = v
      <3>1. /\ k[a1[1]][a1[2]] = [to |-> u, rev |-> Len(g[u]) + 1, cap |-> c]
            /\ k[a2[1]][a2[2]] = [to |-> u, rev |-> Len(g[u]) + 1, cap |-> 0]
        BY <1>3, <1>6, <2>1
      <3> QED
        BY <2>1, <3>1
    <2>2. CASE u # v
      <3>1. /\ k[a1[1]][a1[2]] = [to |-> v, rev |-> Len(g[v]) + 1, cap |-> c]
            /\ k[a2[1]][a2[2]] = [to |-> u, rev |-> Len(g[u]) + 1, cap |-> 0]
        BY <1>3, <1>6, <2>2
      <3> QED
        BY <3>1
    <2> QED
      BY <2>1, <2>2
  <1>10. \A a \in Arcs : a \in Arcs' /\ k[a[1]][a[2]] = g[a[1]][a[2]]
    <2> SUFFICES ASSUME NEW a \in Arcs PROVE a \in Arcs' /\ k[a[1]][a[2]] = g[a[1]][a[2]]
      OBVIOUS
    <2>1. a = <<a[1], a[2]>> /\ a[1] \in V /\ a[2] \in 1 .. Len(g[a[1]])
      BY <1>4, ArcsAre
    <2>2. k[a[1]][a[2]] = g[a[1]][a[2]] /\ Len(k[a[1]]) >= Len(g[a[1]])
      BY <1>3, <2>1
    <2>3. a[2] \in DOMAIN k[a[1]]
      BY <1>4, <2>1, <2>2
    <2> QED
      BY <1>5, <2>1, <2>2, <2>3
  <1>11. \A a \in Arcs' : a \in Arcs \/ a = a1 \/ a = a2
    <2> SUFFICES ASSUME NEW a \in Arcs', a \notin Arcs PROVE a = a1 \/ a = a2
      OBVIOUS
    <2>1. a = <<a[1], a[2]>> /\ a[1] \in V /\ a[2] \in 1 .. Len(k[a[1]])
      BY <1>4, <1>5
    <2>2. a[2] \notin 1 .. Len(g[a[1]])
      BY <1>4, <2>1, ArcsAre
    <2>3. a[1] \in {u, v}
      BY <1>3, <2>1, <2>2
    <2>4. CASE u = v
      <3>1. a[1] = u /\ (a[2] = Len(g[u]) + 1 \/ a[2] = Len(g[u]) + 2)
        BY <1>3, <1>4, <2>1, <2>2, <2>3, <2>4
      <3> QED
        BY <2>1, <2>4, <3>1
    <2>5. CASE u # v
      <3>1. a[2] = Len(g[a[1]]) + 1
        <4>1. Len(k[u]) = Len(g[u]) + 1 /\ Len(k[v]) = Len(g[v]) + 1
          BY <1>3, <2>5
        <4>2. Len(k[a[1]]) = Len(g[a[1]]) + 1
          BY <2>3, <4>1
        <4> QED
          BY <1>4, <2>1, <2>2, <4>2
      <3> QED
        BY <2>1, <2>3, <2>5, <3>1
    <2> QED
      BY <2>4, <2>5
  <1> HIDE DEF a1, a2
  <1>12. IsFiniteSet(Arcs')
    <2>1. Arcs' = (Arcs \cup {a1}) \cup {a2}
      BY <1>8, <1>10, <1>11
    <2> QED
      BY <2>1, FS_AddElement
  <1>13. PICK w : w = CapOf'
    OBVIOUS
  <1>14. /\ \A a \in Arcs' : w[a] = k[a[1]][a[2]].cap
         /\ \A a \in Arcs : w[a] = CapOf[a] /\ w[a] \in Int
         /\ w[a1] = c /\ w[a2] = 0
    <2>1. \A a \in Arcs' : w[a] = k[a[1]][a[2]].cap
      BY <1>13, <1>g DEF CapOf
    <2>2. \A a \in Arcs : w[a] = CapOf[a] /\ w[a] \in Int
      BY <1>10, <2>1, ArcsAre
    <2> QED
      BY <1>8, <1>9, <2>1, <2>2
  <1>15. PICK Y : Y = Through(P)'
    OBVIOUS
  <1>16. /\ \A a : a \in Y <=> a \in Arcs' /\ <<a[1], k[a[1]][a[2]].to>> \in P
         /\ \A a : a \in Z <=> a \in Arcs /\ <<a[1], g[a[1]][a[2]].to>> \in P
    BY <1>15, <1>g DEF Through, Ends
  <1>17. /\ Z \subseteq Arcs /\ IsFiniteSet(Z) /\ a1 \notin Z /\ a2 \notin Z
         /\ \A a \in Z : w[a] = CapOf[a] /\ w[a] \in Int /\ CapOf[a] \in Int
    BY <1>7, <1>14, <1>16, FS_Subset
  <1>18. Y = (Z \cup (IF <<u, v>> \in P THEN {a1} ELSE {})) \cup (IF <<v, u>> \in P THEN {a2} ELSE {})
    <2>1. a1 \in Y <=> <<u, v>> \in P
      BY <1>6, <1>8, <1>9, <1>16
    <2>2. a2 \in Y <=> <<v, u>> \in P
      BY <1>6, <1>8, <1>9, <1>16
    <2>3. \A a \in Arcs : a \in Y <=> a \in Z
      BY <1>10, <1>16
    <2>4. \A a \in Y : a \in Arcs \/ a = a1 \/ a = a2
      BY <1>11, <1>16
    <2> QED
      BY <1>17, <2>1, <2>2, <2>3, <2>4
  <1> HIDE DEF Z
  <1>19. SumFunctionOnSet(w, Z) = SumFunctionOnSet(CapOf, Z) /\ SumFunctionOnSet(CapOf, Z) \in Int
    BY <1>17, SumSame, SumInt
  <1>20. PICK X : X = Z \cup (IF <<u, v>> \in P THEN {a1} ELSE {})
    OBVIOUS
  <1>21. /\ IsFiniteSet(X) /\ a2 \notin X /\ \A a \in X : w[a] \in Int
         /\ SumFunctionOnSet(w, X) = SumFunctionOnSet(w, Z) + (IF <<u, v>> \in P THEN c ELSE 0)
    <2>1. CASE <<u, v>> \in P
      <3>1. X = Z \cup {a1} /\ \A a \in Z \cup {a1} : w[a] \in Int
        BY <1>14, <1>17, <1>20, <2>1
      <3>2. SumFunctionOnSet(w, Z \cup {a1}) = SumFunctionOnSet(w, Z) + w[a1]
        BY <1>17, <3>1, SumAdd
      <3>3. IsFiniteSet(Z \cup {a1}) /\ a2 \notin Z \cup {a1}
        BY <1>6, <1>17, FS_AddElement DEF a1, a2
      <3> QED
        BY <1>14, <2>1, <3>1, <3>2, <3>3
    <2>2. CASE <<u, v>> \notin P
      <3>1. X = Z
        BY <1>20, <2>2
      <3> QED
        BY <1>17, <1>19, <2>2, <3>1
    <2> QED
      BY <2>1, <2>2
  <1>22. SumFunctionOnSet(w, Y) = SumFunctionOnSet(w, X)
    <2>1. CASE <<v, u>> \in P
      <3>1. Y = X \cup {a2} /\ \A a \in X \cup {a2} : w[a] \in Int
        BY <1>14, <1>18, <1>20, <1>21, <2>1
      <3>2. SumFunctionOnSet(w, X \cup {a2}) = SumFunctionOnSet(w, X) + w[a2]
        BY <1>21, <3>1, SumAdd
      <3>3. SumFunctionOnSet(w, X) \in Int
        BY <1>21, SumInt
      <3> QED
        BY <1>14, <3>1, <3>2, <3>3
    <2>2. CASE <<v, u>> \notin P
      BY <1>18, <1>20, <2>2
    <2> QED
      BY <2>1, <2>2
  <1>23. Residual(P)' = SumFunctionOnSet(w, Y) /\ Residual(P) = SumFunctionOnSet(CapOf, Z)
    BY <1>13, <1>15 DEF Residual, Z
  <1> QED
    BY <1>12, <1>19, <1>21, <1>22, <1>23

-----------------------------------------------------------------------------
(* The books while the network is built.                                   *)

\* The edges and endpoints of a request have indices from 1 on.
LEMMA Indices ==
  ASSUME DinicInv
  PROVE  /\ Len(network.edges) \in Nat /\ DOMAIN network.edges = 1 .. Len(network.edges)
         /\ Len(network.sources) \in Nat /\ DOMAIN network.sources = 1 .. Len(network.sources)
         /\ Len(network.sinks) \in Nat /\ DOMAIN network.sinks = 1 .. Len(network.sinks)
         /\ IsFiniteSet(DOMAIN network.edges) /\ IsFiniteSet(DOMAIN network.sources)
         /\ IsFiniteSet(DOMAIN network.sinks)
         /\ \A i \in DOMAIN network.edges :
              /\ network.edges[i].from \in V /\ network.edges[i].to \in V
              /\ network.edges[i].from # superSource /\ network.edges[i].from # superSink
              /\ network.edges[i].to # superSource /\ network.edges[i].to # superSink
              /\ network.edges[i].cost \in Nat
         /\ \A i \in DOMAIN network.sources :
              /\ network.sources[i] \in V
              /\ network.sources[i] # superSource /\ network.sources[i] # superSink
         /\ \A i \in DOMAIN network.sinks :
              /\ network.sinks[i] \in V
              /\ network.sinks[i] # superSource /\ network.sinks[i] # superSink
         /\ added \in Nat /\ total \in Nat /\ flow \in Nat
         /\ superSource \in V /\ superSink \in V /\ superSource # superSink
  <1>1. network \in Networks /\ added \in Nat /\ total \in Nat /\ flow \in Nat
    BY DEF DinicInv, TypeOK
  <1>2. /\ network.n \in Nat
        /\ network.edges \in Seq(Edge(network.n))
        /\ network.sources \in Seq(0 .. network.n - 1)
        /\ network.sinks \in Seq(0 .. network.n - 1)
        /\ superSource \in V /\ superSink \in V /\ superSource # superSink
    BY <1>1, NetworksAssumption, SuperNodes
  <1>3. /\ Len(network.edges) \in Nat /\ DOMAIN network.edges = 1 .. Len(network.edges)
        /\ Len(network.sources) \in Nat /\ DOMAIN network.sources = 1 .. Len(network.sources)
        /\ Len(network.sinks) \in Nat /\ DOMAIN network.sinks = 1 .. Len(network.sinks)
    BY <1>2
  <1>4. \A x \in 0 .. network.n - 1 : x \in V /\ x # superSource /\ x # superSink
    BY <1>2 DEF V, superSource, superSink
  <1>5. \A i \in DOMAIN network.edges : network.edges[i] \in Edge(network.n)
    BY <1>2
  <1>6. \A i \in DOMAIN network.edges :
          /\ network.edges[i].from \in 0 .. network.n - 1
          /\ network.edges[i].to \in 0 .. network.n - 1
          /\ network.edges[i].cost \in Nat
    BY <1>5 DEF Edge
  <1>7. /\ \A i \in DOMAIN network.sources : network.sources[i] \in 0 .. network.n - 1
        /\ \A i \in DOMAIN network.sinks : network.sinks[i] \in 0 .. network.n - 1
    BY <1>2, SeqElement, Zenon
  <1>8. /\ IsFiniteSet(DOMAIN network.edges) /\ IsFiniteSet(DOMAIN network.sources)
        /\ IsFiniteSet(DOMAIN network.sinks)
    <2>1. \A n \in Nat : IsFiniteSet(1 .. n)
      BY FS_Interval
    <2> QED
      BY <1>3, <2>1, Zenon
  <1> QED
    BY <1>1, <1>2, <1>3, <1>4, <1>6, <1>7, <1>8

\* The edges are finitely many, and a natural number is what they cost.
LEMMA CostNat ==
  ASSUME DinicInv, NEW I \in SUBSET DOMAIN network.edges
  PROVE  CostOf(I) \in Nat /\ IsFiniteSet(I)
  <1>1. PICK w : w = [i \in DOMAIN network.edges |-> network.edges[i].cost]
    OBVIOUS
  <1>2. \A i \in I : w[i] \in Nat
    BY <1>1, Indices
  <1>3. IsFiniteSet(I)
    BY Indices, FS_Subset
  <1> QED
    BY <1>1, <1>2, <1>3, SumNat DEF CostOf

\* One more edge costs its cost.
LEMMA CostAdd ==
  ASSUME DinicInv, NEW I \in SUBSET DOMAIN network.edges,
         NEW i \in DOMAIN network.edges, i \notin I
  PROVE  CostOf(I \cup {i}) = CostOf(I) + network.edges[i].cost
  <1>1. PICK w : w = [j \in DOMAIN network.edges |-> network.edges[j].cost]
    OBVIOUS
  <1>2. \A j \in I \cup {i} : w[j] \in Int
    BY <1>1, Indices
  <1>3. IsFiniteSet(I)
    BY Indices, FS_Subset
  <1>4. w[i] = network.edges[i].cost
    BY <1>1
  <1>5. SumFunctionOnSet(w, I \cup {i}) = SumFunctionOnSet(w, I) + w[i]
    BY <1>2, <1>3, SumAdd
  <1> QED
    BY <1>1, <1>4, <1>5 DEF CostOf

\* What AddEdge has given the arcs between some pairs is a number.
LEMMA GivenNat ==
  ASSUME DinicInv, NEW P
  PROVE  /\ AddedPipes(P) \in SUBSET DOMAIN network.edges
         /\ CostOf(AddedPipes(P)) \in Nat
         /\ IsFiniteSet(AddedSources(P)) /\ Cardinality(AddedSources(P)) \in Nat
         /\ IsFiniteSet(AddedSinks(P)) /\ Cardinality(AddedSinks(P)) \in Nat
         /\ Given(P) \in Nat
  <1>1. /\ AddedPipes(P) \in SUBSET DOMAIN network.edges
        /\ AddedSources(P) \subseteq DOMAIN network.sources
        /\ AddedSinks(P) \subseteq DOMAIN network.sinks
    BY DEF AddedPipes, AddedSources, AddedSinks
  <1>2. IsFiniteSet(AddedSources(P)) /\ IsFiniteSet(AddedSinks(P))
    BY <1>1, Indices, FS_Subset
  <1>3. Cardinality(AddedSources(P)) \in Nat /\ Cardinality(AddedSinks(P)) \in Nat
    BY <1>2, FS_CardinalityType
  <1>4. CostOf(AddedPipes(P)) \in Nat
    BY <1>1, CostNat
  <1>5. \A c, s, t, m \in Nat : c + (s + t) * (m + 1) \in Nat
    OBVIOUS
  <1>6. Given(P) \in Nat
    BY <1>3, <1>4, <1>5, Indices, Zenon DEF Given
  <1> QED
    BY <1>1, <1>2, <1>3, <1>4, <1>6

\* What is left of the capacities between some nodes is an integer, the sum over
\* finitely many arcs.
LEMMA ResidualInt ==
  ASSUME DinicInv, IsFiniteSet(Arcs), NEW P
  PROVE  Residual(P) \in Int /\ IsFiniteSet(Through(P))
  <1>1. IsFiniteSet(Through(P)) /\ \A a \in Through(P) : a \in Arcs
    BY FS_Subset DEF Through
  <1>2. \A a \in Through(P) : CapOf[a] \in Int
    BY <1>1, ArcsAre
  <1> QED
    BY <1>1, <1>2, SumInt DEF Residual

\* An arc enters the books with its capacity.
LEMMA BooksGrow ==
  ASSUME DinicInv, BooksInv, UNCHANGED <<network, flow>>,
         NEW u \in V, NEW v \in V, NEW c \in Nat, g' = WithEdge(g, u, v, c),
         \A P \in SUBSET (V \X V) : Given(P)' = Given(P) + (IF <<u, v>> \in P THEN c ELSE 0)
  PROVE  IsFiniteSet(Arcs)' /\ FlowLeaves'
  <1>1. V' = V /\ superSource' = superSource /\ superSink' = superSink
    BY SameNodes
  <1>2. IsFiniteSet(Arcs)
    BY DEF BooksInv
  <1>3. ASSUME NEW P \in SUBSET (V \X V), NEW U \in SUBSET V, Accounts(P, U)
        PROVE  Residual(P)' = Given(P)' + (IF superSink \in U THEN flow ELSE 0)
                                        - (IF superSource \in U THEN flow ELSE 0)
    <2>1. Residual(P)' = Residual(P) + (IF <<u, v>> \in P THEN c ELSE 0)
      BY <1>2, ArcsGrow
    <2>2. Residual(P) = Given(P) + (IF superSink \in U THEN flow ELSE 0)
                                 - (IF superSource \in U THEN flow ELSE 0)
      BY <1>3 DEF BooksInv, FlowLeaves
    <2>3. Given(P) \in Nat /\ Residual(P) \in Int /\ flow \in Nat
      BY <1>2, GivenNat, ResidualInt, Indices
    <2> QED
      BY <2>1, <2>2, <2>3
  <1>4. FlowLeaves'
    BY <1>1, <1>3 DEF FlowLeaves, Accounts
  <1>5. IsFiniteSet(Arcs')
    <2>1. {} \in SUBSET (V \X V)
      OBVIOUS
    <2> QED
      BY <1>2, <2>1, ArcsGrow
  <1> QED
    BY <1>4, <1>5

\* One edge or endpoint more.
LEMMA CardinalityGrows ==
  ASSUME NEW S, IsFiniteSet(S), NEW i, i \notin S
  PROVE  Cardinality(S \cup {i}) = Cardinality(S) + 1
  BY FS_AddElement

\* The books balance after AddEdge of an edge,
LEMMA BooksPipe ==
  ASSUME DinicInv, BooksInv, AddPipe
  PROVE  BooksInv'
  <1>1. PICK i \in DOMAIN network.edges :
          /\ AddEdge(i, network.edges[i].from, network.edges[i].to, network.edges[i].cost)
          /\ total' = total + network.edges[i].cost
    BY DEF AddPipe
  <1> DEFINE u == network.edges[i].from
             v == network.edges[i].to
             c == network.edges[i].cost
  <1>2. /\ pc' = "build" /\ added = i - 1 /\ added' = i /\ UNCHANGED <<network, flow>>
        /\ g' = WithEdge(g, u, v, c)
    BY <1>1 DEF AddEdge, solver
  <1>3. u \in V /\ v \in V /\ c \in Nat /\ i \in Nat /\ i >= 1 /\ i <= Len(network.edges)
        /\ Len(network.sources) \in Nat /\ Len(network.edges) \in Nat
    BY Indices
  <1>4. superSource' = superSource /\ superSink' = superSink
    BY <1>2, SameNodes
  <1>5. ASSUME NEW I PROVE CostOf(I)' = CostOf(I)
    BY <1>2 DEF CostOf
  <1>6. TotalIsCost'
    <2>1. PICK I \in SUBSET DOMAIN network.edges : I = {j \in DOMAIN network.edges : j <= added}
      OBVIOUS
    <2>2. total = CostOf(I)
      BY <2>1 DEF BooksInv, TotalIsCost
    <2>3. i \notin I /\ \A j \in DOMAIN network.edges : j <= i <=> j \in I \cup {i}
      BY <1>2, <1>3, <2>1, Indices
    <2>4. {j \in DOMAIN network.edges' : j <= added'} = I \cup {i}
      BY <1>2, <2>3
    <2>5. CostOf(I \cup {i}) = CostOf(I) + c
      BY <2>3, CostAdd
    <2>6. CostOf(I \cup {i})' = CostOf(I \cup {i})
      BY <1>5
    <2> QED
      BY <1>1, <2>2, <2>4, <2>5, <2>6 DEF TotalIsCost
  <1>7. ASSUME NEW P \in SUBSET (V \X V)
        PROVE  Given(P)' = Given(P) + (IF <<u, v>> \in P THEN c ELSE 0)
    <2>a. /\ \A j \in DOMAIN network.sources :
               ~(Len(network.edges) + j <= i) /\ ~(Len(network.edges) + j <= i - 1)
          /\ \A j \in DOMAIN network.sinks :
               /\ ~(Len(network.edges) + Len(network.sources) + j <= i)
               /\ ~(Len(network.edges) + Len(network.sources) + j <= i - 1)
      <3>1. /\ \A j \in DOMAIN network.sources : j \in Nat /\ j >= 1
            /\ \A j \in DOMAIN network.sinks : j \in Nat /\ j >= 1
        BY Indices
      <3>2. \A x, y, z \in Nat : z >= 1 /\ i <= x =>
              /\ ~(x + z <= i) /\ ~(x + z <= i - 1)
              /\ ~(x + y + z <= i) /\ ~(x + y + z <= i - 1)
        BY <1>3
      <3> QED
        BY <1>3, <3>1, <3>2
    <2>1. AddedSources(P) = {} /\ AddedSinks(P) = {}
      BY <1>2, <2>a, Zenon DEF AddedSources, AddedSinks
    <2>2. AddedSources(P)' = {} /\ AddedSinks(P)' = {}
      BY <1>2, <2>a, Zenon DEF AddedSources, AddedSinks
    <2>3. \A m \in Int : (Cardinality({}) + Cardinality({})) * (m + 1) = 0
      BY FS_EmptySet
    <2>4. Given(P) = CostOf(AddedPipes(P))
      BY <2>1, <2>3, GivenNat, Indices DEF Given
    <2>5. Given(P)' = CostOf(AddedPipes(P))'
      <3>1. PICK k : k = CostOf(AddedPipes(P))'
        OBVIOUS
      <3>2. total' \in Nat
        BY <1>1, <1>3, Indices
      <3>3. k \in Nat
        <4>1. AddedPipes(P)' \in SUBSET DOMAIN network.edges
          BY <1>2 DEF AddedPipes
        <4>2. k = CostOf(AddedPipes(P)')
          BY <1>2, <3>1 DEF CostOf
        <4> QED
          BY <4>1, <4>2, CostNat
      <3> QED
        BY <2>2, <2>3, <3>1, <3>2, <3>3 DEF Given
    <2>6. PICK A \in SUBSET DOMAIN network.edges : A = AddedPipes(P)
      BY GivenNat
    <2>7. PICK B : B = AddedPipes(P)'
      OBVIOUS
    <2>8. CostOf(AddedPipes(P))' = CostOf(B)
      BY <1>2, <2>7 DEF CostOf
    <2>9. /\ i \notin A
          /\ \A j \in DOMAIN network.edges :
               j \in B <=> j \in A \/ (j = i /\ <<u, v>> \in P)
          /\ \A j \in B : j \in DOMAIN network.edges
      BY <1>2, <1>3, <2>6, <2>7, Indices DEF AddedPipes
    <2>10. CASE <<u, v>> \in P
      <3>1. B = A \cup {i}
        BY <2>9, <2>10
      <3>2. CostOf(A \cup {i}) = CostOf(A) + c
        BY <2>9, CostAdd
      <3> QED
        BY <2>4, <2>5, <2>6, <2>8, <2>10, <3>1, <3>2
    <2>11. CASE <<u, v>> \notin P
      <3>1. B = A
        BY <2>9, <2>11
      <3> QED
        BY <2>4, <2>5, <2>6, <2>8, <2>11, <3>1, GivenNat
    <2> QED
      BY <2>10, <2>11
  <1> HIDE DEF u, v, c
  <1>8. IsFiniteSet(Arcs)' /\ FlowLeaves'
    BY <1>2, <1>3, <1>7, BooksGrow
  <1> QED
    BY <1>2, <1>6, <1>8 DEF BooksInv, AllAdded

\* of a super arc to a source,
LEMMA BooksSource ==
  ASSUME DinicInv, BooksInv, AddSource
  PROVE  BooksInv'
  <1>1. PICK i \in DOMAIN network.sources :
          /\ AddEdge(Len(network.edges) + i, superSource, network.sources[i], total + 1)
          /\ total' = total
    BY DEF AddSource
  <1> DEFINE u == superSource
             v == network.sources[i]
             c == total + 1
  <1>2. /\ pc' = "build" /\ added = Len(network.edges) + i - 1
        /\ added' = Len(network.edges) + i /\ UNCHANGED <<network, flow>>
        /\ g' = WithEdge(g, u, v, c)
    <2>1. /\ pc = "build" /\ UNCHANGED <<network, pc, solver>>
          /\ added = (Len(network.edges) + i) - 1 /\ added' = Len(network.edges) + i
          /\ g' = WithEdge(g, u, v, c)
      BY <1>1 DEF AddEdge
    <2>2. Len(network.edges) \in Nat /\ Len(network.sources) \in Nat /\ i \in Nat
      BY Indices
    <2> HIDE DEF u, v, c
    <2> QED
      BY <2>1, <2>2 DEF solver
  <1>3. u \in V /\ v \in V /\ c \in Nat /\ i \in Nat /\ i >= 1 /\ i <= Len(network.sources)
        /\ Len(network.sources) \in Nat /\ Len(network.edges) \in Nat
    BY Indices
  <1>p. /\ \A j \in DOMAIN network.edges : j <= added /\ j <= added'
        /\ \A j \in DOMAIN network.sinks :
             /\ ~(Len(network.edges) + Len(network.sources) + j <= added)
             /\ ~(Len(network.edges) + Len(network.sources) + j <= added')
        /\ ~(Len(network.edges) + i <= added)
        /\ \A j \in DOMAIN network.sources :
             Len(network.edges) + j <= added'
               <=> Len(network.edges) + j <= added \/ j = i
    <2>1. PICK e, s, a, b : /\ e = Len(network.edges) /\ s = Len(network.sources)
                            /\ a = added /\ b = added'
      OBVIOUS
    <2>2. PICK E, S, T : /\ E = DOMAIN network.edges /\ S = DOMAIN network.sources
                         /\ T = DOMAIN network.sinks
      OBVIOUS
    <2>3. /\ e \in Nat /\ s \in Nat /\ i \in Nat /\ i >= 1 /\ i <= s
          /\ a = e + i - 1 /\ b = e + i
      BY <1>2, <1>3, <2>1, Zenon
    <2>4. E = 1 .. e /\ S = 1 .. s /\ \A j \in T : j \in Nat /\ j >= 1
      <3>1. \A n \in Nat : \A j \in 1 .. n : j \in Nat /\ j >= 1
        OBVIOUS
      <3> QED
        BY <2>1, <2>2, <3>1, Indices, Zenon
    <2> HIDE DEF u, v, c
    <2>5. /\ \A j \in E : j <= a /\ j <= b
          /\ \A j \in T : ~(e + s + j <= a) /\ ~(e + s + j <= b)
          /\ ~(e + i <= a)
          /\ \A j \in S : e + j <= b <=> e + j <= a \/ j = i
      BY <2>3, <2>4
    <2> QED
      BY <2>1, <2>2, <2>5, Zenon
  <1>4. superSource' = superSource /\ superSink' = superSink
    BY <1>2, SameNodes
  <1>5. ASSUME NEW I PROVE CostOf(I)' = CostOf(I)
    BY <1>2 DEF CostOf
  <1>6. TotalIsCost'
    <2>1. {j \in DOMAIN network.edges : j <= added'} = {j \in DOMAIN network.edges : j <= added}
      BY <1>p, Zenon
    <2>2. PICK I : I = {j \in DOMAIN network.edges : j <= added}
      OBVIOUS
    <2>3. total = CostOf(I) /\ CostOf(I)' = CostOf(I)
      BY <1>5, <2>2 DEF BooksInv, TotalIsCost
    <2> QED
      BY <1>1, <1>2, <2>1, <2>2, <2>3 DEF TotalIsCost
  <1>7. ASSUME NEW P \in SUBSET (V \X V)
        PROVE  Given(P)' = Given(P) + (IF <<u, v>> \in P THEN c ELSE 0)
    <2>1. PICK A : A = AddedSources(P)
      OBVIOUS
    <2>2. PICK B : B = AddedSources(P)'
      OBVIOUS
    <2>3. PICK D : D = AddedPipes(P) /\ CostOf(D) \in Nat
      BY GivenNat
    <2>4. AddedPipes(P)' = D
      BY <1>2, <1>p, <2>3, Zenon DEF AddedPipes
    <2>5. AddedSinks(P) = {} /\ AddedSinks(P)' = {}
      BY <1>2, <1>p, Zenon DEF AddedSinks
    <2>6. /\ i \notin A
          /\ \A j \in DOMAIN network.sources :
               j \in B <=> j \in A \/ (j = i /\ <<u, v>> \in P)
          /\ \A j \in B : j \in DOMAIN network.sources
          /\ \A j \in A : j \in DOMAIN network.sources
      <3>1. A = {j \in DOMAIN network.sources :
                   Len(network.edges) + j <= added /\ <<u, network.sources[j]>> \in P}
        BY <2>1 DEF AddedSources
      <3>2. B = {j \in DOMAIN network.sources :
                   Len(network.edges) + j <= added' /\ <<u, network.sources[j]>> \in P}
        BY <1>2, <1>4, <2>2 DEF AddedSources
      <3> QED
        BY <1>p, <3>1, <3>2, Zenon
    <2>7. IsFiniteSet(A) /\ Cardinality(A) \in Nat
      BY <2>1, GivenNat
    <2>8. Given(P) = CostOf(D) + Cardinality(A) * c
      BY <2>1, <2>3, <2>5, <2>7, FS_EmptySet DEF Given
    <2>9. Given(P)' = CostOf(D) + (Cardinality(B) + 0) * c
      <3>1. CostOf(D)' = CostOf(D)
        BY <1>5
      <3> QED
        BY <1>1, <2>2, <2>4, <2>5, <3>1, FS_EmptySet DEF Given
    <2>10. CASE <<u, v>> \in P
      <3>1. B = A \cup {i}
        BY <2>6, <2>10
      <3>2. Cardinality(B) = Cardinality(A) + 1
        BY <2>6, <2>7, <3>1, CardinalityGrows
      <3>3. \A d, n, m \in Nat : d + (n + 1 + 0) * m = d + n * m + m
        OBVIOUS
      <3> QED
        BY <1>3, <2>3, <2>7, <2>8, <2>9, <2>10, <3>2, <3>3
    <2>11. CASE <<u, v>> \notin P
      <3>1. B = A
        BY <2>6, <2>11
      <3>2. \A d, n, m \in Nat : d + (n + 0) * m = d + n * m + 0
        OBVIOUS
      <3> QED
        BY <1>3, <2>3, <2>7, <2>8, <2>9, <2>11, <3>1, <3>2
    <2> QED
      BY <2>10, <2>11
  <1> HIDE DEF u, v, c
  <1>8. IsFiniteSet(Arcs)' /\ FlowLeaves'
    BY <1>2, <1>3, <1>7, BooksGrow
  <1> QED
    BY <1>2, <1>6, <1>8 DEF BooksInv, AllAdded

\* of a super arc from a sink,
LEMMA BooksSink ==
  ASSUME DinicInv, BooksInv, AddSink
  PROVE  BooksInv'
  <1>1. PICK i \in DOMAIN network.sinks :
          /\ AddEdge(Len(network.edges) + Len(network.sources) + i,
                     network.sinks[i], superSink, total + 1)
          /\ total' = total
    BY DEF AddSink
  <1> DEFINE u == network.sinks[i]
             v == superSink
             c == total + 1
             m == Len(network.edges) + Len(network.sources)
  <1>2. /\ pc' = "build" /\ added = m + i - 1
        /\ added' = m + i /\ UNCHANGED <<network, flow>>
        /\ g' = WithEdge(g, u, v, c)
    <2>1. /\ pc = "build" /\ UNCHANGED <<network, pc, solver>>
          /\ added = (Len(network.edges) + Len(network.sources) + i) - 1 /\ added' = Len(network.edges) + Len(network.sources) + i
          /\ g' = WithEdge(g, u, v, c)
      BY <1>1 DEF AddEdge
    <2>2. Len(network.edges) \in Nat /\ Len(network.sources) \in Nat /\ i \in Nat
      BY Indices
    <2>3. \A x, y, z \in Nat : (x + y + z) - 1 = x + y + z - 1
      OBVIOUS
    <2> HIDE DEF u, v, c
    <2> QED
      BY <2>1, <2>2, <2>3 DEF solver
  <1>3. u \in V /\ v \in V /\ c \in Nat /\ i \in Nat /\ i >= 1 /\ i <= Len(network.sinks)
        /\ Len(network.sources) \in Nat /\ Len(network.edges) \in Nat
    BY Indices
  <1>p. /\ \A j \in DOMAIN network.edges : j <= added /\ j <= added'
        /\ \A j \in DOMAIN network.sources :
             Len(network.edges) + j <= added /\ Len(network.edges) + j <= added'
        /\ ~(Len(network.edges) + Len(network.sources) + i <= added)
        /\ \A j \in DOMAIN network.sinks :
             Len(network.edges) + Len(network.sources) + j <= added'
               <=> Len(network.edges) + Len(network.sources) + j <= added \/ j = i
    <2>1. PICK e, s, a, b : /\ e = Len(network.edges) /\ s = Len(network.sources)
                            /\ a = added /\ b = added'
      OBVIOUS
    <2>2. PICK E, S, T : /\ E = DOMAIN network.edges /\ S = DOMAIN network.sources
                         /\ T = DOMAIN network.sinks
      OBVIOUS
    <2>3. /\ e \in Nat /\ s \in Nat /\ i \in Nat /\ i >= 1
          /\ a = e + s + i - 1 /\ b = e + s + i
      BY <1>2, <1>3, <2>1, Zenon
    <2>4. E = 1 .. e /\ S = 1 .. s /\ \A j \in T : j \in Nat
      <3>1. \A n \in Nat : \A j \in 1 .. n : j \in Nat
        OBVIOUS
      <3> QED
        BY <2>1, <2>2, <3>1, Indices, Zenon
    <2> HIDE DEF u, v, c, m
    <2>5. /\ \A j \in E : j <= a /\ j <= b
          /\ \A j \in S : e + j <= a /\ e + j <= b
          /\ ~(e + s + i <= a)
          /\ \A j \in T : e + s + j <= b <=> e + s + j <= a \/ j = i
      BY <2>3, <2>4
    <2> QED
      BY <2>1, <2>2, <2>5, Zenon
  <1>4. superSource' = superSource /\ superSink' = superSink
    BY <1>2, SameNodes
  <1>5. ASSUME NEW I PROVE CostOf(I)' = CostOf(I)
    BY <1>2 DEF CostOf
  <1>6. TotalIsCost'
    <2>1. {j \in DOMAIN network.edges : j <= added'} = {j \in DOMAIN network.edges : j <= added}
      BY <1>p, Zenon
    <2>2. PICK I : I = {j \in DOMAIN network.edges : j <= added}
      OBVIOUS
    <2>3. total = CostOf(I) /\ CostOf(I)' = CostOf(I)
      BY <1>5, <2>2 DEF BooksInv, TotalIsCost
    <2> QED
      BY <1>1, <1>2, <2>1, <2>2, <2>3 DEF TotalIsCost
  <1>7. ASSUME NEW P \in SUBSET (V \X V)
        PROVE  Given(P)' = Given(P) + (IF <<u, v>> \in P THEN c ELSE 0)
    <2>1. PICK A : A = AddedSinks(P)
      OBVIOUS
    <2>2. PICK B : B = AddedSinks(P)'
      OBVIOUS
    <2>3. PICK D : D = AddedPipes(P) /\ CostOf(D) \in Nat
      BY GivenNat
    <2>4. AddedPipes(P)' = D
      BY <1>2, <1>p, <2>3, Zenon DEF AddedPipes
    <2>5. PICK E : E = AddedSources(P) /\ Cardinality(E) \in Nat
      BY GivenNat
    <2>s. AddedSources(P)' = E
      BY <1>2, <1>4, <1>p, <2>5, Zenon DEF AddedSources
    <2>6. /\ i \notin A
          /\ \A j \in DOMAIN network.sinks :
               j \in B <=> j \in A \/ (j = i /\ <<u, v>> \in P)
          /\ \A j \in B : j \in DOMAIN network.sinks
          /\ \A j \in A : j \in DOMAIN network.sinks
      <3>1. A = {j \in DOMAIN network.sinks :
                   m + j <= added /\ <<network.sinks[j], v>> \in P}
        BY <2>1 DEF AddedSinks
      <3>2. B = {j \in DOMAIN network.sinks :
                   m + j <= added' /\ <<network.sinks[j], v>> \in P}
        BY <1>2, <1>4, <2>2 DEF AddedSinks
      <3> QED
        BY <1>p, <3>1, <3>2, Zenon
    <2>7. IsFiniteSet(A) /\ Cardinality(A) \in Nat
      BY <2>1, GivenNat
    <2>8. Given(P) = CostOf(D) + (Cardinality(E) + Cardinality(A)) * c
      BY <2>1, <2>3, <2>5 DEF Given
    <2>9. Given(P)' = CostOf(D) + (Cardinality(E) + Cardinality(B)) * c
      <3>1. CostOf(D)' = CostOf(D)
        BY <1>5
      <3> QED
        BY <1>1, <2>2, <2>4, <2>s, <3>1 DEF Given
    <2>10. CASE <<u, v>> \in P
      <3>1. B = A \cup {i}
        BY <2>6, <2>10
      <3>2. Cardinality(B) = Cardinality(A) + 1
        BY <2>6, <2>7, <3>1, CardinalityGrows
      <3>3. \A d, e, n, k \in Nat : d + (e + (n + 1)) * k = d + (e + n) * k + k
        OBVIOUS
      <3> QED
        BY <1>3, <2>3, <2>5, <2>7, <2>8, <2>9, <2>10, <3>2, <3>3
    <2>11. CASE <<u, v>> \notin P
      <3>1. B = A
        BY <2>6, <2>11
      <3>2. \A d, e, n, k \in Nat : d + (e + n) * k = d + (e + n) * k + 0
        OBVIOUS
      <3> QED
        BY <1>3, <2>3, <2>5, <2>7, <2>8, <2>9, <2>11, <3>1, <3>2
    <2> QED
      BY <2>10, <2>11
  <1> HIDE DEF u, v, c
  <1>8. IsFiniteSet(Arcs)' /\ FlowLeaves'
    BY <1>2, <1>3, <1>7, BooksGrow
  <1> QED
    BY <1>2, <1>6, <1>8 DEF BooksInv, AllAdded

-----------------------------------------------------------------------------
(* The books after a push: along the path, one arc after the other.        *)

PathArc(k) == <<path[k], next[path[k]]>>

\* The capacities once the push has gone through the arcs before the j-th.
PushedUpTo(j) ==
  [a \in Arcs |-> CapOf[a] - (IF \E k \in 1 .. j - 1 : a = PathArc(k) THEN Bottleneck ELSE 0)
                           + (IF \E k \in 1 .. j - 1 : a = Reverse(PathArc(k))
                                THEN Bottleneck ELSE 0)]

\* The arcs of the path and their reverses are all different.
LEMMA PathArcs ==
  ASSUME DinicInv, pc = "dfs", Top = superSink
  PROVE  /\ \A k \in 1 .. Len(path) - 1 :
              /\ PathArc(k) \in Arcs /\ Reverse(PathArc(k)) \in Arcs
              /\ PathArc(k) # Reverse(PathArc(k))
              /\ Ends(PathArc(k)) = <<path[k], path[k + 1]>>
              /\ Ends(Reverse(PathArc(k))) = <<path[k + 1], path[k]>>
              /\ path[k] \in V /\ path[k + 1] \in V /\ path[k] # path[k + 1]
         /\ \A k, j \in 1 .. Len(path) - 1 :
              /\ PathArc(k) = PathArc(j) => k = j
              /\ Reverse(PathArc(k)) = Reverse(PathArc(j)) => k = j
              /\ PathArc(k) # Reverse(PathArc(j))
  <1>1. /\ Len(path) \in Nat
        /\ \A j \in 1 .. Len(path) : path[j] \in V /\ level[path[j]] = j - 1
        /\ \A j \in 1 .. Len(path) - 1 :
             /\ next[path[j]] \in DOMAIN g[path[j]]
             /\ g[path[j]][next[path[j]]].to = path[j + 1]
    BY OnThePath
  <1>2. ASSUME NEW k \in 1 .. Len(path) - 1
        PROVE  /\ PathArc(k) \in Arcs /\ Reverse(PathArc(k)) \in Arcs
               /\ PathArc(k)[1] = path[k] /\ Reverse(PathArc(k))[1] = path[k + 1]
               /\ Ends(PathArc(k)) = <<path[k], path[k + 1]>>
               /\ Ends(Reverse(PathArc(k))) = <<path[k + 1], path[k]>>
               /\ path[k] \in V /\ path[k + 1] \in V
               /\ PathArc(k) \in Carrying /\ Reverse(PathArc(k)) \in Returning
               /\ level[path[k]] = k - 1 /\ level[path[k + 1]] = k
    <2>1. k \in 1 .. Len(path) /\ k + 1 \in 1 .. Len(path) /\ k \in Int
      BY <1>1
    <2>2. /\ path[k] \in V /\ path[k + 1] \in V
          /\ level[path[k]] = k - 1 /\ level[path[k + 1]] = k
      BY <1>1, <2>1
    <2> DEFINE v == path[k]
               i == next[path[k]]
    <2>3. i \in DOMAIN g[v] /\ g[v][i].to = path[k + 1] /\ PathArc(k) = <<v, i>>
      BY <1>1 DEF PathArc
    <2>4. /\ g[v][i].rev \in DOMAIN g[path[k + 1]]
          /\ g[path[k + 1]][g[v][i].rev].to = v
      <3>1. PairsMatch(g)
        BY GraphTypes
      <3>2. /\ g[v][i].rev \in DOMAIN g[g[v][i].to]
            /\ g[g[v][i].to][g[v][i].rev].to = v
        BY <2>2, <2>3, <3>1 DEF PairsMatch
      <3> QED
        BY <2>3, <3>2
    <2>5. Reverse(PathArc(k)) = <<path[k + 1], g[v][i].rev>>
      BY <2>3 DEF Reverse
    <2>6. PathArc(k) \in Arcs /\ Reverse(PathArc(k)) \in Arcs
      BY <2>2, <2>3, <2>4, <2>5, ArcsAre
    <2>7. PathArc(k) \in Carrying
      BY DEF Carrying, PathArc
    <2>8. Reverse(PathArc(k)) \in Returning
      BY <2>7 DEF Returning
    <2>9. PICK r : r = g[v][i].rev
      OBVIOUS
    <2> HIDE DEF v, i
    <2>10. Ends(PathArc(k)) = <<v, path[k + 1]>> /\ PathArc(k)[1] = v
      BY <2>3 DEF Ends
    <2>11. Ends(Reverse(PathArc(k))) = <<path[k + 1], v>> /\ Reverse(PathArc(k))[1] = path[k + 1]
      BY <2>4, <2>5, <2>9 DEF Ends
    <2> QED
      BY <2>2, <2>6, <2>7, <2>8, <2>10, <2>11 DEF v
  <1>3. ASSUME NEW k \in 1 .. Len(path) - 1, NEW j \in 1 .. Len(path) - 1
        PROVE  PathArc(k) # Reverse(PathArc(j))
    <2>1. PICK a : a = Reverse(PathArc(j)) /\ a \in Arcs /\ a \in Returning
      BY <1>2
    <2>2. PICK v \in V : \E i \in DOMAIN g[v] : a = <<v, i>>
      BY <2>1, ArcsAre
    <2>3. PICK i \in DOMAIN g[v] : a = <<v, i>>
      BY <2>2
    <2>4. a \notin Carrying
      BY <2>1, <2>3, ReturningArcs
    <2> QED
      BY <1>2, <2>1, <2>4
  <1>4. ASSUME NEW k \in 1 .. Len(path) - 1, NEW j \in 1 .. Len(path) - 1, k # j
        PROVE  PathArc(k) # PathArc(j) /\ Reverse(PathArc(k)) # Reverse(PathArc(j))
    <2>1. level[path[k]] # level[path[j]] /\ level[path[k + 1]] # level[path[j + 1]]
      <3>1. k \in Int /\ j \in Int
        BY <1>1
      <3>2. k - 1 # j - 1
        BY <1>4, <3>1
      <3> QED
        BY <1>2, <1>4, <3>2
    <2> QED
      BY <1>2, <2>1
  <1>5. \A k \in 1 .. Len(path) - 1 : path[k] # path[k + 1]
    <2> SUFFICES ASSUME NEW k \in 1 .. Len(path) - 1 PROVE path[k] # path[k + 1]
      OBVIOUS
    <2>1. k \in Int
      OBVIOUS
    <2>2. level[path[k]] # level[path[k + 1]]
      BY <1>2, <2>1
    <2> QED
      BY <2>2
  <1> QED
    BY <1>2, <1>3, <1>4, <1>5

\* One arc further.
LEMMA PushOneArc ==
  ASSUME DinicInv, pc = "dfs", Top = superSink, IsFiniteSet(Arcs),
         NEW P \in SUBSET (V \X V), NEW U \in SUBSET V, Accounts(P, U),
         NEW j \in 1 .. Len(path) - 1
  PROVE  SumFunctionOnSet(PushedUpTo(j + 1), Through(P))
           = SumFunctionOnSet(PushedUpTo(j), Through(P))
               + (IF path[j + 1] \in U THEN Bottleneck ELSE 0)
               - (IF path[j] \in U THEN Bottleneck ELSE 0)
  <1>1. PICK f \in Nat : f = Bottleneck
    BY CarryingArcs
  <1>2. PICK w : w = PushedUpTo(j)
    OBVIOUS
  <1>3. PICK u : u = PushedUpTo(j + 1)
    OBVIOUS
  <1>4. PICK a, b : a = PathArc(j) /\ b = Reverse(PathArc(j))
    OBVIOUS
  <1> DEFINE gone(x, i) == \E k \in 1 .. i - 1 : x = PathArc(k)
             come(x, i) == \E k \in 1 .. i - 1 : x = Reverse(PathArc(k))
  <1>5. \A x \in Arcs :
          /\ CapOf[x] \in Int
          /\ w[x] = CapOf[x] - (IF gone(x, j) THEN f ELSE 0) + (IF come(x, j) THEN f ELSE 0)
          /\ u[x] = CapOf[x] - (IF gone(x, j + 1) THEN f ELSE 0)
                             + (IF come(x, j + 1) THEN f ELSE 0)
    BY <1>1, <1>2, <1>3, ArcsAre DEF PushedUpTo
  <1>6. /\ \A x : gone(x, j + 1) <=> gone(x, j) \/ x = a
        /\ \A x : come(x, j + 1) <=> come(x, j) \/ x = b
    <2>1. j \in Nat /\ \A k : k \in 1 .. (j + 1) - 1 <=> k \in 1 .. j - 1 \/ k = j
      OBVIOUS
    <2> QED
      BY <1>4, <2>1
  <1>7. ~gone(a, j) /\ ~come(b, j) /\ ~gone(b, j) /\ ~come(a, j) /\ a # b
        /\ a \in Arcs /\ b \in Arcs
    <2>1. \A k \in 1 .. j - 1 : k \in 1 .. Len(path) - 1 /\ k # j
      <3>1. Len(path) \in Nat
        BY OnThePath
      <3> QED
        BY <3>1
    <2> QED
      BY <1>4, <2>1, PathArcs
  <1> HIDE DEF gone, come
  <1>8. u[a] - w[a] = -f /\ u[b] - w[b] = f
    BY <1>5, <1>6, <1>7
  <1>9. \A x \in Arcs : w[x] \in Int /\ u[x] \in Int
    BY <1>5
  <1>10. \A x \in Arcs \ {a, b} : u[x] = w[x]
    BY <1>5, <1>6
  <1>11. PICK S : S = Through(P)
    OBVIOUS
  <1>12. IsFiniteSet(S) /\ S \subseteq Arcs
    BY <1>11, ResidualInt DEF Through
  <1>13. SumFunctionOnSet(u, S)
           = SumFunctionOnSet(w, S) + (IF a \in S THEN u[a] - w[a] ELSE 0)
                                    + (IF b \in S THEN u[b] - w[b] ELSE 0)
    BY <1>7, <1>9, <1>10, <1>12, SumTwoChanged
  <1>14. PICK s \in Int : s = SumFunctionOnSet(w, S)
    BY <1>9, <1>12, SumInt
  <1>15. /\ a \in S <=> <<path[j], path[j + 1]>> \in P
         /\ b \in S <=> <<path[j + 1], path[j]>> \in P
    BY <1>4, <1>7, <1>11, PathArcs DEF Through
  <1>16. One(b \in S) - One(a \in S) = One(path[j + 1] \in U) - One(path[j] \in U)
    BY <1>15, PathArcs DEF Accounts
  <1>17. (IF a \in S THEN u[a] - w[a] ELSE 0) + (IF b \in S THEN u[b] - w[b] ELSE 0)
           = (IF path[j + 1] \in U THEN f ELSE 0) - (IF path[j] \in U THEN f ELSE 0)
    BY <1>8, <1>16 DEF One
  <1>18. SumFunctionOnSet(u, S)
           = s + (IF path[j + 1] \in U THEN f ELSE 0) - (IF path[j] \in U THEN f ELSE 0)
    BY <1>8, <1>13, <1>14, <1>17
  <1> QED
    BY <1>1, <1>2, <1>3, <1>11, <1>14, <1>18

\* The whole path: by the first arc after which the books would be wrong.
LEMMA PushAlong ==
  ASSUME DinicInv, pc = "dfs", Top = superSink, IsFiniteSet(Arcs),
         NEW P \in SUBSET (V \X V), NEW U \in SUBSET V, Accounts(P, U)
  PROVE  SumFunctionOnSet(PushedUpTo(Len(path)), Through(P))
           = Residual(P) + (IF superSink \in U THEN Bottleneck ELSE 0)
                         - (IF superSource \in U THEN Bottleneck ELSE 0)
  <1>1. PICK f \in Nat : f = Bottleneck
    BY CarryingArcs
  <1>2. PICK n \in Nat : n = Len(path) /\ n >= 1
    BY OnThePath
  <1> DEFINE Sum(j) == SumFunctionOnSet(PushedUpTo(j), Through(P))
             In(v) == IF v \in U THEN f ELSE 0
             Bad == {j \in 1 .. n : Sum(j) # Residual(P) + In(path[j]) - In(path[1])}
  <1>3. \A j \in 1 .. n - 1 : Sum(j + 1) = Sum(j) + In(path[j + 1]) - In(path[j])
    BY <1>1, <1>2, PushOneArc
  <1>4. Residual(P) \in Int /\ IsFiniteSet(Through(P))
    BY ResidualInt
  <1>5. Sum(1) = Residual(P)
    <2>1. PICK w : w = PushedUpTo(1)
      OBVIOUS
    <2>2. \A a \in Arcs : w[a] = CapOf[a] - 0 + 0 /\ CapOf[a] \in Int
      BY <2>1, ArcsAre DEF PushedUpTo
    <2>3. \A a \in Through(P) : w[a] = CapOf[a] /\ CapOf[a] \in Int
      BY <2>2 DEF Through
    <2> QED
      BY <1>4, <2>1, <2>3, SumSame DEF Residual
  <1>6. \A v : In(v) \in Nat
    BY <1>1
  <1> HIDE DEF Sum, In
  <1>7. Bad = {}
    <2> SUFFICES ASSUME Bad # {} PROVE FALSE
      OBVIOUS
    <2>1. Bad \subseteq Nat /\ \A j \in Bad : j \in 1 .. n
      OBVIOUS
    <2>2. PICK k \in Bad : \A j \in Bad : k <= j
      <3> HIDE DEF Bad
      <3> QED
        BY <2>1, LeastNatural
    <2>3. k \in 1 .. n /\ Sum(k) # Residual(P) + In(path[k]) - In(path[1])
      OBVIOUS
    <2>4. k # 1
      BY <1>4, <1>5, <1>6, <2>3
    <2>5. PICK j \in 1 .. n - 1 : k = j + 1 /\ j \in 1 .. n
      <3>1. k - 1 \in 1 .. n - 1 /\ k - 1 \in 1 .. n /\ k = (k - 1) + 1
        BY <1>2, <2>3, <2>4
      <3> QED
        BY <3>1
    <2>6. j \notin Bad
      <3> HIDE DEF Bad
      <3>1. ~(k <= j)
        BY <2>5
      <3> QED
        BY <2>2, <3>1
    <2>7. Sum(j) = Residual(P) + In(path[j]) - In(path[1])
      BY <2>5, <2>6
    <2>8. Sum(j + 1) = Sum(j) + In(path[j + 1]) - In(path[j])
      BY <1>3
    <2> QED
      BY <1>4, <1>6, <2>3, <2>5, <2>7, <2>8
  <1>8. Sum(n) = Residual(P) + In(path[n]) - In(path[1])
    <2>1. n \in 1 .. n
      BY <1>2
    <2> QED
      BY <1>7, <2>1
  <1>9. path[n] = superSink /\ path[1] = superSource
    BY <1>2, OnThePath DEF Top
  <1> QED
    BY <1>1, <1>2, <1>8, <1>9 DEF Sum, In

\* The push is the one Augment makes.
LEMMA PushEnds ==
  ASSUME DinicInv, Augment
  PROVE  /\ Arcs' = Arcs
         /\ \A a \in Arcs : CapOf'[a] = PushedUpTo(Len(path))[a] /\ Ends(a)' = Ends(a)
  <1>1. /\ pc = "dfs" /\ Top = superSink /\ g' = Pushed(Bottleneck) /\ UNCHANGED graph
    BY DEF Augment
  <1>2. V' = V
    BY <1>1, SameNodes DEF graph
  <1>3. PICK h : h = g'
    OBVIOUS
  <1>4. \A v \in V :
          /\ DOMAIN h[v] = DOMAIN g[v]
          /\ \A i \in DOMAIN g[v] :
               /\ h[v][i].to = g[v][i].to
               /\ <<v, i>> \in Carrying => h[v][i].cap = g[v][i].cap - Bottleneck
               /\ <<v, i>> \in Returning => h[v][i].cap = g[v][i].cap + Bottleneck
               /\ <<v, i>> \notin Carrying \cup Returning => h[v][i].cap = g[v][i].cap
    BY <1>1, <1>3, PushedArcs
  <1>5. Arcs' = Arcs
    <2>1. Arcs' = UNION {{v} \X DOMAIN h[v] : v \in V}
      BY <1>2, <1>3 DEF Arcs
    <2>2. \A v \in V : {v} \X DOMAIN h[v] = {v} \X DOMAIN g[v]
      BY <1>4
    <2> QED
      BY <2>1, <2>2 DEF Arcs
  <1>6. ASSUME NEW a \in Arcs
        PROVE  CapOf'[a] = PushedUpTo(Len(path))[a] /\ Ends(a)' = Ends(a)
    <2>1. /\ a = <<a[1], a[2]>> /\ a[1] \in V /\ a[2] \in DOMAIN g[a[1]]
          /\ CapOf[a] = g[a[1]][a[2]].cap /\ CapOf[a] \in Int
      BY ArcsAre
    <2>2. CapOf'[a] = h[a[1]][a[2]].cap
      BY <1>3, <1>5 DEF CapOf
    <2>3. Ends(a)' = Ends(a)
      BY <1>3, <1>4, <2>1 DEF Ends
    <2>4. Carrying = {PathArc(k) : k \in 1 .. Len(path) - 1}
      BY DEF Carrying, PathArc
    <2>5. /\ a \in Carrying <=> \E k \in 1 .. Len(path) - 1 : a = PathArc(k)
          /\ a \in Returning <=> \E k \in 1 .. Len(path) - 1 : a = Reverse(PathArc(k))
      BY <2>4 DEF Returning
    <2>6. PushedUpTo(Len(path))[a] = CapOf[a] - (IF a \in Carrying THEN Bottleneck ELSE 0)
                                              + (IF a \in Returning THEN Bottleneck ELSE 0)
      BY <2>5 DEF PushedUpTo
    <2>7. a \in Carrying => a \notin Returning
      BY <1>1, <2>1, ReturningArcs
    <2>8. /\ a \in Carrying => h[a[1]][a[2]].cap = g[a[1]][a[2]].cap - Bottleneck
          /\ a \in Returning => h[a[1]][a[2]].cap = g[a[1]][a[2]].cap + Bottleneck
          /\ a \notin Carrying \cup Returning => h[a[1]][a[2]].cap = g[a[1]][a[2]].cap
      BY <1>4, <2>1
    <2>9. Bottleneck \in Int
      BY <1>1, CarryingArcs
    <2> QED
      BY <2>1, <2>2, <2>3, <2>6, <2>7, <2>8, <2>9
  <1> QED
    BY <1>5, <1>6

\* The books balance after a push: what leaves the super source is counted.
LEMMA BooksAugment ==
  ASSUME DinicInv, BooksInv, Augment
  PROVE  BooksInv'
  <1>1. /\ pc = "dfs" /\ pc' = "dfs" /\ Top = superSink
        /\ flow' = flow + Bottleneck /\ UNCHANGED <<network, added, total>>
    BY DEF Augment, graph
  <1>2. V' = V /\ superSource' = superSource /\ superSink' = superSink
    BY <1>1, SameNodes
  <1>3. /\ Arcs' = Arcs /\ IsFiniteSet(Arcs)
        /\ \A a \in Arcs : CapOf'[a] = PushedUpTo(Len(path))[a] /\ Ends(a)' = Ends(a)
    BY PushEnds DEF BooksInv
  <1>4. ASSUME NEW P PROVE Given(P)' = Given(P)
    BY <1>1, <1>2 DEF Given, CostOf, AddedPipes, AddedSources, AddedSinks
  <1>5. ASSUME NEW P \in SUBSET (V \X V), NEW U \in SUBSET V, Accounts(P, U)
        PROVE  Residual(P)' = Given(P) + (IF superSink \in U THEN flow' ELSE 0)
                                       - (IF superSource \in U THEN flow' ELSE 0)
    <2>1. Through(P)' = Through(P)
      BY <1>3 DEF Through
    <2>2. PICK w, u, S : w = PushedUpTo(Len(path)) /\ u = CapOf' /\ S = Through(P)
      OBVIOUS
    <2>3. IsFiniteSet(S) /\ S \subseteq Arcs
      BY <1>3, <2>2, ResidualInt DEF Through
    <2>4. Bottleneck \in Nat
      BY <1>1, CarryingArcs
    <2>5. \A a \in S : w[a] \in Int /\ u[a] = w[a]
      <3>1. \A a \in Arcs : w[a] \in Int
        BY <2>2, <2>4, ArcsAre DEF PushedUpTo
      <3> QED
        BY <1>3, <2>2, <2>3, <3>1
    <2>6. Residual(P)' = SumFunctionOnSet(w, S)
      <3>1. SumFunctionOnSet(u, S) = SumFunctionOnSet(w, S)
        BY <2>3, <2>5, SumSame
      <3> QED
        BY <2>1, <2>2, <3>1 DEF Residual
    <2>7. Residual(P)' = Residual(P) + (IF superSink \in U THEN Bottleneck ELSE 0)
                                     - (IF superSource \in U THEN Bottleneck ELSE 0)
      BY <1>1, <1>3, <1>5, <2>2, <2>6, PushAlong
    <2>8. Residual(P) = Given(P) + (IF superSink \in U THEN flow ELSE 0)
                                 - (IF superSource \in U THEN flow ELSE 0)
      BY <1>5 DEF BooksInv, FlowLeaves
    <2>9. Given(P) \in Nat /\ Residual(P) \in Int /\ flow \in Nat
      BY <1>3, GivenNat, ResidualInt, Indices
    <2>10. \A r, k, b \in Int : \A x, y \in BOOLEAN :
             r = k + (IF x THEN flow ELSE 0) - (IF y THEN flow ELSE 0) =>
               r + (IF x THEN b ELSE 0) - (IF y THEN b ELSE 0)
                 = k + (IF x THEN flow + b ELSE 0) - (IF y THEN flow + b ELSE 0)
      BY <2>9
    <2>11. PICK x, y \in BOOLEAN : (x <=> superSink \in U) /\ (y <=> superSource \in U)
      OBVIOUS
    <2>12. PICK b \in Int : b = Bottleneck
      BY <2>4
    <2> QED
      BY <1>1, <2>7, <2>8, <2>9, <2>10, <2>11, <2>12
  <1>6. FlowLeaves'
    BY <1>2, <1>4, <1>5 DEF FlowLeaves, Accounts
  <1>7. TotalIsCost'
    BY <1>1 DEF BooksInv, TotalIsCost, CostOf
  <1> QED
    BY <1>1, <1>3, <1>6, <1>7 DEF BooksInv, AllAdded

\* The steps that leave the books alone.
LEMMA BooksQuiet ==
  ASSUME BooksInv, UNCHANGED <<graph, g, flow>>, AllAdded'
  PROVE  BooksInv'
  <1>1. V' = V /\ superSource' = superSource /\ superSink' = superSink
    BY SameNodes DEF graph
  <1>2. Arcs' = Arcs /\ CapOf' = CapOf
    BY <1>1 DEF Arcs, CapOf
  <1>3. ASSUME NEW P PROVE Residual(P)' = Residual(P) /\ Given(P)' = Given(P)
    BY <1>1, <1>2 DEF Residual, Through, Ends, Given, CostOf, AddedPipes, AddedSources,
                      AddedSinks, graph
  <1>4. FlowLeaves'
    BY <1>1, <1>3 DEF BooksInv, FlowLeaves, Accounts
  <1>5. TotalIsCost'
    BY DEF BooksInv, TotalIsCost, CostOf, graph
  <1> QED
    BY <1>2, <1>4, <1>5 DEF BooksInv

\* The books are empty before the first call of AddEdge.
LEMMA BooksInit == Init => BooksInv
  <1> SUFFICES ASSUME Init PROVE BooksInv
    OBVIOUS
  <1>1. DinicInv /\ added = 0 /\ total = 0 /\ flow = 0 /\ pc = "build"
    BY DinicInit DEF Init
  <1>2. Arcs = {}
    BY DEF Arcs, Init
  <1>3. \A I : I = {} => CostOf(I) = 0
    BY SumEmpty DEF CostOf
  <1>4. /\ \A i \in DOMAIN network.edges : ~(i <= 0)
        /\ \A i \in DOMAIN network.sources : ~(Len(network.edges) + i <= 0)
        /\ \A i \in DOMAIN network.sinks :
             ~(Len(network.edges) + Len(network.sources) + i <= 0)
    <2>1. PICK e \in Nat, s \in Nat, t \in Nat :
            /\ e = Len(network.edges) /\ s = Len(network.sources) /\ t = Len(network.sinks)
            /\ DOMAIN network.edges = 1 .. e /\ DOMAIN network.sources = 1 .. s
            /\ DOMAIN network.sinks = 1 .. t
      BY <1>1, Indices, Zenon
    <2>2. /\ \A i \in 1 .. e : ~(i <= 0)
          /\ \A i \in 1 .. s : ~(e + i <= 0)
          /\ \A i \in 1 .. t : ~(e + s + i <= 0)
      OBVIOUS
    <2> QED
      BY <2>1, <2>2, Zenon
  <1>5. TotalIsCost
    BY <1>1, <1>3, <1>4 DEF TotalIsCost
  <1>6. ASSUME NEW P PROVE Residual(P) = 0 /\ Given(P) = 0
    <2>1. Residual(P) = 0
      <3>1. Through(P) = {}
        BY <1>2 DEF Through
      <3> QED
        BY <3>1, SumEmpty DEF Residual
    <2>2. AddedPipes(P) = {} /\ AddedSources(P) = {} /\ AddedSinks(P) = {}
      BY <1>1, <1>4, Zenon DEF AddedPipes, AddedSources, AddedSinks
    <2>3. Given(P) = 0
      BY <1>1, <1>3, <2>2, FS_EmptySet DEF Given
    <2> QED
      BY <2>1, <2>3
  <1>7. FlowLeaves
    BY <1>1, <1>6 DEF FlowLeaves
  <1> QED
    BY <1>1, <1>2, <1>5, <1>7, FS_EmptySet DEF BooksInv, AllAdded

\* At every step of the solver, what lies in the arcs between any nodes is what
\* AddEdge put there, moved by a flow of the value counted.
THEOREM BooksInvariant == Spec => [](DinicInv /\ BooksInv)
  <1>1. ASSUME DinicInv, BooksInv, [Next]_vars PROVE BooksInv'
    <2>1. CASE AddPipe \/ AddSource \/ AddSink
      BY <1>1, <2>1, BooksPipe, BooksSource, BooksSink
    <2>2. CASE Augment
      BY <1>1, <2>2, BooksAugment
    <2>3. CASE StartMaxFlow
      BY <1>1, <2>3, BooksQuiet DEF StartMaxFlow, graph, AllAdded
    <2>4. CASE BfsLayer \/ BfsEnd \/ PhaseEnd
      <3>1. UNCHANGED <<graph, g, flow>> /\ pc # "build"
        BY <2>4 DEF BfsLayer, BfsEnd, PhaseEnd
      <3>2. AllAdded'
        BY <1>1, <3>1 DEF BooksInv, AllAdded, graph
      <3> QED
        BY <1>1, <3>1, <3>2, BooksQuiet
    <2>5. CASE Skip \/ Descend \/ Retreat
      <3>1. UNCHANGED <<graph, g, flow>> /\ pc # "build"
        BY <2>5 DEF Skip, Descend, Retreat, Looking
      <3>2. AllAdded'
        BY <1>1, <3>1 DEF BooksInv, AllAdded, graph
      <3> QED
        BY <1>1, <3>1, <3>2, BooksQuiet
    <2>6. CASE UNCHANGED vars
      <3>1. UNCHANGED <<graph, g, flow, pc>>
        BY <2>6 DEF vars, solver
      <3>2. AllAdded'
        BY <1>1, <3>1 DEF BooksInv, AllAdded, graph
      <3> QED
        BY <1>1, <3>1, <3>2, BooksQuiet
    <2> QED
      BY <1>1, <2>1, <2>2, <2>3, <2>4, <2>5, <2>6 DEF Next
  <1> QED
    BY <1>1, BooksInit, DinicInvariant, PTL DEF Spec

-----------------------------------------------------------------------------
(* Flow conservation.                                                      *)

\* An index is one of the calls made, once all have been made.
LEMMA EveryCall ==
  ASSUME DinicInv, BooksInv, pc # "build"
  PROVE  /\ \A i \in DOMAIN network.edges : i <= added
         /\ \A i \in DOMAIN network.sources : Len(network.edges) + i <= added
         /\ \A i \in DOMAIN network.sinks :
              Len(network.edges) + Len(network.sources) + i <= added
  <1>1. PICK e \in Nat, s \in Nat, t \in Nat :
          /\ e = Len(network.edges) /\ s = Len(network.sources) /\ t = Len(network.sinks)
          /\ DOMAIN network.edges = 1 .. e /\ DOMAIN network.sources = 1 .. s
          /\ DOMAIN network.sinks = 1 .. t
    BY Indices, Zenon
  <1>2. PICK m : m = added
    OBVIOUS
  <1>3. m = e + s + t
    BY <1>1, <1>2 DEF BooksInv, AllAdded
  <1>4. /\ \A i \in 1 .. e : i <= m
        /\ \A i \in 1 .. s : e + i <= m
        /\ \A i \in 1 .. t : e + s + i <= m
    BY <1>3
  <1> QED
    BY <1>1, <1>2, <1>4, Zenon

\* The arcs out of a node were given what the edges and endpoints name it for.
LEMMA GivenToNode ==
  ASSUME DinicInv, BooksInv, pc # "build", NEW v \in V
  PROVE  Given({v} \X V) = CostFrom(v)
  <1>1. PICK P : P = {v} \X V
    OBVIOUS
  <1>2. AddedPipes(P) = {i \in DOMAIN network.edges : network.edges[i].from = v}
    BY <1>1, EveryCall, Indices DEF AddedPipes
  <1>3. AddedSources(P) = {i \in DOMAIN network.sources : superSource = v}
    BY <1>1, EveryCall, Indices DEF AddedSources
  <1>4. AddedSinks(P) = {i \in DOMAIN network.sinks : network.sinks[i] = v}
    BY <1>1, EveryCall, Indices DEF AddedSinks
  <1>5. total \in Nat
    BY Indices
  <1>6. CASE v = superSource
    <2>1. AddedPipes(P) = {} /\ AddedSinks(P) = {} /\ AddedSources(P) = DOMAIN network.sources
      BY <1>2, <1>3, <1>4, <1>6, Indices
    <2>2. CostOf({}) = 0 /\ Cardinality({}) = 0
      BY SumEmpty, FS_EmptySet DEF CostOf
    <2>3. PICK s \in Nat : s = Len(network.sources) /\ DOMAIN network.sources = 1 .. s
      BY Indices
    <2>4. Cardinality(1 .. s) = s
      BY FS_Interval
    <2>5. Given(P) = 0 + (s + 0) * (total + 1)
      BY <2>1, <2>2, <2>3, <2>4 DEF Given
    <2>6. CostFrom(v) = s * (total + 1)
      BY <1>6, <2>3 DEF CostFrom
    <2> QED
      BY <1>1, <1>5, <2>5, <2>6
  <1>7. CASE v # superSource
    <2>1. AddedSources(P) = {} /\ Cardinality({}) = 0
      BY <1>3, <1>7, FS_EmptySet
    <2>2. PICK c : c = CostOf(AddedPipes(P))
      OBVIOUS
    <2>3. PICK n \in Nat : n = Cardinality(AddedSinks(P))
      BY GivenNat
    <2>4. Given(P) = c + (0 + n) * (total + 1)
      BY <2>1, <2>2, <2>3 DEF Given
    <2>5. CostFrom(v) = c + n * (total + 1)
      BY <1>2, <1>4, <1>7, <2>2, <2>3 DEF CostFrom
    <2> QED
      BY <1>1, <2>3, <2>4, <2>5
  <1> QED
    BY <1>6, <1>7

\* For the arcs of one node this says that flow is conserved.
LEMMA BooksConserve == DinicInv /\ BooksInv => FlowConserved
  <1> SUFFICES ASSUME DinicInv, BooksInv, pc # "build", NEW v \in V
               PROVE  CapsAt(v) = CostFrom(v) + (IF v = superSource THEN -flow
                                                 ELSE IF v = superSink THEN flow ELSE 0)
    BY DEF FlowConserved
  <1> DEFINE P == {v} \X V
             U == {v}
  <1>1. P \in SUBSET (V \X V) /\ U \in SUBSET V
    OBVIOUS
  <1>2. Accounts(P, U)
    BY DEF Accounts, One
  <1>3. Residual(P) = Given(P) + (IF superSink \in U THEN flow ELSE 0)
                               - (IF superSource \in U THEN flow ELSE 0)
    BY <1>1, <1>2 DEF BooksInv, FlowLeaves
  <1>4. Through(P) = {a \in Arcs : a[1] = v}
    BY ArcsAre DEF Through, Ends
  <1>5. Residual(P) = CapsAt(v)
    BY <1>4 DEF Residual, CapsAt
  <1>6. Given(P) = CostFrom(v) /\ Given(P) \in Nat
    BY GivenToNode, GivenNat
  <1>7. flow \in Nat /\ superSource # superSink
    BY Indices
  <1> HIDE DEF P
  <1> QED
    BY <1>3, <1>5, <1>6, <1>7

\* What MaxFlow has counted is a flow.
THEOREM FlowIsConserved == Spec => []FlowConserved
  BY BooksInvariant, BooksConserve, PTL

-----------------------------------------------------------------------------
(* The minimum cut.                                                        *)

\* The sources that a set of nodes leaves out, and the sinks it takes in.
LeftOut(T) == {i \in DOMAIN network.sources : network.sources[i] \notin T}
TakenIn(T) == {i \in DOMAIN network.sinks : network.sinks[i] \in T}

\* The nodes on the side of the super source, and the pairs of nodes across.
Side(T) == T \cup {superSource}
Across(T) == Side(T) \X (V \ Side(T))

\* The flow is what the arcs across were given, less what is left of it; a
\* super arc across is worth more than all edges.
LEMMA FlowAcross ==
  ASSUME DinicInv, BooksInv, pc # "build", NEW T \in SUBSET (0 .. network.n - 1)
  PROVE  /\ CutCost(T) \in Nat /\ Residual(Across(T)) \in Nat
         /\ IsFiniteSet(LeftOut(T)) /\ Cardinality(LeftOut(T)) \in Nat
         /\ IsFiniteSet(TakenIn(T)) /\ Cardinality(TakenIn(T)) \in Nat
         /\ flow + Residual(Across(T))
              = CutCost(T)
                  + (Cardinality(LeftOut(T)) + Cardinality(TakenIn(T))) * (total + 1)
  <1> DEFINE U == Side(T)
             P == Across(T)
  <1>1. /\ T \subseteq V /\ superSource \notin T /\ superSink \notin T
        /\ superSource \in V /\ superSink \in V /\ superSource # superSink
    <2>1. network \in Networks
      BY DEF DinicInv, TypeOK
    <2> QED
      BY <2>1, SuperNodes DEF superSource, superSink
  <1>2. U \in SUBSET V /\ superSource \in U /\ superSink \notin U /\ P \in SUBSET (V \X V)
    BY <1>1 DEF Side, Across
  <1>3. \A x, y \in V : <<x, y>> \in P <=> x \in U /\ y \notin U
    BY DEF Across
  <1>4. Accounts(P, U)
    BY <1>3 DEF Accounts, One
  <1>5. Residual(P) = Given(P) + 0 - flow
    BY <1>2, <1>4 DEF BooksInv, FlowLeaves
  <1>6. \A x : x # superSource => (x \in U <=> x \in T)
    BY DEF Side
  <1> HIDE DEF U, P
  <1>7. AddedPipes(P) = {i \in DOMAIN network.edges :
                           network.edges[i].from \in T /\ network.edges[i].to \notin T}
    BY <1>3, <1>6, EveryCall, Indices DEF AddedPipes
  <1>8. AddedSources(P) = LeftOut(T)
    BY <1>1, <1>2, <1>3, <1>6, EveryCall, Indices DEF AddedSources, LeftOut
  <1>9. AddedSinks(P) = TakenIn(T)
    BY <1>1, <1>2, <1>3, <1>6, EveryCall, Indices DEF AddedSinks, TakenIn
  <1>10. Given(P) = CutCost(T)
                      + (Cardinality(LeftOut(T)) + Cardinality(TakenIn(T))) * (total + 1)
    BY <1>7, <1>8, <1>9 DEF Given, CutCost
  <1>11. CutCost(T) \in Nat
    BY <1>7, GivenNat DEF CutCost
  <1>12. /\ IsFiniteSet(LeftOut(T)) /\ Cardinality(LeftOut(T)) \in Nat
         /\ IsFiniteSet(TakenIn(T)) /\ Cardinality(TakenIn(T)) \in Nat
    BY <1>8, <1>9, GivenNat
  <1>13. Residual(P) \in Nat
    <2>1. IsFiniteSet(Through(P))
      BY ResidualInt DEF BooksInv
    <2>2. \A a \in Through(P) : CapOf[a] \in Nat
      BY ArcsAre DEF Through
    <2> QED
      BY <2>1, <2>2, SumNat DEF Residual
  <1>14. Given(P) \in Nat /\ flow \in Nat
    BY GivenNat, Indices
  <1>15. flow + Residual(P) = Given(P)
    BY <1>5, <1>13, <1>14
  <1> QED
    BY <1>10, <1>11, <1>12, <1>13, <1>15 DEF P

Cuts == {U \in SUBSET (0 .. network.n - 1) : Sources \subseteq U /\ U \cap Sinks = {}}

\* No cut costs less than the flow.
LEMMA FlowBelowCuts ==
  ASSUME DinicInv, BooksInv, pc # "build", NEW T \in Cuts
  PROVE  flow <= CutCost(T) /\ CutCost(T) \in Nat
  <1>1. T \in SUBSET (0 .. network.n - 1)
    BY DEF Cuts
  <1>2. LeftOut(T) = {} /\ TakenIn(T) = {}
    BY DEF Cuts, Sources, Sinks, LeftOut, TakenIn
  <1>3. PICK r \in Nat, c \in Nat : r = Residual(Across(T)) /\ c = CutCost(T)
    BY <1>1, FlowAcross
  <1>4. flow + r = c + (0 + 0) * (total + 1)
    BY <1>1, <1>2, <1>3, FlowAcross, FS_EmptySet
  <1>5. flow \in Nat /\ total \in Nat
    BY Indices
  <1> QED
    BY <1>3, <1>4, <1>5

\* The sources alone are a cut, of no more than all edges.
LEMMA FlowBelowTotal ==
  ASSUME DinicInv, BooksInv, pc # "build"
  PROVE  flow <= total
  <1>1. network \in Networks
    BY DEF DinicInv, TypeOK
  <1>2. Sources \in Cuts
    <2>1. \A i \in DOMAIN network.sources : network.sources[i] \in 0 .. network.n - 1
      <3>1. network.sources \in Seq(0 .. network.n - 1)
        BY <1>1, NetworksAssumption
      <3> QED
        BY <3>1, SeqElement, Zenon
    <2>2. \A i \in DOMAIN network.sources, j \in DOMAIN network.sinks :
            network.sources[i] # network.sinks[j]
      BY <1>1, NetworksAssumption
    <2> QED
      BY <2>1, <2>2 DEF Cuts, Sources, Sinks
  <1>3. flow <= CutCost(Sources) /\ CutCost(Sources) \in Nat
    BY <1>2, FlowBelowCuts
  <1>4. CutCost(Sources) <= total
    <2>1. PICK w : w = [i \in DOMAIN network.edges |-> network.edges[i].cost]
      OBVIOUS
    <2>2. \A i \in DOMAIN network.edges : w[i] \in Nat
      BY <2>1, Indices
    <2>3. PICK R \in SUBSET DOMAIN network.edges :
            R = {i \in DOMAIN network.edges :
                   network.edges[i].from \in Sources /\ network.edges[i].to \notin Sources}
      OBVIOUS
    <2>4. SumFunctionOnSet(w, R) <= SumFunctionOnSet(w, DOMAIN network.edges)
      BY <2>2, Indices, SumOfMore
    <2>5. {i \in DOMAIN network.edges : i <= added} = DOMAIN network.edges
      BY EveryCall
    <2>6. total = SumFunctionOnSet(w, DOMAIN network.edges)
      BY <2>1, <2>5 DEF BooksInv, TotalIsCost, CostOf
    <2> QED
      BY <2>1, <2>3, <2>4, <2>6 DEF CutCost, CostOf
  <1>5. flow \in Nat /\ total \in Nat
    BY Indices
  <1> QED
    BY <1>3, <1>4, <1>5

\* At the end nothing is left across the cut the last search leaves behind, so
\* the flow meets that cut, and it is below every cut.
LEMMA BooksCut == DinicInv /\ PhaseInv /\ BooksInv => FlowIsMinCut
  <1> SUFFICES ASSUME DinicInv, PhaseInv, BooksInv, pc = "done" PROVE FlowIsMinCut
    BY DEF FlowIsMinCut
  <1> DEFINE S == {v \in 0 .. network.n - 1 : level[v] >= 0}
             Costs == {CutCost(T) : T \in Cuts}
  <1>1. S \in SUBSET (0 .. network.n - 1)
    OBVIOUS
  <1>2. /\ level[superSource] = 0 /\ level[superSink] < 0
        /\ superSource \in V /\ superSink \in V
        /\ flow \in Nat /\ total \in Nat
    BY Indices DEF PhaseInv, SinkCutOff
  <1>3. \A v \in V : v \in Side(S) <=> level[v] >= 0
    <2>1. \A v \in V : v \in 0 .. network.n - 1 \/ v = superSource \/ v = superSink
      <3>1. network.n \in Nat
        BY SuperNodes DEF DinicInv, TypeOK
      <3> QED
        BY <3>1 DEF V, superSource, superSink
    <2>2. level[superSink] \in Int /\ superSource # superSink
      BY <1>2, Indices, GraphTypes
    <2> QED
      BY <1>2, <2>1, <2>2 DEF Side
  <1>4. Residual(Across(S)) = 0
    <2>1. PICK Z : Z = Through(Across(S))
      OBVIOUS
    <2>2. IsFiniteSet(Z)
      BY <2>1, ResidualInt DEF BooksInv
    <2>3. \A a \in Z : CapOf[a] = 0
      <3> SUFFICES ASSUME NEW a \in Z PROVE CapOf[a] = 0
        OBVIOUS
      <3>1. a \in Arcs /\ Ends(a) \in Across(S)
        BY <2>1 DEF Through
      <3>2. /\ a[1] \in V /\ a[2] \in DOMAIN g[a[1]] /\ g[a[1]][a[2]].to \in V
            /\ CapOf[a] = g[a[1]][a[2]].cap /\ CapOf[a] \in Nat
        BY <3>1, ArcsAre
      <3>3. level[a[1]] >= 0 /\ ~(level[g[a[1]][a[2]].to] >= 0)
        BY <1>3, <3>1, <3>2 DEF Ends, Across
      <3>4. ~(g[a[1]][a[2]].cap > 0)
        BY <3>2, <3>3 DEF PhaseInv, ArcsClimbOne
      <3> QED
        BY <3>2, <3>4
    <2> QED
      BY <2>1, <2>2, <2>3, SumZero DEF Residual
  <1>5. PICK a \in Nat, b \in Nat, c \in Nat :
          a = Cardinality(LeftOut(S)) /\ b = Cardinality(TakenIn(S)) /\ c = CutCost(S)
    BY <1>1, FlowAcross
  <1>6. flow + 0 = c + (a + b) * (total + 1)
    BY <1>1, <1>4, <1>5, FlowAcross
  <1>7. flow <= total
    BY FlowBelowTotal
  <1>8. a = 0 /\ b = 0 /\ flow = c
    <2>1. \A m, f, x, k \in Nat : f + 0 = x + k * (m + 1) /\ f <= m => k = 0
      <3>1. \A m, k \in Nat : k >= 1 => k * (m + 1) >= m + 1
        OBVIOUS
      <3>2. \A m, k \in Nat : k * (m + 1) \in Nat
        OBVIOUS
      <3> QED
        BY <3>1, <3>2
    <2>2. a + b \in Nat
      OBVIOUS
    <2>3. a + b = 0
      BY <1>2, <1>6, <1>7, <2>1, <2>2
    <2> QED
      BY <1>2, <1>6, <2>3
  <1>9. LeftOut(S) = {} /\ TakenIn(S) = {}
    BY <1>1, <1>5, <1>8, FlowAcross, FS_EmptySet
  <1>10. Sources \subseteq S /\ S \cap Sinks = {} /\ S \in Cuts
    BY <1>1, <1>9 DEF LeftOut, TakenIn, Sources, Sinks, Cuts
  <1>11. flow \in Costs /\ \A x \in Costs : flow <= x /\ x \in Nat
    BY <1>5, <1>8, <1>10, FlowBelowCuts
  <1>12. flow = Min(Costs)
    <2> HIDE DEF Costs
    <2>1. Costs \subseteq Nat /\ Costs # {}
      BY <1>11
    <2>2. PICK k : k = Min(Costs)
      OBVIOUS
    <2>3. k \in Costs /\ \A x \in Costs : k <= x
      BY <2>1, <2>2, MinOfNaturals
    <2>4. k \in Nat /\ k <= flow /\ flow <= k
      BY <1>11, <2>1, <2>3
    <2> QED
      BY <1>2, <2>2, <2>4
  <1> HIDE DEF S
  <1> QED
    BY <1>5, <1>8, <1>10, <1>12 DEF FlowIsMinCut, Cuts, S

\* MinShutdownCost returns the cost of a minimum cut, which the labels of its
\* last search mark.
THEOREM FlowIsMinimumCut == Spec => []FlowIsMinCut
  BY PhaseInvariant, BooksInvariant, BooksCut, PTL

-----------------------------------------------------------------------------
(* What the solver has still to do, for its end.                           *)

Calls == Len(network.edges) + Len(network.sources) + Len(network.sinks)

\* bfs has found some node at every level it has left behind; so the levels of
\* different nodes bound it, and with it the phases.
LevelsFilled ==
  /\ pc # "build" => \A k \in 0 .. depth - 1 : \E v \in V : level[v] = k
  /\ pc \in {"dfs", "done"} => \A v \in V : level[v] < depth

WithinBounds ==
  /\ added <= Calls
  /\ LevelsFilled
  /\ distance < Cardinality(V)

\* The nodes of a network.
LEMMA NodesAre ==
  ASSUME DinicInv
  PROVE  IsFiniteSet(V) /\ Cardinality(V) \in Nat /\ Cardinality(V) = network.n + 2
  <1>1. network.n \in Nat
    BY NetworksAssumption DEF DinicInv, TypeOK
  <1>2. 0 \in Int /\ network.n + 1 \in Int /\ ~(0 > network.n + 1)
    BY <1>1
  <1>3. IsFiniteSet(V) /\ Cardinality(V) = (network.n + 1) - 0 + 1
    BY <1>2, FS_Interval DEF V
  <1> QED
    BY <1>1, <1>3

\* There are no more levels than nodes.
LEMMA FewLevels ==
  ASSUME DinicInv, LevelsFilled, pc # "build"
  PROVE  depth <= Cardinality(V)
  <1>1. depth \in Nat /\ level \in [V -> Nat \cup {-1}]
    BY DEF DinicInv, TypeOK
  <1>2. IsFiniteSet(V) /\ Cardinality(V) \in Nat
    BY NodesAre
  <1>3. PICK f : f = [k \in 0 .. depth - 1 |-> CHOOSE v \in V : level[v] = k]
    OBVIOUS
  <1>4. \A k \in 0 .. depth - 1 : f[k] \in V /\ level[f[k]] = k
    BY <1>3 DEF LevelsFilled
  <1>5. f \in Injection(0 .. depth - 1, V)
    BY <1>3, <1>4 DEF Injection, IsInjective
  <1>6. Cardinality(0 .. depth - 1) <= Cardinality(V)
    BY <1>2, <1>5, FS_Injection
  <1>7. Cardinality(0 .. depth - 1) = IF 0 > depth - 1 THEN 0 ELSE depth - 1 - 0 + 1
    BY <1>1, FS_Interval
  <1> QED
    BY <1>1, <1>2, <1>6, <1>7

\* Nor is a path longer.
LEMMA ShortPath ==
  ASSUME DinicInv, LevelsFilled, pc = "dfs"
  PROVE  /\ Len(path) \in Nat /\ Len(path) <= Cardinality(V)
         /\ level[superSink] \in Nat /\ level[superSink] < Cardinality(V)
  <1>1. /\ depth \in Nat /\ level \in [V -> Nat \cup {-1}] /\ Cardinality(V) \in Nat
        /\ depth <= Cardinality(V) /\ superSink \in V
    BY FewLevels, NodesAre, Indices DEF DinicInv, TypeOK
  <1>2. \A v \in V : level[v] < depth
    BY DEF LevelsFilled
  <1>3. Len(path) \in Nat /\ Len(path) >= 1
        /\ path[Len(path)] \in V /\ level[path[Len(path)]] = Len(path) - 1
    BY OnThePath
  <1>4. level[superSink] >= 0
    BY DEF DinicInv, SinkLevelled
  <1>5. Len(path) - 1 < depth
    BY <1>2, <1>3
  <1>6. level[superSink] \in Nat /\ level[superSink] < depth
    BY <1>1, <1>2, <1>4
  <1> QED
    BY <1>1, <1>3, <1>5, <1>6

\* No call of AddEdge comes after the last.
LEMMA CallsAre ==
  ASSUME DinicInv
  PROVE  /\ Calls \in Nat
         /\ \A i \in DOMAIN network.edges : i <= Calls
         /\ \A i \in DOMAIN network.sources : Len(network.edges) + i <= Calls
         /\ \A i \in DOMAIN network.sinks :
              Len(network.edges) + Len(network.sources) + i <= Calls
  <1>1. PICK e, s, t : /\ e = Len(network.edges) /\ s = Len(network.sources)
                       /\ t = Len(network.sinks)
    OBVIOUS
  <1>2. PICK E, S, T : /\ E = DOMAIN network.edges /\ S = DOMAIN network.sources
                       /\ T = DOMAIN network.sinks
    OBVIOUS
  <1>3. /\ e \in Nat /\ s \in Nat /\ t \in Nat
        /\ E = 1 .. e /\ S = 1 .. s /\ T = 1 .. t
    BY <1>1, <1>2, Indices, Zenon
  <1>4. Calls = e + s + t
    BY <1>1 DEF Calls
  <1>5. /\ e + s + t \in Nat
        /\ \A i \in E : i <= e + s + t
        /\ \A i \in S : e + i <= e + s + t
        /\ \A i \in T : e + s + i <= e + s + t
    BY <1>3
  <1> QED
    BY <1>1, <1>2, <1>4, <1>5, Zenon

\* The bounds hold of every network before it is built,
LEMMA WithinBoundsInit == DinicInv /\ Init => WithinBounds
  <1> SUFFICES ASSUME DinicInv, Init PROVE WithinBounds
    OBVIOUS
  <1>1. added = 0 /\ distance = 0 /\ pc = "build"
    BY DEF Init
  <1>2. Calls \in Nat
    BY CallsAre
  <1>3. Cardinality(V) = network.n + 2 /\ network.n \in Nat
    BY NodesAre, NetworksAssumption DEF DinicInv, TypeOK
  <1> QED
    BY <1>1, <1>2, <1>3 DEF WithinBounds, LevelsFilled

\* and every step keeps them.
LEMMA WithinBoundsStep ==
  ASSUME DinicInv, PhaseInv, WithinBounds, [Next]_vars
  PROVE  WithinBounds'
  <1>1. CASE AddPipe \/ AddSource \/ AddSink
    <2>1. PICK k, u, v, c :
            /\ AddEdge(k, u, v, c)
            /\ \/ \E i \in DOMAIN network.edges : k = i
               \/ \E i \in DOMAIN network.sources : k = Len(network.edges) + i
               \/ \E i \in DOMAIN network.sinks :
                    k = Len(network.edges) + Len(network.sources) + i
      BY <1>1 DEF AddPipe, AddSource, AddSink
    <2>2. k <= Calls
      BY <2>1, CallsAre
    <2>3. added' = k /\ UNCHANGED <<network, pc, depth, level, distance>> /\ pc = "build"
      BY <2>1 DEF AddEdge, solver
    <2>4. V' = V /\ Calls' = Calls
      BY <2>3, SameNodes DEF Calls
    <2> QED
      BY <2>2, <2>3, <2>4 DEF WithinBounds, LevelsFilled
  <1>2. CASE StartMaxFlow
    <2>1. pc = "build" /\ pc' = "bfs" /\ UNCHANGED <<graph, depth, distance>>
      BY <1>2 DEF StartMaxFlow
    <2>2. depth = 0
      BY <2>1 DEF PhaseInv, Fresh
    <2>3. V' = V /\ Calls' = Calls /\ added' = added
      BY <2>1, SameNodes DEF Calls, graph
    <2>4. 0 .. depth' - 1 = {}
      BY <2>1, <2>2
    <2> QED
      BY <2>1, <2>3, <2>4 DEF WithinBounds, LevelsFilled
  <1>3. CASE BfsLayer
    <2>1. /\ pc = "bfs" /\ pc' = "bfs" /\ Frontier # {} /\ depth' = depth + 1
          /\ level' = [v \in V |-> IF v \in Reached /\ level[v] < 0
                                     THEN depth + 1 ELSE level[v]]
          /\ UNCHANGED <<graph, distance>>
      BY <1>3 DEF BfsLayer
    <2>2. V' = V /\ Calls' = Calls /\ added' = added
      BY <2>1, SameNodes DEF Calls, graph
    <2>3. depth \in Nat /\ level \in [V -> Nat \cup {-1}]
      BY DEF DinicInv, TypeOK
    <2>4. ASSUME NEW k \in 0 .. depth PROVE \E v \in V : level'[v] = k
      <3>1. PICK v \in V : level[v] = k
        <4>1. CASE k = depth
          BY <2>1, <4>1 DEF Frontier
        <4>2. CASE k # depth
          BY <2>1, <2>3, <2>4, <4>2 DEF WithinBounds, LevelsFilled
        <4> QED
          BY <4>1, <4>2
      <3>2. ~(level[v] < 0)
        BY <2>3, <2>4, <3>1
      <3> QED
        BY <2>1, <3>1, <3>2
    <2>5. depth' - 1 = depth
      BY <2>1, <2>3
    <2> QED
      BY <2>1, <2>2, <2>4, <2>5 DEF WithinBounds, LevelsFilled
  <1>4. CASE BfsEnd
    <2>1. /\ pc = "bfs" /\ pc' # "build" /\ Frontier = {}
          /\ UNCHANGED <<graph, depth, level, distance>>
      BY <1>4 DEF BfsEnd
    <2>2. V' = V /\ Calls' = Calls /\ added' = added
      BY <2>1, SameNodes DEF Calls, graph
    <2>3. ASSUME NEW v \in V PROVE level[v] < depth
      <3>1. level[v] <= depth /\ level[v] # depth
        BY <2>1 DEF PhaseInv, LabelsBehind, Frontier
      <3>2. depth \in Nat /\ level[v] \in Nat \cup {-1}
        BY DEF DinicInv, TypeOK
      <3> QED
        BY <3>1, <3>2
    <2> QED
      BY <2>1, <2>2, <2>3 DEF WithinBounds, LevelsFilled
  <1>5. CASE Skip \/ Descend \/ Retreat \/ Augment
    <2>1. pc = "dfs" /\ pc' = "dfs" /\ UNCHANGED <<graph, depth, level, distance>>
      BY <1>5 DEF Skip, Descend, Retreat, Augment, Looking
    <2>2. V' = V /\ Calls' = Calls /\ added' = added
      BY <2>1, SameNodes DEF Calls, graph
    <2> QED
      BY <2>1, <2>2 DEF WithinBounds, LevelsFilled
  <1>6. CASE PhaseEnd
    <2>1. /\ pc = "dfs" /\ pc' = "bfs" /\ depth' = 0 /\ distance' = level[superSink]
          /\ UNCHANGED graph
      BY <1>6 DEF PhaseEnd
    <2>2. V' = V /\ Calls' = Calls /\ added' = added
      BY <2>1, SameNodes DEF Calls, graph
    <2>3. level[superSink] < Cardinality(V)
      BY <2>1, ShortPath DEF WithinBounds
    <2>4. 0 .. depth' - 1 = {}
      BY <2>1
    <2> QED
      BY <2>1, <2>2, <2>3, <2>4 DEF WithinBounds, LevelsFilled
  <1>7. CASE UNCHANGED vars
    <2>1. UNCHANGED <<graph, pc, depth, level, distance>>
      BY <1>7 DEF vars, solver
    <2>2. V' = V /\ Calls' = Calls /\ added' = added
      BY <2>1, SameNodes DEF Calls, graph
    <2> QED
      BY <2>1, <2>2 DEF WithinBounds, LevelsFilled
  <1> QED
    BY <1>1, <1>2, <1>3, <1>4, <1>5, <1>6, <1>7 DEF Next
\* The phases are bounded by the nodes.
LEMMA WithinBoundsInvariant == Spec => []WithinBounds
  <1>1. DinicInv /\ Init => WithinBounds
    BY WithinBoundsInit
  <1>2. DinicInv /\ PhaseInv /\ WithinBounds /\ [Next]_vars => WithinBounds'
    BY WithinBoundsStep
  <1> QED
    BY <1>1, <1>2, DinicInvariant, PhaseInvariant, PTL DEF Spec

-----------------------------------------------------------------------------

\* The arcs v has not come to, and those that climb and have capacity left.
ArcsAhead == [v \in V |-> Len(g[v]) + 1 - next[v]]
Climbing == {a \in Arcs : Admissible(a[1], a[2])}

\* The calls of AddEdge, the phases, and the layers of bfs still to come; in
\* dfs, the arcs ahead, the arcs a push can use, and the room on the path.
Remaining ==
  << IF pc = "build" THEN Calls - added + 1 ELSE 0,
     IF pc = "done" THEN 0 ELSE Cardinality(V) - distance,
     IF pc = "bfs" THEN Cardinality(V) + 1 - depth ELSE 0,
     IF pc = "dfs" THEN SumFunctionOnSet(ArcsAhead, V) ELSE 0,
     IF pc = "dfs" THEN Cardinality(Climbing) ELSE 0,
     IF pc = "dfs" THEN Cardinality(V) - Len(path) ELSE 0 >>

\* The first component in which s and t differ is smaller in s.
Precedes(s, t) == \E i \in 1 .. 6 : s[i] < t[i] /\ \A j \in 1 .. i - 1 : s[j] = t[j]

\* Each of them is a natural number.
LEMMA RemainingNat ==
  ASSUME DinicInv, BooksInv, WithinBounds
  PROVE  /\ Remaining \in [1 .. 6 -> Nat]
         /\ IsFiniteSet(Climbing)
         /\ pc = "dfs" => \A v \in V : ArcsAhead[v] \in Nat
  <1>1. /\ added \in Nat /\ Calls \in Nat /\ distance \in Nat /\ depth \in Nat
        /\ IsFiniteSet(V) /\ Cardinality(V) \in Nat
    BY NodesAre, CallsAre DEF DinicInv, TypeOK
  <1>2. added <= Calls /\ distance < Cardinality(V) /\ LevelsFilled
    BY DEF WithinBounds
  <1>3. ASSUME pc = "dfs", NEW v \in V PROVE ArcsAhead[v] \in Nat
    <2>1. next[v] \in Nat \ {0} /\ Len(g[v]) \in Nat /\ next[v] <= Len(g[v]) + 1
      BY <1>3, GraphTypes
    <2>2. ArcsAhead[v] = Len(g[v]) + 1 - next[v]
      BY DEF ArcsAhead
    <2> QED
      BY <2>1, <2>2
  <1>4. IsFiniteSet(Climbing)
    BY FS_Subset DEF BooksInv, Climbing
  <1>5. pc = "build" => Calls - added + 1 \in Nat
    BY <1>1, <1>2
  <1>6. Cardinality(V) - distance \in Nat
    BY <1>1, <1>2
  <1>7. pc = "bfs" => Cardinality(V) + 1 - depth \in Nat
    BY <1>1, <1>2, FewLevels
  <1>8. pc = "dfs" => SumFunctionOnSet(ArcsAhead, V) \in Nat
    BY <1>1, <1>3, SumNat
  <1>9. Cardinality(Climbing) \in Nat
    BY <1>4, FS_CardinalityType
  <1>10. pc = "dfs" => Cardinality(V) - Len(path) \in Nat
    BY <1>1, <1>2, ShortPath
  <1>11. Remaining \in [1 .. 6 -> Nat]
    <2>1. PICK a, b, c, d, e, f :
            /\ a = IF pc = "build" THEN Calls - added + 1 ELSE 0
            /\ b = IF pc = "done" THEN 0 ELSE Cardinality(V) - distance
            /\ c = IF pc = "bfs" THEN Cardinality(V) + 1 - depth ELSE 0
            /\ d = IF pc = "dfs" THEN SumFunctionOnSet(ArcsAhead, V) ELSE 0
            /\ e = IF pc = "dfs" THEN Cardinality(Climbing) ELSE 0
            /\ f = IF pc = "dfs" THEN Cardinality(V) - Len(path) ELSE 0
      OBVIOUS
    <2>2. a \in Nat /\ b \in Nat /\ c \in Nat /\ d \in Nat /\ e \in Nat /\ f \in Nat
      BY <1>5, <1>6, <1>7, <1>8, <1>9, <1>10, <2>1
    <2>3. Remaining = <<a, b, c, d, e, f>>
      BY <2>1 DEF Remaining
    <2>4. <<a, b, c, d, e, f>> \in [1 .. 6 -> Nat]
      BY <2>2
    <2> QED
      BY <2>3, <2>4
  <1> QED
    BY <1>3, <1>4, <1>11

\* What the components are, one by one.
ComponentsAre ==
  /\ Remaining[1] = IF pc = "build" THEN Calls - added + 1 ELSE 0
  /\ Remaining[2] = IF pc = "done" THEN 0 ELSE Cardinality(V) - distance
  /\ Remaining[3] = IF pc = "bfs" THEN Cardinality(V) + 1 - depth ELSE 0
  /\ Remaining[4] = IF pc = "dfs" THEN SumFunctionOnSet(ArcsAhead, V) ELSE 0
  /\ Remaining[5] = IF pc = "dfs" THEN Cardinality(Climbing) ELSE 0
  /\ Remaining[6] = IF pc = "dfs" THEN Cardinality(V) - Len(path) ELSE 0

\* Two tuples are compared at the first place where they differ.
LEMMA PrecedesAt ==
  ASSUME NEW s, NEW t, NEW i \in 1 .. 6, s[i] < t[i], \A j \in 1 .. i - 1 : s[j] = t[j]
  PROVE  Precedes(s, t)
  BY DEF Precedes

\* Where that may be.
LEMMA Places ==
  /\ \A i \in {1, 2, 3, 4, 5, 6} : i \in 1 .. 6
  /\ 1 .. 1 - 1 = {} /\ 1 .. 2 - 1 = {1} /\ 1 .. 3 - 1 = {1, 2}
  /\ 1 .. 4 - 1 = {1, 2, 3} /\ 1 .. 5 - 1 = {1, 2, 3, 4}
  /\ 1 .. 6 - 1 = {1, 2, 3, 4, 5}
  OBVIOUS

\* A node that moves past an arc has fewer ahead.
LEMMA FewerAhead ==
  ASSUME DinicInv, pc = "dfs", UNCHANGED <<network, g>>, NEW u \in V,
         next' = [next EXCEPT ![u] = @ + 1]
  PROVE  SumFunctionOnSet(ArcsAhead, V)' < SumFunctionOnSet(ArcsAhead, V)
  <1>1. V' = V
    BY SameNodes
  <1>2. PICK w, z : w = ArcsAhead /\ z = ArcsAhead'
    OBVIOUS
  <1>3. /\ \A v \in V : w[v] = Len(g[v]) + 1 - next[v]
        /\ \A v \in V : z[v] = Len(g[v]) + 1 - next'[v]
    BY <1>1, <1>2 DEF ArcsAhead
  <1>4. /\ \A v \in V : Len(g[v]) \in Nat /\ next[v] \in Nat /\ next'[v] \in Nat
        /\ next'[u] = next[u] + 1 /\ \A v \in V \ {u} : next'[v] = next[v]
    BY GraphTypes
  <1>5. /\ \A v \in V : w[v] \in Int /\ z[v] \in Int
        /\ z[u] - w[u] = -1 /\ \A v \in V \ {u} : z[v] = w[v]
    <2>1. ASSUME NEW v \in V
          PROVE  /\ w[v] \in Int /\ z[v] \in Int
                 /\ v = u => z[v] - w[v] = -1
                 /\ v # u => z[v] = w[v]
      <3>1. PICK l, m, n : l = Len(g[v]) /\ m = next[v] /\ n = next'[v]
        OBVIOUS
      <3>2. /\ l \in Nat /\ m \in Nat /\ n \in Nat
            /\ v = u => n = m + 1
            /\ v # u => n = m
        BY <1>4, <3>1
      <3>3. w[v] = l + 1 - m /\ z[v] = l + 1 - n
        BY <1>3, <3>1
      <3> QED
        BY <3>2, <3>3
    <2> QED
      BY <2>1
  <1>6. IsFiniteSet(V)
    BY NodesAre
  <1>7. SumFunctionOnSet(z, V) = SumFunctionOnSet(w, V) + (z[u] - w[u])
    BY <1>5, <1>6, SumChanged
  <1>8. SumFunctionOnSet(w, V) \in Int
    BY <1>5, <1>6, SumInt
  <1> QED
    BY <1>1, <1>2, <1>5, <1>7, <1>8

\* A push fills an arc of the path, and the arcs it gives capacity go down.
LEMMA FewerClimb ==
  ASSUME DinicInv, BooksInv, Augment
  PROVE  /\ Cardinality(Climbing)' < Cardinality(Climbing)
         /\ SumFunctionOnSet(ArcsAhead, V)' = SumFunctionOnSet(ArcsAhead, V)
  <1>1. /\ pc = "dfs" /\ Top = superSink /\ g' = Pushed(Bottleneck)
        /\ UNCHANGED <<graph, level, next>>
    BY DEF Augment
  <1>2. V' = V /\ superSource # superSink
    BY <1>1, SameNodes, Indices DEF graph
  <1>3. \A v \in V :
          /\ Len(g'[v]) = Len(g[v]) /\ DOMAIN g'[v] = DOMAIN g[v]
          /\ \A i \in DOMAIN g[v] :
               /\ g'[v][i].to = g[v][i].to
               /\ <<v, i>> \in Carrying => g'[v][i].cap = g[v][i].cap - Bottleneck
               /\ <<v, i>> \notin Carrying \cup Returning => g'[v][i].cap = g[v][i].cap
    BY <1>1, PushedArcs
  <1>4. ArcsAhead' = ArcsAhead
    BY <1>1, <1>2, <1>3 DEF ArcsAhead
  <1>5. Arcs' = Arcs
    BY <1>2, <1>3 DEF Arcs
  <1>6. ASSUME NEW v \in V, NEW i \in DOMAIN g[v], Admissible(v, i)'
        PROVE  Admissible(v, i)
    <2>1. g'[v][i].cap > 0 /\ level[g[v][i].to] = level[v] + 1
      BY <1>1, <1>3, <1>6 DEF Admissible
    <2>2. g[v][i].cap \in Nat /\ level[v] \in Int /\ level[g[v][i].to] \in Int
          /\ Bottleneck \in Nat
      BY <1>1, ArcType, CarryingArcs
    <2>3. <<v, i>> \notin Returning
      <3>1. <<v, i>> \in Returning => level[v] = level[g[v][i].to] + 1
        BY <1>1, ReturningArcs
      <3> QED
        BY <2>1, <2>2, <3>1
    <2>4. g[v][i].cap > 0
      <3>1. \/ g'[v][i].cap = g[v][i].cap - Bottleneck
            \/ g'[v][i].cap = g[v][i].cap
        BY <1>3, <2>3
      <3> QED
        BY <2>1, <2>2, <3>1
    <2> QED
      BY <2>1, <2>4 DEF Admissible
  <1>7. Climbing' \subseteq Climbing
    <2>1. \A a \in Arcs : a[1] \in V /\ a[2] \in DOMAIN g[a[1]]
      BY ArcsAre
    <2> QED
      BY <1>5, <1>6, <2>1 DEF Climbing
  <1>8. \E a \in Climbing : a \notin Climbing'
    <2>1. PICK a \in Carrying : g[a[1]][a[2]].cap = Bottleneck
      <3>1. \A a \in Carrying : a[1] \in V /\ a[2] \in DOMAIN g[a[1]]
        BY <1>1, CarryingArcs
      <3>2. PICK caps : caps = {g[a[1]][a[2]].cap : a \in Carrying}
        OBVIOUS
      <3>3. caps \subseteq Nat
        BY <3>1, <3>2, ArcType
      <3>4. caps # {}
        <4>1. /\ Len(path) \in Nat /\ Len(path) >= 1 /\ path[1] = superSource
              /\ path[Len(path)] = superSink
          BY <1>1, OnThePath DEF Top
        <4>2. 1 \in 1 .. Len(path) - 1
          BY <1>2, <4>1
        <4>3. Carrying # {}
          BY <4>2 DEF Carrying
        <4> QED
          BY <3>2, <4>3
      <3>5. Bottleneck \in caps
        BY <3>2, <3>3, <3>4, MinOfNaturals DEF Bottleneck
      <3> QED
        BY <3>2, <3>5
    <2>2. PICK v, i : v = a[1] /\ i = a[2] /\ a = <<v, i>> /\ v \in V /\ i \in DOMAIN g[v]
                      /\ level[g[v][i].to] = level[v] + 1
      BY <1>1, CarryingArcs
    <2>3. g[v][i].cap > 0
      <3>1. PICK j \in 1 .. Len(path) - 1 : <<v, i>> = <<path[j], next[path[j]]>>
        BY <2>2 DEF Carrying
      <3>2. v = path[j] /\ i = next[path[j]]
        BY <3>1
      <3> QED
        BY <1>1, <3>2, OnThePath
    <2>4. a \in Climbing
      <3>1. <<v, i>> \in Arcs
        BY <2>2, ArcsAre
      <3> QED
        BY <2>2, <2>3, <3>1 DEF Climbing, Admissible
    <2>5. ~(g'[v][i].cap > 0)
      <3>1. g'[v][i].cap = g[v][i].cap - Bottleneck
        BY <1>3, <2>2
      <3>2. g[v][i].cap = Bottleneck /\ Bottleneck \in Nat
        BY <1>1, <2>1, <2>2, CarryingArcs
      <3> QED
        BY <3>1, <3>2
    <2>6. a \notin Climbing'
      BY <2>2, <2>5 DEF Climbing, Admissible
    <2> QED
      BY <2>4, <2>6
  <1>9. IsFiniteSet(Climbing)
    BY FS_Subset DEF BooksInv, Climbing
  <1>10. PICK A, B : A = Climbing /\ B = Climbing'
    OBVIOUS
  <1>11. Cardinality(B) <= Cardinality(A) /\ Cardinality(A) # Cardinality(B)
    BY <1>7, <1>8, <1>9, <1>10, FS_Subset
  <1>12. Cardinality(A) \in Nat /\ Cardinality(B) \in Nat
    BY <1>7, <1>9, <1>10, FS_Subset, FS_CardinalityType
  <1>13. Cardinality(B) < Cardinality(A)
    BY <1>11, <1>12
  <1> QED
    BY <1>2, <1>4, <1>10, <1>13

\* Every step leaves less to do.
LEMMA StepShrinks ==
  ASSUME DinicInv, DinicInv', PhaseInv, BooksInv, WithinBounds, Next
  PROVE  Precedes(Remaining', Remaining)
  <1>1. ComponentsAre /\ ComponentsAre'
    BY DEF ComponentsAre, Remaining
  <1>2. /\ added \in Nat /\ Calls \in Nat /\ distance \in Nat /\ depth \in Nat
        /\ Cardinality(V) \in Nat
        /\ added <= Calls /\ distance < Cardinality(V)
    BY NodesAre, CallsAre DEF DinicInv, TypeOK, WithinBounds
  <1>3. ASSUME UNCHANGED network PROVE V' = V /\ Calls' = Calls
    BY <1>3, SameNodes DEF Calls
  <1>4. CASE AddPipe \/ AddSource \/ AddSink
    <2>1. PICK k, u, v, c :
            AddEdge(k, u, v, c)
      BY <1>4 DEF AddPipe, AddSource, AddSink
    <2>2. k \in Nat /\ pc = "build" /\ pc' = "build" /\ added' = k /\ added = k - 1 /\ UNCHANGED network
      BY <2>1 DEF AddEdge, DinicInv, TypeOK
    <2>3. Remaining'[1] = Calls - k + 1 /\ Remaining[1] = Calls - (k - 1) + 1
      BY <1>1, <1>3, <2>2 DEF ComponentsAre
    <2>4. Remaining'[1] < Remaining[1]
      BY <1>2, <2>2, <2>3
    <2> QED
      BY <2>4, Places, PrecedesAt
  <1>5. CASE StartMaxFlow
    <2>1. pc = "build" /\ pc' = "bfs"
      BY <1>5 DEF StartMaxFlow
    <2>2. Remaining'[1] = 0 /\ Remaining[1] = Calls - added + 1
      BY <1>1, <2>1 DEF ComponentsAre
    <2>3. Remaining'[1] < Remaining[1]
      BY <1>2, <2>2
    <2> QED
      BY <2>3, Places, PrecedesAt
  <1>6. CASE BfsLayer
    <2>1. pc = "bfs" /\ pc' = "bfs" /\ depth' = depth + 1 /\ UNCHANGED <<network, distance>>
      BY <1>6 DEF BfsLayer, graph
    <2>2. /\ Remaining'[1] = Remaining[1] /\ Remaining'[2] = Remaining[2]
          /\ Remaining'[3] = Cardinality(V) + 1 - (depth + 1)
          /\ Remaining[3] = Cardinality(V) + 1 - depth
      BY <1>1, <1>3, <2>1 DEF ComponentsAre
    <2>3. Remaining'[3] < Remaining[3]
      BY <1>2, <2>2
    <2> QED
      BY <2>2, <2>3, Places, PrecedesAt
  <1>7. CASE BfsEnd
    <2>1. pc = "bfs" /\ pc' \in {"dfs", "done"} /\ UNCHANGED <<network, distance>>
      BY <1>7 DEF BfsEnd, graph
    <2>2. Remaining'[1] = Remaining[1]
      BY <1>1, <2>1 DEF ComponentsAre
    <2>3. CASE pc' = "done"
      <3>1. Remaining'[2] = 0 /\ Remaining[2] = Cardinality(V) - distance
        BY <1>1, <2>1, <2>3 DEF ComponentsAre
      <3>2. Remaining'[2] < Remaining[2]
        BY <1>2, <3>1
      <3> QED
        BY <2>2, <3>2, Places, PrecedesAt
    <2>4. CASE pc' = "dfs"
      <3>1. /\ Remaining'[2] = Remaining[2]
            /\ Remaining'[3] = 0 /\ Remaining[3] = Cardinality(V) + 1 - depth
        BY <1>1, <1>3, <2>1, <2>4 DEF ComponentsAre
      <3>2. depth <= Cardinality(V)
        BY <2>1, FewLevels DEF WithinBounds
      <3>3. Remaining'[3] < Remaining[3]
        BY <1>2, <3>1, <3>2
      <3> QED
        BY <2>2, <3>1, <3>3, Places, PrecedesAt
    <2> QED
      BY <2>1, <2>3, <2>4
  <1>8. ASSUME pc = "dfs", pc' = "dfs", UNCHANGED <<network, distance>>
        PROVE  /\ \A i \in {1, 2, 3} : Remaining'[i] = Remaining[i]
               /\ Remaining'[4] = SumFunctionOnSet(ArcsAhead, V)'
               /\ Remaining[4] = SumFunctionOnSet(ArcsAhead, V)
               /\ Remaining'[5] = Cardinality(Climbing)'
               /\ Remaining[5] = Cardinality(Climbing)
               /\ Remaining'[6] = Cardinality(V) - Len(path')
               /\ Remaining[6] = Cardinality(V) - Len(path)
    BY <1>1, <1>3, <1>8 DEF ComponentsAre
  <1>9. CASE Skip \/ Retreat
    <2>1. /\ pc = "dfs" /\ pc' = "dfs" /\ UNCHANGED <<network, g, distance>>
          /\ \E u \in V : next' = [next EXCEPT ![u] = @ + 1]
      <3>1. pc = "dfs" /\ pc' = "dfs" /\ UNCHANGED <<network, g, distance>>
        BY <1>9 DEF Skip, Retreat, Looking, graph
      <3>2. CASE Skip
        BY <3>1, <3>2, OnThePath DEF Skip
      <3>3. CASE Retreat
        <4>1. Len(path) \in Nat /\ Len(path) > 1
          BY <3>1, <3>3, OnThePath DEF Retreat
        <4>2. path[Len(path) - 1] \in V
          BY <3>1, <4>1, OnThePath
        <4> QED
          BY <3>1, <3>3, <4>2 DEF Retreat
      <3> QED
        BY <1>9, <3>1, <3>2, <3>3
    <2>2. Remaining'[4] < Remaining[4]
      BY <1>8, <2>1, FewerAhead
    <2> QED
      BY <1>8, <2>1, <2>2, Places, PrecedesAt
  <1>10. CASE Descend
    <2>1. /\ pc = "dfs" /\ pc' = "dfs" /\ UNCHANGED <<network, g, distance, level, next>>
          /\ path' = Append(path, g[Top][next[Top]].to)
      BY <1>10 DEF Descend, Looking, graph
    <2>2. ArcsAhead' = ArcsAhead /\ Climbing' = Climbing
      BY <1>3, <2>1 DEF ArcsAhead, Climbing, Arcs, Admissible
    <2>3. Len(path') = Len(path) + 1 /\ Len(path) \in Nat
      BY <2>1, OnThePath
    <2>4. Remaining'[4] = Remaining[4] /\ Remaining'[5] = Remaining[5]
      BY <1>3, <1>8, <2>1, <2>2
    <2>5. Remaining'[6] < Remaining[6]
      BY <1>2, <1>8, <2>1, <2>3
    <2> QED
      BY <1>8, <2>1, <2>4, <2>5, Places, PrecedesAt
  <1>11. CASE Augment
    <2>1. pc = "dfs" /\ pc' = "dfs" /\ UNCHANGED <<network, distance>>
      BY <1>11 DEF Augment, graph
    <2>2. Remaining'[4] = Remaining[4] /\ Remaining'[5] < Remaining[5]
      BY <1>8, <1>11, <2>1, FewerClimb
    <2> QED
      BY <1>8, <2>1, <2>2, Places, PrecedesAt
  <1>12. CASE PhaseEnd
    <2>1. /\ pc = "dfs" /\ pc' = "bfs" /\ distance' = level[superSink]
          /\ UNCHANGED network
      BY <1>12 DEF PhaseEnd, graph
    <2>2. /\ Remaining'[1] = Remaining[1]
          /\ Remaining'[2] = Cardinality(V) - level[superSink]
          /\ Remaining[2] = Cardinality(V) - distance
      BY <1>1, <1>3, <2>1 DEF ComponentsAre
    <2>3. level[superSink] \in Nat /\ level[superSink] > distance
      BY <2>1, ShortPath DEF PhaseInv, PhasesGetLonger, WithinBounds
    <2>4. Remaining'[2] < Remaining[2]
      BY <1>2, <2>2, <2>3
    <2> QED
      BY <2>2, <2>4, Places, PrecedesAt
  <1> QED
    BY <1>4, <1>5, <1>6, <1>7, <1>9, <1>10, <1>11, <1>12 DEF Next

\* The phases are fewer than the nodes, and MinShutdownCost stops: whatever the
\* network, every turn of its loops leaves less to do, and what there is to do
\* is six natural numbers, of which the first that changes goes down.
THEOREM SolverStops ==
  Spec => /\ [](Remaining \in [1 .. 6 -> Nat])
          /\ [][Precedes(Remaining', Remaining)]_vars
          /\ [](distance < Cardinality(V))
  <1>1. DinicInv /\ BooksInv /\ WithinBounds =>
          Remaining \in [1 .. 6 -> Nat] /\ distance < Cardinality(V)
    BY RemainingNat DEF WithinBounds
  <1>2. DinicInv /\ DinicInv' /\ PhaseInv /\ BooksInv /\ WithinBounds /\ [Next]_vars =>
          [Precedes(Remaining', Remaining)]_vars
    BY StepShrinks
  <1> QED
    BY <1>1, <1>2, PhaseInvariant, BooksInvariant, WithinBoundsInvariant, PTL DEF Spec

-----------------------------------------------------------------------------
(* The numbers the solver computes.                                        *)

\* No arc has more than b left, nor an arc and its reverse together.
PairsWithin(h, b) ==
  \A v \in V : \A i \in DOMAIN h[v] :
    /\ h[v][i].cap <= b
    /\ h[v][i].to # v => h[v][i].cap + h[h[v][i].to][h[v][i].rev].cap <= b

CostsWithin(c) == \A net \in Networks : \A i \in DOMAIN net.edges : net.edges[i].cost <= c

\* All a network can hold, in terms of its number of edges, and one.
AmountsAreSmall(c) ==
  /\ total <= Len(network.edges) * c
  /\ flow <= total
  /\ \A v \in V : \A i \in DOMAIN g[v] : g[v][i].cap <= total + 1

\* AddEdge adds an arc that may have as much.
LEMMA WithEdgeWithin ==
  ASSUME NEW h \in [V -> Seq(Arc)], PairsMatch(h), NEW a \in Nat, PairsWithin(h, a),
         NEW u \in V, NEW v \in V, NEW c \in Nat, NEW b \in Nat, a <= b, c <= b,
         NEW k, k = WithEdge(h, u, v, c)
  PROVE  PairsWithin(k, b)
  <1>0. EdgeAdded(h, k, u, v, c)
    BY WithEdgeExtends
  <1>1. /\ k \in [V -> Seq(Arc)]
        /\ \A w \in V : \A i \in 1 .. Len(h[w]) : k[w][i] = h[w][i]
        /\ u # v =>
             /\ Len(k[u]) = Len(h[u]) + 1
             /\ k[u][Len(h[u]) + 1] = [to |-> v, rev |-> Len(h[v]) + 1, cap |-> c]
             /\ Len(k[v]) = Len(h[v]) + 1
             /\ k[v][Len(h[v]) + 1] = [to |-> u, rev |-> Len(h[u]) + 1, cap |-> 0]
        /\ u = v =>
             /\ Len(k[u]) = Len(h[u]) + 2
             /\ k[u][Len(h[u]) + 1] = [to |-> u, rev |-> Len(h[u]) + 1, cap |-> c]
             /\ k[u][Len(h[u]) + 2] = [to |-> u, rev |-> Len(h[u]) + 1, cap |-> 0]
        /\ \A w \in V \ {u, v} : k[w] = h[w]
    BY <1>0 DEF EdgeAdded
  <1>2. \A w \in V : /\ Len(h[w]) \in Nat /\ DOMAIN h[w] = 1 .. Len(h[w])
                     /\ Len(k[w]) \in Nat /\ DOMAIN k[w] = 1 .. Len(k[w])
                     /\ \A i \in DOMAIN h[w] : h[w][i] \in Arc
    <2>1. \A w \in V : h[w] \in Seq(Arc) /\ k[w] \in Seq(Arc)
      BY <1>1
    <2>2. \A s \in Seq(Arc) : /\ Len(s) \in Nat /\ DOMAIN s = 1 .. Len(s)
                              /\ \A i \in DOMAIN s : s[i] \in Arc
      OBVIOUS
    <2> QED
      BY <2>1, <2>2
  <1> SUFFICES ASSUME NEW w \in V, NEW i \in DOMAIN k[w]
               PROVE  /\ k[w][i].cap <= b
                      /\ k[w][i].to # w =>
                           k[w][i].cap + k[k[w][i].to][k[w][i].rev].cap <= b
    BY DEF PairsWithin
  <1>3. CASE i \in DOMAIN h[w]
    <2>1. PICK x, r : x = h[w][i].to /\ r = h[w][i].rev
      OBVIOUS
    <2>2. x \in V /\ r \in DOMAIN h[x] /\ h[w][i].cap \in Nat /\ h[x][r].cap \in Nat
      <3>1. h[w][i] \in Arc /\ r \in DOMAIN h[x]
        BY <1>2, <1>3, <2>1 DEF PairsMatch
      <3>2. x \in V /\ h[w][i].cap \in Nat
        BY <2>1, <3>1 DEF Arc
      <3>3. h[x][r] \in Arc
        BY <1>2, <3>1, <3>2
      <3> QED
        BY <3>1, <3>2, <3>3 DEF Arc
    <2>3. k[w][i] = h[w][i] /\ k[x][r] = h[x][r]
      <3>1. i \in 1 .. Len(h[w]) /\ r \in 1 .. Len(h[x])
        BY <1>2, <1>3, <2>2
      <3>2. \A y \in V : \A j \in 1 .. Len(h[y]) : k[y][j] = h[y][j]
        BY <1>1
      <3> QED
        BY <2>2, <3>1, <3>2
    <2>4. h[w][i].cap <= a /\ (x # w => h[w][i].cap + h[x][r].cap <= a)
      BY <1>3, <2>1 DEF PairsWithin
    <2>5. h[w][i].cap <= b /\ (x # w => h[w][i].cap + h[x][r].cap <= b)
      BY <2>2, <2>4
    <2> QED
      BY <2>1, <2>3, <2>5
  <1>4. CASE i \notin DOMAIN h[w]
    <2>1. PICK m, n : m = Len(h[u]) /\ n = Len(h[v]) /\ m \in Nat /\ n \in Nat
      BY <1>2
    <2>2. CASE u # v
      <3>1. \/ w = u /\ i = m + 1
            \/ w = v /\ i = n + 1
        <4>1. w = u \/ w = v
          BY <1>1, <1>2, <1>4
        <4>2. i \in Nat /\ i <= Len(k[w]) /\ ~(i <= Len(h[w])) /\ i >= 1
          BY <1>2, <1>4
        <4>3. w = u => Len(k[w]) = m + 1 /\ Len(h[w]) = m
          BY <1>1, <2>1, <2>2
        <4>4. w = v => Len(k[w]) = n + 1 /\ Len(h[w]) = n
          BY <1>1, <2>1, <2>2
        <4> QED
          BY <2>1, <4>1, <4>2, <4>3, <4>4
      <3>2. /\ k[u][m + 1] = [to |-> v, rev |-> n + 1, cap |-> c]
            /\ k[v][n + 1] = [to |-> u, rev |-> m + 1, cap |-> 0]
        BY <1>1, <2>1, <2>2
      <3>3. /\ k[u][m + 1].cap = c /\ k[u][m + 1].to = v /\ k[u][m + 1].rev = n + 1
            /\ k[v][n + 1].cap = 0 /\ k[v][n + 1].to = u /\ k[v][n + 1].rev = m + 1
        BY <3>2
      <3>4. c + 0 <= b /\ 0 + c <= b /\ 0 <= b /\ c <= b
        OBVIOUS
      <3> QED
        BY <3>1, <3>3, <3>4
    <2>3. CASE u = v
      <3>1. w = u /\ (i = m + 1 \/ i = m + 2)
        <4>1. w = u
          BY <1>1, <1>2, <1>4, <2>3
        <4>2. i \in Nat /\ i <= Len(k[w]) /\ ~(i <= Len(h[w])) /\ i >= 1
          BY <1>2, <1>4
        <4>3. Len(k[w]) = m + 2 /\ Len(h[w]) = m
          BY <1>1, <2>1, <2>3, <4>1
        <4> QED
          BY <2>1, <4>1, <4>2, <4>3
      <3>2. /\ k[u][m + 1] = [to |-> u, rev |-> m + 1, cap |-> c]
            /\ k[u][m + 2] = [to |-> u, rev |-> m + 1, cap |-> 0]
        BY <1>1, <2>1, <2>3
      <3>3. k[w][i].to = w /\ (k[w][i].cap = c \/ k[w][i].cap = 0)
        BY <3>1, <3>2
      <3> QED
        BY <3>3
    <2> QED
      BY <2>2, <2>3
  <1> QED
    BY <1>3, <1>4

\* A loop's turn that adds an edge or a super arc.
LEMMA PairsWithinBuild ==
  ASSUME DinicInv, PairsWithin(g, total + 1), AddPipe \/ AddSource \/ AddSink
  PROVE  PairsWithin(g, total + 1)'
  <1>1. PICK u \in V, v \in V, c \in Nat :
          /\ g' = WithEdge(g, u, v, c) /\ UNCHANGED network
          /\ total \in Nat /\ total' \in Nat /\ total <= total' /\ c <= total' + 1
    <2>1. CASE AddPipe
      <3>1. PICK i \in DOMAIN network.edges :
              /\ AddEdge(i, network.edges[i].from, network.edges[i].to,
                         network.edges[i].cost)
              /\ total' = total + network.edges[i].cost
        BY <2>1 DEF AddPipe
      <3>2. PICK u \in V, v \in V, c \in Nat :
              /\ u = network.edges[i].from /\ v = network.edges[i].to
              /\ c = network.edges[i].cost
        BY Indices
      <3>3. total \in Nat /\ total' = total + c
        BY <3>1, <3>2, Indices
      <3>4. g' = WithEdge(g, u, v, c) /\ UNCHANGED network
        BY <3>1, <3>2 DEF AddEdge
      <3>5. total' \in Nat /\ total <= total' /\ c <= total' + 1
        BY <3>3
      <3> QED
        BY <3>3, <3>4, <3>5
    <2>2. ASSUME NEW k, NEW u \in V, NEW v \in V, AddEdge(k, u, v, total + 1), total' = total
          PROVE  \E x \in V, y \in V, c \in Nat :
                   /\ g' = WithEdge(g, x, y, c) /\ UNCHANGED network
                   /\ total \in Nat /\ total' \in Nat /\ total <= total' /\ c <= total' + 1
      <3>1. g' = WithEdge(g, u, v, total + 1) /\ UNCHANGED network
        BY <2>2 DEF AddEdge
      <3>2. /\ total \in Nat /\ total + 1 \in Nat /\ total' \in Nat
            /\ total <= total' /\ total + 1 <= total' + 1
        BY <2>2, Indices
      <3> QED
        BY <3>1, <3>2
    <2>3. CASE AddSource \/ AddSink
      <3>1. \E k : \E u \in V, v \in V : AddEdge(k, u, v, total + 1) /\ total' = total
        BY <2>3, Indices DEF AddSource, AddSink
      <3> QED
        BY <2>2, <3>1
    <2> QED
      BY <2>1, <2>3
  <1>2. g \in [V -> Seq(Arc)] /\ PairsMatch(g)
    BY GraphTypes
  <1>3. PICK a, b : a = total + 1 /\ b = total' + 1
    OBVIOUS
  <1>4. a \in Nat /\ b \in Nat /\ a <= b /\ c <= b /\ PairsWithin(g, a)
    <2>1. PairsWithin(g, a)
      BY <1>3
    <2>2. PICK x, y : x = total /\ y = total'
      OBVIOUS
    <2>3. x \in Nat /\ y \in Nat /\ x <= y /\ c <= y + 1 /\ a = x + 1 /\ b = y + 1
      BY <1>1, <1>3, <2>2
    <2>4. a \in Nat /\ b \in Nat /\ a <= b /\ c <= b
      BY <2>3
    <2> QED
      BY <2>1, <2>4
  <1>5. PairsWithin(g', b)
    BY <1>1, <1>2, <1>4, WithEdgeWithin
  <1>6. V' = V
    BY <1>1, SameNodes
  <1> QED
    BY <1>3, <1>5, <1>6 DEF PairsWithin

\* A push moves capacity between an arc and its reverse.
LEMMA PairsWithinPush ==
  ASSUME DinicInv, PairsWithin(g, total + 1), Augment
  PROVE  PairsWithin(g, total + 1)'
  <1>1. /\ pc = "dfs" /\ Top = superSink /\ g' = Pushed(Bottleneck)
        /\ UNCHANGED <<network, total>>
    BY DEF Augment, graph
  <1>2. V' = V /\ total' = total
    BY <1>1, SameNodes
  <1>3. \A v \in V :
          /\ DOMAIN g'[v] = DOMAIN g[v]
          /\ \A i \in DOMAIN g[v] :
               /\ g'[v][i].to = g[v][i].to /\ g'[v][i].rev = g[v][i].rev
               /\ <<v, i>> \in Carrying => g'[v][i].cap = g[v][i].cap - Bottleneck
               /\ <<v, i>> \in Returning => g'[v][i].cap = g[v][i].cap + Bottleneck
               /\ <<v, i>> \notin Carrying \cup Returning => g'[v][i].cap = g[v][i].cap
    BY <1>1, PushedArcs
  <1> SUFFICES ASSUME NEW v \in V, NEW i \in DOMAIN g[v]
               PROVE  /\ g'[v][i].cap <= total + 1
                      /\ g[v][i].to # v =>
                           g'[v][i].cap + g'[g[v][i].to][g[v][i].rev].cap <= total + 1
    <2>1. PICK k : k = g'
      OBVIOUS
    <2>2. \A v \in V : \A i \in DOMAIN k[v] :
            i \in DOMAIN g[v] /\ k[v][i].to = g[v][i].to /\ k[v][i].rev = g[v][i].rev
      BY <1>3, <2>1
    <2>3. (\A v \in V : \A i \in DOMAIN g[v] :
             /\ k[v][i].cap <= total + 1
             /\ g[v][i].to # v => k[v][i].cap + k[g[v][i].to][g[v][i].rev].cap <= total + 1)
            => PairsWithin(k, total + 1)
      BY <2>2 DEF PairsWithin
    <2>4. PairsWithin(k, total + 1) => PairsWithin(g, total + 1)'
      BY <1>2, <2>1 DEF PairsWithin
    <2> QED
      BY <2>1, <2>3, <2>4
  <1>4. PICK x, r : x = g[v][i].to /\ r = g[v][i].rev
    OBVIOUS
  <1>5. /\ x \in V /\ r \in DOMAIN g[x] /\ level[v] \in Int /\ level[x] \in Int
        /\ g[v][i].cap \in Nat /\ total \in Nat
    BY <1>4, ArcType, Indices
  <1>6. g[v][i].cap <= total + 1 /\ (x # v => g[v][i].cap + g[x][r].cap <= total + 1)
    BY <1>4 DEF PairsWithin
  <1>7. CASE x = v
    <2>1. <<v, i>> \notin Carrying \cup Returning
      <3>1. /\ <<v, i>> \in Carrying => level[x] = level[v] + 1
            /\ <<v, i>> \in Returning => level[v] = level[x] + 1
        BY <1>1, <1>4, ReturningArcs
      <3> QED
        BY <1>5, <1>7, <3>1
    <2> QED
      BY <1>3, <1>4, <1>6, <1>7, <2>1
  <1>8. CASE x # v
    <2>1. g'[v][i].cap + g'[x][r].cap = g[v][i].cap + g[x][r].cap
      <3>1. Reverse(<<v, i>>) = <<x, r>>
        BY <1>4 DEF Reverse
      <3> QED
        BY <3>1, PushKeepsSum
    <2>2. g'[v][i].cap \in Nat /\ g'[x][r].cap \in Nat
      <3>1. g' \in [V -> Seq(Arc)]
        BY <1>1, PushedArcs
      <3>2. g'[v][i] \in Arc /\ g'[x][r] \in Arc
        BY <1>3, <1>5, <3>1
      <3> QED
        BY <3>2 DEF Arc
    <2>3. g'[v][i].cap + g'[x][r].cap <= total + 1
      BY <1>6, <1>8, <2>1
    <2>4. g'[v][i].cap <= total + 1
      BY <1>5, <2>2, <2>3
    <2> QED
      BY <1>4, <2>3, <2>4
  <1> QED
    BY <1>7, <1>8

\* The total of the costs is within that of as many edges of the highest cost.
LEMMA TotalWithin ==
  ASSUME DinicInv, BooksInv, NEW c \in Nat, CostsWithin(c)
  PROVE  total <= Len(network.edges) * c
  <1>1. PICK w : w = [i \in DOMAIN network.edges |-> network.edges[i].cost]
    OBVIOUS
  <1>2. PICK I \in SUBSET DOMAIN network.edges :
          I = {i \in DOMAIN network.edges : i <= added}
    OBVIOUS
  <1>3. total = SumFunctionOnSet(w, I)
    BY <1>1, <1>2 DEF BooksInv, TotalIsCost, CostOf
  <1>4. \A i \in DOMAIN network.edges : w[i] \in Nat /\ w[i] <= c
    BY <1>1, Indices DEF CostsWithin, DinicInv, TypeOK
  <1>5. SumFunctionOnSet(w, I) <= SumFunctionOnSet(w, DOMAIN network.edges)
    BY <1>4, Indices, SumOfMore
  <1>6. SumFunctionOnSet(w, DOMAIN network.edges) <= Cardinality(DOMAIN network.edges) * c
    BY <1>4, Indices, SumBounded
  <1>7. Cardinality(DOMAIN network.edges) = Len(network.edges)
    <2>1. \A n \in Nat : Cardinality(1 .. n) = n
      BY FS_Interval
    <2> QED
      BY <2>1, Indices, Zenon
  <1>8. /\ SumFunctionOnSet(w, I) \in Nat
        /\ SumFunctionOnSet(w, DOMAIN network.edges) \in Nat
    <2>1. IsFiniteSet(I) /\ \A i \in I : w[i] \in Nat
      BY <1>4, Indices, FS_Subset
    <2> QED
      BY <1>4, <2>1, Indices, SumNat
  <1>9. Len(network.edges) * c \in Nat
    BY Indices
  <1> QED
    BY <1>3, <1>5, <1>6, <1>7, <1>8, <1>9

\* Every arc and its reverse hold what MaxFlow can push, and none before it.
PairsInv == PairsWithin(g, total + 1) /\ (pc = "build" => flow = 0)

\* The bounds on arcs hold of the empty graph,
LEMMA PairsInit == Init => PairsInv
  <1> SUFFICES ASSUME Init PROVE PairsInv
    OBVIOUS
  <1>1. g = [v \in V |-> <<>>] /\ flow = 0
    BY DEF Init
  <1>2. \A v \in V : DOMAIN g[v] = {}
    BY <1>1
  <1> QED
    BY <1>1, <1>2 DEF PairsInv, PairsWithin

\* and every step keeps them.
LEMMA PairsStep ==
  ASSUME DinicInv, PairsInv, [Next]_vars
  PROVE  PairsInv'
  <1>1. PairsWithin(g, total + 1)
    BY DEF PairsInv
  <1>2. CASE AddPipe \/ AddSource \/ AddSink
    <2>1. flow' = flow /\ pc = "build"
      BY <1>2 DEF AddPipe, AddSource, AddSink, AddEdge, solver
    <2> QED
      BY <1>1, <1>2, <2>1, PairsWithinBuild DEF PairsInv
  <1>3. CASE Augment
    <2>1. pc' = "dfs"
      BY <1>3 DEF Augment
    <2> QED
      BY <1>1, <1>3, <2>1, PairsWithinPush DEF PairsInv
  <1>4. CASE StartMaxFlow \/ BfsLayer \/ BfsEnd \/ PhaseEnd \/ Skip \/ Descend \/ Retreat
             \/ UNCHANGED vars
    <2>1. UNCHANGED <<network, total, g, flow>> /\ (pc' = "build" => pc = "build")
      BY <1>4 DEF StartMaxFlow, BfsLayer, BfsEnd, PhaseEnd, Skip, Descend, Retreat, Looking,
                  vars, solver, graph
    <2>2. V' = V
      BY <2>1, SameNodes
    <2>3. PairsWithin(g, total + 1)'
      BY <1>1, <2>1, <2>2 DEF PairsWithin
    <2> QED
      BY <2>1, <2>3 DEF PairsInv
  <1> QED
    BY <1>2, <1>3, <1>4 DEF Next

\* No number of the solver is more than the highest cost for every edge, and
\* one for the super arcs: with maxEdges edges of maxCost the capacities, the
\* flow and their sums are far from the end of int64.
THEOREM AmountsStaySmall ==
  ASSUME NEW c \in Nat, CostsWithin(c)
  PROVE  Spec => []AmountsAreSmall(c)
  <1>1. ASSUME DinicInv, BooksInv, PairsInv PROVE AmountsAreSmall(c)
    <2>1. flow <= total
      <3>1. CASE pc = "build"
        BY <1>1, <3>1, Indices DEF PairsInv
      <3>2. CASE pc # "build"
        BY <1>1, <3>2, FlowBelowTotal
      <3> QED
        BY <3>1, <3>2
    <2>2. \A v \in V : \A i \in DOMAIN g[v] : g[v][i].cap <= total + 1
      BY <1>1 DEF PairsInv, PairsWithin
    <2> QED
      BY <1>1, <2>1, <2>2, TotalWithin DEF AmountsAreSmall
  <1>2. DinicInv /\ PairsInv /\ [Next]_vars => PairsInv'
    BY PairsStep
  <1> QED
    BY <1>1, <1>2, PairsInit, BooksInvariant, PTL DEF Spec

=============================================================================
