------------------------------ MODULE DinicProofs ------------------------------
(***************************************************************************)
(* Proofs about the solver, for any network: capacities never go below     *)
(* zero, flow moves between an arc and its reverse only, and the           *)
(* current-arc optimisation passes no arc that could still be used.        *)
(***************************************************************************)
EXTENDS Dinic, SumTheorems, TLAPS

Arc == [to : V, rev : Nat, cap : Nat]

\* The reverse index of an arc points to an arc back; but for self-loops it
\* is the arc's own reverse.
PairsMatch(h) ==
  \A v \in V : \A i \in DOMAIN h[v] :
    /\ h[v][i].rev \in DOMAIN h[h[v][i].to]
    /\ h[h[v][i].to][h[v][i].rev].to = v
    /\ h[v][i].to # v => h[h[v][i].to][h[v][i].rev].rev = i

\* Once bfs runs, the super source is at level 0.
SourceAtZero == pc \in {"bfs", "dfs"} => level[superSource] = 0

\* bfs lets dfs run only if it has found the super sink.
SinkLevelled == pc = "dfs" => level[superSink] >= 0

\* The stack of dfs climbs one level at a time, along the current arcs.
PathClimbs ==
  pc = "dfs" =>
    /\ Len(path) >= 1
    /\ path[1] = superSource
    /\ \A j \in 1 .. Len(path) : level[path[j]] = j - 1
    /\ \A j \in 1 .. Len(path) - 1 :
         /\ next[path[j]] \in DOMAIN g[path[j]]
         /\ g[path[j]][next[path[j]]].to = path[j + 1]
         /\ g[path[j]][next[path[j]]].cap > 0

DinicInv ==
  /\ TypeOK
  /\ PairsMatch(g)
  /\ SourceAtZero
  /\ SinkLevelled
  /\ PathClimbs
  /\ PassedArcsAreUseless

-----------------------------------------------------------------------------

\* A set of natural numbers that is not empty has its minimum.
LEMMA MinOfNaturals ==
  ASSUME NEW S, S \subseteq Nat, S # {}
  PROVE  Min(S) \in S /\ \A x \in S : Min(S) <= x
  BY LeastNatural DEF Min

\* What is in a sequence,
LEMMA SeqElement ==
  ASSUME NEW S, NEW s \in Seq(S), NEW i \in DOMAIN s
  PROVE  s[i] \in S /\ i \in Nat
  OBVIOUS

\* and how long it is.
LEMMA SeqLength == ASSUME NEW S, NEW s \in Seq(S) PROVE Len(s) \in Nat
  OBVIOUS

\* The two super nodes are nodes, and not the same.
LEMMA SuperNodes ==
  ASSUME network \in Networks
  PROVE  /\ network.n \in Nat
         /\ superSource \in V /\ superSink \in V /\ superSource # superSink
         /\ 0 .. network.n - 1 \subseteq V
  BY NetworksAssumption DEF superSource, superSink, V

\* AddEdge keeps the arcs of h, and adds an arc and its reverse.
EdgeAdded(h, k, u, v, c) ==
  /\ k \in [V -> Seq(Arc)]
  /\ \A w \in V : /\ Len(k[w]) >= Len(h[w])
                  /\ \A i \in 1 .. Len(h[w]) : k[w][i] = h[w][i]
  /\ u # v =>
       /\ Len(k[u]) = Len(h[u]) + 1
       /\ k[u][Len(h[u]) + 1] = [to |-> v, rev |-> Len(h[v]) + 1, cap |-> c]
       /\ Len(k[v]) = Len(h[v]) + 1
       /\ k[v][Len(h[v]) + 1] = [to |-> u, rev |-> Len(h[u]) + 1, cap |-> 0]
  /\ u = v =>
       /\ Len(k[u]) = Len(h[u]) + 2
       /\ k[u][Len(h[u]) + 1] = [to |-> u, rev |-> Len(h[u]) + 1, cap |-> c]
       /\ k[u][Len(h[u]) + 2] = [to |-> u, rev |-> Len(h[u]) + 1, cap |-> 0]
  /\ \A w \in V \ {u, v} : k[w] = h[w]

\* AddEdge puts one arc at the end of each of two nodes, or two at the end of
\* one, and leaves the others alone.
LEMMA WithEdgeExtends ==
  ASSUME NEW h \in [V -> Seq(Arc)], NEW u \in V, NEW v \in V, NEW c \in Nat,
         NEW k, k = WithEdge(h, u, v, c)
  PROVE  EdgeAdded(h, k, u, v, c)
  <1> USE DEF EdgeAdded
  <1> DEFINE a == [to |-> v, rev |-> Len(h[v]) + 1, cap |-> c]
             f == Append(h[u], a)
             b == [to |-> u, rev |-> Len(f), cap |-> 0]
             h1 == [h EXCEPT ![u] = f]
  <1>1. k = [h1 EXCEPT ![v] = Append(@, b)]
    BY DEF WithEdge
  <1>2. \A w \in V : h[w] \in Seq(Arc) /\ Len(h[w]) \in Nat
    OBVIOUS
  <1>3. a \in Arc /\ f \in Seq(Arc) /\ Len(f) = Len(h[u]) + 1
    <2>1. a \in Arc
      BY <1>2 DEF Arc
    <2> HIDE DEF a
    <2> QED
      BY <1>2, <2>1
  <1>4. f[Len(h[u]) + 1] = a /\ \A i \in 1 .. Len(h[u]) : f[i] = h[u][i]
    BY <1>2, <1>3
  <1>5. b \in Arc
    BY <1>2, <1>3 DEF Arc
  <1> HIDE DEF a, b, f
  <1>6. CASE u # v
    <2>1. k = [w \in V |-> IF w = u THEN f ELSE IF w = v THEN Append(h[v], b) ELSE h[w]]
      BY <1>1, <1>6
    <2> HIDE DEF h1
    <2>2. k[u] = f /\ k[v] = Append(h[v], b) /\ \A w \in V \ {u, v} : k[w] = h[w]
      BY <2>1, <1>6
    <2>3. Append(h[v], b) \in Seq(Arc) /\ Len(k[v]) = Len(h[v]) + 1
      BY <1>2, <1>5, <2>2
    <2>4. k[v][Len(h[v]) + 1] = b /\ \A i \in 1 .. Len(h[v]) : k[v][i] = h[v][i]
      BY <1>2, <1>5, <2>2
    <2>5. k \in [V -> Seq(Arc)]
      BY <2>1, <2>3, <1>3
    <2>6. b = [to |-> u, rev |-> Len(h[u]) + 1, cap |-> 0]
      BY <1>3 DEF b
    <2>7. \A w \in V : /\ Len(k[w]) >= Len(h[w])
                       /\ \A i \in 1 .. Len(h[w]) : k[w][i] = h[w][i]
      <3> SUFFICES ASSUME NEW w \in V
                   PROVE  /\ Len(k[w]) >= Len(h[w])
                          /\ \A i \in 1 .. Len(h[w]) : k[w][i] = h[w][i]
        OBVIOUS
      <3>1. CASE w = u
        BY <1>2, <1>3, <1>4, <2>2, <3>1
      <3>2. CASE w = v
        BY <1>2, <2>3, <2>4, <3>2
      <3>3. CASE w \notin {u, v}
        BY <1>2, <2>2, <3>3
      <3> QED
        BY <3>1, <3>2, <3>3
    <2> QED
      BY <1>3, <1>4, <1>6, <2>2, <2>3, <2>4, <2>5, <2>6, <2>7 DEF a
  <1>7. CASE u = v
    <2>1. k = [w \in V |-> IF w = u THEN Append(f, b) ELSE h[w]]
      BY <1>1, <1>7
    <2> HIDE DEF h1
    <2>2. k[u] = Append(f, b) /\ \A w \in V \ {u, v} : k[w] = h[w]
      BY <2>1, <1>7
    <2>3. k[u] \in Seq(Arc) /\ Len(k[u]) = Len(f) + 1 /\ k[u][Len(f) + 1] = b
          /\ \A i \in 1 .. Len(f) : k[u][i] = f[i]
      BY <1>3, <1>5, <2>2
    <2>4. k \in [V -> Seq(Arc)]
      BY <2>1, <2>2, <2>3
    <2>5. a = [to |-> u, rev |-> Len(h[u]) + 1, cap |-> c]
          /\ b = [to |-> u, rev |-> Len(h[u]) + 1, cap |-> 0]
      BY <1>3, <1>7 DEF a, b
    <2>6. /\ Len(k[u]) = Len(h[u]) + 2
          /\ k[u][Len(h[u]) + 1] = a /\ k[u][Len(h[u]) + 2] = b
          /\ \A i \in 1 .. Len(h[u]) : k[u][i] = h[u][i]
      BY <1>2, <1>3, <1>4, <2>3
    <2>7. \A w \in V : /\ Len(k[w]) >= Len(h[w])
                       /\ \A i \in 1 .. Len(h[w]) : k[w][i] = h[w][i]
      BY <1>2, <1>7, <2>2, <2>6
    <2> QED
      BY <1>7, <2>2, <2>4, <2>5, <2>6, <2>7
  <1> QED
    BY <1>6, <1>7

\* It keeps arcs and reverses matched, self-loops included.
LEMMA WithEdgePairs ==
  ASSUME NEW h \in [V -> Seq(Arc)], PairsMatch(h),
         NEW u \in V, NEW v \in V, NEW c \in Nat,
         NEW k, k = WithEdge(h, u, v, c)
  PROVE  PairsMatch(k)
  <1>1. /\ k \in [V -> Seq(Arc)]
        /\ \A w \in V : /\ Len(k[w]) >= Len(h[w])
                        /\ \A i \in 1 .. Len(h[w]) : k[w][i] = h[w][i]
        /\ u # v =>
             /\ Len(k[u]) = Len(h[u]) + 1
             /\ k[u][Len(h[u]) + 1] = [to |-> v, rev |-> Len(h[v]) + 1, cap |-> c]
             /\ Len(k[v]) = Len(h[v]) + 1
             /\ k[v][Len(h[v]) + 1] = [to |-> u, rev |-> Len(h[u]) + 1, cap |-> 0]
        /\ u = v =>
             /\ Len(k[u]) = Len(h[u]) + 2
             /\ k[u][Len(h[u]) + 1] = [to |-> u, rev |-> Len(h[u]) + 1, cap |-> c]
             /\ k[u][Len(h[u]) + 2] = [to |-> u, rev |-> Len(h[u]) + 1, cap |-> 0]
        /\ \A w \in V \ {u, v} : k[w] = h[w]
    BY WithEdgeExtends DEF EdgeAdded
  <1>2. \A w \in V : /\ Len(h[w]) \in Nat /\ Len(k[w]) \in Nat
                     /\ DOMAIN h[w] = 1 .. Len(h[w]) /\ DOMAIN k[w] = 1 .. Len(k[w])
                     /\ \A i \in DOMAIN h[w] : h[w][i] \in Arc
    BY <1>1
  <1> SUFFICES ASSUME NEW w \in V, NEW i \in DOMAIN k[w]
               PROVE  /\ k[w][i].rev \in DOMAIN k[k[w][i].to]
                      /\ k[k[w][i].to][k[w][i].rev].to = w
                      /\ k[w][i].to # w => k[k[w][i].to][k[w][i].rev].rev = i
    BY DEF PairsMatch
  <1>3. CASE i \in DOMAIN h[w]
    <2> DEFINE x == h[w][i].to
               r == h[w][i].rev
    <2>1. x \in V /\ r \in DOMAIN h[x] /\ k[w][i] = h[w][i]
      <3>1. h[w][i] \in Arc
        BY <1>2, <1>3
      <3>2. x \in V
        BY <3>1 DEF Arc
      <3>3. r \in DOMAIN h[x]
        BY <1>3 DEF PairsMatch
      <3>4. i \in 1 .. Len(h[w]) /\ \A j \in 1 .. Len(h[w]) : k[w][j] = h[w][j]
        BY <1>1, <1>2, <1>3
      <3> QED
        BY <3>2, <3>3, <3>4
    <2>2. h[x][r].to = w /\ (x # w => h[x][r].rev = i)
      BY <1>3 DEF PairsMatch
    <2>3. r \in DOMAIN k[x] /\ k[x][r] = h[x][r]
      <3>1. Len(k[x]) >= Len(h[x]) /\ \A j \in 1 .. Len(h[x]) : k[x][j] = h[x][j]
        BY <1>1, <2>1
      <3>2. DOMAIN h[x] = 1 .. Len(h[x]) /\ DOMAIN k[x] = 1 .. Len(k[x])
            /\ Len(h[x]) \in Nat /\ Len(k[x]) \in Nat
        BY <1>2, <2>1
      <3>3. r \in 1 .. Len(h[x]) /\ r \in 1 .. Len(k[x])
        BY <2>1, <3>1, <3>2
      <3> QED
        BY <3>1, <3>2, <3>3
    <2> QED
      BY <2>1, <2>2, <2>3
  <1>4. CASE i \notin DOMAIN h[w]
    <2>1. w \in {u, v}
      BY <1>1, <1>4
    <2>2. CASE u = v
      BY <1>1, <1>2, <1>4, <2>1, <2>2
    <2>3. CASE u # v /\ w = u
      <3>1. i = Len(h[u]) + 1 /\ Len(h[v]) + 1 \in DOMAIN k[v]
        BY <1>1, <1>2, <1>4, <2>3
      <3>2. k[w][i].to = v /\ k[w][i].rev = Len(h[v]) + 1
        BY <1>1, <2>3, <3>1
      <3>3. k[v][Len(h[v]) + 1].to = u /\ k[v][Len(h[v]) + 1].rev = Len(h[u]) + 1
        BY <1>1, <2>3
      <3> QED
        BY <2>3, <3>1, <3>2, <3>3
    <2>4. CASE u # v /\ w = v
      <3>1. i = Len(h[v]) + 1 /\ Len(h[u]) + 1 \in DOMAIN k[u]
        BY <1>1, <1>2, <1>4, <2>4
      <3>2. k[w][i].to = u /\ k[w][i].rev = Len(h[u]) + 1
        BY <1>1, <2>4, <3>1
      <3>3. k[u][Len(h[u]) + 1].to = v /\ k[u][Len(h[u]) + 1].rev = Len(h[v]) + 1
        BY <1>1, <2>4
      <3> QED
        BY <2>4, <3>1, <3>2, <3>3
    <2> QED
      BY <2>1, <2>2, <2>3, <2>4
  <1> QED
    BY <1>3, <1>4

-----------------------------------------------------------------------------

\* The invariant holds of every network before it is built,
LEMMA DinicInit == Init => DinicInv
  <1> SUFFICES ASSUME Init PROVE DinicInv
    OBVIOUS
  <1>1. superSource \in V
    BY SuperNodes DEF Init
  <1>2. TypeOK
    BY <1>1 DEF Init, TypeOK
  <1> QED
    BY <1>2 DEF Init, DinicInv, PairsMatch, SourceAtZero, SinkLevelled, PathClimbs,
              PassedArcsAreUseless

\* The network does not change, and with it the nodes do not.
LEMMA SameNodes ==
  ASSUME UNCHANGED network
  PROVE  V' = V /\ superSource' = superSource /\ superSink' = superSink
  BY DEF V, superSource, superSink

\* and AddEdge keeps it.
LEMMA BuildStep ==
  ASSUME DinicInv, AddPipe \/ AddSource \/ AddSink
  PROVE  DinicInv'
  <1>1. PICK k \in Nat, u \in V, v \in V, c \in Nat :
          AddEdge(k, u, v, c) /\ total' \in Nat
    <2>1. network \in Networks /\ total \in Nat
      BY DEF DinicInv, TypeOK
    <2>2. /\ network.n \in Nat /\ 0 .. network.n - 1 \subseteq V
          /\ superSource \in V /\ superSink \in V
      BY <2>1, SuperNodes
    <2>3. /\ network.edges \in Seq(Edge(network.n))
          /\ network.sources \in Seq(0 .. network.n - 1)
          /\ network.sinks \in Seq(0 .. network.n - 1)
      BY <2>1, NetworksAssumption
    <2>4. CASE AddPipe
      <3>1. PICK i \in DOMAIN network.edges :
              /\ AddEdge(i, network.edges[i].from, network.edges[i].to,
                         network.edges[i].cost)
              /\ total' = total + network.edges[i].cost
        BY <2>4 DEF AddPipe
      <3>2. network.edges[i] \in Edge(network.n) /\ i \in Nat
        BY <2>3
      <3>3. /\ network.edges[i].from \in V /\ network.edges[i].to \in V
            /\ network.edges[i].cost \in Nat
        BY <3>2, <2>2 DEF Edge
      <3>4. total' \in Nat
        BY <3>1, <3>3, <2>1
      <3> QED
        BY <3>1, <3>2, <3>3, <3>4
    <2>5. CASE AddSource
      <3>1. PICK i \in DOMAIN network.sources :
              /\ AddEdge(Len(network.edges) + i, superSource, network.sources[i], total + 1)
              /\ total' = total
        BY <2>5 DEF AddSource
      <3>2. network.sources[i] \in 0 .. network.n - 1 /\ i \in Nat
        BY <2>3, SeqElement, Zenon
      <3>3. Len(network.edges) \in Nat
        BY <2>3, SeqLength, Zenon
      <3>4. network.sources[i] \in V /\ Len(network.edges) + i \in Nat /\ total + 1 \in Nat
        BY <2>1, <2>2, <3>2, <3>3
      <3> QED
        BY <2>1, <2>2, <3>1, <3>4
    <2>6. CASE AddSink
      <3>1. PICK i \in DOMAIN network.sinks :
              /\ AddEdge(Len(network.edges) + Len(network.sources) + i,
                         network.sinks[i], superSink, total + 1)
              /\ total' = total
        BY <2>6 DEF AddSink
      <3>2. /\ network.sinks[i] \in V /\ total + 1 \in Nat
            /\ Len(network.edges) + Len(network.sources) + i \in Nat
        <4>1. network.sinks[i] \in 0 .. network.n - 1 /\ i \in Nat
          BY <2>3, SeqElement, Zenon
        <4>2. Len(network.edges) \in Nat /\ Len(network.sources) \in Nat
          BY <2>3, SeqLength, Zenon
        <4>3. \A x, y, z \in Nat : x + y + z \in Nat
          OBVIOUS
        <4>4. total + 1 \in Nat
          BY <2>1
        <4> QED
          BY <2>2, <4>1, <4>2, <4>3, <4>4, Zenon
      <3> QED
        BY <2>1, <2>2, <3>1, <3>2
    <2> QED
      BY <2>4, <2>5, <2>6
  <1>2. /\ pc = "build" /\ pc' = "build" /\ UNCHANGED <<network, solver>>
        /\ added' = k /\ g' = WithEdge(g, u, v, c)
    BY <1>1 DEF AddEdge
  <1>3. V' = V /\ superSource' = superSource /\ superSink' = superSink
    BY <1>2, SameNodes
  <1>4. g \in [V -> Seq(Arc)] /\ PairsMatch(g)
    BY DEF DinicInv, TypeOK, Arc
  <1>5. g' \in [V -> Seq(Arc)]
    BY <1>2, <1>4, WithEdgeExtends DEF EdgeAdded
  <1>p. PairsMatch(g')
    BY <1>2, <1>4, WithEdgePairs
  <1>6. \A w \in V : \A i \in DOMAIN g'[w] : g'[w][i].rev \in DOMAIN g'[g'[w][i].to]
    BY <1>p DEF PairsMatch
  <1>7. PairsMatch(g)'
    BY <1>3, <1>p DEF PairsMatch
  <1>8. TypeOK'
    BY <1>1, <1>2, <1>3, <1>5, <1>6 DEF DinicInv, TypeOK, Arc, solver
  <1> QED
    BY <1>2, <1>7, <1>8 DEF DinicInv, SourceAtZero, SinkLevelled, PathClimbs,
              PassedArcsAreUseless

\* StartMaxFlow, the search of levels, and the end of a phase.
LEMMA SearchStep ==
  ASSUME DinicInv, StartMaxFlow \/ BfsLayer \/ BfsEnd \/ PhaseEnd
  PROVE  DinicInv'
  <1>1. UNCHANGED <<graph, g, flow>>
    BY DEF StartMaxFlow, BfsLayer, BfsEnd, PhaseEnd
  <1>2. V' = V /\ superSource' = superSource /\ superSink' = superSink
    BY <1>1, SameNodes DEF graph
  <1>3. superSource \in V /\ superSink \in V
    BY SuperNodes DEF DinicInv, TypeOK
  <1>4. PairsMatch(g)'
    BY <1>1, <1>2 DEF DinicInv, PairsMatch
  <1>5. Unlabelled \in [V -> Nat \cup {-1}] /\ Unlabelled[superSource] = 0
    BY <1>3 DEF Unlabelled
  <1>6. ASSUME pc' = "bfs", depth' \in Nat, distance' \in Nat, UNCHANGED <<next, path>>,
               level' \in [V -> Nat \cup {-1}], level'[superSource] = 0
        PROVE  DinicInv'
    <2>1. TypeOK'
      BY <1>1, <1>2, <1>6 DEF DinicInv, TypeOK, graph
    <2> QED
      BY <1>2, <1>4, <1>6, <2>1
         DEF DinicInv, SourceAtZero, SinkLevelled, PathClimbs, PassedArcsAreUseless
  <1>7. CASE StartMaxFlow
    BY <1>5, <1>6, <1>7 DEF StartMaxFlow, DinicInv, TypeOK
  <1>8. CASE BfsLayer
    <2>1. /\ pc = "bfs" /\ pc' = "bfs" /\ depth' = depth + 1 /\ depth \in Nat
          /\ UNCHANGED <<next, path, distance>> /\ distance \in Nat
          /\ level \in [V -> Nat \cup {-1}]
          /\ level' = [v \in V |-> IF v \in Reached /\ level[v] < 0
                                     THEN depth + 1 ELSE level[v]]
      BY <1>8 DEF BfsLayer, DinicInv, TypeOK
    <2>2. level[superSource] = 0
      BY <2>1 DEF DinicInv, SourceAtZero
    <2>3. level' \in [V -> Nat \cup {-1}] /\ level'[superSource] = 0
      BY <1>3, <2>1, <2>2
    <2> QED
      BY <1>6, <2>1, <2>3
  <1>9. CASE PhaseEnd
    <2>1. /\ pc = "dfs" /\ pc' = "bfs" /\ depth' = 0 /\ UNCHANGED <<next, path>>
          /\ level' = Unlabelled /\ distance' = level[superSink]
      BY <1>9 DEF PhaseEnd
    <2>2. distance' \in Nat
      BY <1>3, <2>1 DEF DinicInv, TypeOK, SinkLevelled
    <2> QED
      BY <1>5, <1>6, <2>1, <2>2
  <1>10. CASE BfsEnd
    <2>1. /\ pc = "bfs" /\ pc' \in {"dfs", "done"} /\ UNCHANGED <<level, depth, distance>>
          /\ path' = <<superSource>>
          /\ pc' = "dfs" => next' = [v \in V |-> 1] /\ level[superSink] >= 0
          /\ pc' = "done" => next' = next
      BY <1>10 DEF BfsEnd
    <2>2. \A v \in V : Len(g[v]) \in Nat
      BY DEF DinicInv, TypeOK
    <2>3. /\ next' \in [V -> Nat \ {0}]
          /\ \A v \in V : pc' = "dfs" => next'[v] <= Len(g[v]) + 1
      BY <2>1, <2>2 DEF DinicInv, TypeOK
    <2>4. path' \in Seq(V)
      BY <1>3, <2>1
    <2>5. TypeOK'
      BY <1>1, <1>2, <2>1, <2>3, <2>4 DEF DinicInv, TypeOK, graph
    <2>6. level[superSource] = 0
      BY <2>1 DEF DinicInv, SourceAtZero
    <2>7. PathClimbs'
      BY <1>2, <2>1, <2>6 DEF PathClimbs
    <2>8. PassedArcsAreUseless'
      BY <1>2, <2>1 DEF PassedArcsAreUseless
    <2> QED
      BY <1>2, <1>4, <2>1, <2>5, <2>6, <2>7, <2>8
         DEF DinicInv, SourceAtZero, SinkLevelled
  <1> QED
    BY <1>7, <1>8, <1>9, <1>10

-----------------------------------------------------------------------------

\* What holds while dfs runs.
LEMMA OnThePath ==
  ASSUME DinicInv, pc = "dfs"
  PROVE  /\ path \in Seq(V) /\ Len(path) \in Nat /\ Len(path) >= 1
         /\ path[1] = superSource /\ Top \in V
         /\ \A j \in 1 .. Len(path) : path[j] \in V /\ level[path[j]] = j - 1
         /\ \A j \in 1 .. Len(path) - 1 :
              /\ next[path[j]] \in DOMAIN g[path[j]]
              /\ g[path[j]][next[path[j]]].to = path[j + 1]
              /\ g[path[j]][next[path[j]]].cap > 0
  <1>1. path \in Seq(V) /\ Len(path) \in Nat /\ Len(path) >= 1
    BY DEF DinicInv, TypeOK, PathClimbs
  <1>2. \A j \in 1 .. Len(path) : path[j] \in V
    BY <1>1
  <1>3. Top \in V
    BY <1>1, <1>2 DEF Top
  <1> QED
    BY <1>1, <1>2, <1>3 DEF DinicInv, PathClimbs

\* The types the invariant gives, in one place.
LEMMA GraphTypes ==
  ASSUME DinicInv
  PROVE  /\ g \in [V -> Seq(Arc)] /\ PairsMatch(g)
         /\ next \in [V -> Nat \ {0}]
         /\ level \in [V -> Nat \cup {-1}]
         /\ \A v \in V : Len(g[v]) \in Nat /\ DOMAIN g[v] = 1 .. Len(g[v])
         /\ \A v \in V : \A i \in DOMAIN g[v] : g[v][i] \in Arc
         /\ pc = "dfs" => \A v \in V : next[v] <= Len(g[v]) + 1
  <1>1. g \in [V -> Seq(Arc)]
    BY DEF DinicInv, TypeOK, Arc
  <1> QED
    BY <1>1 DEF DinicInv, TypeOK

\* A node moves past an arc that is of no use.
LEMMA MovePast ==
  ASSUME DinicInv, pc = "dfs", UNCHANGED <<graph, g, level, pc>>,
         NEW u \in V, next' = [next EXCEPT ![u] = @ + 1],
         next[u] <= Len(g[u]),
         \/ ~Admissible(u, next[u])
         \/ g[u][next[u]].to # superSink /\ Exhausted(g[u][next[u]].to)
  PROVE  /\ next' \in [V -> Nat \ {0}]
         /\ \A v \in V : next'[v] <= Len(g[v]) + 1
         /\ PassedArcsAreUseless'
  <1>1. V' = V /\ superSink' = superSink
    BY SameNodes DEF graph
  <1>2. /\ next \in [V -> Nat \ {0}] /\ \A v \in V : next[v] <= Len(g[v]) + 1
        /\ \A v \in V : Len(g[v]) \in Nat /\ DOMAIN g[v] = 1 .. Len(g[v])
        /\ \A v \in V : \A i \in DOMAIN g[v] : g[v][i].to \in V
    BY GraphTypes DEF Arc
  <1>3. /\ next' \in [V -> Nat \ {0}] /\ next'[u] = next[u] + 1
        /\ \A v \in V \ {u} : next'[v] = next[v]
    BY <1>2
  <1>4. \A v \in V : next'[v] <= Len(g[v]) + 1
    BY <1>2, <1>3
  <1>5. \A v \in V : Exhausted(v) => Exhausted(v)'
    BY <1>2, <1>3 DEF Exhausted
  <1>6. ASSUME NEW v \in V, NEW i \in 1 .. next'[v] - 1, i \in DOMAIN g[v]
        PROVE  \/ ~Admissible(v, i)
               \/ g[v][i].to # superSink /\ Exhausted(g[v][i].to)
    <2>1. CASE i \in 1 .. next[v] - 1
      BY <1>6, <2>1 DEF DinicInv, PassedArcsAreUseless
    <2>2. CASE i \notin 1 .. next[v] - 1
      <3>1. v = u /\ i = next[u]
        BY <1>2, <1>3, <2>2
      <3> QED
        BY <3>1
    <2> QED
      BY <2>1, <2>2
  <1>7. \A v \in V : \A i \in DOMAIN g[v] : Admissible(v, i)' <=> Admissible(v, i)
    BY DEF Admissible
  <1>8. PassedArcsAreUseless'
    BY <1>1, <1>2, <1>5, <1>6, <1>7 DEF PassedArcsAreUseless
  <1> QED
    BY <1>3, <1>4, <1>8

\* A current arc is passed by,
LEMMA SkipStep == DinicInv /\ Skip => DinicInv'
  <1> SUFFICES ASSUME DinicInv, Skip PROVE DinicInv'
    OBVIOUS
  <1>1. /\ pc = "dfs" /\ next[Top] <= Len(g[Top]) /\ ~Admissible(Top, next[Top])
        /\ next' = [next EXCEPT ![Top] = @ + 1]
        /\ UNCHANGED <<graph, g, level, depth, path, flow, pc, distance>>
    BY DEF Skip, Looking
  <1>2. V' = V /\ superSource' = superSource /\ superSink' = superSink
    BY <1>1, SameNodes DEF graph
  <1>3. /\ Top \in V /\ Len(path) \in Nat /\ Len(path) >= 1
        /\ \A j \in 1 .. Len(path) : path[j] \in V /\ level[path[j]] = j - 1
    BY <1>1, OnThePath
  <1>4. /\ next' \in [V -> Nat \ {0}]
        /\ \A v \in V : next'[v] <= Len(g[v]) + 1
        /\ PassedArcsAreUseless'
    BY <1>1, <1>3, MovePast
  <1>5. TypeOK'
    BY <1>1, <1>2, <1>4 DEF DinicInv, TypeOK, graph
  <1>6. \A j \in 1 .. Len(path) - 1 : next'[path[j]] = next[path[j]]
    <2>1. \A j \in 1 .. Len(path) - 1 : path[j] # Top
      BY <1>3 DEF Top
    <2>2. next \in [V -> Nat \ {0}]
      BY GraphTypes
    <2> QED
      BY <1>1, <1>3, <2>1, <2>2
  <1>7. PathClimbs'
    BY <1>1, <1>2, <1>6 DEF DinicInv, PathClimbs
  <1> QED
    BY <1>1, <1>2, <1>4, <1>5, <1>7
       DEF DinicInv, PairsMatch, SourceAtZero, SinkLevelled

\* the path grows by one,
LEMMA DescendStep == DinicInv /\ Descend => DinicInv'
  <1> SUFFICES ASSUME DinicInv, Descend PROVE DinicInv'
    OBVIOUS
  <1> DEFINE w == g[Top][next[Top]].to
  <1>1. /\ pc = "dfs" /\ next[Top] <= Len(g[Top]) /\ Admissible(Top, next[Top])
        /\ path' = Append(path, w)
        /\ UNCHANGED <<graph, g, level, depth, next, flow, pc, distance>>
    BY DEF Descend, Looking
  <1>2. V' = V /\ superSource' = superSource /\ superSink' = superSink
    BY <1>1, SameNodes DEF graph
  <1>3. /\ path \in Seq(V) /\ Top \in V /\ Len(path) \in Nat /\ Len(path) >= 1
        /\ path[1] = superSource
        /\ \A j \in 1 .. Len(path) : path[j] \in V /\ level[path[j]] = j - 1
        /\ \A j \in 1 .. Len(path) - 1 :
             /\ next[path[j]] \in DOMAIN g[path[j]]
             /\ g[path[j]][next[path[j]]].to = path[j + 1]
             /\ g[path[j]][next[path[j]]].cap > 0
    BY <1>1, OnThePath
  <1>4. next[Top] \in DOMAIN g[Top]
    BY <1>1, <1>3, GraphTypes
  <1>5. w \in V /\ g[Top][next[Top]].cap > 0 /\ level[w] = level[Top] + 1
    <2>1. g[Top][next[Top]] \in Arc
      BY <1>3, <1>4, GraphTypes
    <2> QED
      BY <1>1, <2>1 DEF Arc, Admissible
  <1> HIDE DEF w
  <1>6. /\ path' \in Seq(V) /\ Len(path') = Len(path) + 1 /\ path'[Len(path) + 1] = w
        /\ \A j \in 1 .. Len(path) : path'[j] = path[j]
    BY <1>1, <1>3, <1>5
  <1>7. TypeOK'
    BY <1>1, <1>2, <1>6 DEF DinicInv, TypeOK, graph
  <1>8. \A j \in 1 .. Len(path') : level[path'[j]] = j - 1
    BY <1>3, <1>5, <1>6 DEF Top
  <1>9. \A j \in 1 .. Len(path') - 1 :
          /\ next[path'[j]] \in DOMAIN g[path'[j]]
          /\ g[path'[j]][next[path'[j]]].to = path'[j + 1]
          /\ g[path'[j]][next[path'[j]]].cap > 0
    <2> SUFFICES ASSUME NEW j \in 1 .. Len(path') - 1
                 PROVE  /\ next[path'[j]] \in DOMAIN g[path'[j]]
                        /\ g[path'[j]][next[path'[j]]].to = path'[j + 1]
                        /\ g[path'[j]][next[path'[j]]].cap > 0
      OBVIOUS
    <2>1. j \in 1 .. Len(path) /\ path'[j] = path[j]
      BY <1>3, <1>6
    <2>2. CASE j = Len(path)
      BY <1>4, <1>5, <1>6, <2>1, <2>2 DEF Top, w
    <2>3. CASE j # Len(path)
      <3>1. j \in 1 .. Len(path) - 1 /\ j + 1 \in 1 .. Len(path)
        BY <1>3, <2>1, <2>3
      <3>2. path'[j + 1] = path[j + 1]
        BY <1>6, <3>1
      <3> QED
        BY <1>3, <2>1, <3>1, <3>2
    <2> QED
      BY <2>2, <2>3
  <1>10. PathClimbs'
    BY <1>1, <1>2, <1>3, <1>6, <1>8, <1>9 DEF PathClimbs
  <1> QED
    BY <1>1, <1>2, <1>7, <1>10
       DEF DinicInv, PairsMatch, SourceAtZero, SinkLevelled, PassedArcsAreUseless,
           Admissible, Exhausted

\* the path gives up a node.
LEMMA RetreatStep == DinicInv /\ Retreat => DinicInv'
  <1> SUFFICES ASSUME DinicInv, Retreat PROVE DinicInv'
    OBVIOUS
  <1> DEFINE m == Len(path) - 1
             u == path[m]
  <1>1. /\ pc = "dfs" /\ Top # superSink /\ Exhausted(Top) /\ Len(path) > 1
        /\ path' = SubSeq(path, 1, m)
        /\ next' = [next EXCEPT ![u] = @ + 1]
        /\ UNCHANGED <<graph, g, level, depth, flow, pc, distance>>
    BY DEF Retreat
  <1>2. V' = V /\ superSource' = superSource /\ superSink' = superSink
    BY <1>1, SameNodes DEF graph
  <1>3. /\ path \in Seq(V) /\ Len(path) \in Nat /\ path[1] = superSource
        /\ \A j \in 1 .. Len(path) : path[j] \in V /\ level[path[j]] = j - 1
        /\ \A j \in 1 .. Len(path) - 1 :
             /\ next[path[j]] \in DOMAIN g[path[j]]
             /\ g[path[j]][next[path[j]]].to = path[j + 1]
             /\ g[path[j]][next[path[j]]].cap > 0
    BY <1>1, OnThePath
  <1>4. m \in 1 .. Len(path) /\ m \in Nat /\ m >= 1 /\ u \in V
    BY <1>1, <1>3
  <1>5. /\ next[u] \in DOMAIN g[u] /\ g[u][next[u]].to = Top
    BY <1>1, <1>3, <1>4 DEF Top
  <1>6. next[u] <= Len(g[u])
    BY <1>4, <1>5, GraphTypes
  <1>7. /\ next' \in [V -> Nat \ {0}]
        /\ \A v \in V : next'[v] <= Len(g[v]) + 1
        /\ PassedArcsAreUseless'
    BY <1>1, <1>4, <1>5, <1>6, MovePast
  <1>8. /\ path' \in Seq(V) /\ Len(path') = m
        /\ \A j \in 1 .. m : path'[j] = path[j]
    BY <1>1, <1>3, <1>4
  <1>9. TypeOK'
    BY <1>1, <1>2, <1>7, <1>8 DEF DinicInv, TypeOK, graph
  <1>10. \A j \in 1 .. m - 1 : next'[path[j]] = next[path[j]]
    <2>1. ASSUME NEW j \in 1 .. m - 1 PROVE path[j] # u /\ path[j] \in V
      <3>1. j \in 1 .. Len(path) /\ j # m /\ j \in Int
        BY <1>3, <1>4
      <3>2. level[path[j]] = j - 1 /\ level[u] = m - 1 /\ path[j] \in V
        BY <1>3, <1>4, <3>1
      <3> QED
        BY <1>4, <3>1, <3>2
    <2>2. next \in [V -> Nat \ {0}]
      BY GraphTypes
    <2> QED
      BY <1>1, <1>4, <2>1, <2>2
  <1> HIDE DEF u, m
  <1>11. PathClimbs'
    <2>1. \A j \in 1 .. m : level[path'[j]] = j - 1
      BY <1>3, <1>4, <1>8 DEF m
    <2>2. \A j \in 1 .. m - 1 :
            /\ next'[path'[j]] \in DOMAIN g[path'[j]]
            /\ g[path'[j]][next'[path'[j]]].to = path'[j + 1]
            /\ g[path'[j]][next'[path'[j]]].cap > 0
      <3> SUFFICES ASSUME NEW j \in 1 .. m - 1
                   PROVE  /\ next'[path'[j]] \in DOMAIN g[path'[j]]
                          /\ g[path'[j]][next'[path'[j]]].to = path'[j + 1]
                          /\ g[path'[j]][next'[path'[j]]].cap > 0
        OBVIOUS
      <3>1. j \in 1 .. m /\ j + 1 \in 1 .. m /\ j \in 1 .. Len(path) - 1
        BY <1>3, <1>4 DEF m
      <3>2. path'[j] = path[j] /\ path'[j + 1] = path[j + 1]
        BY <1>8, <3>1
      <3>3. next'[path[j]] = next[path[j]]
        BY <1>10
      <3>4. /\ next[path[j]] \in DOMAIN g[path[j]]
            /\ g[path[j]][next[path[j]]].to = path[j + 1]
            /\ g[path[j]][next[path[j]]].cap > 0
        BY <1>3, <3>1
      <3> QED
        BY <3>2, <3>3, <3>4
    <2>3. Len(path') >= 1 /\ path'[1] = superSource
      BY <1>3, <1>4, <1>8
    <2>4. UNCHANGED <<g, level, superSource>>
      BY <1>1, <1>2
    <2> QED
      BY <1>8, <2>1, <2>2, <2>3, <2>4 DEF PathClimbs
  <1> QED
    BY <1>1, <1>2, <1>7, <1>9, <1>11
       DEF DinicInv, PairsMatch, SourceAtZero, SinkLevelled

-----------------------------------------------------------------------------

\* A function on the indices of a sequence is a sequence of the same length.
LEMMA MapOfSequence ==
  ASSUME NEW n \in Nat, NEW S, NEW F \in [1 .. n -> S]
  PROVE  F \in Seq(S) /\ Len(F) = n /\ DOMAIN F = 1 .. n
  OBVIOUS

\* An arc with its capacity replaced.
LEMMA NewCapacity ==
  ASSUME NEW a \in Arc, NEW c \in Nat
  PROVE  LET b == [a EXCEPT !.cap = c] IN
         b \in Arc /\ b.cap = c /\ b.to = a.to /\ b.rev = a.rev
  BY DEF Arc

\* The arcs of the path climb and have capacity left for the bottleneck.
LEMMA CarryingArcs ==
  ASSUME DinicInv, pc = "dfs", Top = superSink
  PROVE  /\ Bottleneck \in Nat
         /\ \A a \in Carrying :
              /\ a = <<a[1], a[2]>> /\ a[1] \in V /\ a[2] \in DOMAIN g[a[1]]
              /\ g[a[1]][a[2]].to \in V
              /\ level[g[a[1]][a[2]].to] = level[a[1]] + 1
              /\ Bottleneck <= g[a[1]][a[2]].cap
  <1>1. /\ Len(path) \in Nat /\ Len(path) >= 1 /\ path[1] = superSource
        /\ \A j \in 1 .. Len(path) : path[j] \in V /\ level[path[j]] = j - 1
        /\ \A j \in 1 .. Len(path) - 1 :
             /\ next[path[j]] \in DOMAIN g[path[j]]
             /\ g[path[j]][next[path[j]]].to = path[j + 1]
             /\ g[path[j]][next[path[j]]].cap > 0
    BY OnThePath
  <1>2. Len(path) > 1
    <2>1. superSource # superSink
      BY SuperNodes DEF DinicInv, TypeOK
    <2> QED
      BY <1>1, <2>1 DEF Top
  <1>3. \A a \in Carrying :
          /\ a = <<a[1], a[2]>> /\ a[1] \in V /\ a[2] \in DOMAIN g[a[1]]
          /\ g[a[1]][a[2]].to \in V
          /\ level[g[a[1]][a[2]].to] = level[a[1]] + 1
    <2> SUFFICES ASSUME NEW j \in 1 .. Len(path) - 1
                 PROVE  /\ path[j] \in V /\ next[path[j]] \in DOMAIN g[path[j]]
                        /\ g[path[j]][next[path[j]]].to \in V
                        /\ level[g[path[j]][next[path[j]]].to] = level[path[j]] + 1
      BY DEF Carrying
    <2>1. j \in 1 .. Len(path) /\ j + 1 \in 1 .. Len(path) /\ j \in Int
      BY <1>1
    <2> QED
      BY <1>1, <2>1
  <1> DEFINE caps == {g[a[1]][a[2]].cap : a \in Carrying}
  <1>4. caps \subseteq Nat
    <2>1. \A a \in Carrying : g[a[1]][a[2]] \in Arc
      BY <1>3, GraphTypes
    <2> QED
      BY <2>1 DEF Arc
  <1>5. caps # {}
    <2>1. 1 \in 1 .. Len(path) - 1
      BY <1>1, <1>2
    <2> QED
      BY <2>1 DEF Carrying
  <1>6. Bottleneck = Min(caps)
    BY DEF Bottleneck
  <1> HIDE DEF caps
  <1>7. Bottleneck \in caps /\ \A x \in caps : Bottleneck <= x
    BY <1>4, <1>5, <1>6, MinOfNaturals
  <1> QED
    BY <1>3, <1>4, <1>7 DEF caps

\* The reverse of an arc of the path goes down, is none of the path, and has
\* that arc for its reverse.
LEMMA ReturningArcs ==
  ASSUME DinicInv, pc = "dfs", Top = superSink, NEW v \in V, NEW i \in DOMAIN g[v]
  PROVE  /\ <<v, i>> \in Carrying => /\ level[g[v][i].to] = level[v] + 1
                                     /\ Bottleneck <= g[v][i].cap
                                     /\ <<v, i>> \notin Returning
         /\ <<v, i>> \in Returning => /\ level[v] = level[g[v][i].to] + 1
                                      /\ <<g[v][i].to, g[v][i].rev>> \in Carrying
  <1>1. \A a \in Carrying :
          /\ a = <<a[1], a[2]>> /\ a[1] \in V /\ a[2] \in DOMAIN g[a[1]]
          /\ g[a[1]][a[2]].to \in V
          /\ level[g[a[1]][a[2]].to] = level[a[1]] + 1
          /\ Bottleneck <= g[a[1]][a[2]].cap
    BY CarryingArcs
  <1>2. \A w \in V : level[w] \in Int
    BY GraphTypes
  <1>3. <<v, i>> \in Carrying => level[g[v][i].to] = level[v] + 1 /\ Bottleneck <= g[v][i].cap
    BY <1>1
  <1>4. ASSUME <<v, i>> \in Returning
        PROVE  /\ level[v] = level[g[v][i].to] + 1
               /\ <<g[v][i].to, g[v][i].rev>> \in Carrying
    <2>1. PICK a \in Carrying : <<v, i>> = <<g[a[1]][a[2]].to, g[a[1]][a[2]].rev>>
      BY <1>4 DEF Returning, Reverse
    <2>2. v = g[a[1]][a[2]].to /\ i = g[a[1]][a[2]].rev
      BY <2>1
    <2>3. v # a[1]
      <3>1. level[v] = level[a[1]] + 1 /\ a[1] \in V
        BY <1>1, <2>2
      <3>2. level[a[1]] \in Int
        BY <1>2, <3>1
      <3> QED
        BY <3>1, <3>2
    <2>4. g[v][i].to = a[1] /\ g[v][i].rev = a[2]
      BY <1>1, <2>2, <2>3 DEF DinicInv, PairsMatch
    <2> QED
      BY <1>1, <2>2, <2>4
  <1>5. ~(<<v, i>> \in Carrying /\ <<v, i>> \in Returning)
    <2> SUFFICES ASSUME <<v, i>> \in Carrying, <<v, i>> \in Returning PROVE FALSE
      OBVIOUS
    <2>1. /\ level[g[v][i].to] = level[v] + 1 /\ level[v] = level[g[v][i].to] + 1
      BY <1>3, <1>4
    <2>2. g[v][i].to \in V
      BY <1>1
    <2> QED
      BY <1>2, <2>1, <2>2
  <1> QED
    BY <1>3, <1>4, <1>5

\* What a push does to the arcs.
LEMMA PushedArcs ==
  ASSUME DinicInv, pc = "dfs", Top = superSink, NEW h, h = Pushed(Bottleneck)
  PROVE  /\ h \in [V -> Seq(Arc)]
         /\ \A v \in V :
              /\ Len(h[v]) = Len(g[v]) /\ DOMAIN h[v] = DOMAIN g[v]
              /\ \A i \in DOMAIN g[v] :
                   /\ h[v][i].to = g[v][i].to /\ h[v][i].rev = g[v][i].rev
                   /\ <<v, i>> \in Carrying => h[v][i].cap = g[v][i].cap - Bottleneck
                   /\ <<v, i>> \in Returning => h[v][i].cap = g[v][i].cap + Bottleneck
                   /\ <<v, i>> \notin Carrying \cup Returning => h[v][i].cap = g[v][i].cap
  <1> DEFINE f == Bottleneck
             d(v, i) == g[v][i].cap - (IF <<v, i>> \in Carrying THEN f ELSE 0)
                                    + (IF <<v, i>> \in Returning THEN f ELSE 0)
             arc(v, i) == [g[v][i] EXCEPT !.cap = d(v, i)]
  <1>1. f \in Nat
    BY CarryingArcs
  <1>2. h = [v \in V |-> [i \in DOMAIN g[v] |-> arc(v, i)]]
    BY DEF Pushed
  <1> HIDE DEF f
  <1>3. ASSUME NEW v \in V, NEW i \in DOMAIN g[v]
        PROVE  /\ arc(v, i) \in Arc
               /\ arc(v, i).to = g[v][i].to /\ arc(v, i).rev = g[v][i].rev
               /\ <<v, i>> \in Carrying => arc(v, i).cap = g[v][i].cap - f
               /\ <<v, i>> \in Returning => arc(v, i).cap = g[v][i].cap + f
               /\ <<v, i>> \notin Carrying \cup Returning => arc(v, i).cap = g[v][i].cap
    <2>1. g[v][i] \in Arc
      BY GraphTypes
    <2>2. /\ <<v, i>> \in Carrying => f <= g[v][i].cap /\ <<v, i>> \notin Returning
      BY ReturningArcs DEF f
    <2>3. g[v][i].cap \in Nat
      BY <2>1 DEF Arc
    <2>4. /\ d(v, i) \in Nat
          /\ <<v, i>> \in Carrying => d(v, i) = g[v][i].cap - f
          /\ <<v, i>> \in Returning => d(v, i) = g[v][i].cap + f
          /\ <<v, i>> \notin Carrying \cup Returning => d(v, i) = g[v][i].cap
      BY <1>1, <2>2, <2>3
    <2> HIDE DEF d
    <2>5. /\ arc(v, i) \in Arc /\ arc(v, i).cap = d(v, i)
          /\ arc(v, i).to = g[v][i].to /\ arc(v, i).rev = g[v][i].rev
      BY <2>1, <2>4, NewCapacity, Zenon
    <2> HIDE DEF arc
    <2> QED
      BY <2>4, <2>5
  <1> HIDE DEF arc, d
  <1>4. \A v \in V : /\ h[v] = [i \in DOMAIN g[v] |-> arc(v, i)]
                     /\ \A i \in DOMAIN g[v] : h[v][i] = arc(v, i)
    BY <1>2
  <1>5. ASSUME NEW v \in V
        PROVE  h[v] \in Seq(Arc) /\ Len(h[v]) = Len(g[v]) /\ DOMAIN h[v] = DOMAIN g[v]
    <2>1. Len(g[v]) \in Nat /\ DOMAIN g[v] = 1 .. Len(g[v])
      BY GraphTypes
    <2>2. h[v] \in [1 .. Len(g[v]) -> Arc]
      <3>1. \A i \in 1 .. Len(g[v]) : arc(v, i) \in Arc
        BY <1>3, <2>1
      <3>2. h[v] = [i \in 1 .. Len(g[v]) |-> arc(v, i)]
        BY <1>4, <2>1
      <3> QED
        BY <3>1, <3>2
    <2> QED
      BY <2>1, <2>2, MapOfSequence
  <1>6. h \in [V -> Seq(Arc)]
    BY <1>2, <1>5
  <1> QED
    BY <1>3, <1>4, <1>5, <1>6 DEF f

\* A push keeps the invariant: no arc of the path is the reverse of another.
LEMMA AugmentStep == DinicInv /\ Augment => DinicInv'
  <1> SUFFICES ASSUME DinicInv, Augment PROVE DinicInv'
    OBVIOUS
  <1>1. /\ pc = "dfs" /\ Top = superSink /\ g' = Pushed(Bottleneck)
        /\ flow' = flow + Bottleneck /\ path' = <<superSource>>
        /\ UNCHANGED <<graph, level, depth, next, pc, distance>>
    BY DEF Augment
  <1>2. V' = V /\ superSource' = superSource /\ superSink' = superSink
    BY <1>1, SameNodes DEF graph
  <1>3. /\ g' \in [V -> Seq(Arc)]
        /\ \A v \in V :
             /\ Len(g'[v]) = Len(g[v]) /\ DOMAIN g'[v] = DOMAIN g[v]
             /\ \A i \in DOMAIN g[v] :
                  /\ g'[v][i].to = g[v][i].to /\ g'[v][i].rev = g[v][i].rev
                  /\ <<v, i>> \in Carrying => g'[v][i].cap = g[v][i].cap - Bottleneck
                  /\ <<v, i>> \in Returning => g'[v][i].cap = g[v][i].cap + Bottleneck
                  /\ <<v, i>> \notin Carrying \cup Returning => g'[v][i].cap = g[v][i].cap
    BY <1>1, PushedArcs
  <1>4. /\ \A v \in V : \A i \in DOMAIN g[v] : g[v][i] \in Arc
        /\ level \in [V -> Nat \cup {-1}]
        /\ PairsMatch(g)
    BY GraphTypes
  <1>5. Bottleneck \in Nat
    BY <1>1, CarryingArcs
  <1>6. \A v \in V : \A i \in DOMAIN g[v] : g[v][i].to \in V
    BY <1>4 DEF Arc
  <1>7. PairsMatch(g)'
    <2> SUFFICES ASSUME NEW v \in V, NEW i \in DOMAIN g[v]
                 PROVE  /\ g'[v][i].rev \in DOMAIN g'[g'[v][i].to]
                        /\ g'[g'[v][i].to][g'[v][i].rev].to = v
                        /\ g'[v][i].to # v => g'[g'[v][i].to][g'[v][i].rev].rev = i
      BY <1>2, <1>3 DEF PairsMatch
    <2> DEFINE x == g[v][i].to
               r == g[v][i].rev
    <2>1. /\ x \in V /\ r \in DOMAIN g[x] /\ g[x][r].to = v
          /\ x # v => g[x][r].rev = i
      BY <1>4, <1>6 DEF PairsMatch
    <2>2. g'[v][i].to = x /\ g'[v][i].rev = r
      BY <1>3
    <2> HIDE DEF x, r
    <2>3. /\ DOMAIN g'[x] = DOMAIN g[x]
          /\ g'[x][r].to = g[x][r].to /\ g'[x][r].rev = g[x][r].rev
      BY <1>3, <2>1
    <2> QED
      BY <2>1, <2>2, <2>3
  <1>8. TypeOK'
    <2>1. path' \in Seq(V')
      <3>1. superSource \in V
        BY SuperNodes DEF DinicInv, TypeOK
      <3> QED
        BY <1>1, <1>2, <3>1
    <2>2. flow' \in Nat
      BY <1>1, <1>5 DEF DinicInv, TypeOK
    <2>3. \A v \in V : \A i \in DOMAIN g'[v] : g'[v][i].rev \in DOMAIN g'[g'[v][i].to]
      BY <1>2, <1>7 DEF PairsMatch
    <2>4. \A v \in V : pc' = "dfs" => next'[v] <= Len(g'[v]) + 1
      BY <1>1, <1>3 DEF DinicInv, TypeOK
    <2> QED
      BY <1>1, <1>2, <1>3, <2>1, <2>2, <2>3, <2>4 DEF DinicInv, TypeOK, Arc, graph
  <1>9. PathClimbs'
    <2>1. level[superSource] = 0
      BY <1>1 DEF DinicInv, SourceAtZero
    <2> QED
      BY <1>1, <1>2, <2>1 DEF PathClimbs
  <1>10. ASSUME NEW v \in V, NEW i \in DOMAIN g[v], Admissible(v, i)'
         PROVE  Admissible(v, i)
    <2>1. /\ g'[v][i].cap > 0 /\ level[g[v][i].to] = level[v] + 1
      BY <1>1, <1>3, <1>10 DEF Admissible
    <2>2. level[v] \in Int /\ level[g[v][i].to] \in Int
      BY <1>4, <1>6
    <2>3. <<v, i>> \notin Returning
      <3>1. <<v, i>> \in Returning => level[v] = level[g[v][i].to] + 1
        BY <1>1, ReturningArcs
      <3> QED
        BY <2>1, <2>2, <3>1
    <2>4. g[v][i].cap \in Nat /\ g'[v][i].cap <= g[v][i].cap
      <3>1. g[v][i].cap \in Nat
        BY <1>4 DEF Arc
      <3>2. \/ g'[v][i].cap = g[v][i].cap - Bottleneck
            \/ g'[v][i].cap = g[v][i].cap
        BY <1>3, <2>3
      <3> QED
        BY <1>5, <3>1, <3>2
    <2>5. g[v][i].cap > 0
      <3>1. g'[v][i].cap \in Nat
        <4>1. g'[v] \in Seq(Arc) /\ i \in DOMAIN g'[v]
          BY <1>3
        <4>2. g'[v][i] \in Arc
          BY <4>1
        <4> QED
          BY <4>2 DEF Arc
      <3> QED
        BY <2>1, <2>4, <3>1
    <2> QED
      BY <2>1, <2>5 DEF Admissible
  <1>11. PassedArcsAreUseless'
    <2> SUFFICES ASSUME NEW v \in V, NEW i \in 1 .. next[v] - 1, i \in DOMAIN g[v]
                 PROVE  \/ ~Admissible(v, i)'
                        \/ /\ g[v][i].to # superSink
                           /\ next[g[v][i].to] > Len(g'[g[v][i].to])
      <3>1. \A v \in V : \A i \in 1 .. next[v] - 1 :
              i \in DOMAIN g'[v] => i \in DOMAIN g[v] /\ g'[v][i].to = g[v][i].to
        BY <1>3
      <3>2. next' = next
        BY <1>1
      <3> QED
        BY <1>2, <3>1, <3>2 DEF PassedArcsAreUseless, Exhausted
    <2>1. \/ ~Admissible(v, i)
          \/ g[v][i].to # superSink /\ Exhausted(g[v][i].to)
      BY <1>1 DEF DinicInv, PassedArcsAreUseless
    <2> QED
      BY <1>3, <1>6, <1>10, <2>1 DEF Exhausted
  <1> QED
    BY <1>1, <1>2, <1>7, <1>8, <1>9, <1>11 DEF DinicInv, SourceAtZero, SinkLevelled

-----------------------------------------------------------------------------

\* A step of somebody else keeps it.
LEMMA DinicStutter == DinicInv /\ UNCHANGED vars => DinicInv'
  <1> SUFFICES ASSUME DinicInv, UNCHANGED vars PROVE DinicInv'
    OBVIOUS
  <1>1. V' = V /\ superSource' = superSource /\ superSink' = superSink
    BY SameNodes DEF vars, graph
  <1>2. TypeOK'
    BY <1>1 DEF DinicInv, TypeOK, vars, graph, solver
  <1>3. PairsMatch(g)' /\ SourceAtZero' /\ SinkLevelled' /\ PathClimbs'
    BY <1>1 DEF DinicInv, PairsMatch, SourceAtZero, SinkLevelled, PathClimbs, vars, solver
  <1>4. PassedArcsAreUseless'
    BY <1>1 DEF DinicInv, PassedArcsAreUseless, Admissible, Exhausted, vars, solver
  <1> QED
    BY <1>2, <1>3, <1>4 DEF DinicInv

\* Arcs match, the path climbs and passed arcs are useless, at every step.
THEOREM DinicInvariant == Spec => []DinicInv
  <1>1. DinicInv /\ [Next]_vars => DinicInv'
    BY BuildStep, SearchStep, SkipStep, DescendStep, RetreatStep, AugmentStep,
       DinicStutter DEF Next
  <1> QED
    BY <1>1, DinicInit, PTL DEF Spec

\* The solver's variables keep their types; no residual capacity is negative.
THEOREM DinicTypeCorrect == Spec => []TypeOK
  BY DinicInvariant, PTL DEF DinicInv

\* An arc passed in a phase is of no use until the next.
THEOREM CurrentArcsAreSound == Spec => []PassedArcsAreUseless
  BY DinicInvariant, PTL DEF DinicInv

\* A push takes from an arc what it gives to its reverse, and the other way
\* round.
LEMMA PushKeepsSum ==
  ASSUME DinicInv, Augment, NEW v \in V, NEW i \in DOMAIN g[v]
  PROVE  LET r == Reverse(<<v, i>>) IN
         /\ g'[v][i].to = g[v][i].to /\ g'[v][i].rev = g[v][i].rev
         /\ g'[v][i].cap + g'[r[1]][r[2]].cap = g[v][i].cap + g[r[1]][r[2]].cap
  <1> DEFINE x == g[v][i].to
             r == g[v][i].rev
  <1>1. pc = "dfs" /\ Top = superSink /\ g' = Pushed(Bottleneck)
    BY DEF Augment
  <1>2. /\ \A w \in V : \A j \in DOMAIN g[w] :
             /\ g'[w][j].to = g[w][j].to /\ g'[w][j].rev = g[w][j].rev
             /\ <<w, j>> \in Carrying => g'[w][j].cap = g[w][j].cap - Bottleneck
             /\ <<w, j>> \in Returning => g'[w][j].cap = g[w][j].cap + Bottleneck
             /\ <<w, j>> \notin Carrying \cup Returning => g'[w][j].cap = g[w][j].cap
    BY <1>1, PushedArcs
  <1>3. /\ x \in V /\ r \in DOMAIN g[x] /\ g[x][r].to = v
        /\ x # v => g[x][r].rev = i
        /\ g[v][i].cap \in Nat /\ g[x][r].cap \in Nat
        /\ level[v] \in Int /\ level[x] \in Int
    <2>1. g[v][i] \in Arc /\ PairsMatch(g) /\ \A w \in V : level[w] \in Int
      BY GraphTypes
    <2>2. x \in V /\ g[v][i].cap \in Nat
      BY <2>1 DEF Arc
    <2>3. r \in DOMAIN g[x] /\ g[x][r].to = v /\ (x # v => g[x][r].rev = i)
      BY <2>1 DEF PairsMatch
    <2>4. g[x][r] \in Arc
      BY <2>2, <2>3, GraphTypes
    <2> QED
      BY <2>1, <2>2, <2>3, <2>4 DEF Arc
  <1>4. Bottleneck \in Nat
    BY <1>1, CarryingArcs
  <1>5. /\ <<v, i>> \in Carrying => level[x] = level[v] + 1 /\ <<x, r>> \in Returning
        /\ <<v, i>> \in Returning => level[v] = level[x] + 1 /\ <<x, r>> \in Carrying
    BY <1>1, ReturningArcs DEF Returning, Reverse
  <1> HIDE DEF x, r
  <1>6. /\ <<x, r>> \in Carrying => <<v, i>> \in Returning
        /\ <<x, r>> \in Returning => <<v, i>> \in Carrying
    <2>1. <<x, r>> \in Carrying => level[v] = level[x] + 1
      BY <1>1, <1>3, ReturningArcs
    <2>2. <<x, r>> \in Returning => level[x] = level[v] + 1
                                    /\ <<v, g[x][r].rev>> \in Carrying
      BY <1>1, <1>3, ReturningArcs
    <2>3. <<x, r>> \in Carrying => <<v, g[x][r].rev>> \in Returning
      <3> SUFFICES ASSUME <<x, r>> \in Carrying PROVE <<v, g[x][r].rev>> \in Returning
        OBVIOUS
      <3>1. Reverse(<<x, r>>) = <<v, g[x][r].rev>>
        BY <1>3 DEF Reverse
      <3> QED
        BY <3>1 DEF Returning
    <2> QED
      BY <1>3, <2>1, <2>2, <2>3
  <1>7. Reverse(<<v, i>>) = <<x, r>>
    BY DEF Reverse, x, r
  <1>8. g'[v][i].cap + g'[x][r].cap = g[v][i].cap + g[x][r].cap
    <2>1. CASE <<v, i>> \in Carrying
      BY <1>2, <1>3, <1>4, <1>5, <2>1
    <2>2. CASE <<v, i>> \in Returning
      BY <1>2, <1>3, <1>4, <1>5, <2>2
    <2>3. CASE <<v, i>> \notin Carrying \cup Returning
      BY <1>2, <1>3, <1>6, <2>3
    <2> QED
      BY <2>1, <2>2, <2>3
  <1> QED
    BY <1>2, <1>7, <1>8

\* Flow only moves between an arc and its reverse.
THEOREM PairsAreKept == Spec => PairsKeepTheirSum
  <1> DEFINE Kept ==
        pc # "build" =>
          \A v \in V : \A i \in DOMAIN g[v] :
            LET r == Reverse(<<v, i>>) IN
            /\ g'[v][i].to = g[v][i].to /\ g'[v][i].rev = g[v][i].rev
            /\ g'[v][i].cap + g'[r[1]][r[2]].cap = g[v][i].cap + g[r[1]][r[2]].cap
  <1>1. DinicInv /\ [Next]_vars => [Kept]_vars
    <2> SUFFICES ASSUME DinicInv, Next, pc # "build", NEW v \in V, NEW i \in DOMAIN g[v]
                 PROVE  LET r == Reverse(<<v, i>>) IN
                        /\ g'[v][i].to = g[v][i].to /\ g'[v][i].rev = g[v][i].rev
                        /\ g'[v][i].cap + g'[r[1]][r[2]].cap
                             = g[v][i].cap + g[r[1]][r[2]].cap
      OBVIOUS
    <2>1. CASE ~Augment
      <3>1. g' = g
        BY <2>1 DEF Next, AddPipe, AddSource, AddSink, AddEdge, StartMaxFlow, BfsLayer,
                    BfsEnd, Skip, Descend, Retreat, PhaseEnd
      <3> QED
        BY <3>1
    <2>2. CASE Augment
      BY <2>2, PushKeepsSum
    <2> QED
      BY <2>1, <2>2
  <1> QED
    BY <1>1, DinicInvariant, PTL DEF Spec, PairsKeepTheirSum
=============================================================================
