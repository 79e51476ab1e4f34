------------------------------- MODULE Dijkstra -------------------------------
(***************************************************************************)
(* internal/incident, earliestArrivals: the multi-source relaxation that   *)
(* computes when contamination reaches each node.  The heap is a set of    *)
(* entries out of which a smallest one comes; entries that tie come out in *)
(* any order, and the pipes of a node are scanned in any order, which is   *)
(* the order they were submitted in.  Two pipes between the same nodes     *)
(* with the same minutes act as one.  The network is chosen in the initial *)
(* state among those Validate accepts.                                     *)
(***************************************************************************)
EXTENDS Integers, FiniteSets

CONSTANTS
  Nodes,
  Traversals,  \* minutes a pipe may take
  Minutes,     \* minutes a release may happen at
  MaxPipes,    \* bound on the number of pipes
  MaxReleases, \* bound on the number of releases
  Never        \* math.MaxInt64

ASSUME DijkstraAssumption ==
  /\ IsFiniteSet(Nodes)
  /\ IsFiniteSet(Traversals)
  /\ Traversals \subseteq Nat \ {0}
  /\ Minutes \subseteq Nat
  /\ Never \in Nat
  /\ \A m \in Minutes : m < Never

VARIABLES
  pipes,     \* the pipes of the specification
  releases,  \* its releases
  dist,      \* tentative earliest arrivals
  queue,     \* the heap: pairs of a node and a tentative minute
  now,       \* the minute of the entry popped last
  todo,      \* the pipes of its node that are still to be scanned
  settled    \* the nodes whose pipes have been scanned, or are being

spec == <<pipes, releases>>
vars == <<spec, dist, queue, now, todo, settled>>

Pipe == [from : Nodes, to : Nodes, minutes : Traversals]
Release == [node : Nodes, at : Minutes]
Entry == [node : Nodes, minute : 0 .. Never - 1]

\* d gives each node its earliest release, or never.
Seeded(d) ==
  \A v \in Nodes :
    \/ \E r \in releases : /\ r.node = v /\ d[v] = r.at
                           /\ \A s \in releases : s.node = v => r.at <= s.at
    \/ d[v] = Never /\ \A r \in releases : r.node # v

\* A heap that starts with the nodes no release is at, too.
AllNodes == {[node |-> v, minute |-> dist[v]] : v \in Nodes}

SeedEntries == {[node |-> v, minute |-> dist[v]] : v \in {u \in Nodes : dist[u] # Never}}

Start ==
  /\ dist \in [Nodes -> Minutes \cup {Never}]
  /\ Seeded(dist)
  /\ queue = SeedEntries
  /\ now = 0
  /\ todo = {}
  /\ settled = {}

\* Validate: at least one release; a pipe may be a self-loop.
Init ==
  /\ pipes \in {s \in SUBSET Pipe : Cardinality(s) <= MaxPipes}
  /\ releases \in {s \in SUBSET Release : s # {} /\ Cardinality(s) <= MaxReleases}
  /\ Start

\* Pipes that carry contamination both ways.
PipesOfBothWays(v) ==
  {p \in pipes : p.from = v /\ p.to # v}
    \cup {[from |-> v, to |-> p.from, minutes |-> p.minutes] :
            p \in {q \in pipes : q.to = v /\ q.from # v}}

PipesOf(v) == {p \in pipes : p.from = v /\ p.to # v}

\* A heap that is never put in order.
AnyEntry(q) == q

\* The entries heap.Pop may return.
Smallest(q) == {e \in q : \A f \in q : e.minute <= f.minute}

\* A loop that looks at the smallest entry and leaves it in the heap.
PopNothing ==
  /\ todo = {}
  /\ \E e \in Smallest(queue) :
       /\ now' = e.minute
       /\ todo' = IF e.minute # dist[e.node] THEN {} ELSE PipesOf(e.node)
       /\ settled' = settled \cup {e.node}
  /\ UNCHANGED <<spec, dist, queue>>

\* heap.Pop; a stale entry is dropped.
Pop ==
  /\ todo = {}
  /\ \E e \in Smallest(queue) :
       /\ queue' = queue \ {e}
       /\ now' = e.minute
       /\ IF e.minute # dist[e.node]
            THEN UNCHANGED <<todo, settled>>
            ELSE /\ todo' = PipesOf(e.node)
                 /\ settled' = settled \cup {e.node}
  /\ UNCHANGED <<spec, dist>>

\* A relaxation that does not put the node back in the heap.
RelaxSilently(p) ==
  /\ todo' = todo \ {p}
  /\ dist' = [dist EXCEPT ![p.to] =
                IF now + p.minutes < @ THEN now + p.minutes ELSE @]
  /\ UNCHANGED <<spec, queue, now, settled>>

Relax(p) ==
  LET nd == now + p.minutes IN
  /\ todo' = todo \ {p}
  /\ IF nd < dist[p.to]
       THEN /\ dist' = [dist EXCEPT ![p.to] = nd]
            /\ queue' = queue \cup {[node |-> p.to, minute |-> nd]}
       ELSE UNCHANGED <<dist, queue>>
  /\ UNCHANGED <<spec, now, settled>>

Next == Pop \/ \E p \in todo : Relax(p)

Spec == Init /\ [][Next]_vars

\* The loop runs on.
FairSpec == Spec /\ WF_vars(Next)

Done == queue = {} /\ todo = {}

-----------------------------------------------------------------------------

\* The variables keep their types; the heap never holds a node that has not
\* been reached.
TypeOK ==
  /\ pipes \subseteq Pipe
  /\ releases \subseteq Release
  /\ dist \in [Nodes -> 0 .. Never]
  /\ queue \subseteq Entry
  /\ now \in Nat
  /\ todo \subseteq Pipe
  /\ settled \subseteq Nodes

LeastOf(S) == CHOOSE m \in S : \A n \in S : m <= n

\* The earliest arrivals over walks of at most k pipes, by definition.
WalkArrival[k \in 0 .. Cardinality(Nodes)] ==
  IF k = 0
    THEN [v \in Nodes |-> LeastOf({Never} \cup {r.at : r \in {s \in releases : s.node = v}})]
    ELSE [v \in Nodes |->
            LeastOf({WalkArrival[k - 1][v]} \cup
              {WalkArrival[k - 1][p.from] + p.minutes :
                 p \in {q \in pipes : q.to = v /\ WalkArrival[k - 1][q.from] # Never}})]

\* When the loop ends, dist holds the earliest arrivals over all walks from
\* the releases along the pipes, whatever the order the heap broke ties in; the
\* earliest of all is the first release, which NewIncident keeps, computed from
\* the releases alone, as the minute propagation begins.
DistIsEarliest ==
  Done =>
    /\ dist = WalkArrival[Cardinality(Nodes)]
    /\ LeastOf({dist[v] : v \in Nodes}) = LeastOf({r.at : r \in releases})

\* The same without a recursive reference: no pipe and no release could bring
\* contamination earlier, and every arrival has a release or a pipe it comes
\* from.  Pipes take at least a minute, so only the earliest arrivals do that.
IsTight(d) ==
  /\ \A p \in pipes : d[p.from] # Never => d[p.to] <= d[p.from] + p.minutes
  /\ \A r \in releases : d[r.node] <= r.at
  /\ \A v \in Nodes : d[v] # Never =>
       \/ \E r \in releases : r.node = v /\ d[v] = r.at
       \/ \E p \in pipes : p.to = v /\ d[p.from] # Never /\ d[v] = d[p.from] + p.minutes

DistIsTight == Done => IsTight(dist)

\* A node whose pipes have been scanned has its final arrival: no later step
\* lowers it, and it is never scanned again.
SettledIsFinal ==
  [][\A v \in settled : dist'[v] = dist[v]
       /\ (Pop => \A p \in todo' : p.from \notin settled)]_vars

\* The loop ends.
Terminates == <>Done

=============================================================================
