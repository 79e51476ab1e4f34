--------------------------- MODULE DijkstraProofs ---------------------------
(***************************************************************************)
(* Proofs about earliestArrivals, for any network: what dist holds when    *)
(* the loop ends, that no walk along the pipes arrives earlier, that a     *)
(* scanned node is never touched again, that the loop ends, that its sums  *)
(* stay small, and that its result is what the service stores.             *)
(***************************************************************************)
EXTENDS Dijkstra, SumTheorems, TLAPS

CONSTANTS MaxNodes, MaxMinutes, MaxCost  \* the bounds of the handlers

\* The checks of the handlers, and what they call earliest.
Api == INSTANCE Requests

\* No release is earlier than its node's arrival.
SeedsBound == \A r \in releases : dist[r.node] <= r.at

\* A heap entry is never better than dist, and not before the last one popped.
EntriesBehind ==
  \A e \in queue : dist[e.node] <= e.minute /\ now <= e.minute

\* The pipes being scanned leave the node popped last.
TodoIsCurrent ==
  \A p \in todo : /\ p \in pipes /\ p.from # p.to
                  /\ p.from \in settled /\ dist[p.from] = now

\* Scanned nodes were reached by now and are out of the heap.
SettledBehind ==
  \A v \in settled : /\ dist[v] <= now
                     /\ [node |-> v, minute |-> dist[v]] \notin queue

\* A pipe that could still improve an arrival is in the heap or being scanned.
PipesCovered ==
  \A p \in pipes : p.from # p.to /\ dist[p.from] # Never =>
    \/ dist[p.to] <= dist[p.from] + p.minutes
    \/ [node |-> p.from, minute |-> dist[p.from]] \in queue
    \/ p \in todo

\* Every arrival comes from somewhere.
Witnessed ==
  \A v \in Nodes : dist[v] # Never =>
    \/ \E r \in releases : r.node = v /\ dist[v] = r.at
    \/ \E p \in pipes : /\ p.to = v /\ dist[p.from] # Never
                        /\ dist[v] >= dist[p.from] + p.minutes

DInv ==
  /\ TypeOK
  /\ SeedsBound
  /\ EntriesBehind
  /\ TodoIsCurrent
  /\ SettledBehind
  /\ PipesCovered
  /\ Witnessed

\* A pipe takes at least a minute.
LEMMA PipeType ==
  ASSUME NEW p \in Pipe
  PROVE  p.from \in Nodes /\ p.to \in Nodes /\ p.minutes \in Nat /\ p.minutes >= 1
  <1>1. p.from \in Nodes /\ p.to \in Nodes /\ p.minutes \in Traversals
    BY DEF Pipe
  <1>2. p.minutes \in Nat \ {0}
    BY <1>1, DijkstraAssumption
  <1> QED
    BY <1>1, <1>2

\* The invariant holds of every network before the first pop,
LEMMA InitInv == Init => DInv
  <1> SUFFICES ASSUME Init PROVE DInv
    OBVIOUS
  <1> USE DijkstraAssumption DEF Init, Start
  <1>1. dist \in [Nodes -> 0 .. Never]
    <2>1. \A m \in Minutes \cup {Never} : m \in 0 .. Never
      OBVIOUS
    <2> QED
      BY <2>1
  <1>2. TypeOK
    <2>1. queue \subseteq Entry
      BY <1>1 DEF SeedEntries, Entry
    <2> QED
      BY <1>1, <2>1 DEF TypeOK
  <1>3. SeedsBound /\ Witnessed
    <2>1. \A r \in releases : r.node \in Nodes /\ r.at \in Nat
      BY DEF Release
    <2>2. SeedsBound
      BY <1>1, <2>1 DEF SeedsBound, Seeded
    <2>3. Witnessed
      BY DEF Witnessed, Seeded
    <2> QED
      BY <2>2, <2>3
  <1>4. EntriesBehind
    BY <1>1 DEF EntriesBehind, SeedEntries
  <1>5. TodoIsCurrent /\ SettledBehind
    BY DEF TodoIsCurrent, SettledBehind
  <1>6. PipesCovered
    BY <1>1 DEF PipesCovered, SeedEntries, Pipe
  <1> QED
    BY <1>2, <1>3, <1>4, <1>5, <1>6 DEF DInv

\* What a pop finds.
LEMMA PopFinds ==
  ASSUME DInv, NEW e \in Smallest(queue)
  PROVE  /\ e \in queue /\ e \in Entry /\ e.node \in Nodes
         /\ e.minute \in Nat /\ now \in Nat /\ now <= e.minute
         /\ \A f \in queue : e.minute <= f.minute
         /\ dist[e.node] \in Nat /\ dist[e.node] <= e.minute
  BY DijkstraAssumption DEF DInv, TypeOK, Smallest, Entry, EntriesBehind

\* a pop keeps it, whether the entry is stale or not,
LEMMA PopInv == DInv /\ Pop => DInv'
  <1> SUFFICES ASSUME DInv, Pop PROVE DInv'
    OBVIOUS
  <1>1. PICK e \in Smallest(queue) :
          /\ queue' = queue \ {e}
          /\ now' = e.minute
          /\ IF e.minute # dist[e.node]
               THEN UNCHANGED <<todo, settled>>
               ELSE /\ todo' = PipesOf(e.node)
                    /\ settled' = settled \cup {e.node}
    BY DEF Pop
  <1>2. /\ e \in queue /\ e \in Entry /\ e.node \in Nodes
        /\ e.minute \in Nat /\ now \in Nat /\ now <= e.minute
        /\ \A f \in queue : e.minute <= f.minute
        /\ dist[e.node] \in Nat /\ dist[e.node] <= e.minute
    BY PopFinds
  <1>3. UNCHANGED <<pipes, releases, dist>> /\ todo = {}
    BY DEF Pop, spec
  <1>4. TypeOK /\ \A v \in Nodes : dist[v] \in Nat
    BY DijkstraAssumption DEF DInv, TypeOK
  <1>5. TypeOK'
    BY <1>1, <1>2, <1>3, <1>4 DEF TypeOK, PipesOf
  <1>6. SeedsBound' /\ Witnessed'
    BY <1>3 DEF DInv, SeedsBound, Witnessed
  <1>7. EntriesBehind'
    BY <1>1, <1>2, <1>3 DEF DInv, EntriesBehind
  <1>8. TodoIsCurrent'
    BY <1>1, <1>2, <1>3 DEF TodoIsCurrent, PipesOf
  <1>9. SettledBehind'
    <2> SUFFICES ASSUME NEW v \in settled'
                 PROVE  /\ dist[v] <= now'
                        /\ [node |-> v, minute |-> dist[v]] \notin queue'
      BY <1>3 DEF SettledBehind
    <2>1. CASE v \in settled
      <3>1. v \in Nodes /\ dist[v] <= now
            /\ [node |-> v, minute |-> dist[v]] \notin queue
        BY <2>1 DEF DInv, TypeOK, SettledBehind
      <3> QED
        BY <1>1, <1>2, <1>4, <3>1
    <2>2. CASE v \notin settled
      <3>1. v = e.node /\ dist[v] = e.minute
        BY <1>1, <2>2
      <3>2. e = [node |-> v, minute |-> dist[v]]
        BY <1>2, <3>1 DEF Entry
      <3> QED
        BY <1>1, <1>2, <3>1, <3>2
    <2> QED
      BY <2>1, <2>2
  <1>10. PipesCovered'
    <2> SUFFICES ASSUME NEW p \in pipes, p.from # p.to, dist[p.from] # Never
                 PROVE  \/ dist[p.to] <= dist[p.from] + p.minutes
                        \/ [node |-> p.from, minute |-> dist[p.from]] \in queue'
                        \/ p \in todo'
      BY <1>3 DEF PipesCovered
    <2>1. \/ dist[p.to] <= dist[p.from] + p.minutes
          \/ [node |-> p.from, minute |-> dist[p.from]] \in queue
      BY <1>3 DEF DInv, PipesCovered
    <2>2. CASE [node |-> p.from, minute |-> dist[p.from]] = e
      <3>1. e.node = p.from /\ e.minute = dist[e.node]
        BY <2>2
      <3> QED
        BY <1>1, <3>1 DEF PipesOf
    <2>3. CASE [node |-> p.from, minute |-> dist[p.from]] # e
      BY <1>1, <2>1, <2>3
    <2> QED
      BY <2>2, <2>3
  <1> QED
    BY <1>5, <1>6, <1>7, <1>8, <1>9, <1>10 DEF DInv

\* A relaxation improves only a node that is not settled, and leaves behind
\* an arrival that is not before now.
LEMMA RelaxImproves ==
  ASSUME DInv, NEW p \in todo, now + p.minutes < dist[p.to]
  PROVE  /\ p.to \in Nodes /\ p.from \in Nodes /\ p.to # p.from
         /\ p \in pipes /\ p.minutes \in Nat /\ p.minutes >= 1
         /\ now \in Nat /\ dist[p.from] = now
         /\ now + p.minutes \in 0 .. Never - 1
         /\ p.to \notin settled
  <1>1. p \in Pipe /\ p \in pipes /\ p.to # p.from /\ dist[p.from] = now
    BY DEF DInv, TypeOK, TodoIsCurrent
  <1>2. /\ p.to \in Nodes /\ p.from \in Nodes
        /\ p.minutes \in Nat /\ p.minutes >= 1
    BY <1>1, PipeType
  <1>3. now \in Nat /\ dist[p.to] \in 0 .. Never /\ Never \in Nat
    BY <1>2, DijkstraAssumption DEF DInv, TypeOK
  <1>4. p.to \notin settled
    <2>1. p.to \in settled => dist[p.to] <= now
      BY DEF DInv, SettledBehind
    <2> QED
      BY <1>2, <1>3, <2>1
  <1> QED
    BY <1>1, <1>2, <1>3, <1>4

\* so does following a pipe, whether it improves an arrival or not,
LEMMA RelaxInv ==
  ASSUME DInv, NEW p \in todo, Relax(p) PROVE DInv'
  <1>1. UNCHANGED <<pipes, releases, now, settled>> /\ todo' = todo \ {p}
    BY DEF Relax, spec
  <1>2. p \in Pipe /\ p \in pipes /\ p.to # p.from /\ dist[p.from] = now
        /\ p.from \in settled
    BY DEF DInv, TypeOK, TodoIsCurrent
  <1>3. \A v \in Nodes : dist[v] \in Nat
    BY DijkstraAssumption DEF DInv, TypeOK
  <1>4. CASE ~(now + p.minutes < dist[p.to])
    <2>1. UNCHANGED <<dist, queue>>
      BY <1>4 DEF Relax
    <2>2. p.minutes \in Nat /\ now \in Nat /\ p.to \in Nodes
      BY <1>2, DijkstraAssumption DEF Pipe, DInv, TypeOK
    <2>3. dist[p.to] <= dist[p.from] + p.minutes
      BY <1>2, <1>3, <1>4, <2>2
    <2>4. TypeOK' /\ SeedsBound' /\ EntriesBehind' /\ TodoIsCurrent'
          /\ SettledBehind' /\ Witnessed'
      BY <1>1, <2>1 DEF DInv, TypeOK, SeedsBound, EntriesBehind, TodoIsCurrent,
                        SettledBehind, Witnessed
    <2>5. PipesCovered'
      BY <1>1, <2>1, <2>3 DEF DInv, PipesCovered
    <2> QED
      BY <2>4, <2>5 DEF DInv
  <1>5. CASE now + p.minutes < dist[p.to]
    <2> DEFINE nd == now + p.minutes
               new == [node |-> p.to, minute |-> nd]
    <2>1. dist' = [dist EXCEPT ![p.to] = nd] /\ queue' = queue \cup {new}
      BY <1>5 DEF Relax
    <2>2. /\ p.to \in Nodes /\ p.from \in Nodes
          /\ p.minutes \in Nat /\ p.minutes >= 1
          /\ now \in Nat /\ nd \in 0 .. Never - 1
          /\ p.to \notin settled
      BY <1>5, RelaxImproves
    <2>3. Never \in Nat /\ dist \in [Nodes -> 0 .. Never]
      BY DijkstraAssumption DEF DInv, TypeOK
    <2>4. /\ dist'[p.to] = nd /\ nd < dist[p.to]
          /\ \A v \in Nodes : v # p.to => dist'[v] = dist[v]
          /\ \A v \in Nodes : dist'[v] \in Nat /\ dist'[v] <= dist[v]
      BY <1>3, <1>5, <2>1, <2>2, <2>3
    <2> HIDE DEF nd
    <2>5. TypeOK'
      <3>1. new \in Entry
        BY <2>2 DEF Entry
      <3>2. dist' \in [Nodes -> 0 .. Never]
        BY <2>1, <2>2, <2>3
      <3> QED
        BY <1>1, <2>1, <3>1, <3>2 DEF DInv, TypeOK
    <2>6. SeedsBound'
      <3> SUFFICES ASSUME NEW r \in releases PROVE dist'[r.node] <= r.at
        BY <1>1 DEF SeedsBound
      <3>1. r.node \in Nodes /\ r.at \in Nat
        BY DijkstraAssumption DEF DInv, TypeOK, Release
      <3> QED
        BY <1>3, <2>4, <3>1 DEF DInv, SeedsBound
    <2>7. EntriesBehind'
      <3> SUFFICES ASSUME NEW e \in queue'
                   PROVE  dist'[e.node] <= e.minute /\ now <= e.minute
        BY <1>1 DEF EntriesBehind
      <3>1. CASE e \in queue
        <4>1. e.node \in Nodes /\ e.minute \in Nat
          BY <3>1, DijkstraAssumption DEF DInv, TypeOK, Entry
        <4> QED
          BY <1>3, <2>4, <3>1, <4>1 DEF DInv, EntriesBehind
      <3>2. CASE e = new
        BY <2>2, <2>4, <3>2 DEF nd
      <3> QED
        BY <2>1, <3>1, <3>2
    <2>8. TodoIsCurrent'
      <3> SUFFICES ASSUME NEW q \in todo, q # p
                   PROVE  /\ q \in pipes /\ q.from # q.to
                          /\ q.from \in settled /\ dist'[q.from] = now
        BY <1>1 DEF TodoIsCurrent
      <3>1. /\ q \in pipes /\ q.from # q.to
            /\ q.from \in settled /\ dist[q.from] = now /\ q.from \in Nodes
        BY DEF DInv, TodoIsCurrent, TypeOK
      <3> QED
        BY <2>2, <2>4, <3>1
    <2>9. SettledBehind'
      <3> SUFFICES ASSUME NEW v \in settled
                   PROVE  /\ dist'[v] <= now
                          /\ [node |-> v, minute |-> dist'[v]] \notin queue'
        BY <1>1 DEF SettledBehind
      <3>1. /\ v \in Nodes /\ v # p.to /\ dist[v] <= now
            /\ [node |-> v, minute |-> dist[v]] \notin queue
        BY <2>2 DEF DInv, TypeOK, SettledBehind
      <3>2. dist'[v] = dist[v]
        BY <2>4, <3>1
      <3>3. [node |-> v, minute |-> dist[v]] # new
        BY <3>1
      <3> QED
        BY <2>1, <3>1, <3>2, <3>3
    <2>10. PipesCovered'
      <3> SUFFICES ASSUME NEW q \in pipes, q.from # q.to, dist'[q.from] # Never
                   PROVE  \/ dist'[q.to] <= dist'[q.from] + q.minutes
                          \/ [node |-> q.from, minute |-> dist'[q.from]] \in queue'
                          \/ q \in todo'
        BY <1>1 DEF PipesCovered
      <3>1. q.from \in Nodes /\ q.to \in Nodes /\ q.minutes \in Nat
        BY DijkstraAssumption DEF DInv, TypeOK, Pipe
      <3>2. CASE q.from = p.to
        BY <2>1, <2>4, <3>2
      <3>3. CASE q = p
        BY <1>2, <2>2, <2>4, <3>3 DEF nd
      <3>4. CASE q.from # p.to /\ q # p
        <4>1. dist'[q.from] = dist[q.from] /\ dist'[q.to] <= dist[q.to]
          BY <2>4, <3>1, <3>4
        <4>2. \/ dist[q.to] <= dist[q.from] + q.minutes
              \/ [node |-> q.from, minute |-> dist[q.from]] \in queue
              \/ q \in todo
          BY <4>1 DEF DInv, PipesCovered
        <4>3. dist[q.to] \in Nat /\ dist'[q.to] \in Nat /\ dist[q.from] \in Nat
          BY <1>3, <2>4, <3>1
        <4> QED
          BY <1>1, <2>1, <3>1, <3>4, <4>1, <4>2, <4>3
      <3> QED
        BY <3>2, <3>3, <3>4
    <2>11. Witnessed'
      <3> SUFFICES ASSUME NEW v \in Nodes, dist'[v] # Never
                   PROVE  \/ \E r \in releases : r.node = v /\ dist'[v] = r.at
                          \/ \E q \in pipes : /\ q.to = v /\ dist'[q.from] # Never
                                              /\ dist'[v] >= dist'[q.from] + q.minutes
        BY <1>1 DEF Witnessed
      <3>1. CASE v = p.to
        <4>1. dist'[p.from] = now /\ now # Never
          BY <1>2, <2>2, <2>3, <2>4 DEF nd
        <4>2. dist'[v] >= dist'[p.from] + p.minutes
          BY <2>2, <2>4, <3>1, <4>1 DEF nd
        <4> QED
          BY <1>2, <3>1, <4>1, <4>2
      <3>2. CASE v # p.to /\ \E r \in releases : r.node = v /\ dist[v] = r.at
        BY <2>4, <3>2
      <3>3. CASE v # p.to /\ ~\E r \in releases : r.node = v /\ dist[v] = r.at
        <4>1. dist'[v] = dist[v]
          BY <2>4, <3>3
        <4>2. PICK q \in pipes : /\ q.to = v /\ dist[q.from] # Never
                                 /\ dist[v] >= dist[q.from] + q.minutes
          BY <3>3, <4>1 DEF DInv, Witnessed
        <4>3. q.from \in Nodes /\ q.minutes \in Nat
          BY DijkstraAssumption DEF DInv, TypeOK, Pipe
        <4>4. dist'[q.from] <= dist[q.from] /\ dist'[q.from] # Never
          BY <2>2, <2>3, <2>4, <4>2, <4>3
        <4>5. dist'[v] >= dist'[q.from] + q.minutes
          BY <1>3, <2>4, <4>1, <4>2, <4>3, <4>4
        <4> QED
          BY <4>2, <4>4, <4>5
      <3> QED
        BY <3>1, <3>2, <3>3
    <2> QED
      BY <2>5, <2>6, <2>7, <2>8, <2>9, <2>10, <2>11 DEF DInv
  <1> QED
    BY <1>4, <1>5

\* and so does a step of somebody else.
LEMMA StutterInv == DInv /\ UNCHANGED vars => DInv'
  BY DEF DInv, vars, spec, TypeOK, SeedsBound, EntriesBehind, TodoIsCurrent,
         SettledBehind, PipesCovered, Witnessed

\* Pipes that can still improve something start in the heap, and every arrival
\* set so far is explained by a release or a pipe.
THEOREM DijkstraInvariant == Spec => []DInv
  <1>1. DInv /\ [Next]_vars => DInv'
    BY PopInv, RelaxInv, StutterInv DEF Next
  <1> QED
    BY <1>1, InitInv, PTL DEF Spec

\* The loop's variables keep their types; the heap holds reached nodes only.
THEOREM DijkstraTypeCorrect == Spec => []TypeOK
  BY DijkstraInvariant, PTL DEF DInv

\* When the loop ends, no pipe and no release could bring contamination to a
\* node earlier than dist says, and every finite arrival is brought by one.
THEOREM DijkstraIsTight == Spec => []DistIsTight
  <1>1. DInv => DistIsTight
    <2> SUFFICES ASSUME DInv, Done PROVE IsTight(dist)
      BY DEF DistIsTight
    <2>1. \A v \in Nodes : dist[v] \in Nat
      BY DijkstraAssumption DEF DInv, TypeOK
    <2>2. \A p \in pipes : p.from \in Nodes /\ p.to \in Nodes
                           /\ p.minutes \in Nat /\ p.minutes >= 1
      BY PipeType DEF DInv, TypeOK
    <2>3. \A p \in pipes : dist[p.from] # Never
                             => dist[p.to] <= dist[p.from] + p.minutes
      <3> SUFFICES ASSUME NEW p \in pipes, dist[p.from] # Never
                   PROVE  dist[p.to] <= dist[p.from] + p.minutes
        OBVIOUS
      <3>1. CASE p.from = p.to
        BY <2>1, <2>2, <3>1
      <3>2. CASE p.from # p.to
        BY <3>2 DEF DInv, PipesCovered, Done
      <3> QED
        BY <3>1, <3>2
    <2>4. ASSUME NEW v \in Nodes, dist[v] # Never,
                 NEW p \in pipes, p.to = v, dist[p.from] # Never,
                 dist[v] >= dist[p.from] + p.minutes
          PROVE  dist[v] = dist[p.from] + p.minutes
      BY <2>1, <2>2, <2>3, <2>4
    <2>5. \A v \in Nodes : dist[v] # Never =>
            \/ \E r \in releases : r.node = v /\ dist[v] = r.at
            \/ \E p \in pipes : p.to = v /\ dist[p.from] # Never
                                /\ dist[v] = dist[p.from] + p.minutes
      BY <2>4 DEF DInv, Witnessed
    <2> QED
      BY <2>3, <2>5 DEF IsTight, DInv, SeedsBound
  <1> QED
    BY <1>1, DijkstraInvariant, PTL

\* A scanned node keeps its arrival and is never scanned again.
THEOREM ScannedOnce == Spec => SettledIsFinal
  <1>1. DInv /\ [Next]_vars =>
          [\A v \in settled : dist'[v] = dist[v]
             /\ (Pop => \A p \in todo' : p.from \notin settled)]_vars
    <2> SUFFICES ASSUME DInv, Next, NEW v \in settled
                 PROVE  dist'[v] = dist[v]
                        /\ (Pop => \A p \in todo' : p.from \notin settled)
      OBVIOUS
    <2>1. v \in Nodes
      BY DEF DInv, TypeOK
    <2>2. dist'[v] = dist[v]
      <3>1. CASE Pop
        BY <3>1 DEF Pop
      <3>2. ASSUME NEW p \in todo, Relax(p) PROVE dist'[v] = dist[v]
        <4>1. CASE now + p.minutes < dist[p.to]
          <5>1. v # p.to
            BY <4>1, RelaxImproves
          <5>2. dist' = [dist EXCEPT ![p.to] = now + p.minutes]
            BY <3>2, <4>1 DEF Relax
          <5> QED
            BY <2>1, <5>1, <5>2 DEF DInv, TypeOK
        <4>2. CASE ~(now + p.minutes < dist[p.to])
          BY <3>2, <4>2 DEF Relax
        <4> QED
          BY <4>1, <4>2
      <3> QED
        BY <3>1, <3>2 DEF Next
    <2>3. ASSUME Pop, NEW p \in todo' PROVE p.from \notin settled
      <3>1. PICK e \in Smallest(queue) :
              /\ queue' = queue \ {e}
              /\ IF e.minute # dist[e.node]
                   THEN UNCHANGED <<todo, settled>>
                   ELSE todo' = PipesOf(e.node)
        BY <2>3 DEF Pop
      <3>2. e.minute = dist[e.node] /\ p.from = e.node
        BY <2>3, <3>1 DEF Pop, PipesOf
      <3>3. e \in queue /\ e \in Entry
        BY PopFinds
      <3>4. e = [node |-> e.node, minute |-> dist[e.node]]
        BY <3>2, <3>3 DEF Entry
      <3> QED
        BY <3>2, <3>3, <3>4 DEF DInv, SettledBehind
    <2> QED
      BY <2>2, <2>3
  <1> QED
    BY <1>1, DijkstraInvariant, PTL DEF Spec, SettledIsFinal

-----------------------------------------------------------------------------
(* The arrivals over walks, defined by recursion on the number of pipes.   *)

\* A set of natural numbers that is not empty has a least member.
LEMMA LeastOfNaturals ==
  ASSUME NEW S, S \subseteq Nat, S # {}
  PROVE  LeastOf(S) \in S /\ \A n \in S : LeastOf(S) <= n
  BY LeastNatural DEF LeastOf

\* What the recursion starts with, and what one more pipe makes of the
\* arrivals w.
FirstArrival ==
  [v \in Nodes |-> LeastOf({Never} \cup {r.at : r \in {s \in releases : s.node = v}})]

OneMorePipe(w) ==
  [v \in Nodes |->
     LeastOf({w[v]} \cup
       {w[p.from] + p.minutes :
          p \in {q \in pipes : q.to = v /\ w[q.from] # Never}})]

\* The arrivals over walks of at most 0, 1, ..., k pipes.
AreArrivals(f, k) ==
  f = [i \in 0 .. k |-> IF i = 0 THEN FirstArrival ELSE OneMorePipe(f[i - 1])]

\* The recursion is well-founded: there are such arrivals for every k.  The
\* least k without would be more than 0 and have arrivals one pipe shorter.
LEMMA ArrivalsExist ==
  ASSUME NEW n \in Nat
  PROVE  \E f : AreArrivals(f, n)
  <1> DEFINE Bad == {k \in Nat : ~\E f : AreArrivals(f, k)}
  <1> SUFFICES ASSUME Bad # {} PROVE FALSE
    OBVIOUS
  <1>1. PICK k \in Bad : \A j \in Bad : k <= j
    BY LeastOfNaturals
  <1>2. k # 0
    <2>1. AreArrivals([i \in 0 .. 0 |-> FirstArrival], 0)
      BY DEF AreArrivals
    <2> QED
      BY <2>1
  <1>3. k \in Nat /\ k - 1 \in Nat /\ k - 1 \notin Bad
    BY <1>1, <1>2
  <1>4. PICK f : AreArrivals(f, k - 1)
    BY <1>3
  <1> DEFINE e == [i \in 0 .. k |-> IF i = k THEN OneMorePipe(f[k - 1]) ELSE f[i]]
  <1>5. \A i \in 0 .. k - 1 : f[i] = IF i = 0 THEN FirstArrival ELSE OneMorePipe(f[i - 1])
    BY <1>3, <1>4 DEF AreArrivals
  <1>6. \A i \in 0 .. k : e[i] = IF i = 0 THEN FirstArrival ELSE OneMorePipe(e[i - 1])
    <2> SUFFICES ASSUME NEW i \in 0 .. k
                 PROVE  e[i] = IF i = 0 THEN FirstArrival ELSE OneMorePipe(e[i - 1])
      OBVIOUS
    <2>1. CASE i = k
      <3>1. e[i - 1] = f[k - 1] /\ e[i] = OneMorePipe(f[k - 1])
        BY <1>3, <2>1
      <3> QED
        BY <1>2, <2>1, <3>1
    <2>2. CASE i # k
      <3>1. i \in 0 .. k - 1 /\ e[i] = f[i]
        BY <1>3, <2>2
      <3>2. i # 0 => e[i - 1] = f[i - 1]
        BY <1>3, <2>2
      <3> QED
        BY <1>5, <3>1, <3>2
    <2> QED
      BY <2>1, <2>2
  <1>7. AreArrivals(e, k)
    BY <1>6 DEF AreArrivals
  <1> QED
    BY <1>1, <1>7

\* The recursive function WalkArrival does exist: its equations hold.
LEMMA WalkArrivalRecursion ==
  /\ Cardinality(Nodes) \in Nat
  /\ WalkArrival[0] = FirstArrival
  /\ \A k \in 1 .. Cardinality(Nodes) : WalkArrival[k] = OneMorePipe(WalkArrival[k - 1])
  <1> DEFINE n == Cardinality(Nodes)
  <1>1. n \in Nat
    BY FS_CardinalityType, DijkstraAssumption
  <1>2. WalkArrival = CHOOSE f : AreArrivals(f, n)
    BY DEF WalkArrival, AreArrivals, FirstArrival, OneMorePipe
  <1>3. AreArrivals(WalkArrival, n)
    BY <1>1, <1>2, ArrivalsExist
  <1> HIDE DEF n
  <1>4. \A i \in 0 .. n : WalkArrival[i] = IF i = 0 THEN FirstArrival ELSE OneMorePipe(WalkArrival[i - 1])
    BY <1>3 DEF AreArrivals
  <1>5. WalkArrival[0] = FirstArrival
    BY <1>1, <1>4
  <1>6. \A k \in 1 .. n : WalkArrival[k] = OneMorePipe(WalkArrival[k - 1])
    BY <1>1, <1>4
  <1> QED
    BY <1>1, <1>5, <1>6 DEF n

\* What the members of the recursion are: a node's arrival over no pipe is one
\* of its releases or never; one more pipe never makes it later, and makes it
\* as early as any pipe into the node does.
LEMMA FirstArrivalIs ==
  ASSUME TypeOK, NEW v \in Nodes
  PROVE  /\ FirstArrival[v] \in 0 .. Never
         /\ FirstArrival[v] = Never \/ \E r \in releases : r.node = v /\ FirstArrival[v] = r.at
         /\ \A r \in releases : r.node = v => FirstArrival[v] <= r.at
  <1> DEFINE S == {Never} \cup {r.at : r \in {s \in releases : s.node = v}}
  <1>1. \A r \in releases : r.at \in 0 .. Never
    <2>1. \A r \in releases : r.at \in Minutes
      BY DEF TypeOK, Release
    <2>2. Never \in Nat /\ \A m \in Minutes : m \in Nat /\ m < Never
      BY DijkstraAssumption
    <2>3. \A m \in Minutes : m \in 0 .. Never
      BY <2>2
    <2> QED
      BY <2>1, <2>3
  <1>2. Never \in Nat /\ S \subseteq 0 .. Never /\ S # {}
    BY <1>1, DijkstraAssumption
  <1>3. FirstArrival[v] = LeastOf(S)
    BY DEF FirstArrival
  <1>4. \A x : x \in S <=> x = Never \/ \E r \in releases : r.node = v /\ x = r.at
    OBVIOUS
  <1> HIDE DEF S
  <1>5. S \subseteq Nat
    BY <1>2
  <1>6. LeastOf(S) \in S /\ \A x \in S : LeastOf(S) <= x
    BY <1>2, <1>5, LeastOfNaturals
  <1> QED
    BY <1>2, <1>3, <1>4, <1>6

\* What OneMorePipe allows is as early as w or as coming through a pipe, and
\* no later than either.
LEMMA OneMorePipeIs ==
  ASSUME TypeOK, NEW w \in [Nodes -> 0 .. Never], NEW v \in Nodes
  PROVE  /\ OneMorePipe(w)[v] \in 0 .. Never
         /\ OneMorePipe(w)[v] <= w[v]
         /\ \A p \in pipes : p.to = v /\ w[p.from] # Never =>
                               OneMorePipe(w)[v] <= w[p.from] + p.minutes
         /\ \/ OneMorePipe(w)[v] = w[v]
            \/ \E p \in pipes : /\ p.to = v /\ w[p.from] # Never
                                /\ OneMorePipe(w)[v] = w[p.from] + p.minutes
  <1> DEFINE into == {q \in pipes : q.to = v /\ w[q.from] # Never}
             T == {w[p.from] + p.minutes : p \in into}
             S == {w[v]} \cup T
  <1>1. \A p \in pipes : p.from \in Nodes /\ p.minutes \in Nat
    BY PipeType DEF TypeOK
  <1>2. Never \in Nat /\ w[v] \in 0 .. Never
    BY DijkstraAssumption
  <1>3. \A p \in into : w[p.from] + p.minutes \in Nat
    BY <1>1, <1>2
  <1>4. S \subseteq Nat /\ S # {}
    BY <1>2, <1>3
  <1>5. LeastOf(S) \in S /\ \A x \in S : LeastOf(S) <= x
    BY <1>4, LeastOfNaturals
  <1>6. OneMorePipe(w)[v] = LeastOf(S)
    BY DEF OneMorePipe
  <1>7. LeastOf(S) <= w[v] /\ LeastOf(S) \in Nat
    BY <1>4, <1>5
  <1>8. OneMorePipe(w)[v] \in 0 .. Never
    BY <1>2, <1>6, <1>7
  <1>9. \A p \in into : LeastOf(S) <= w[p.from] + p.minutes
    BY <1>5
  <1> HIDE DEF S
  <1>10. LeastOf(S) = w[v] \/ \E p \in into : LeastOf(S) = w[p.from] + p.minutes
    BY <1>5 DEF S
  <1> QED
    BY <1>6, <1>7, <1>8, <1>9, <1>10

\* Walks of any number of pipes arrive in time or never.
LEMMA WalkArrivalType ==
  ASSUME TypeOK, NEW k \in 0 .. Cardinality(Nodes)
  PROVE  WalkArrival[k] \in [Nodes -> 0 .. Never]
  <1> DEFINE Bad == {j \in 0 .. Cardinality(Nodes) : WalkArrival[j] \notin [Nodes -> 0 .. Never]}
  <1>1. Cardinality(Nodes) \in Nat
    BY WalkArrivalRecursion
  <1> SUFFICES ASSUME Bad # {} PROVE FALSE
    OBVIOUS
  <1>2. PICK j \in Bad : \A i \in Bad : j <= i
    <2>1. Bad \subseteq Nat
      BY <1>1
    <2> HIDE DEF Bad
    <2> QED
      BY <2>1, LeastOfNaturals
  <1>3. j # 0
    <2>1. FirstArrival \in [Nodes -> 0 .. Never]
      BY FirstArrivalIs DEF FirstArrival
    <2> QED
      BY <1>2, <2>1, WalkArrivalRecursion
  <1>4. j \in 1 .. Cardinality(Nodes) /\ j - 1 \in 0 .. Cardinality(Nodes)
    BY <1>1, <1>2, <1>3
  <1>5. WalkArrival[j - 1] \in [Nodes -> 0 .. Never]
    BY <1>1, <1>2, <1>4
  <1>6. OneMorePipe(WalkArrival[j - 1]) \in [Nodes -> 0 .. Never]
    <2> DEFINE w == WalkArrival[j - 1]
    <2> HIDE DEF w
    <2>1. ASSUME w \in [Nodes -> 0 .. Never]
          PROVE  OneMorePipe(w) \in [Nodes -> 0 .. Never]
      <3>1. \A v \in Nodes : OneMorePipe(w)[v] \in 0 .. Never
        BY <2>1, OneMorePipeIs
      <3>2. OneMorePipe(w) = [v \in Nodes |-> OneMorePipe(w)[v]]
        BY DEF OneMorePipe
      <3> QED
        BY <3>1, <3>2
    <2> QED
      BY <1>5, <2>1 DEF w
  <1> QED
    BY <1>2, <1>4, <1>6, WalkArrivalRecursion

\* No walk is faster than arrivals that no pipe and no release can improve.
\* A shortest walk that were would be faster than them without its last pipe.
LEMMA NoWalkIsFaster ==
  ASSUME TypeOK, NEW d \in [Nodes -> 0 .. Never], IsTight(d),
         NEW k \in 0 .. Cardinality(Nodes), NEW v \in Nodes
  PROVE  d[v] <= WalkArrival[k][v]
  <1> DEFINE N == Cardinality(Nodes)
             Bad == {j \in 0 .. N : \E u \in Nodes : ~(d[u] <= WalkArrival[j][u])}
  <1>1. N \in Nat /\ Never \in Nat
    BY WalkArrivalRecursion, DijkstraAssumption
  <1> SUFFICES ASSUME Bad # {} PROVE FALSE
    OBVIOUS
  <1>2. PICK j \in Bad : \A i \in Bad : j <= i
    <2>1. Bad \subseteq Nat
      BY <1>1
    <2> HIDE DEF Bad
    <2> QED
      BY <2>1, LeastOfNaturals
  <1>3. PICK u \in Nodes : ~(d[u] <= WalkArrival[j][u])
    BY <1>2
  <1>4. d[u] \in 0 .. Never
    OBVIOUS
  <1>5. CASE j = 0
    <2>1. WalkArrival[j][u] = FirstArrival[u]
      BY <1>5, WalkArrivalRecursion
    <2>2. \A r \in releases : r.node = u => d[u] <= r.at
      BY DEF IsTight
    <2>3. FirstArrival[u] = Never \/ \E r \in releases : r.node = u /\ FirstArrival[u] = r.at
      BY FirstArrivalIs
    <2> QED
      BY <1>1, <1>3, <1>4, <2>1, <2>2, <2>3
  <1>6. CASE j # 0
    <2> DEFINE w == WalkArrival[j - 1]
    <2>1. j \in 1 .. N /\ j - 1 \in 0 .. N /\ j - 1 \notin Bad
      BY <1>1, <1>2, <1>6
    <2>2. \A x \in Nodes : d[x] <= w[x]
      BY <2>1
    <2>3. w \in [Nodes -> 0 .. Never] /\ WalkArrival[j] = OneMorePipe(w)
      BY <2>1, WalkArrivalType, WalkArrivalRecursion
    <2> HIDE DEF w, Bad, N
    <2>4. CASE OneMorePipe(w)[u] = w[u]
      BY <1>3, <2>2, <2>3, <2>4
    <2>5. ASSUME NEW p \in pipes, p.to = u, w[p.from] # Never,
                 OneMorePipe(w)[u] = w[p.from] + p.minutes
          PROVE  FALSE
      <3>1. p.from \in Nodes /\ p.minutes \in Nat
        BY PipeType DEF TypeOK
      <3>2. d[p.from] \in 0 .. Never /\ w[p.from] \in 0 .. Never /\ d[p.from] <= w[p.from]
        BY <2>2, <2>3, <3>1
      <3>3. d[p.from] # Never
        BY <1>1, <2>5, <3>2
      <3>4. d[u] <= d[p.from] + p.minutes
        BY <2>5, <3>3 DEF IsTight
      <3>5. ~(d[u] <= w[p.from] + p.minutes)
        BY <1>3, <2>3, <2>5
      <3> HIDE DEF N
      <3> QED
        BY <1>1, <1>4, <3>1, <3>2, <3>4, <3>5
    <2> QED
      BY <2>3, <2>4, <2>5, OneMorePipeIs
  <1> QED
    BY <1>5, <1>6

\* The nodes reached before v.
Before(d, v) == {u \in Nodes : d[u] < d[v]}

\* A walk of as many pipes as there are nodes reached before v is enough: its
\* last pipe comes from one of those.
LEMMA SomeWalkIsAsFast ==
  ASSUME TypeOK, NEW d \in [Nodes -> 0 .. Never], IsTight(d),
         NEW k \in 0 .. Cardinality(Nodes), NEW v \in Nodes,
         Cardinality(Before(d, v)) <= k
  PROVE  WalkArrival[k][v] <= d[v]
  <1> DEFINE N == Cardinality(Nodes)
             Near(u, j) == \/ d[u] = Never
                           \/ \E r \in releases : r.node = u /\ d[u] = r.at
                           \/ Cardinality(Before(d, u)) <= j
             Bad == {j \in 0 .. N : \E u \in Nodes : Near(u, j) /\ ~(WalkArrival[j][u] <= d[u])}
  <1>1. N \in Nat /\ Never \in Nat /\ IsFiniteSet(Nodes)
    BY WalkArrivalRecursion, DijkstraAssumption
  <1> SUFFICES ASSUME Bad # {} PROVE FALSE
    OBVIOUS
  <1>2. PICK j \in Bad : \A i \in Bad : j <= i
    <2>1. Bad \subseteq Nat
      BY <1>1
    <2> HIDE DEF Bad
    <2> QED
      BY <2>1, LeastOfNaturals
  <1>3. PICK u \in Nodes : Near(u, j) /\ ~(WalkArrival[j][u] <= d[u])
    BY <1>2
  <1>4. d[u] \in 0 .. Never /\ WalkArrival[j] \in [Nodes -> 0 .. Never]
    BY WalkArrivalType
  <1>5. j # 0 =>
          /\ j \in 1 .. N /\ j - 1 \in 0 .. N
          /\ WalkArrival[j - 1] \in [Nodes -> 0 .. Never]
          /\ WalkArrival[j] = OneMorePipe(WalkArrival[j - 1])
          /\ \A x \in Nodes : Near(x, j - 1) => WalkArrival[j - 1][x] <= d[x]
    <2> SUFFICES ASSUME j # 0
                 PROVE  /\ j \in 1 .. N /\ j - 1 \in 0 .. N
                        /\ WalkArrival[j - 1] \in [Nodes -> 0 .. Never]
                        /\ WalkArrival[j] = OneMorePipe(WalkArrival[j - 1])
                        /\ \A x \in Nodes : Near(x, j - 1) => WalkArrival[j - 1][x] <= d[x]
      OBVIOUS
    <2>1. j \in 1 .. N /\ j - 1 \in 0 .. N /\ j - 1 \notin Bad
      BY <1>1, <1>2
    <2>2. \A x \in Nodes : Near(x, j - 1) => WalkArrival[j - 1][x] <= d[x]
      BY <2>1
    <2>3. WalkArrival[j - 1] \in [Nodes -> 0 .. Never] /\ WalkArrival[j] = OneMorePipe(WalkArrival[j - 1])
      BY <2>1, WalkArrivalType, WalkArrivalRecursion
    <2> QED
      BY <2>1, <2>2, <2>3
  <1> HIDE DEF Bad, N
  \* Over no pipe the arrival is a release or never, and one more pipe keeps it.
  <1>6. CASE d[u] = Never
    <2>1. WalkArrival[j][u] \in 0 .. Never
      BY <1>4
    <2> QED
      BY <1>1, <1>3, <1>6, <2>1
  <1>7. CASE \E r \in releases : r.node = u /\ d[u] = r.at
    <2>1. CASE j = 0
      <3>1. WalkArrival[j][u] = FirstArrival[u]
        BY <2>1, WalkArrivalRecursion
      <3> QED
        BY <1>3, <1>7, <3>1, FirstArrivalIs
    <2>2. CASE j # 0
      <3> DEFINE w == WalkArrival[j - 1]
      <3>1. w \in [Nodes -> 0 .. Never] /\ WalkArrival[j] = OneMorePipe(w) /\ w[u] <= d[u]
        BY <1>5, <1>7, <2>2
      <3> HIDE DEF w
      <3>2. OneMorePipe(w)[u] <= w[u] /\ OneMorePipe(w)[u] \in 0 .. Never /\ w[u] \in 0 .. Never
        BY <3>1, OneMorePipeIs
      <3> QED
        BY <1>1, <1>3, <1>4, <3>1, <3>2
    <2> QED
      BY <2>1, <2>2
  <1>8. CASE d[u] # Never /\ ~\E r \in releases : r.node = u /\ d[u] = r.at
    <2>1. Cardinality(Before(d, u)) <= j
      BY <1>3, <1>8
    <2>2. PICK p \in pipes : p.to = u /\ d[p.from] # Never /\ d[u] = d[p.from] + p.minutes
      BY <1>8 DEF IsTight
    <2>3. p.from \in Nodes /\ p.minutes \in Nat /\ p.minutes >= 1
      BY PipeType DEF TypeOK
    <2>4. d[p.from] \in 0 .. Never /\ d[p.from] < d[u]
      BY <1>1, <2>2, <2>3
    <2>5. Cardinality(Before(d, p.from)) <= j - 1 /\ j # 0
      <3>1. Before(d, p.from) \subseteq Before(d, u) \ {p.from} /\ p.from \in Before(d, u)
        <4>1. \A x \in Nodes : d[x] \in 0 .. Never
          OBVIOUS
        <4> QED
          BY <1>1, <1>4, <2>3, <2>4, <4>1 DEF Before
      <3>2. IsFiniteSet(Before(d, u))
        BY <1>1, FS_Subset DEF Before
      <3>3. /\ IsFiniteSet(Before(d, u) \ {p.from})
            /\ Cardinality(Before(d, u) \ {p.from}) = Cardinality(Before(d, u)) - 1
        BY <3>1, <3>2, FS_RemoveElement
      <3>4. /\ Cardinality(Before(d, p.from)) <= Cardinality(Before(d, u) \ {p.from})
            /\ IsFiniteSet(Before(d, p.from))
        BY <3>1, <3>3, FS_Subset
      <3>5. /\ Cardinality(Before(d, p.from)) \in Nat
            /\ Cardinality(Before(d, u)) \in Nat
        BY <3>2, <3>4, FS_CardinalityType
      <3>6. j \in Nat
        BY <1>1, <1>2 DEF Bad, N
      <3> QED
        BY <2>1, <3>3, <3>4, <3>5, <3>6
    <2> DEFINE w == WalkArrival[j - 1]
    <2>6. w \in [Nodes -> 0 .. Never] /\ WalkArrival[j] = OneMorePipe(w)
          /\ w[p.from] <= d[p.from]
      BY <1>5, <2>3, <2>5
    <2> HIDE DEF w
    <2>7. w[p.from] \in 0 .. Never /\ w[p.from] # Never
      BY <1>1, <2>2, <2>3, <2>4, <2>6
    <2>8. OneMorePipe(w)[u] <= w[p.from] + p.minutes /\ OneMorePipe(w)[u] \in 0 .. Never
      BY <2>2, <2>6, <2>7, OneMorePipeIs
    <2> QED
      BY <1>1, <1>3, <1>4, <2>2, <2>3, <2>4, <2>6, <2>7, <2>8
  <1> QED
    BY <1>6, <1>7, <1>8

\* A fixed point of the pipes and releases is the earliest arrivals.
LEMMA TightIsEarliest ==
  ASSUME TypeOK, NEW d \in [Nodes -> 0 .. Never], IsTight(d)
  PROVE  d = WalkArrival[Cardinality(Nodes)]
  <1> DEFINE N == Cardinality(Nodes)
  <1>1. N \in Nat /\ Never \in Nat /\ N \in 0 .. N
    BY WalkArrivalRecursion, DijkstraAssumption
  <1>2. WalkArrival[N] \in [Nodes -> 0 .. Never]
    BY <1>1, WalkArrivalType
  <1>3. ASSUME NEW v \in Nodes PROVE d[v] = WalkArrival[N][v]
    <2>1. Cardinality(Before(d, v)) <= N
      BY FS_Subset, DijkstraAssumption DEF Before
    <2>2. d[v] <= WalkArrival[N][v] /\ WalkArrival[N][v] <= d[v]
      BY <1>1, <2>1, NoWalkIsFaster, SomeWalkIsAsFast
    <2>3. d[v] \in 0 .. Never /\ WalkArrival[N][v] \in 0 .. Never
      BY <1>2
    <2> HIDE DEF N
    <2> QED
      BY <1>1, <2>2, <2>3
  <1> QED
    BY <1>2, <1>3

\* The earliest arrival of all is the earliest release: an arrival by a pipe
\* is later than the one it comes from.
LEMMA EarliestIsARelease ==
  ASSUME TypeOK, releases # {}, NEW d \in [Nodes -> 0 .. Never], IsTight(d)
  PROVE  LeastOf({d[v] : v \in Nodes}) = LeastOf({r.at : r \in releases})
  <1> DEFINE A == {d[v] : v \in Nodes}
             R == {r.at : r \in releases}
  <1>1. \A r \in releases : r.node \in Nodes /\ r.at \in Nat /\ r.at < Never
    BY DijkstraAssumption DEF TypeOK, Release
  <1>2. Never \in Nat /\ A \subseteq 0 .. Never /\ R \subseteq Nat /\ A # {} /\ R # {}
    BY <1>1, DijkstraAssumption
  <1>3. LeastOf(A) \in A /\ \A x \in A : LeastOf(A) <= x
    <2>1. A \subseteq Nat /\ A # {}
      BY <1>2
    <2> HIDE DEF A
    <2> QED
      BY <2>1, LeastOfNaturals
  <1>4. LeastOf(R) \in R /\ \A x \in R : LeastOf(R) <= x
    <2> HIDE DEF R
    <2> QED
      BY <1>2, LeastOfNaturals
  <1>5. PICK s \in releases : LeastOf(R) = s.at
    BY <1>4
  <1>6. d[s.node] <= s.at /\ d[s.node] \in A /\ d[s.node] \in 0 .. Never
    BY <1>1 DEF IsTight
  <1>7. PICK v \in Nodes : LeastOf(A) = d[v]
    BY <1>3
  <1>8. \A u \in Nodes : d[v] <= d[u]
    BY <1>3, <1>7
  <1>9. d[v] # Never /\ d[v] <= s.at /\ d[v] \in Nat
    <2>1. s.node \in Nodes /\ s.at \in Nat /\ s.at < Never
      BY <1>1
    <2>2. d[v] <= d[s.node] /\ d[v] \in 0 .. Never
      BY <1>8, <2>1
    <2> HIDE DEF A, R
    <2> QED
      BY <1>2, <1>6, <2>1, <2>2
  <1>10. \E r \in releases : d[v] = r.at
    <2> SUFFICES ASSUME NEW p \in pipes, p.to = v, d[p.from] # Never,
                        d[v] = d[p.from] + p.minutes
                 PROVE  FALSE
      BY <1>9 DEF IsTight
    <2>1. p.from \in Nodes /\ p.minutes \in Nat /\ p.minutes >= 1
      BY PipeType DEF TypeOK
    <2>2. d[p.from] \in Nat /\ d[v] <= d[p.from]
      BY <1>2, <1>8, <2>1
    <2> QED
      BY <1>9, <2>1, <2>2
  <1>11. d[v] \in R
    BY <1>10
  <1>12. LeastOf(R) <= d[v] /\ d[v] <= LeastOf(R) /\ LeastOf(R) \in Nat
    BY <1>1, <1>4, <1>5, <1>9, <1>11
  <1> HIDE DEF A, R
  <1> QED
    BY <1>7, <1>9, <1>12 DEF A, R

\* Validate asks for a release, and nothing removes one.
LEMMA ReleasesStay == Spec => [](releases # {})
  <1>1. Init => releases # {}
    BY DEF Init
  <1>2. releases # {} /\ [Next]_vars => (releases # {})'
    BY DEF Next, vars, Pop, Relax, spec
  <1> QED
    BY <1>1, <1>2, PTL DEF Spec

\* When the loop ends, dist holds the earliest arrivals over all walks, in
\* whatever order the heap broke ties and the pipes were scanned; and the first
\* release, the minute NewIncident lets propagation begin at, is the earliest
\* of them.
THEOREM DijkstraIsEarliest == Spec => []DistIsEarliest
  <1>1. TypeOK /\ DistIsTight /\ releases # {} => DistIsEarliest
    <2> SUFFICES ASSUME TypeOK, IsTight(dist), releases # {}
                 PROVE  /\ dist = WalkArrival[Cardinality(Nodes)]
                        /\ LeastOf({dist[v] : v \in Nodes}) = LeastOf({r.at : r \in releases})
      BY DEF DistIsTight, DistIsEarliest
    <2>1. dist \in [Nodes -> 0 .. Never]
      BY DEF TypeOK
    <2> QED
      BY <2>1, TightIsEarliest, EarliestIsARelease
  <1> QED
    BY <1>1, DijkstraTypeCorrect, DijkstraIsTight, ReleasesStay, PTL

-----------------------------------------------------------------------------
(* What the loop has still to do, for its end.                             *)

\* The minutes arrivals can still gain, the entries of the heap and the pipes
\* of the node being scanned.
Remaining == <<SumFunctionOnSet(dist, Nodes), Cardinality(queue), Cardinality(todo)>>

\* The first component in which s and t differ is smaller in s.
Precedes(s, t) == \E i \in 1 .. 3 : s[i] < t[i] /\ \A j \in 1 .. i - 1 : s[j] = t[j]

HeapFinite == IsFiniteSet(queue)

\* There are only so many pipes a network can have.
LEMMA PipesAreFinite ==
  ASSUME NEW s \in SUBSET Pipe
  PROVE  IsFiniteSet(s)
  <1>1. IsFiniteSet(Nodes) /\ IsFiniteSet(Traversals)
    BY DijkstraAssumption
  <1>2. PICK P : P = Nodes \X Nodes
    OBVIOUS
  <1>3. IsFiniteSet(P)
    BY <1>1, <1>2, FS_Product
  <1>4. IsFiniteSet(P \X Traversals)
    BY <1>1, <1>3, FS_Product
  <1>5. PICK f : f = [q \in P \X Traversals |->
                        [from |-> q[1][1], to |-> q[1][2], minutes |-> q[2]]]
    OBVIOUS
  <1>6. PICK I : I = {f[q] : q \in P \X Traversals}
    OBVIOUS
  <1>7. IsFiniteSet(I)
    <2>1. PICK Q : Q = P \X Traversals
      OBVIOUS
    <2>2. DOMAIN f = Q /\ I = {f[q] : q \in Q}
      BY <1>5, <1>6, <2>1
    <2>3. f \in Surjection(Q, I)
      BY <1>5, <2>1, <2>2 DEF Surjection
    <2> QED
      BY <1>4, <2>1, <2>3, FS_Surjection
  <1>8. Pipe \subseteq I
    <2> SUFFICES ASSUME NEW p \in Pipe PROVE p \in I
      OBVIOUS
    <2>1. /\ p = [from |-> p.from, to |-> p.to, minutes |-> p.minutes]
          /\ p.from \in Nodes /\ p.to \in Nodes /\ p.minutes \in Traversals
      BY DEF Pipe
    <2>2. PICK q : q = <<<<p.from, p.to>>, p.minutes>>
      OBVIOUS
    <2>3. q \in P \X Traversals /\ q[1][1] = p.from /\ q[1][2] = p.to /\ q[2] = p.minutes
      BY <1>2, <2>1, <2>2
    <2>4. f[q] = p
      BY <1>5, <2>1, <2>3
    <2> QED
      BY <1>6, <2>3, <2>4
  <1> QED
    BY <1>7, <1>8, FS_Subset

\* The heap stays finite.
LEMMA HeapIsFinite == Spec => []HeapFinite
  <1>1. Init => HeapFinite
    <2> SUFFICES ASSUME Init PROVE IsFiniteSet(queue)
      BY DEF HeapFinite
    <2>1. PICK S : S = {u \in Nodes : dist[u] # Never}
      OBVIOUS
    <2>2. IsFiniteSet(S)
      BY <2>1, FS_Subset, DijkstraAssumption
    <2>3. PICK f : f = [v \in S |-> [node |-> v, minute |-> dist[v]]]
      OBVIOUS
    <2>4. queue = {f[v] : v \in S}
      BY <2>1, <2>3 DEF Init, Start, SeedEntries
    <2>5. f \in Surjection(S, queue)
      BY <2>3, <2>4 DEF Surjection
    <2> QED
      BY <2>2, <2>5, FS_Surjection
  <1>2. HeapFinite /\ [Next]_vars => HeapFinite'
    <2> SUFFICES ASSUME IsFiniteSet(queue), [Next]_vars PROVE IsFiniteSet(queue')
      BY DEF HeapFinite
    <2>1. CASE Pop
      <3>1. PICK e : queue' = queue \ {e}
        BY <2>1 DEF Pop
      <3> QED
        BY <3>1, FS_RemoveElement
    <2>2. ASSUME NEW p \in todo, Relax(p) PROVE IsFiniteSet(queue')
      <3>1. PICK e : queue' = queue \cup {e} \/ queue' = queue
        BY <2>2 DEF Relax
      <3> QED
        BY <3>1, FS_AddElement
    <2>3. CASE UNCHANGED vars
      BY <2>3 DEF vars
    <2> QED
      BY <2>1, <2>2, <2>3 DEF Next
  <1> QED
    BY <1>1, <1>2, PTL DEF Spec

\* Each component is a natural number.
LEMMA RemainingNat ==
  ASSUME TypeOK, IsFiniteSet(queue)
  PROVE  /\ Remaining \in [1 .. 3 -> Nat]
         /\ IsFiniteSet(todo)
  <1>1. IsFiniteSet(todo)
    BY PipesAreFinite DEF TypeOK
  <1>2. \A v \in Nodes : dist[v] \in Nat
    BY DijkstraAssumption DEF TypeOK
  <1>3. PICK a, b, c : /\ a = SumFunctionOnSet(dist, Nodes) /\ b = Cardinality(queue)
                       /\ c = Cardinality(todo)
    OBVIOUS
  <1>4. a \in Nat /\ b \in Nat /\ c \in Nat
    BY <1>1, <1>2, <1>3, SumNat, FS_CardinalityType, DijkstraAssumption
  <1>5. Remaining = <<a, b, c>>
    BY <1>3 DEF Remaining
  <1> QED
    BY <1>1, <1>4, <1>5

\* Every step leaves less to do.
LEMMA StepShrinks ==
  ASSUME TypeOK, IsFiniteSet(queue), Next
  PROVE  Precedes(Remaining', Remaining)
  <1>1. /\ Remaining[1] = SumFunctionOnSet(dist, Nodes)
        /\ Remaining[2] = Cardinality(queue) /\ Remaining[3] = Cardinality(todo)
        /\ Remaining'[1] = SumFunctionOnSet(dist', Nodes)
        /\ Remaining'[2] = Cardinality(queue') /\ Remaining'[3] = Cardinality(todo')
    BY DEF Remaining
  <1>2. IsFiniteSet(todo) /\ \A v \in Nodes : dist[v] \in Nat
    BY RemainingNat, DijkstraAssumption DEF TypeOK
  <1>3. /\ \A i \in {1, 2, 3} : i \in 1 .. 3
        /\ 1 .. 1 - 1 = {} /\ 1 .. 2 - 1 = {1} /\ 1 .. 3 - 1 = {1, 2}
    OBVIOUS
  <1>4. CASE Pop
    <2>1. PICK e \in queue : queue' = queue \ {e} /\ dist' = dist
      BY <1>4 DEF Pop, Smallest
    <2>2. Cardinality(queue') = Cardinality(queue) - 1 /\ Cardinality(queue) \in Nat
      BY <2>1, FS_RemoveElement, FS_CardinalityType
    <2>3. Remaining'[1] = Remaining[1] /\ Remaining'[2] < Remaining[2]
      BY <1>1, <2>1, <2>2
    <2> QED
      BY <1>3, <2>3 DEF Precedes
  <1>5. ASSUME NEW p \in todo, Relax(p) PROVE Precedes(Remaining', Remaining)
    <2>1. p.to \in Nodes /\ p.minutes \in Nat /\ now \in Nat
      BY PipeType DEF TypeOK
    <2>2. CASE now + p.minutes < dist[p.to]
      <3>1. /\ \A v \in Nodes \ {p.to} : dist'[v] = dist[v]
            /\ dist'[p.to] = now + p.minutes
        BY <1>5, <2>1, <2>2 DEF Relax, TypeOK
      <3>2. PICK z : z = dist'
        OBVIOUS
      <3>3. /\ \A v \in Nodes : dist[v] \in Int /\ z[v] \in Int
            /\ \A v \in Nodes \ {p.to} : z[v] = dist[v]
            /\ z[p.to] - dist[p.to] < 0
        <4>1. z[p.to] \in Int /\ z[p.to] < dist[p.to] /\ dist[p.to] \in Int
          BY <1>2, <2>1, <2>2, <3>1, <3>2
        <4> QED
          BY <1>2, <3>1, <3>2, <4>1
      <3>4. IsFiniteSet(Nodes)
        BY DijkstraAssumption
      <3>5. /\ SumFunctionOnSet(z, Nodes) = SumFunctionOnSet(dist, Nodes) + (z[p.to] - dist[p.to])
            /\ SumFunctionOnSet(dist, Nodes) \in Int
        BY <2>1, <3>3, <3>4, SumChanged, SumInt
      <3>6. z[p.to] \in Int /\ dist[p.to] \in Int
        BY <2>1, <3>3
      <3>7. Remaining'[1] < Remaining[1]
        BY <1>1, <3>2, <3>3, <3>5, <3>6
      <3> QED
        BY <1>3, <3>7 DEF Precedes
    <2>3. CASE ~(now + p.minutes < dist[p.to])
      <3>1. dist' = dist /\ queue' = queue /\ todo' = todo \ {p}
        BY <1>5, <2>3 DEF Relax
      <3>2. Cardinality(todo') = Cardinality(todo) - 1 /\ Cardinality(todo) \in Nat
        BY <1>2, <3>1, FS_RemoveElement, FS_CardinalityType
      <3>3. /\ Remaining'[1] = Remaining[1] /\ Remaining'[2] = Remaining[2]
            /\ Remaining'[3] < Remaining[3]
        BY <1>1, <3>1, <3>2
      <3> QED
        BY <1>3, <3>3 DEF Precedes
    <2> QED
      BY <2>2, <2>3
  <1> QED
    BY <1>4, <1>5 DEF Next

\* earliestArrivals stops: whatever the network and whatever order ties leave
\* the heap in, every turn of its loops leaves less to do, and what there is to
\* do is three natural numbers, of which the first that changes goes down.
THEOREM LoopStops ==
  Spec => /\ [](Remaining \in [1 .. 3 -> Nat])
          /\ [][Precedes(Remaining', Remaining)]_vars
  <1>1. TypeOK /\ HeapFinite => Remaining \in [1 .. 3 -> Nat]
    BY RemainingNat DEF HeapFinite
  <1>2. TypeOK /\ HeapFinite /\ [Next]_vars => [Precedes(Remaining', Remaining)]_vars
    BY StepShrinks DEF HeapFinite
  <1> QED
    BY <1>1, <1>2, DijkstraTypeCorrect, HeapIsFinite, PTL DEF Spec

-----------------------------------------------------------------------------
(* The numbers the loop computes.                                          *)

\* Releases are no later than latest, and pipes take no longer than longest.
Limits(latest, longest) ==
  /\ \A m \in Minutes : m <= latest
  /\ \A t \in Traversals : t <= longest

\* A node scanned adds one more pipe to what arrivals may take, and the pipes of
\* the node being scanned lead from one with a pipe less.
SumsGrowSlowly(latest, longest) ==
  /\ \A v \in Nodes : dist[v] # Never => dist[v] <= latest + Cardinality(settled) * longest
  /\ todo # {} => now + longest <= latest + Cardinality(settled) * longest

\* Every sum of an arrival and a traversal, whether it improves something or not.
SumsAreSmall(latest, longest) ==
  \A p \in todo : now + p.minutes <= latest + Cardinality(Nodes) * longest

\* One factor more, and a larger factor.
LEMMA Products ==
  /\ \A k, t \in Nat : k * t \in Nat /\ (k + 1) * t = k * t + t
  /\ \A k, m, t \in Nat : k <= m => k * t <= m * t
  <1>1. \A k, t \in Nat : k * t \in Nat /\ (k + 1) * t = k * t + t
    OBVIOUS
  <1>2. ASSUME NEW k \in Nat, NEW m \in Nat, NEW t \in Nat, k <= m
        PROVE  k * t <= m * t
    <2>1. PICK d \in Nat : m = k + d
      BY <1>2
    <2>2. m * t = k * t + d * t /\ d * t \in Nat /\ k * t \in Nat
      BY <2>1
    <2>3. d * t >= 0
      BY <2>2
    <2> QED
      BY <2>2, <2>3
  <1> QED
    BY <1>1, <1>2

\* No step adds more.
LEMMA SumsStep ==
  ASSUME NEW L \in Nat, NEW T \in Nat, Limits(L, T),
         DInv, SumsGrowSlowly(L, T), [Next]_vars
  PROVE  SumsGrowSlowly(L, T)'
  <1>1. /\ settled \subseteq Nodes /\ IsFiniteSet(settled) /\ Cardinality(settled) \in Nat
        /\ \A v \in Nodes : dist[v] \in Nat
        /\ now \in Nat
    BY FS_Subset, FS_CardinalityType, DijkstraAssumption DEF DInv, TypeOK
  <1>2. PICK k \in Nat : k = Cardinality(settled)
    BY <1>1
  <1>3. PICK b \in Nat : b = k * T /\ (k + 1) * T = b + T
    BY Products
  <1>4. /\ \A v \in Nodes : dist[v] # Never => dist[v] <= L + b
        /\ todo # {} => now + T <= L + b
    BY <1>2, <1>3 DEF SumsGrowSlowly
  <1>5. CASE UNCHANGED vars
    BY <1>5 DEF vars, SumsGrowSlowly
  <1>6. CASE Pop
    <2>1. PICK e \in Smallest(queue) :
            /\ queue' = queue \ {e} /\ now' = e.minute /\ dist' = dist
            /\ IF e.minute # dist[e.node]
                 THEN UNCHANGED <<todo, settled>>
                 ELSE /\ todo' = PipesOf(e.node)
                      /\ settled' = settled \cup {e.node}
      BY <1>6 DEF Pop
    <2>2. e \in queue /\ e \in Entry /\ e.node \in Nodes /\ todo = {}
      BY <1>6, <2>1, PopFinds DEF Pop
    <2>3. CASE e.minute # dist[e.node]
      BY <2>1, <2>2, <2>3 DEF SumsGrowSlowly
    <2>4. CASE e.minute = dist[e.node]
      <3>1. e.node \notin settled
        <4>1. e = [node |-> e.node, minute |-> dist[e.node]]
          BY <2>2, <2>4 DEF Entry
        <4> QED
          BY <2>2, <4>1 DEF DInv, SettledBehind
      <3>2. Cardinality(settled') = k + 1
        BY <1>1, <1>2, <2>1, <2>4, <3>1, FS_AddElement
      <3>3. Cardinality(settled') * T = b + T
        BY <1>3, <3>2
      <3>4. e.minute \in 0 .. Never - 1 /\ Never \in Nat
        BY <2>2, DijkstraAssumption DEF Entry
      <3>5. now' <= L + b
        BY <1>4, <2>1, <2>2, <2>4, <3>4
      <3>6. now' + T <= L + (b + T)
        BY <1>3, <2>1, <3>4, <3>5
      <3>7. \A v \in Nodes : dist[v] # Never => dist[v] <= L + (b + T)
        BY <1>1, <1>3, <1>4
      <3> QED
        BY <2>1, <3>3, <3>6, <3>7 DEF SumsGrowSlowly
    <2> QED
      BY <2>3, <2>4
  <1>7. ASSUME NEW p \in todo, Relax(p) PROVE SumsGrowSlowly(L, T)'
    <2>1. p.to \in Nodes /\ p.minutes \in Nat /\ p.minutes <= T
      BY PipeType DEF DInv, TypeOK, Limits, Pipe
    <2>2. now' = now /\ settled' = settled /\ todo' = todo \ {p}
      BY <1>7 DEF Relax
    <2>3. \/ dist' = dist
          \/ dist' = [dist EXCEPT ![p.to] = now + p.minutes]
      BY <1>7 DEF Relax
    <2>4. now + p.minutes <= L + b
      BY <1>1, <1>3, <1>4, <2>1
    <2>5. \A v \in Nodes : dist'[v] # Never => dist'[v] <= L + b
      BY <1>4, <2>1, <2>3, <2>4 DEF DInv, TypeOK
    <2> QED
      BY <1>2, <1>3, <1>4, <2>2, <2>5 DEF SumsGrowSlowly
  <1> QED
    BY <1>5, <1>6, <1>7 DEF Next

\* No sum of earliestArrivals is more than the latest release and, for every
\* node, the longest pipe: with MaxNodes nodes and MaxMinutes for both that is
\* far from math.MaxInt64, which stands for never.
THEOREM SumsStaySmall ==
  ASSUME NEW L \in Nat, NEW T \in Nat, Limits(L, T)
  PROVE  Spec => []SumsAreSmall(L, T)
  <1>1. Init => SumsGrowSlowly(L, T)
    <2> SUFFICES ASSUME Init PROVE SumsGrowSlowly(L, T)
      OBVIOUS
    <2>1. /\ dist \in [Nodes -> Minutes \cup {Never}] /\ todo = {} /\ settled = {}
      BY DEF Init, Start
    <2>2. Cardinality(settled) * T = 0
      BY <2>1, FS_EmptySet
    <2>3. \A v \in Nodes : dist[v] # Never => dist[v] \in Nat /\ dist[v] <= L + 0
      <3>1. ASSUME NEW m \in Minutes PROVE m \in Nat /\ m <= L + 0
        <4>1. m \in Nat /\ m <= L
          BY DijkstraAssumption DEF Limits
        <4> QED
          BY <4>1
      <3>2. \A v \in Nodes : dist[v] # Never => dist[v] \in Minutes
        BY <2>1
      <3> QED
        BY <3>1, <3>2
    <2> QED
      BY <2>1, <2>2, <2>3 DEF SumsGrowSlowly
  <1>2. DInv /\ SumsGrowSlowly(L, T) /\ [Next]_vars => SumsGrowSlowly(L, T)'
    BY SumsStep
  <1>3. DInv /\ SumsGrowSlowly(L, T) => SumsAreSmall(L, T)
    <2> SUFFICES ASSUME DInv, SumsGrowSlowly(L, T), NEW p \in todo
                 PROVE  now + p.minutes <= L + Cardinality(Nodes) * T
      BY DEF SumsAreSmall
    <2>1. p.minutes \in Nat /\ p.minutes <= T /\ now \in Nat
      BY PipeType DEF DInv, TypeOK, Limits, Pipe
    <2>2. settled \subseteq Nodes /\ IsFiniteSet(Nodes)
      BY DijkstraAssumption DEF DInv, TypeOK
    <2>3. /\ Cardinality(settled) \in Nat /\ Cardinality(Nodes) \in Nat
          /\ Cardinality(settled) <= Cardinality(Nodes)
      BY <2>2, FS_Subset, FS_CardinalityType
    <2>4. Cardinality(settled) * T \in Nat /\ Cardinality(Nodes) * T \in Nat
          /\ Cardinality(settled) * T <= Cardinality(Nodes) * T
      BY <2>3, Products
    <2>5. now + T <= L + Cardinality(settled) * T
      BY DEF SumsGrowSlowly
    <2> QED
      BY <2>1, <2>4, <2>5
  <1> QED
    BY <1>1, <1>2, <1>3, DijkstraInvariant, PTL DEF Spec

-----------------------------------------------------------------------------
(* What the loop computes is what the service stores.                      *)

\* The loop is given the pipes and releases of s, in whatever order.
Given(s) ==
  /\ pipes = {s.pipes[i] : i \in DOMAIN s.pipes}
  /\ releases = {s.releases[i] : i \in DOMAIN s.releases}

\* dist, for every node an incident may have.
Padded == [v \in 0 .. MaxNodes - 1 |-> IF v \in Nodes THEN dist[v] ELSE Never]

StoresEarliest(s) == Done => Api!IsEarliest(s, Padded)

\* Tight arrivals are earliest, as the service means it.
LEMMA TightIsStored ==
  ASSUME NEW s, Given(s), TypeOK, IsTight(dist), Nodes \subseteq 0 .. MaxNodes - 1
  PROVE  Api!IsEarliest(s, Padded)
  <1>0. \A v \in Nodes : Padded[v] = dist[v]
    BY DEF Padded
  <1>1. ASSUME NEW i \in DOMAIN s.pipes
        PROVE  /\ s.pipes[i] \in pipes
               /\ s.pipes[i].from \in Nodes /\ s.pipes[i].to \in Nodes
               /\ Padded[s.pipes[i].from] = dist[s.pipes[i].from]
               /\ Padded[s.pipes[i].to] = dist[s.pipes[i].to]
    <2>1. s.pipes[i] \in pipes /\ s.pipes[i] \in Pipe
      BY DEF Given, TypeOK
    <2>2. s.pipes[i].from \in Nodes /\ s.pipes[i].to \in Nodes
      BY <2>1 DEF Pipe
    <2> QED
      BY <1>0, <2>1, <2>2
  <1>2. ASSUME NEW i \in DOMAIN s.releases
        PROVE  /\ s.releases[i] \in releases
               /\ s.releases[i].node \in Nodes
               /\ Padded[s.releases[i].node] = dist[s.releases[i].node]
    <2>1. s.releases[i] \in releases /\ s.releases[i] \in Release
      BY DEF Given, TypeOK
    <2>2. s.releases[i].node \in Nodes
      BY <2>1 DEF Release
    <2> QED
      BY <1>0, <2>1, <2>2
  <1>3. ASSUME NEW v \in DOMAIN Padded, Padded[v] # Never
        PROVE  v \in Nodes /\ Padded[v] = dist[v] /\ dist[v] # Never
    BY <1>3 DEF Padded
  <1>4. ASSUME NEW v \in DOMAIN Padded, Padded[v] # Never
        PROVE  \/ \E i \in DOMAIN s.releases :
                    s.releases[i] = [node |-> v, at |-> Padded[v]]
               \/ \E i \in DOMAIN s.pipes :
                    /\ s.pipes[i].to = v /\ Padded[s.pipes[i].from] # Never
                    /\ Padded[v] = Padded[s.pipes[i].from] + s.pipes[i].minutes
    <2>1. CASE \E r \in releases : r.node = v /\ dist[v] = r.at
      <3>1. PICK i \in DOMAIN s.releases :
              s.releases[i].node = v /\ dist[v] = s.releases[i].at
        BY <2>1 DEF Given
      <3>2. s.releases[i] \in Release
        BY <1>2 DEF TypeOK
      <3>3. s.releases[i] = [node |-> v, at |-> dist[v]]
        BY <3>1, <3>2 DEF Release
      <3> QED
        BY <1>3, <1>4, <3>3
    <2>2. CASE \E p \in pipes :
                 p.to = v /\ dist[p.from] # Never /\ dist[v] = dist[p.from] + p.minutes
      <3>1. PICK i \in DOMAIN s.pipes :
              /\ s.pipes[i].to = v /\ dist[s.pipes[i].from] # Never
              /\ dist[v] = dist[s.pipes[i].from] + s.pipes[i].minutes
        BY <2>2 DEF Given
      <3> QED
        BY <1>1, <1>3, <1>4, <3>1
    <2> QED
      BY <1>3, <1>4, <2>1, <2>2 DEF IsTight
  <1>5. \A i \in DOMAIN s.pipes : Padded[s.pipes[i].from] # Never =>
          Padded[s.pipes[i].to] <= Padded[s.pipes[i].from] + s.pipes[i].minutes
    BY <1>1 DEF IsTight
  <1>6. \A i \in DOMAIN s.releases : Padded[s.releases[i].node] <= s.releases[i].at
    BY <1>2 DEF IsTight
  <1> QED
    BY <1>4, <1>5, <1>6 DEF Api!IsEarliest

\* When the loop that was given a specification ends, dist holds the arrivals an
\* incident of that specification is created with.
THEOREM LoopStoresEarliest ==
  ASSUME NEW CONSTANT s, Nodes \subseteq 0 .. MaxNodes - 1
  PROVE  Given(s) /\ Spec => []StoresEarliest(s)
  <1>1. Given(s) /\ [Next]_vars => Given(s)'
    BY DEF Given, Next, Pop, Relax, vars, spec
  <1>2. Given(s) /\ TypeOK /\ DistIsTight => StoresEarliest(s)
    BY TightIsStored DEF DistIsTight, StoresEarliest
  <1> QED
    BY <1>1, <1>2, DijkstraTypeCorrect, DijkstraIsTight, PTL DEF Spec

=============================================================================
