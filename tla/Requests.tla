------------------------------- MODULE Requests -------------------------------
(***************************************************************************)
(* What the handlers check of a request body before anything is computed   *)
(* from it, and what the program computes for an accepted incident.  All   *)
(* comparisons are made on the int64 values of the body, before they are   *)
(* converted to int, so the conversions lose nothing.                      *)
(***************************************************************************)
EXTENDS Integers, Sequences

CONSTANTS
  MaxNodes,    \* bound on n
  MaxPipes,    \* bound on the number of pipes or edges
  MaxMinutes,  \* bound on minutes
  MaxCost,     \* bound on the cost of an edge
  Never        \* math.MaxInt64

ASSUME BoundsAssumption ==
  /\ MaxNodes \in Nat /\ MaxPipes \in Nat
  /\ MaxMinutes \in Nat /\ MaxCost \in Nat
  /\ Never \in Nat /\ Never > MaxNodes * MaxMinutes

IsNode(id, n) == 0 <= id /\ id < n

PipesFit(b) ==
  /\ Len(b.pipes) <= MaxPipes
  /\ \A i \in DOMAIN b.pipes :
       /\ IsNode(b.pipes[i].from, b.n) /\ IsNode(b.pipes[i].to, b.n)
       /\ b.pipes[i].minutes \in 1 .. MaxMinutes

ReleasesFit(b) ==
  /\ b.releases # <<>>
  /\ \A i \in DOMAIN b.releases :
       IsNode(b.releases[i].node, b.n) /\ b.releases[i].at \in 0 .. b.deadline

\* Intakes looked for among the most nodes there can be, not among the n there are.
IntakesFitAnywhere(b) ==
  b.intakes # <<>> /\ \A i \in DOMAIN b.intakes : IsNode(b.intakes[i], MaxNodes)

IntakesFit(b) ==
  b.intakes # <<>> /\ \A i \in DOMAIN b.intakes : IsNode(b.intakes[i], b.n)

\* buildSpec, in the handler.
BuildSpec(b) ==
  /\ b.n \in 2 .. MaxNodes /\ b.deadline \in 0 .. MaxMinutes
  /\ PipesFit(b) /\ ReleasesFit(b) /\ IntakesFit(b)

\* Validate, in package incident, checks everything once more.
Validate(s) ==
  /\ s.n \in 2 .. MaxNodes /\ s.deadline \in 0 .. MaxMinutes
  /\ PipesFit(s) /\ ReleasesFit(s) /\ IntakesFit(s)

\* A validate that marks the sources as it checks the sinks, not before.
ValidateCutUnmarked(b) ==
  /\ b.n \in 2 .. MaxNodes
  /\ Len(b.edges) <= MaxPipes
  /\ \A i \in DOMAIN b.edges :
       /\ IsNode(b.edges[i].from, b.n) /\ IsNode(b.edges[i].to, b.n)
       /\ b.edges[i].cost \in 1 .. MaxCost
  /\ b.sources # <<>> /\ b.sinks # <<>>
  /\ \A i \in DOMAIN b.sources : IsNode(b.sources[i], b.n)
  /\ \A i \in DOMAIN b.sinks : IsNode(b.sinks[i], b.n)

\* validate, of package api: the edges, the endpoints, no sink a source.
ValidateCut(b) ==
  /\ b.n \in 2 .. MaxNodes
  /\ Len(b.edges) <= MaxPipes
  /\ \A i \in DOMAIN b.edges :
       /\ IsNode(b.edges[i].from, b.n) /\ IsNode(b.edges[i].to, b.n)
       /\ b.edges[i].cost \in 1 .. MaxCost
  /\ b.sources # <<>> /\ b.sinks # <<>>
  /\ \A i \in DOMAIN b.sources : IsNode(b.sources[i], b.n)
  /\ \A i \in DOMAIN b.sinks :
       /\ IsNode(b.sinks[i], b.n)
       /\ \A j \in DOMAIN b.sources : b.sources[j] # b.sinks[i]

\* An arrival minute for every node there can be; no later one is possible.
Arrivals == [0 .. MaxNodes - 1 -> 0 .. MaxNodes * MaxMinutes \cup {Never}]

\* d holds what earliestArrivals computes for s, and Never for the nodes s does
\* not have: module Dijkstra shows that its loop ends in the one such d.
IsEarliest(s, d) ==
  /\ \A i \in DOMAIN s.pipes :
       d[s.pipes[i].from] # Never =>
         d[s.pipes[i].to] <= d[s.pipes[i].from] + s.pipes[i].minutes
  /\ \A i \in DOMAIN s.releases : d[s.releases[i].node] <= s.releases[i].at
  /\ \A v \in DOMAIN d : d[v] # Never =>
       \/ \E i \in DOMAIN s.releases : s.releases[i] = [node |-> v, at |-> d[v]]
       \/ \E i \in DOMAIN s.pipes :
            /\ s.pipes[i].to = v /\ d[s.pipes[i].from] # Never
            /\ d[v] = d[s.pipes[i].from] + s.pipes[i].minutes

IntakesOf(s) == {s.intakes[i] : i \in DOMAIN s.intakes}

=============================================================================
