------------------------------ MODULE MCService ------------------------------
(***************************************************************************)
(* The service with a few requests, which are interchangeable, and so are  *)
(* the identifiers newID draws.  Two incidents are good, one decided by an *)
(* intake and one by its deadline; the bad bodies miss one bound each, the *)
(* nodes that n = 2 leaves out though MaxNodes has them among those.       *)
(***************************************************************************)
EXTENDS Service, TLC

Symmetry == Permutations(Requests) \cup Permutations(Ids)

\* Contamination is at node 1 after two minutes, at node 2 never.
Chain ==
  [n |-> 3, deadline |-> 2,
   pipes |-> <<[from |-> 0, to |-> 1, minutes |-> 2], [from |-> 1, to |-> 1, minutes |-> 1],
               [from |-> 2, to |-> 1, minutes |-> 1]>>,
   releases |-> <<[node |-> 0, at |-> 1], [node |-> 0, at |-> 0]>>,
   intakes |-> <<1, 1>>]

Dry == [Chain EXCEPT !.n = 2, !.deadline = 1, !.pipes = <<>>]

MCCreations ==
  {Chain, Dry,
   [Dry EXCEPT !.n = 1], [Chain EXCEPT !.n = MaxNodes + 1],
   [Dry EXCEPT !.deadline = -1], [Chain EXCEPT !.deadline = MaxMinutes + 1],
   [Chain EXCEPT !.pipes = @ \o @],
   [Dry EXCEPT !.pipes = <<[from |-> 2, to |-> 1, minutes |-> 1]>>],
   [Dry EXCEPT !.pipes = <<[from |-> 0, to |-> 2, minutes |-> 1]>>],
   [Chain EXCEPT !.pipes[1].to = -1],
   [Chain EXCEPT !.pipes[1].minutes = 0],
   [Dry EXCEPT !.releases = <<>>], [Dry EXCEPT !.releases[1].node = 2],
   [Dry EXCEPT !.releases = <<[node |-> 0, at |-> 2]>>],
   [Dry EXCEPT !.intakes = <<>>], [Dry EXCEPT !.intakes[2] = 2]}

Pipe == [n |-> 2, edges |-> <<[from |-> 0, to |-> 1, cost |-> 1]>>,
         sources |-> <<0>>, sinks |-> <<1, 1>>]

MCCuts ==
  {Pipe, [Pipe EXCEPT !.n = 1], [Pipe EXCEPT !.edges[1].to = 2],
   [Pipe EXCEPT !.edges[1].cost = MaxCost + 1], [Pipe EXCEPT !.edges[1].cost = 0],
   [Pipe EXCEPT !.sources = <<>>], [Pipe EXCEPT !.sinks = <<>>],
   [Pipe EXCEPT !.sinks[2] = 2], [Pipe EXCEPT !.sources = <<0, 1>>]}

=============================================================================
