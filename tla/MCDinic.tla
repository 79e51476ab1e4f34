-------------------------------- MODULE MCDinic --------------------------------
(***************************************************************************)
(* Every list of at most MaxEdges edges over three nodes, with one or two  *)
(* sources, the shorter lists also with endpoints named twice, and a       *)
(* network of six nodes in which the second phase has to take back flow of *)
(* the first.                                                              *)
(***************************************************************************)
EXTENDS Dinic

CONSTANTS Costs, MaxEdges

SmallEdges == [from : 0 .. 2, to : 0 .. 2, cost : Costs]

SmallNetworks ==
  [n : {3},
   edges : UNION {[1 .. k -> SmallEdges] : k \in 0 .. MaxEdges},
   sources : {<<0>>, <<0, 1>>},
   sinks : {<<2>>}]

\* validate lets an endpoint be named twice.
Repeated ==
  {[net EXCEPT !.sources = <<0, 0>>, !.sinks = <<2, 2>>] :
     net \in {m \in SmallNetworks : Len(m.edges) < MaxEdges}}

\* From the source 0 the short way to the sink 3 is by 1 and 2.  The edge from
\* 2 to 3 is then full, and 4 can reach the sink only if 1 sends its flow by 5.
Detour ==
  [n |-> 6,
   edges |-> <<[from |-> 0, to |-> 1, cost |-> 1], [from |-> 1, to |-> 2, cost |-> 1],
               [from |-> 2, to |-> 3, cost |-> 1], [from |-> 0, to |-> 4, cost |-> 1],
               [from |-> 4, to |-> 2, cost |-> 1], [from |-> 1, to |-> 5, cost |-> 1],
               [from |-> 5, to |-> 5, cost |-> 2], [from |-> 5, to |-> 3, cost |-> 1]>>,
   sources |-> <<0>>,
   sinks |-> <<3>>]

MCNetworks == SmallNetworks \cup Repeated \cup {Detour}

=============================================================================
