----------------------------- MODULE MCDijkstra -----------------------------
(***************************************************************************)
(* Every network over three nodes with at most three pipes and two         *)
(* releases.                                                               *)
(***************************************************************************)
EXTENDS Dijkstra

=============================================================================
