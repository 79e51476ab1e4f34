------------------------------- MODULE MCEvent -------------------------------
(***************************************************************************)
(* Every event over a small network, with a few callers.  Callers are      *)
(* interchangeable, and so are nodes: the initial states assign minutes    *)
(* and intakes to them in every possible way.                              *)
(***************************************************************************)
EXTENDS Event, TLC

Symmetry == Permutations(Nodes) \cup Permutations(Callers)

=============================================================================
