---------------------------- MODULE MCApiProcess ----------------------------
(***************************************************************************)
(* The service process with a few requests, which are interchangeable.     *)
(***************************************************************************)
EXTENDS ApiProcess, TLC

Symmetry == Permutations(Requests)

=============================================================================
