------------------------------- MODULE MCGate -------------------------------
(***************************************************************************)
(* The admission gate with a handful of requests, under the fairness that  *)
(* handlers return their leases.                                           *)
(***************************************************************************)
EXTENDS Gate

=============================================================================
