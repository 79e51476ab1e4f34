----------------------------- MODULE MCAcceptance -----------------------------
(***************************************************************************)
(* The acceptance suite, with six goroutines where verify lets go fifteen  *)
(* and twenty.                                                             *)
(***************************************************************************)
EXTENDS Acceptance

=============================================================================
