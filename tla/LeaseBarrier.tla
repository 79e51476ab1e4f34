---------------------------- MODULE LeaseBarrier ----------------------------
(***************************************************************************)
(* What the admission gate of package lifecycle promises, stated without   *)
(* its counter, its channel or its lock: leases are granted until the      *)
(* barrier falls and never after it, and the end of the drain is announced *)
(* at the very moment the last lease granted before the barrier is         *)
(* returned, unless the owner of the gate gave up waiting first.           *)
(***************************************************************************)

CONSTANT Requests

VARIABLES
  fallen,     \* the barrier has fallen
  abandoned,  \* the owner no longer waits for the leases
  lease,      \* what each request got from the gate
  announced   \* the end of the drain has been announced

vars == <<fallen, abandoned, lease, announced>>

Outstanding == {r \in Requests : lease[r] = "held"}

Init ==
  /\ fallen = FALSE
  /\ abandoned = FALSE
  /\ lease = [r \in Requests |-> "none"]
  /\ announced = FALSE

\* The one rule about the announcement, common to every step.
AnnounceWhenEmpty ==
  announced' = (announced \/ (fallen' /\ ~abandoned' /\ Outstanding' = {}))

\* r arrives before the barrier and may enter.
Enter(r) ==
  /\ ~fallen
  /\ lease[r] = "none"
  /\ lease' = [lease EXCEPT ![r] = "held"]
  /\ AnnounceWhenEmpty
  /\ UNCHANGED <<fallen, abandoned>>

\* r arrives after the barrier and may not.
TurnAway(r) ==
  /\ fallen
  /\ lease[r] = "none"
  /\ lease' = [lease EXCEPT ![r] = "refused"]
  /\ UNCHANGED <<fallen, abandoned, announced>>

Leave(r) ==
  /\ lease[r] = "held"
  /\ lease' = [lease EXCEPT ![r] = "returned"]
  /\ AnnounceWhenEmpty
  /\ UNCHANGED <<fallen, abandoned>>

Fall ==
  /\ ~fallen
  /\ fallen' = TRUE
  /\ AnnounceWhenEmpty
  /\ UNCHANGED <<abandoned, lease>>

Abandon ==
  /\ fallen
  /\ abandoned' = TRUE
  /\ UNCHANGED <<fallen, lease, announced>>

Next ==
  \/ \E r \in Requests : Enter(r) \/ TurnAway(r) \/ Leave(r)
  \/ Fall
  \/ Abandon

Spec == Init /\ [][Next]_vars

=============================================================================
