-------------------------------- MODULE Gate --------------------------------
(***************************************************************************)
(* internal/lifecycle: the shared admission gate.  Every method of Gate    *)
(* holds its mutex from the first line to the last, so every method is one *)
(* action.  Closing the drained channel is the only effect a method can    *)
(* have twice by mistake, and Go panics when it does: `panicked' records   *)
(* that.  `lease' is the callers' side, what Acquire returned to each of   *)
(* them; a caller invokes its release function once (admit defers it).     *)
(***************************************************************************)
EXTENDS Integers, FiniteSets

CONSTANT Requests  \* the business requests that ever call Acquire

ASSUME RequestsFinite == IsFiniteSet(Requests)

VARIABLES
  state,     \* lifecycle phase
  inflight,  \* number of leases out
  drained,   \* the drained channel is closed
  panicked,  \* a closed channel was closed again
  lease      \* what each caller got

gateVars == <<state, inflight, drained, panicked, lease>>

Phases == {"accepting", "draining", "stopped"}

Holders == {r \in Requests : lease[r] = "held"}

GateInit ==
  /\ state = "accepting"
  /\ inflight = 0
  /\ drained = FALSE
  /\ panicked = FALSE
  /\ lease = [r \in Requests |-> "none"]

\* close(g.drained)
CloseDrained ==
  /\ drained' = TRUE
  /\ panicked' = (panicked \/ drained)

\* A wrong Acquire that never looks at the phase.
GrantAnyTime(r) ==
  /\ lease[r] = "none"
  /\ inflight' = inflight + 1
  /\ lease' = [lease EXCEPT ![r] = "held"]
  /\ UNCHANGED <<state, drained, panicked>>

\* Acquire when the gate still accepts ...
Grant(r) ==
  /\ lease[r] = "none"
  /\ state = "accepting"
  /\ inflight' = inflight + 1
  /\ lease' = [lease EXCEPT ![r] = "held"]
  /\ UNCHANGED <<state, drained, panicked>>

\* A wrong Acquire that takes the lease before it looks at the phase.
RefuseCounted(r) ==
  /\ lease[r] = "none"
  /\ state # "accepting"
  /\ inflight' = inflight + 1
  /\ lease' = [lease EXCEPT ![r] = "refused"]
  /\ UNCHANGED <<state, drained, panicked>>

\* ... and when it does not.
Refuse(r) ==
  /\ lease[r] = "none"
  /\ state # "accepting"
  /\ lease' = [lease EXCEPT ![r] = "refused"]
  /\ UNCHANGED <<state, inflight, drained, panicked>>

Acquire(r) == Grant(r) \/ Refuse(r)

\* A wrong release that can be spent again.
ReleaseKept(r) ==
  /\ lease[r] = "held"
  /\ inflight' = inflight - 1
  /\ UNCHANGED <<state, drained, panicked, lease>>

\* A wrong release that looks at the count before it takes its lease off it.
ReleaseChecksFirst(r) ==
  /\ lease[r] = "held"
  /\ lease' = [lease EXCEPT ![r] = "returned"]
  /\ inflight' = inflight - 1
  /\ IF inflight = 0 /\ state = "draining"
       THEN CloseDrained
       ELSE UNCHANGED <<drained, panicked>>
  /\ UNCHANGED state

Release(r) ==
  /\ lease[r] = "held"
  /\ lease' = [lease EXCEPT ![r] = "returned"]
  /\ inflight' = inflight - 1
  /\ IF inflight' = 0 /\ state = "draining"
       THEN CloseDrained
       ELSE UNCHANGED <<drained, panicked>>
  /\ UNCHANGED state

\* A wrong BeginDrain that leaves the announcement to the releases.
BeginDrainSilently ==
  /\ state = "accepting"
  /\ state' = "draining"
  /\ UNCHANGED <<inflight, drained, panicked, lease>>

\* A wrong BeginDrain that starts over on every signal.
BeginDrainAgain ==
  /\ state' = "draining"
  /\ IF inflight = 0
       THEN CloseDrained
       ELSE UNCHANGED <<drained, panicked>>
  /\ UNCHANGED <<inflight, lease>>

BeginDrain ==
  \/ /\ state # "accepting"
     /\ UNCHANGED gateVars
  \/ /\ state = "accepting"
     /\ state' = "draining"
     /\ IF inflight = 0
          THEN CloseDrained
          ELSE UNCHANGED <<drained, panicked>>
     /\ UNCHANGED <<inflight, lease>>

MarkStopped ==
  /\ state' = "stopped"
  /\ UNCHANGED <<inflight, drained, panicked, lease>>

\* The owner of the gate marks it stopped only after it began the drain,
\* whether the leases drained or the wait for them timed out.
GateNext ==
  \/ \E r \in Requests : Acquire(r) \/ Release(r)
  \/ BeginDrain
  \/ state # "accepting" /\ MarkStopped

GateSpec == GateInit /\ [][GateNext]_gateVars

\* A handler that holds a lease returns it: the reads and writes it blocks
\* on are bounded by the server's timeouts.
GateFairSpec == GateSpec /\ \A r \in Requests : WF_gateVars(Release(r))

-----------------------------------------------------------------------------

\* Every variable of the gate keeps its type; the in-flight count, an int in
\* the code, never goes below zero.
GateTypeOK ==
  /\ state \in Phases
  /\ inflight \in Nat
  /\ drained \in BOOLEAN
  /\ panicked \in BOOLEAN
  /\ lease \in [Requests -> {"none", "held", "returned", "refused"}]

\* The counter Acquire and release keep is the number of callers that hold a
\* lease, whatever the order of acquisitions, refusals, releases and signals.
InflightCountsLeases == inflight = Cardinality(Holders)

\* The drained channel is closed only once the barrier has fallen and no
\* lease is out, and a draining gate without leases never leaves it open:
\* either BeginDrain or the last release closes it, whichever comes last.
DrainedExactly ==
  /\ drained => state # "accepting" /\ Holders = {}
  /\ state = "draining" /\ Holders = {} => drained

\* Repeated signals and late releases never close the channel twice, so the
\* gate never panics.
NoDoubleClose == ~panicked

Barrier == INSTANCE LeaseBarrier
             WITH fallen <- state # "accepting",
                  abandoned <- state = "stopped",
                  announced <- drained

\* The mutex, the counter and the channel together are a lease barrier.
ImplementsBarrier == Barrier!Spec

\* Once the gate is draining, the wait for the channel ends: the handlers
\* return their leases and the last of them closes it, unless the gate is
\* marked stopped before.
DrainCompletes == state = "draining" ~> (drained \/ state = "stopped")
=============================================================================
