----------------------------- MODULE GateProofs -----------------------------
(***************************************************************************)
(* Proofs about the admission gate for any finite set of requests: its     *)
(* counter is exact, its channel is closed once and at the right moment,   *)
(* and it implements the lease barrier.                                    *)
(***************************************************************************)
EXTENDS Gate, FiniteSetTheorems, TLAPS

GateInv ==
  /\ GateTypeOK
  /\ InflightCountsLeases
  /\ DrainedExactly
  /\ NoDoubleClose

\* The leases out are finitely many, because the requests are.
LEMMA HoldersFinite == IsFiniteSet(Holders)
  <1>1. Holders \subseteq Requests
    BY DEF Holders
  <1> QED
    BY <1>1, RequestsFinite, FS_Subset

\* A granted lease is one more lease out.
LEMMA GrantedLease ==
  ASSUME GateTypeOK, InflightCountsLeases, NEW r \in Requests, Grant(r)
  PROVE  /\ Holders' = Holders \cup {r}
         /\ InflightCountsLeases'
  <1>1. Holders' = Holders \cup {r} /\ r \notin Holders
    BY DEF Grant, Holders, GateTypeOK
  <1>2. Cardinality(Holders \cup {r}) = Cardinality(Holders) + 1
    BY <1>1, HoldersFinite, FS_AddElement
  <1> QED
    BY <1>1, <1>2 DEF Grant, InflightCountsLeases

\* A returned lease is one less, and nothing is left exactly when the
\* counter reaches zero.
LEMMA ReturnedLease ==
  ASSUME GateTypeOK, InflightCountsLeases, NEW r \in Requests, Release(r)
  PROVE  /\ Holders' = Holders \ {r}
         /\ Holders # {}
         /\ inflight' \in Nat
         /\ InflightCountsLeases'
         /\ inflight' = 0 <=> Holders' = {}
  <1>1. Holders' = Holders \ {r} /\ r \in Holders
    BY DEF Release, Holders, GateTypeOK
  <1>2. /\ IsFiniteSet(Holders \ {r})
        /\ Cardinality(Holders \ {r}) = Cardinality(Holders) - 1
    BY <1>1, HoldersFinite, FS_RemoveElement
  <1>3. inflight' = Cardinality(Holders')
    BY <1>1, <1>2 DEF Release, InflightCountsLeases
  <1>4. /\ Cardinality(Holders') \in Nat
        /\ Cardinality(Holders') = 0 <=> Holders' = {}
    BY <1>1, <1>2, FS_CardinalityType, FS_EmptySet
  <1> QED
    BY <1>1, <1>3, <1>4 DEF InflightCountsLeases

\* A drain begins without leases out exactly when the counter says so.
LEMMA ZeroMeansEmpty ==
  ASSUME InflightCountsLeases
  PROVE  inflight = 0 <=> Holders = {}
  BY HoldersFinite, FS_EmptySet DEF InflightCountsLeases

\* The invariant holds of the gate New returns,
LEMMA GateInitInv == GateInit => GateInv
  <1> SUFFICES ASSUME GateInit PROVE GateInv
    OBVIOUS
  <1>1. Holders = {}
    BY DEF GateInit, Holders
  <1>2. GateTypeOK
    BY DEF GateInit, GateTypeOK, Phases
  <1>3. InflightCountsLeases
    BY <1>1, FS_EmptySet DEF GateInit, InflightCountsLeases
  <1>4. DrainedExactly /\ NoDoubleClose
    BY DEF GateInit, DrainedExactly, NoDoubleClose
  <1> QED
    BY <1>2, <1>3, <1>4 DEF GateInv

\* and every method keeps it.
LEMMA GateNextInv == GateInv /\ [GateNext]_gateVars => GateInv'
  <1> SUFFICES ASSUME GateInv, [GateNext]_gateVars PROVE GateInv'
    OBVIOUS
  <1> USE DEF GateInv
  <1>1. CASE UNCHANGED gateVars
    <2>1. Holders' = Holders
      BY <1>1 DEF gateVars, Holders
    <2> QED
      BY <1>1, <2>1 DEF gateVars, GateTypeOK, InflightCountsLeases,
                        DrainedExactly, NoDoubleClose
  <1>2. ASSUME NEW r \in Requests, Grant(r) PROVE GateInv'
    <2>1. Holders' = Holders \cup {r} /\ InflightCountsLeases'
      BY <1>2, GrantedLease
    <2>2. GateTypeOK'
      BY <1>2 DEF Grant, GateTypeOK
    <2>3. DrainedExactly' /\ NoDoubleClose'
      BY <1>2 DEF Grant, DrainedExactly, NoDoubleClose
    <2> QED
      BY <2>1, <2>2, <2>3
  <1>3. ASSUME NEW r \in Requests, Refuse(r) PROVE GateInv'
    <2>1. Holders' = Holders
      BY <1>3 DEF Refuse, Holders, GateTypeOK
    <2>2. GateTypeOK'
      BY <1>3 DEF Refuse, GateTypeOK
    <2> QED
      BY <1>3, <2>1, <2>2 DEF Refuse, InflightCountsLeases, DrainedExactly,
                              NoDoubleClose
  <1>4. ASSUME NEW r \in Requests, Release(r) PROVE GateInv'
    <2>1. /\ Holders' = Holders \ {r}
          /\ Holders # {}
          /\ inflight' \in Nat
          /\ InflightCountsLeases'
          /\ inflight' = 0 <=> Holders' = {}
      BY <1>4, ReturnedLease
    <2>2. ~drained
      BY <2>1 DEF DrainedExactly
    <2>3. GateTypeOK'
      BY <1>4, <2>1 DEF Release, GateTypeOK, CloseDrained
    <2>4. DrainedExactly'
      BY <1>4, <2>1, <2>2 DEF Release, DrainedExactly, CloseDrained
    <2>5. NoDoubleClose'
      BY <1>4, <2>2 DEF Release, NoDoubleClose, CloseDrained
    <2> QED
      BY <2>1, <2>3, <2>4, <2>5
  <1>5. CASE BeginDrain
    <2>1. CASE UNCHANGED gateVars
      BY <1>1, <2>1
    <2>2. CASE ~UNCHANGED gateVars
      <3>1. Holders' = Holders /\ UNCHANGED inflight
        BY <1>5, <2>2 DEF BeginDrain, Holders
      <3>2. inflight = 0 <=> Holders = {}
        BY ZeroMeansEmpty
      <3>3. ~drained
        BY <1>5, <2>2 DEF BeginDrain, DrainedExactly
      <3>4. GateTypeOK'
        BY <1>5, <2>2 DEF BeginDrain, GateTypeOK, CloseDrained, Phases
      <3>5. DrainedExactly'
        BY <1>5, <2>2, <3>1, <3>2, <3>3
           DEF BeginDrain, DrainedExactly, CloseDrained
      <3>6. NoDoubleClose'
        BY <1>5, <2>2, <3>3 DEF BeginDrain, NoDoubleClose, CloseDrained
      <3> QED
        BY <3>1, <3>4, <3>5, <3>6 DEF InflightCountsLeases
    <2> QED
      BY <2>1, <2>2
  <1>6. CASE state # "accepting" /\ MarkStopped
    <2>1. Holders' = Holders
      BY <1>6 DEF MarkStopped, Holders
    <2> QED
      BY <1>6, <2>1 DEF MarkStopped, GateTypeOK, Phases, InflightCountsLeases,
                        DrainedExactly, NoDoubleClose
  <1> QED
    BY <1>1, <1>2, <1>3, <1>4, <1>5, <1>6 DEF GateNext, Acquire

\* Count, channel and leases agree at all times.
THEOREM GateInvariant == GateSpec => []GateInv
  BY GateInitInv, GateNextInv, PTL DEF GateSpec

\* The gate's variables keep their types, and the counter never goes negative.
THEOREM GateTypeCorrect == GateSpec => []GateTypeOK
  BY GateInvariant, PTL DEF GateInv

\* inflight is always the number of leases out.
THEOREM CounterIsExact == GateSpec => []InflightCountsLeases
  BY GateInvariant, PTL DEF GateInv

\* The drained channel is closed exactly when a drain has no leases left.
THEOREM DrainedIsExact == GateSpec => []DrainedExactly
  BY GateInvariant, PTL DEF GateInv

\* No sequence of signals and releases closes the channel twice.
THEOREM NeverPanics == GateSpec => []NoDoubleClose
  BY GateInvariant, PTL DEF GateInv

-----------------------------------------------------------------------------

\* A new gate is a barrier that has not fallen,
LEMMA InitRefines == GateInit => Barrier!Init
  BY DEF GateInit, Barrier!Init

\* and every method is a step of the barrier or none.
LEMMA StepRefines ==
  GateInv /\ [GateNext]_gateVars => [Barrier!Next]_(Barrier!vars)
  <1> SUFFICES ASSUME GateInv, [GateNext]_gateVars
               PROVE  [Barrier!Next]_(Barrier!vars)
    OBVIOUS
  <1> USE DEF GateInv
  <1>h. Barrier!Outstanding = Holders /\ Barrier!Outstanding' = Holders'
    BY DEF Holders, Barrier!Outstanding
  <1>1. CASE UNCHANGED gateVars
    BY <1>1 DEF gateVars, Barrier!vars
  <1>2. ASSUME NEW r \in Requests, Grant(r) PROVE Barrier!Enter(r)
    <2>1. ~drained
      BY <1>2 DEF Grant, DrainedExactly
    <2> QED
      BY <1>2, <2>1 DEF Grant, Barrier!Enter, Barrier!AnnounceWhenEmpty,
                        GateTypeOK
  <1>3. ASSUME NEW r \in Requests, Refuse(r) PROVE Barrier!TurnAway(r)
    BY <1>3 DEF Refuse, Barrier!TurnAway
  <1>4. ASSUME NEW r \in Requests, Release(r) PROVE Barrier!Leave(r)
    <2>1. Holders # {} /\ (inflight' = 0 <=> Holders' = {})
      BY <1>4, ReturnedLease
    <2>2. ~drained
      BY <2>1 DEF DrainedExactly
    <2>3. Barrier!AnnounceWhenEmpty
      BY <1>4, <1>h, <2>1, <2>2
         DEF Release, CloseDrained, Barrier!AnnounceWhenEmpty, GateTypeOK, Phases
    <2> QED
      BY <1>4, <2>3 DEF Release, Barrier!Leave
  <1>5. ASSUME BeginDrain PROVE Barrier!Fall \/ UNCHANGED Barrier!vars
    <2>1. CASE UNCHANGED gateVars
      BY <2>1 DEF gateVars, Barrier!vars
    <2>2. CASE ~UNCHANGED gateVars
      <3>1. state = "accepting" /\ state' = "draining" /\ ~drained
            /\ UNCHANGED lease
        BY <1>5, <2>2 DEF BeginDrain, DrainedExactly
      <3>2. Holders' = Holders /\ (inflight = 0 <=> Holders = {})
        BY <3>1, ZeroMeansEmpty DEF Holders
      <3>3. drained' = (inflight = 0)
        BY <1>5, <2>2, <3>1 DEF BeginDrain, CloseDrained, GateTypeOK
      <3>4. Barrier!AnnounceWhenEmpty
        BY <1>h, <3>1, <3>2, <3>3 DEF Barrier!AnnounceWhenEmpty
      <3> QED
        BY <3>1, <3>4 DEF Barrier!Fall
    <2> QED
      BY <2>1, <2>2
  <1>6. ASSUME state # "accepting", MarkStopped PROVE Barrier!Abandon
    BY <1>6 DEF MarkStopped, Barrier!Abandon
  <1> QED
    BY <1>1, <1>2, <1>3, <1>4, <1>5, <1>6 DEF GateNext, Acquire, Barrier!Next

\* The gate of package lifecycle, with its lock, its counter and its channel,
\* implements the lease barrier.
THEOREM GateImplementsBarrier == GateSpec => ImplementsBarrier
  <1>1. GateInit => Barrier!Init
    BY InitRefines
  <1>2. GateInv /\ [GateNext]_gateVars => [Barrier!Next]_(Barrier!vars)
    BY StepRefines
  <1> QED
    BY <1>1, <1>2, GateInvariant, PTL DEF GateSpec, ImplementsBarrier, Barrier!Spec

=============================================================================
