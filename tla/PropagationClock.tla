-------------------------- MODULE PropagationClock --------------------------
(***************************************************************************)
(* What a contamination event promises to whoever watches it: a clock that *)
(* only moves forward, never past the deadline and never once the event is *)
(* decided, and a published view that depends on the minute of the clock   *)
(* and on nothing else - not on the ticks it took to get there.            *)
(***************************************************************************)
EXTENDS Integers

CONSTANT Nodes

VARIABLES
  arrival,    \* minute contamination reaches each node
  intakes,    \* the nodes that must stay clean
  deadline,   \* the minute the event is decided
  clock,      \* committed minute, -1 until the first tick
  published   \* the view everyone sees

vars == <<arrival, intakes, deadline, clock, published>>

Reached(m) == {v \in Nodes : arrival[v] <= m}

Verdict(m) ==
  CASE Reached(m) \cap intakes # {}                    -> "breached"
    [] Reached(m) \cap intakes = {} /\ m >= deadline   -> "contained"
    [] Reached(m) \cap intakes = {} /\ m < deadline
         /\ Reached(m) # {}                            -> "propagating"
    [] OTHER                                           -> "scheduled"

ViewAt(m) == [minute |-> m, status |-> Verdict(m), reached |-> Reached(m)]

Unstarted == [minute |-> 0, status |-> "scheduled", reached |-> {}]

Init ==
  /\ clock = -1
  /\ published = Unstarted

Tick ==
  /\ published.status \notin {"breached", "contained"}
  /\ clock' > clock
  /\ clock' <= deadline
  /\ published' = ViewAt(clock')
  /\ UNCHANGED <<arrival, intakes, deadline>>

Spec == Init /\ [][Tick]_vars

=============================================================================
