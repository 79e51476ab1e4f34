------------------------------ MODULE Acceptance ------------------------------
(***************************************************************************)
(* cmd/verify as a whole: the scenes of main.go, then those of drain.go,   *)
(* each with an incident or a child process of its own.  A program, the    *)
(* client, and the two modules it is written against meet here: a check    *)
(* that fails against the models would fail, now and then, for the code.   *)
(***************************************************************************)
EXTENDS IncidentChecks, DrainChecks

acceptanceVars == <<eventVars, best, procVars, checkVars>>

\* No incident and no child yet.
AcceptanceInit ==
  /\ dist = [v \in Nodes |-> Never] /\ intakes = {} /\ deadline = 0 /\ first = 0
  /\ started = FALSE /\ current = 0 /\ status = "scheduled"
  /\ answer = [c \in Callers |-> "none"]
  /\ target = [c \in Callers |-> 0]
  /\ increment = [c \in Callers |-> {}]
  /\ snapshot = [c \in Callers |-> Blank]
  /\ reported = [v \in Nodes |-> 0]
  /\ best = 0
  /\ ProcInit
  /\ script = <<>> /\ scenes = IncidentSuite \o DrainSuite
  /\ failures = 0

\* No child runs while incidents are checked, and none is checked after.
AcceptanceNext ==
  \/ IncidentNext /\ UNCHANGED procVars
  \/ DrainNext /\ Len(scenes) < Len(DrainSuite) /\ UNCHANGED <<eventVars, best>>
  \/ NextScene /\ UNCHANGED <<eventVars, best, procVars>>

\* The client and the child go on.
AcceptanceSpec ==
  AcceptanceInit /\ [][AcceptanceNext]_acceptanceVars /\ WF_acceptanceVars(AcceptanceNext)

-----------------------------------------------------------------------------

\* No check of the suite ever fails: what the client demands of exact arrival
\* minutes, conflicts, racing advances, requests on both sides of the barrier
\* and exit codes, the service gives under every interleaving.
ChecksPass == failures = 0

\* The suite comes to its end: no goroutine waits for an answer, no probe for
\* a phase and no check for the exit of a child that never comes, with a lease
\* held over the barrier and signals sent again and again.
SuiteEnds == <>SuiteDone

=============================================================================
