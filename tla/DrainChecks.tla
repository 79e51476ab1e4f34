------------------------------ MODULE DrainChecks ------------------------------
(***************************************************************************)
(* cmd/verify/drain.go: the drain checks, against a child process of the   *)
(* API binary (module ApiProcess) for each scene, with requests held half  *)
(* sent and real signals.  What the checks wait for they poll; that the    *)
(* seconds they allow are enough is part of what is shown, as the suite    *)
(* would not go on otherwise.  Their fixed sleeps and the child's timeouts *)
(* are taken to be as far apart as they are chosen to be: see Timely.      *)
(***************************************************************************)
EXTENDS ApiProcess, Checklist

CONSTANTS half, mincut, incidents  \* the requests of verifyDrainNormal

ASSUME DrillRequests == Requests = {half, mincut, incidents}

-----------------------------------------------------------------------------
(* The kinds of checks, and the steps of the program that make them.       *)

do(kind) == [kind |-> kind, vital |-> FALSE]
must(kind) == [kind |-> kind, vital |-> TRUE]
post(r) == [kind |-> "post", vital |-> FALSE, request |-> r]
draining503(r) == [kind |-> "draining503", vital |-> FALSE, request |-> r]

\* startAPIProcess: a new child ...
StartChild ==
  /\ At("start child")
  /\ Proceed
  /\ state' = "accepting" /\ inflight' = 0 /\ drained' = FALSE /\ panicked' = FALSE
  /\ lease' = [r \in Requests |-> "none"]
  /\ main' = "boot" /\ exit' = "running" /\ listener' = "starting"
  /\ pending' = FALSE /\ timer' = "unset" /\ seen' = FALSE
  /\ phase' = [r \in Requests |-> "idle"]
  /\ conn' = [r \in Requests |-> "none"]
  /\ warned' = [r \in Requests |-> FALSE]

\* ... that answers /healthz.  Its main has come to signal.Notify by then: it
\* is one line past the start of the goroutine that listens.
ChildHealthy ==
  /\ At("healthy")
  /\ ~Running \/ (listener = "open" /\ main # "boot")
  /\ Judge(Running)
  /\ UNCHANGED procVars

\* expectProbe, of /readyz before any signal and of /healthz.
ProbeAccepting ==
  /\ At("accepting")
  /\ Running /\ Reachable /\ state = "accepting"
  /\ Judge(TRUE)
  /\ UNCHANGED procVars

ProbeHealthz ==
  /\ At("healthz")
  /\ Running /\ Reachable
  /\ Judge(TRUE)
  /\ UNCHANGED procVars

\* expectProbe, of /readyz until it turns.
ProbeDraining ==
  /\ At("draining")
  /\ Readyz
  /\ Judge(TRUE)

\* startHalfRequest: the header and half the body.
StartHalfRequest ==
  /\ At("half")
  /\ Arrive(half)
  /\ Proceed

\* The sleep that follows is long enough for the handler to be waiting for
\* the rest of the body.
Settle ==
  /\ At("settle")
  /\ phase[half] = "body"
  /\ Proceed
  /\ UNCHANGED procVars

\* signal; it fails when there is no process any more.
SendSignal ==
  /\ At("signal")
  /\ IF Running
       THEN Signal /\ Proceed
       ELSE Judge(FALSE) /\ UNCHANGED procVars

ExpectAlive ==
  /\ At("alive")
  /\ Judge(Running)
  /\ UNCHANGED procVars

\* expectDraining503: a request is posted, and refused without a handler.
Post ==
  /\ At("post")
  /\ Proceed
  /\ IF Running THEN Arrive(Now.request) ELSE UNCHANGED procVars

ExpectDraining503 ==
  /\ At("draining503")
  /\ ~Running \/ phase[Now.request] = "done"
  /\ Judge(lease[Now.request] = "refused" /\ conn[Now.request] = "open"
             /\ phase[Now.request] = "done")
  /\ UNCHANGED procVars

\* halfRequest.finish: the rest of the body is sent ...
Finish == At("finish") /\ Proceed /\ UNCHANGED procVars

\* ... and the answer read.
ExpectAnswer ==
  /\ At("answer")
  /\ ~Running \/ phase[half] = "done" \/ conn[half] # "open"
  /\ Judge(phase[half] = "done" /\ conn[half] = "open" /\ lease[half] = "returned")
  /\ UNCHANGED procVars

\* expectExit, with the code it asks for.
ExpectExit ==
  /\ At("exit 0") \/ At("exit non-zero")
  /\ ~Running
  /\ Judge((exit = "ok") = At("exit 0"))
  /\ UNCHANGED procVars

Drill ==
  \/ StartChild \/ ChildHealthy
  \/ ProbeAccepting \/ ProbeHealthz \/ ProbeDraining
  \/ StartHalfRequest \/ Settle
  \/ SendSignal \/ ExpectAlive
  \/ Post \/ ExpectDraining503
  \/ Finish \/ ExpectAnswer
  \/ ExpectExit

-----------------------------------------------------------------------------

\* The rest of the half-sent body is with the child; verifyDrainTimeout, which
\* waits for the forced exit, never sends it.
BodySent == \A i \in DOMAIN script : script[i].kind \notin {"finish", "exit non-zero"}

\* What the durations in the program are chosen for: DRAIN_TIMEOUT is running
\* when it is armed, and over only where the scene waits for that; the body of
\* the half-sent request comes when it is sent, well before a read deadline,
\* and in verifyDrainTimeout never; closing the listener gives no error.
Timely ==
  /\ main = "arm" => timer' = "running"
  /\ timer' = "expired" => At("exit non-zero") \/ timer = "expired"
  /\ main' # "markFailed"
  /\ phase[half] = "body" /\ phase'[half] = "work" => BodySent
  /\ \A r \in Requests :
       phase[r] = "body" /\ phase'[r] = "written" => conn[r] # "open"

\* The child goes on by itself.
Child ==
  /\ \/ Drain \/ Absorb \/ Expire \/ Listen
     \/ \E r \in Requests : Handle(r)
  /\ Timely
  /\ UNCHANGED checkVars

DrainNext == Drill \/ Child

-----------------------------------------------------------------------------
(* The scenes.                                                             *)

Start == <<do("start child"), must("healthy")>>

verifyDrainIdle == Start \o <<do("accepting"), do("signal"), do("exit 0")>>

verifyDrainNormal ==
  Start \o
  <<do("accepting"), do("half"), do("settle"),
    do("signal"), do("signal"), do("signal"),
    do("draining"), do("healthz"), do("alive"),
    post(mincut), draining503(mincut), post(incidents), draining503(incidents),
    do("finish"), must("answer"), do("exit 0")>>

verifyDrainTimeout ==
  Start \o
  <<do("half"), do("settle"), do("signal"), do("signal"),
    do("draining"), do("alive"), do("exit non-zero")>>

DrainSuite == <<verifyDrainIdle, verifyDrainNormal, verifyDrainTimeout>>

=============================================================================
