------------------------------- MODULE Checklist -------------------------------
(***************************************************************************)
(* cmd/verify: a client that makes one check after the other and counts    *)
(* those that fail.  A suite is a sequence of scenes, the functions        *)
(* verify... of the program, a scene a sequence of checks.  A check that   *)
(* the rest of its scene needs ends the scene when it fails.               *)
(***************************************************************************)
EXTENDS Integers, Sequences

VARIABLES
  script,    \* the checks that remain of this scene
  scenes,    \* the scenes that remain after it
  failures

checkVars == <<script, scenes, failures>>

\* The check to be made now.
Now == script[1]

At(kind) == script # <<>> /\ Now.kind = kind

\* pass or fail, for a check that comes out as ok.
Judge(ok) ==
  /\ failures' = IF ok THEN failures ELSE failures + 1
  /\ script' = IF ok \/ ~Now.vital THEN Tail(script) ELSE <<>>
  /\ UNCHANGED scenes

\* A step of the scene that checks nothing.
Proceed ==
  /\ script' = Tail(script)
  /\ UNCHANGED <<scenes, failures>>

NextScene ==
  /\ script = <<>> /\ scenes # <<>>
  /\ script' = Head(scenes)
  /\ scenes' = Tail(scenes)
  /\ UNCHANGED failures

SuiteDone == script = <<>> /\ scenes = <<>>

=============================================================================
