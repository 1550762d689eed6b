---------------------------- MODULE DurableModel ----------------------------
(***************************************************************************)
(* What runtime/loop.go promises (docs/01): there is one true model, moved *)
(* only by accepting messages one at a time through a handler; a reader    *)
(* sees it, possibly one message late while the reducer is between append  *)
(* and apply, or sees nothing while no process is up.  A restart shows     *)
(* exactly the true model: no accepted message is lost, repeated or        *)
(* reordered.                                                              *)
(***************************************************************************)
EXTENDS Integers, Sequences

CONSTANTS Msg, State, Zero, NextState(_, _)

VARIABLES truth,  \* the model after every accepted message
          view    \* <<what readers load>>, or <<>> while the process is down

Init == truth = Zero /\ view = <<>>

\* One message is made durable, by a process that is up to date.
Accept == /\ view = <<truth>>
          /\ \E m \in Msg : truth' = NextState(truth, m)
          /\ UNCHANGED view

\* The live process publishes the new snapshot.
Publish == view # <<>> /\ view' = <<truth>> /\ UNCHANGED truth

Lose == view' = <<>> /\ UNCHANGED truth

Recover == view = <<>> /\ view' = <<truth>> /\ UNCHANGED truth

Next == Accept \/ Publish \/ Lose \/ Recover

Spec == Init /\ [][Next]_<<truth, view>>
=============================================================================
