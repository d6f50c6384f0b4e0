---------------------------- MODULE LevelTriggered ----------------------------
(***************************************************************************)
(* What GoflowKube and ConsolePlugin promise about their work, without      *)
(* saying how it is done: nothing goes wrong unannounced, and an operator   *)
(* that has left off with no announcement outstanding leaves nothing wrong. *)
(* What it missed in a pass it is told of, and takes up again.              *)
(***************************************************************************)
CONSTANT Kinds  \* the kinds of objects looked after

VARIABLES
  wrong,  \* those whose object is not what the operator was told to make it
  due,    \* is a request queued, or the event on its way that will queue one
  busy    \* does a pass run

vars == <<wrong, due, busy>>

Init == wrong \subseteq Kinds /\ due = TRUE /\ busy = FALSE

\* Somebody, the running pass perhaps, changes what there is or what there is to be.
Disturb ==
  /\ wrong' \subseteq Kinds /\ due' = TRUE
  /\ UNCHANGED busy

TakeUp ==
  /\ due /\ ~busy
  /\ busy' = TRUE /\ due' \in BOOLEAN
  /\ UNCHANGED wrong

\* The pass fails, dies, or knows that there is more to come.
GiveUp ==
  /\ busy /\ busy' = FALSE
  /\ due' = TRUE /\ wrong' \subseteq Kinds

\* The pass ends well.
Finish ==
  /\ busy /\ busy' = FALSE
  /\ wrong = {}
  /\ UNCHANGED <<wrong, due>>

Next == Disturb \/ TakeUp \/ GiveUp \/ Finish

Spec == Init /\ [][Next]_vars
=============================================================================
