----------------------------- MODULE EventFate -----------------------------
(***************************************************************************)
(* What the agent owes its operators: a probe event that entered the       *)
(* pipeline leaves it once, as a written record or as one tick of the      *)
(* drop counter.  Nothing leaves that did not enter, nothing leaves twice, *)
(* and neither total ever goes down.                                       *)
(***************************************************************************)
EXTENDS Integers

CONSTANT Workers   (* how many goroutines carry one event each *)

VARIABLES entered, written, dropped

Init == entered = 0 /\ written = 0 /\ dropped = 0

InFlight == entered - written - dropped

Enter ==
  /\ InFlight < Workers
  /\ entered' = entered + 1
  /\ UNCHANGED <<written, dropped>>

Write ==
  /\ InFlight > 0
  /\ written' = written + 1
  /\ UNCHANGED <<entered, dropped>>

Drop ==
  /\ InFlight > 0
  /\ dropped' = dropped + 1
  /\ UNCHANGED <<entered, written>>

Next == Enter \/ Write \/ Drop

Spec == Init /\ [][Next]_<<entered, written, dropped>>
=============================================================================
