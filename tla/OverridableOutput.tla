------------------------- MODULE OverridableOutput -------------------------
(***************************************************************************)
(* What an output promises the schedule and the user: the schedule asks    *)
(* for a value, the user may hold the output at a value of his own, and    *)
(* the output never does anything but what the value in force at that      *)
(* moment asks for.  A device that does not answer keeps what it shows.    *)
(***************************************************************************)
EXTENDS OutputBatch

VARIABLES
  asked,   \* the value the schedule asked for last
  held,    \* the value the user holds the output at, or "none"
  shown    \* the level of the device

InForce(a, h) == IF h = "none" THEN a ELSE h

Init == asked \in Levels /\ held = "none" /\ shown \in Levels

\* The device follows, or does not answer.
Follow == shown' \in {shown, Applied(InForce(asked', held'), shown)}

Ask(v) == asked' = v /\ UNCHANGED held /\ Follow
Hold(v) == held' = v /\ UNCHANGED asked /\ Follow
Release == held' = "none" /\ UNCHANGED asked /\ Follow

Next == Release \/ \E v \in SwitchValues : Ask(v) \/ Hold(v)

Spec == Init /\ [][Next]_<<asked, held, shown>>

=============================================================================
