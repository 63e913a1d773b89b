----------------------- MODULE MCTransitionedOutput ------------------------
(* TransitionedOutput on a few values.                                       *)
EXTENDS TransitionedOutput

CONSTANT none

Value(type, n) == [type |-> type, n |-> n]

MCTargets == {Value("number", n) : n \in {-3, 2}} \cup {Zero, Empty, Value("string", 1)}
\* Also the numbers a step could lead to that is not cut short.
MCValues == MCTargets \cup {Value("number", n) : n \in -8 .. 7}
MCDefaults == {none, Value("number_unsigned", 5), Value("string", 1)}

\* A step of either transition covers the outputs of both kinds.
EitherTransition(current_value, target_value) ==
  Instant(current_value, target_value) \cup Linear(current_value, target_value)

=============================================================================
