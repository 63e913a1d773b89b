------------------------- MODULE OutputTransition --------------------------
(***************************************************************************)
(* The transition steps of output_transitions: from the current value and  *)
(* the target to the results a call may have, depending on the time that   *)
(* has passed since the last one.                                          *)
(***************************************************************************)
EXTENDS Integers

CONSTANTS
  Velocity,    \* m_velocity
  MaxPeriods,  \* bound on the whole periods that pass between two calls
  StepBound    \* steps and distances are computed modulo this: 2^32 in the program

ASSUME VelocityAssumption ==
  Velocity \in Nat /\ MaxPeriods \in Nat /\ StepBound \in Nat \ {0}

Result(value, state) == [value |-> value, state |-> state]

\* instant: the target at once.
Instant(current, target) == {Result(target, "finished_transition")}

\* Mutant of StepTo: the last step is not cut short.
StepBy(current, target, step) ==
  IF current < target THEN current + step ELSE current - step

\* The size of the difference of two numbers, which wraps around like an int:
\* one of more than half the bound comes out too small.
Distance(current, target) ==
  LET apart == IF current < target THEN target - current ELSE current - target
  IN  IF 2 * apart <= StepBound THEN apart ELSE StepBound - apart

\* do_step of linear_transition: not past the target.
StepTo(current, target, step) ==
  IF Distance(current, target) < step THEN target
  ELSE IF current < target THEN current + step ELSE current - step

\* linear_transition: a value of another type is replaced, a number moves by
\* the velocity for each period, anything else jumps once a period is over.
Linear(current, target) ==
  IF current.type # target.type THEN {Result(target, "value_did_change")}
  ELSE IF current = target THEN {Result(current, "finished_transition")}
  ELSE {IF step = 0 THEN Result(current, "value_did_not_change")
        ELSE IF current.type \in {"number", "number_unsigned"}
        THEN Result([current EXCEPT !.n = StepTo(@, target.n, step)], "value_did_change")
        ELSE Result(target, "value_did_change")
          : step \in {(Velocity * periods) % StepBound : periods \in 0 .. MaxPeriods}}

=============================================================================
