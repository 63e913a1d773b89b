---------------------------- MODULE OutputBatch ----------------------------
(***************************************************************************)
(* What a list of output controls asks for.  A control is one pair of an   *)
(* output id and the value it is given; schedule_action keeps a list of    *)
(* them in m_outputs and batch_output_control collects the lists of every  *)
(* action of a batch.  The operators are pure and not recursive, so that   *)
(* the state machines and the proofs can share them.                       *)
(***************************************************************************)
EXTENDS Naturals, Sequences

\* The values of a switched output: what it can show, what it can be told.
Levels == {"on", "off"}
SwitchValues == Levels \cup {"toggle"}

\* What a control does to an output that shows a level.
Applied(value, shown) ==
  IF value # "toggle" THEN value ELSE IF shown = "on" THEN "off" ELSE "on"

\* The outputs a list of controls names.
Touched(controls) == {controls[i].output : i \in DOMAIN controls}

\* The positions of the controls that decide: the last one of each output.
\* do_output_job reaches them by walking the list from its end and dropping
\* a control whose output is already in the optimised list.
Deciding(controls) ==
  {i \in DOMAIN controls :
     \A j \in DOMAIN controls : controls[j].output = controls[i].output => j <= i}

\* The value a list of controls leaves on an output it names.
LastValue(controls, o) ==
  controls[CHOOSE i \in Deciding(controls) : controls[i].output = o].value

=============================================================================
