---------------------------- MODULE GpioOutput -----------------------------
(***************************************************************************)
(* A gpio_pin behind the registry of outputs, between its two users: the   *)
(* schedule, which controls it and tries again as long as it is refused,   *)
(* and the panel of the GUI (single_output_view), where the user takes the *)
(* output over with a check box and sets it with a switch.                 *)
(*                                                                         *)
(* Every call into outputs holds the mutex of the list, so it is one step. *)
(* The callback of the check box makes two calls; the schedule may come    *)
(* between them.                                                           *)
(***************************************************************************)
EXTENDS OutputBatch

CONSTANT Requests   \* the values the events of the schedule give the output

\* A value of a type the pin does not know.
OtherType == "other"

ASSUME RequestsAssumption == Requests \subseteq SwitchValues \cup {OtherType}

VARIABLES
  controlled,  \* m_controlled_value
  overridden,  \* m_overriden_value, or "none"
  line,        \* the level of the gpio line
  broken,      \* reading or writing the line fails at the moment
  answered,    \* history: the result of the latest update_gpio
  due,         \* the value of an event that was refused, or "none"
  panel,       \* "idle", or "taking" between the two calls of the check box
  taken,       \* the state read by the first of them
  checked,     \* the check box
  switch       \* the position of the switch

pinVars == <<controlled, overridden, line, answered>>
panelVars == <<panel, taken, checked, switch>>
allVars == <<pinVars, broken, due, panelVars>>

-----------------------------------------------------------------------------

CurrentState == IF overridden # "none" THEN overridden ELSE controlled

\* Mutant of UpdateGpio: the override is not looked at.
UpdateControlled ==
  /\ answered' = ~broken
  /\ line' = IF broken THEN line ELSE Applied(controlled', line)

\* update_gpio, after a change of the two values: the value in force is
\* written if the line does not show it; a toggle is written every time.
UpdateGpio ==
  /\ answered' = ~broken
  /\ line' = IF broken THEN line
             ELSE Applied(IF overridden' # "none" THEN overridden' ELSE controlled', line)

\* Mutant of ControlOutput: a line that shows the value already is no success.
ControlUnlessShown(v) ==
  IF v = OtherType
  THEN UNCHANGED pinVars /\ due' = v
  ELSE /\ controlled' = v
       /\ UNCHANGED overridden
       /\ UpdateGpio
       /\ due' = IF broken \/ line = v THEN v ELSE "none"

\* control_output; whether it returns true is answered', except that a value
\* of another type is refused before anything is changed.
ControlOutput(v) ==
  IF v = OtherType
  THEN UNCHANGED pinVars /\ due' = v
  ELSE /\ controlled' = v
       /\ UNCHANGED overridden
       /\ UpdateGpio
       /\ due' = IF broken THEN v ELSE "none"

OverrideWith(v) == overridden' = v /\ UNCHANGED controlled /\ UpdateGpio

RestoreControl == overridden' = "none" /\ UNCHANGED controlled /\ UpdateGpio

\* The position set_value_to_current_state gives the switch.
Position(v) == IF v = "on" THEN "on" ELSE "off"

-----------------------------------------------------------------------------

\* create_for_interface: the default is controlled at once, its result is not
\* looked at; the line was requested with level 0.
PinInit ==
  /\ controlled \in Levels /\ overridden = "none"
  /\ broken \in BOOLEAN
  /\ answered = ~broken
  /\ line = IF broken THEN "off" ELSE controlled
  /\ due = "none"
  /\ panel = "idle" /\ taken = "off" /\ checked = FALSE /\ switch = "off"

\* An event of the schedule; in its batch it supersedes the value of an
\* earlier event that is still to be tried again.
ScheduleControls(v) == ControlOutput(v) /\ UNCHANGED <<broken, panelVars>>

\* The tick of the schedule thread that tries again what was refused.
ScheduleRetries == due # "none" /\ ControlOutput(due) /\ UNCHANGED <<broken, panelVars>>

\* The user ticks the check box: the callback reads the current state.
CheckBox ==
  /\ panel = "idle" /\ ~checked
  /\ checked' = TRUE
  /\ taken' = CurrentState
  /\ panel' = "taking"
  /\ UNCHANGED <<pinVars, broken, due, switch>>

\* Mutant of TakeOver: the switch stays where it was.
TakeOverSilently ==
  /\ panel = "taking"
  /\ OverrideWith(taken)
  /\ panel' = "idle"
  /\ UNCHANGED <<broken, due, taken, checked, switch>>

\* The callback goes on: the switch is set and the output overridden with
\* what was read.
TakeOver ==
  /\ panel = "taking"
  /\ switch' = Position(taken)
  /\ OverrideWith(taken)
  /\ panel' = "idle"
  /\ UNCHANGED <<broken, due, taken, checked>>

\* The user clears the check box, which also hides the switch.
UncheckBox ==
  /\ panel = "idle" /\ checked
  /\ checked' = FALSE
  /\ RestoreControl
  /\ UNCHANGED <<broken, due, panel, taken, switch>>

\* The user flips the switch, which is only visible while the box is ticked.
FlipSwitch ==
  /\ panel = "idle" /\ checked
  /\ switch' = Applied("toggle", switch)
  /\ OverrideWith(switch')
  /\ UNCHANGED <<broken, due, panel, taken, checked>>

\* The device stops answering, and answers again.
BreakOrRepair == broken' = ~broken /\ UNCHANGED <<pinVars, due, panelVars>>

PinNext ==
  \/ \E v \in Requests : ScheduleControls(v)
  \/ ScheduleRetries
  \/ CheckBox
  \/ TakeOver
  \/ UncheckBox
  \/ FlipSwitch
  \/ BreakOrRepair

PinSpec == PinInit /\ [][PinNext]_allVars

\* The schedule thread tries again with every tick, and the callback of the
\* check box runs to its end; the user and the device are under no obligation.
FairPinSpec == PinSpec /\ WF_allVars(ScheduleRetries) /\ WF_allVars(TakeOver)

-----------------------------------------------------------------------------

\* The variables keep to their types.
PinTypeOK ==
  /\ controlled \in SwitchValues /\ overridden \in SwitchValues \cup {"none"}
  /\ taken \in SwitchValues
  /\ line \in Levels /\ switch \in Levels
  /\ due \in SwitchValues \cup {OtherType, "none"}
  /\ panel \in {"idle", "taking"}
  /\ broken \in BOOLEAN /\ answered \in BOOLEAN /\ checked \in BOOLEAN

\* The panel tells the truth, whatever the schedule does between the two
\* calls of the check box: outside the callback the box is ticked exactly
\* while the output is overridden, and once the device has answered the
\* switch shows the level of the line.  (A toggle that was taken over has no
\* position of the switch.)
PanelAgrees ==
  panel = "idle" =>
    /\ checked <=> overridden # "none"
    /\ (checked /\ answered /\ overridden # "toggle") => line = switch

\* A pin keeps the promise of an overridable output: the schedule cannot move
\* an output the user holds, what it asks for meanwhile is not lost, and a
\* device that failed is only ever set to what is in force when it answers
\* again.
Promised == INSTANCE OverridableOutput WITH
  asked <- controlled, held <- overridden, shown <- line

KeepsPromise == Promised!Spec

\* Once the device answers and keeps answering, a refused event gets through,
\* unless a later event of the schedule with an unknown type takes its place.
RetryGetsThrough == <>[](~broken) => (due \in SwitchValues ~> due \notin SwitchValues)

=============================================================================
