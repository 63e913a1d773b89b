--------------------------- MODULE SchedulePanel ---------------------------
(***************************************************************************)
(* The schedule handler together with what it controls: outputs of the     *)
(* kind of gpio_pin, which the user may take over on their panels.  An     *)
(* output stores what the schedule asks for and shows what is in force; a  *)
(* control of an output the user holds has succeeded for the schedule.     *)
(*                                                                         *)
(* Every call into outputs holds the mutex of the list.  GpioOutput has    *)
(* the calls of one panel one by one; here the user's two gestures are a   *)
(* step each, and the schedule decides when they matter.                   *)
(***************************************************************************)
EXTENDS ScheduleHandler

CONSTANT Operated   \* the outputs whose panel the user touches

ASSUME OperatedAssumption == Operated \subseteq Outputs

VARIABLES
  asked,     \* m_controlled_value of every output
  held,      \* its m_overriden_value, or "none"
  answered   \* history: the result of its latest update_gpio

panelVars == <<asked, held, answered>>
allVars == <<vars, panelVars>>

-----------------------------------------------------------------------------

\* Mutant of AskedFor: a held output drops what the schedule asks for.
AskedUnlessHeld(t, events) ==
  [o \in Outputs |-> IF o \in BatchOutputs(t, events) /\ held[o] = "none"
                     THEN BatchValue(t, events, o) ELSE asked[o]]

\* What the outputs have stored once a batch has controlled them, whether or
\* not their device answers.
AskedFor(t, events) ==
  [o \in Outputs |-> IF o \in BatchOutputs(t, events) THEN BatchValue(t, events, o) ELSE asked[o]]

\* update_gpio of some outputs, after a change of their two values: what is
\* in force is written if the device answers.
Update(outs) ==
  /\ answered' = [o \in Outputs |-> IF o \in outs THEN o \notin broken ELSE answered[o]]
  /\ level' = [o \in Outputs |->
                 IF o \in outs \ broken
                 THEN Applied(IF held'[o] # "none" THEN held'[o] ELSE asked'[o], level[o])
                 ELSE level[o]]

\* A round of the event thread over one active schedule, with its batch.
ScanControls ==
  /\ ScanMarks
  /\ LET t == active[cursor].title
         due == Due(active[cursor])
     IN  /\ asked' = AskedFor(t, due)
         /\ UNCHANGED held
         /\ Update(BatchOutputs(t, due))

\* The user takes an output over or sets it to another value.
OverrideWith(o, v) ==
  /\ held' = [held EXCEPT ![o] = v]
  /\ UNCHANGED <<asked, broken, clockVars, listVars, threadVars, clientVars, ran>>
  /\ Update({o})

\* The user gives an output back; the callback looks at no result.
RestoreControl(o) ==
  /\ held[o] # "none"
  /\ held' = [held EXCEPT ![o] = "none"]
  /\ UNCHANGED <<asked, broken, clockVars, listVars, threadVars, clientVars, ran>>
  /\ Update({o})

-----------------------------------------------------------------------------

\* Every output was controlled with its default when it was loaded.
PanelInit ==
  /\ Init
  /\ asked = level
  /\ held = [o \in Outputs |-> "none"]
  /\ answered = [o \in Outputs |-> TRUE]

\* The event thread with the outputs it controls.
PanelThread == ScanControls \/ (ThreadAlone /\ UNCHANGED panelVars)

User == \E o \in Operated : RestoreControl(o) \/ \E v \in Levels : OverrideWith(o, v)

PanelNext ==
  \/ (Interface \/ PassMinute) /\ UNCHANGED panelVars
  \/ \E o \in Outputs : (Break(o) \/ Repair(o)) /\ UNCHANGED panelVars
  \/ PanelThread
  \/ User

PanelSpec == PanelInit /\ [][PanelNext]_allVars

\* The thread keeps running, and so does a caller that waits for it.  The
\* thread sleeps without the lock after each tick, so a caller that wants the
\* lock gets it sooner or later; and so does the clock its next minute.
Fairness ==
  /\ WF_allVars(PanelThread)
  /\ WF_allVars(StopReturns /\ UNCHANGED panelVars)
  /\ SF_allVars(AddScheduleInsert /\ UNCHANGED panelVars)
  /\ SF_allVars(PassMinute /\ UNCHANGED panelVars)

FairPanelSpec == PanelSpec /\ Fairness

-----------------------------------------------------------------------------
(* Properties.                                                             *)

\* The executed events of a schedule, in its present run, on one output.
Executed(s, o) ==
  {i \in DOMAIN Events[s.title] :
     o \in EventOutputs(s.title, i) /\ <<s.title, s.start, i>> \in ran}

\* An output that is not held and that answered when it was last touched
\* shows what the schedule wants of it, unless one of its events failed and is
\* still to be repeated: the value of the last event that was executed for it
\* in this run of its schedule, also when that event came while the user held
\* the output.  (Schedules of one day whose events control one output each.)
ReleasedFollowsSchedule ==
  \A k \in DOMAIN active : \A o \in Outputs :
    LET executed == Executed(active[k], o)
    IN  (held[o] = "none" /\ answered[o] /\ executed # {} /\ executed \subseteq active[k].done)
          => level[o] = BatchValue(active[k].title, executed, o)

\* Once the outputs answer again and stay that way, an event of an active
\* schedule whose moment has come is processed, unless its schedule expires
\* first or the handler is stopped: the retry of failed actions gets through,
\* whatever the user does with the outputs meanwhile.
EventuallyProcessed ==
  \A t \in Titles : \A i \in DOMAIN Events[t] :
    LET waiting == \E k \in DOMAIN active :
                     active[k].title = t /\ HasCome(active[k], i) /\ i \notin active[k].done
        over == \/ shouldExit \/ ~isStarted
                \/ \E k \in DOMAIN active : active[k].title = t /\ i \in active[k].done
                \/ \E k \in DOMAIN inactive : inactive[k].title = t
    IN  <>[](broken = {}) => (waiting ~> over)

\* A repeating schedule is always activated again.
RepeatingComesBack ==
  \A t \in Titles :
    (isStarted /\ \E k \in DOMAIN inactive : inactive[k].title = t /\ inactive[k].repeating)
      ~> (shouldExit \/ \E k \in DOMAIN active : active[k].title = t)

=============================================================================
