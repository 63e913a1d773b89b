---------------------------- MODULE ScheduleFile ---------------------------
(***************************************************************************)
(* Loading a schedule file: schedule::create_from_file registers the       *)
(* outputs and the actions of the file one after the other, builds the     *)
(* schedule, and refuses the file with the first thing it does not like -  *)
(* what was registered until then stays.  Afterwards the schedule handler  *)
(* gives the schedule new dates whenever it begins again.                  *)
(*                                                                         *)
(* An entry of the file is [is |-> "absent"], [is |-> "wrong"] for one of  *)
(* another type or format, or [is |-> "given", v |-> ...].                 *)
(***************************************************************************)
EXTENDS OutputValue

CONSTANTS
  Files,     \* the files to load
  OutputIds,
  ActionIds,
  Lines,     \* the lines of the GPIO chip
  LastDay    \* bound on the day of the clock

VARIABLES
  file,      \* the file
  stage,     \* what create_from_file is at
  next,      \* the position of the next element of the array it walks through
  registry,  \* outputs::_outputs: the value each output shows, if it is there
  pins,      \* the line of each GPIO output: <<>> or <<line>>
  requested, \* the lines the program has requested from the chip
  actions,   \* schedule_action::_actions, in order
  dubious,   \* history: the actions whose values were complained about
  events,    \* created_events of schedule::deserialize
  sched,     \* created_schedule
  today      \* the day of the clock

gpio == <<pins, requested>>
vars == <<file, stage, next, registry, gpio, actions, dubious, events, sched, today>>
tables == <<registry, gpio, actions, dubious>>

Given(entry) == entry.is = "given"
Missing(entry) == entry.is = "absent"
Absent == [is |-> "absent"]
Some(v) == [is |-> "given", v |-> v]

\* The elements of an array of the file.
Elements(array) == IF Given(array) THEN {array.v[i] : i \in DOMAIN array.v} ELSE {}
IsArray(a) == a \in Seq({a[i] : i \in DOMAIN a})

\* What the parser made of the file: arrays of the arrays, numbers of the dates.
ASSUME FilesAssumption ==
  \A f \in Files :
    /\ \A array \in {f.outputs, f.actions, f.events} : Given(array) => IsArray(array.v)
    /\ \A d \in Elements(f.outputs) : d.id \in OutputIds /\ (d.whole => IsDescription(d.value))
    /\ \A d \in Elements(f.actions) : d.shape = "whole" =>
         /\ d.id \in ActionIds /\ d.outputs \in Seq(OutputIds)
         /\ IsArray(d.values) /\ \A i \in DOMAIN d.values : IsDescription(d.values[i])
    /\ \A e \in Elements(f.events) : e.whole => e.day \in Int /\ e.time \in Int
    /\ \A date \in {f.start, f.end, f.period} : Given(date) => date.v \in Int
    /\ Given(f.repeating) => f.repeating.v \in BOOLEAN

EmptySchedule == [start |-> Absent, end |-> Absent, period |-> 0, repeating |-> TRUE, events |-> <<>>]

-----------------------------------------------------------------------------
(* The setters of a schedule.                                              *)

\* Mutant of Recalculated: the day of the last event is not counted.
RecalculatedShort(s) ==
  [s EXCEPT !.period =
     Max({@} \cup {s.events[i].day : i \in DOMAIN s.events}
             \cup (IF Given(s.start) /\ Given(s.end) THEN {s.end.v - s.start.v} ELSE {}))]

\* recalculate_period: a period is never made shorter.
Recalculated(s) ==
  [s EXCEPT !.period =
     Max({@} \cup {s.events[i].day + 1 : i \in DOMAIN s.events}
             \cup (IF Given(s.start) /\ Given(s.end) THEN {s.end.v - s.start.v} ELSE {}))]

StartAt(s, day) == Recalculated([s EXCEPT !.start = Some(day)])
EndAt(s, day) == Recalculated([s EXCEPT !.end = Some(day)])
Period(s, period) ==
  LET r == Recalculated(s) IN [r EXCEPT !.period = Max({period, @})]

\* is_earlier.
IsEarlier(e, f) == e.day < f.day \/ (e.day = f.day /\ e.time < f.time)

\* Mutant of Insertions: the events are sorted by the time of day.
InsertionsByTime(list, e) ==
  {SubSeq(list, 1, k) \o <<e>> \o SubSeq(list, k + 1, Len(list)) :
     k \in {j \in 0 .. Len(list) : /\ \A i \in 1 .. j : list[i].time <= e.time
                                   /\ \A i \in j + 1 .. Len(list) : e.time <= list[i].time}}

\* The orders std::sort may leave after emplace_back, the events before the
\* new one being sorted: it is not stable.
Insertions(list, e) ==
  {SubSeq(list, 1, k) \o <<e>> \o SubSeq(list, k + 1, Len(list)) :
     k \in {j \in 0 .. Len(list) : /\ \A i \in 1 .. j : ~IsEarlier(e, list[i])
                                   /\ \A i \in j + 1 .. Len(list) : ~IsEarlier(list[i], e)}}

\* operator bool; "throws" for an end without a start.
Verdict(s) ==
  IF Missing(s.end) THEN "valid"
  ELSE IF Missing(s.start) THEN IF s.period = 0 THEN "invalid" ELSE "throws"
  ELSE IF /\ s.period # 0
          /\ s.end.v >= s.start.v
          /\ s.end.v - s.start.v + 1 >= s.period
          /\ s.events # <<>>
       THEN "valid" ELSE "invalid"

-----------------------------------------------------------------------------
(* create_from_file.                                                       *)

\* The result of one step over an array: on to the next element, or on to
\* the next stage.
Advance(array, from, to) ==
  IF next = Len(array) THEN stage' = to /\ next' = 1 ELSE stage' = from /\ next' = next + 1

Stop(how) == stage' = how /\ UNCHANGED next

RegisteredActions == {actions[i].id : i \in DOMAIN actions}

Open ==
  /\ stage = "open"
  /\ IF file.readable THEN stage' = "outputs" ELSE stage' = "refused"
  /\ UNCHANGED <<file, next, tables, events, sched, today>>

\* An array that is absent is refused, one without elements is fine.
SkipEmpty(array, from, to) ==
  /\ stage = from
  /\ \/ ~Given(array) /\ stage' = "refused"
     \/ Given(array) /\ array.v = <<>> /\ stage' = to
  /\ UNCHANGED <<file, next, tables, events, sched, today>>

\* The description the walk through the outputs is at, if it is at one.
NextOutput ==
  IF stage = "outputs" /\ Given(file.outputs) /\ file.outputs.v # <<>>
  THEN {file.outputs.v[next]} ELSE {}

\* What output_factory::deserialize makes of an entry: <<>>, or the value the
\* new output shows.  A GPIO output takes "on" if nothing is said and "off" for
\* every other word, a remote function the value it describes; a CAN output
\* without a default throws, see CreateCan of TransitionedOutput.
Made(d) ==
  IF ~d.whole THEN <<>>
  ELSE CASE d.type = "gpio" ->
              IF d.value = Null \/ (d.value.json = "string" /\ d.value.word = "on")
              THEN <<Value("switch_output", 0, "on")>>
              ELSE IF d.value.json = "string" THEN <<Value("switch_output", 0, "off")>> ELSE <<>>
         [] d.type = "can" -> <<Initial["unsigned_int"]>>
         [] d.type = "mqtt" -> <<Initial["string"]>>
         [] d.type = "remote_function" -> Deserialize(d.value, "unknown")
         [] OTHER -> <<>>

Throws(d) == d.whole /\ d.type = "can" /\ d.value = Null

Registered(d) == registry[d.id] # <<>>

\* add_output keeps what the factory made.
Register(d) ==
  /\ registry' = [registry EXCEPT ![d.id] = Made(d)]
  /\ Advance(file.outputs.v, "outputs", "actions")

\* outputs::add_output, for all outputs but those of the chip.
AddOutput(d) ==
  /\ d.type # "gpio" \/ Registered(d) \/ Made(d) = <<>>
  /\ IF Registered(d) \/ (Made(d) = <<>> /\ ~Throws(d)) THEN Stop("refused") /\ UNCHANGED registry
     ELSE IF Throws(d) THEN Stop("thrown") /\ UNCHANGED registry
     ELSE Register(d)
  /\ UNCHANGED <<file, gpio, actions, dubious, events, sched, today>>

\* The wrapper of a line.  The library has one object for a line, whoever asks;
\* what a wrapper was moved from holds no line any more, and the destructor of
\* one that does releases the line.
Request(line) == line \in Lines \ requested /\ requested' = requested \cup {line}
Destruct(line) == requested' = requested \ {line}

\* What create_for_interface checks of a GPIO output before it asks for the chip.
IsPin(d) == d.type = "gpio" /\ ~Registered(d) /\ Made(d) # <<>>

\* The line is there and free; the wrapper is moved into the pin, and the pin
\* into the list.
AddPin(d) ==
  /\ IsPin(d)
  /\ Request(d.pin)
  /\ pins' = [pins EXCEPT ![d.id] = <<d.pin>>]
  /\ Register(d)
  /\ UNCHANGED <<file, actions, dubious, events, sched, today>>

\* The chip is opened for the first output that is on it, or cannot be.
RefuseChip(d) ==
  /\ IsPin(d) /\ requested = {}
  /\ Stop("refused")
  /\ UNCHANGED <<file, tables, events, sched, today>>

\* Mutant of RefusePin: loading goes on without the output.
SkipPin(d) ==
  /\ IsPin(d)
  /\ Destruct(d.pin)
  /\ Advance(file.outputs.v, "outputs", "actions")
  /\ UNCHANGED <<file, registry, pins, actions, dubious, events, sched, today>>

\* The chip has no such line, or it is in use, by another program or by an
\* output of this one: which then loses it with the wrapper that is destroyed.
RefusePin(d) ==
  /\ IsPin(d)
  /\ Destruct(d.pin)
  /\ Stop("refused")
  /\ UNCHANGED <<file, registry, pins, actions, dubious, events, sched, today>>

\* The types the values of an action are read with.
Results(d) ==
  [i \in DOMAIN d.outputs |-> Deserialize(d.values[i], registry[d.outputs[i]][1].type)]

\* Mutant of Attached: only the value that is refused is replaced.
AttachedOthers(d) ==
  LET bad == {i \in DOMAIN d.outputs : Results(d)[i] = <<>>}
  IN  [controls |-> [i \in DOMAIN d.outputs |->
                       [output |-> d.outputs[i],
                        value |-> IF i \in bad THEN Value("number", 0, "") ELSE Results(d)[i][1]]],
       ok |-> TRUE]

\* What add_action attaches to an action: after the first value that is
\* refused the outputs keep the value 0.
Attached(d) ==
  LET bad == {i \in DOMAIN d.outputs : Results(d)[i] = <<>>}
  IN  [controls |-> [i \in DOMAIN d.outputs |->
                       [output |-> d.outputs[i],
                        value |-> IF \E j \in bad : j <= i THEN Value("number", 0, "")
                                  ELSE Results(d)[i][1]]],
       ok |-> bad = {}]

\* The guards of add_action, after those on the types of its entries.
Acceptable(d) ==
  /\ d.shape = "whole"
  /\ d.id \notin RegisteredActions
  /\ \A i \in DOMAIN d.outputs : registry[d.outputs[i]] # <<>>
  /\ Len(d.values) = Len(d.outputs)

\* schedule_action::add_action.  An id that is no string is only logged, its
\* conversion throws; refused values are only logged, the action is added.
AddAction ==
  /\ stage = "actions" /\ Given(file.actions) /\ file.actions.v # <<>>
  /\ LET d == file.actions.v[next] IN
       CASE d.shape = "id_no_string" -> Stop("thrown") /\ UNCHANGED <<actions, dubious>>
         [] d.shape # "id_no_string" /\ ~Acceptable(d) ->
              Stop("refused") /\ UNCHANGED <<actions, dubious>>
         [] OTHER ->
              /\ actions' = Append(actions, [id |-> d.id, controls |-> Attached(d).controls])
              /\ dubious' = IF Attached(d).ok THEN dubious ELSE dubious \cup {d.id}
              /\ Advance(file.actions.v, "actions", "schedule")
  /\ UNCHANGED <<file, registry, gpio, events, sched, today>>

\* schedule::deserialize up to the events: the title.
ReadTitle ==
  /\ stage = "schedule"
  /\ stage' = IF file.title.is = "wrong" THEN "refused" ELSE "events"
  /\ UNCHANGED <<file, next, tables, events, sched, today>>

\* The event an element describes.
Read(e) == [name |-> e.name, day |-> AsInt(e.day), time |-> e.time, actions |-> e.actions]

\* schedule_event::deserialize, once for each element: whole is FALSE if one
\* of its entries is absent or of another type.
ReadEvent ==
  /\ stage = "events" /\ Given(file.events) /\ file.events.v # <<>>
  /\ LET e == file.events.v[next] IN
       IF ~e.whole \/ ~(e.actions \subseteq RegisteredActions)
       THEN Stop("refused") /\ UNCHANGED events
       ELSE /\ events' = Append(events, Read(e))
            /\ Advance(file.events.v, "events", "dates")
  /\ UNCHANGED <<file, tables, sched, today>>

\* The dates, the mode and the period.
ReadDates ==
  /\ stage = "dates"
  /\ IF "wrong" \in {file.start.is, file.end.is, file.repeating.is, file.period.is}
     THEN stage' = "refused" /\ UNCHANGED sched
     ELSE LET started == IF Given(file.start) THEN StartAt(sched, file.start.v) ELSE sched
              ended == IF Given(file.end) THEN EndAt(started, file.end.v) ELSE started
              timed == Period(ended, IF Given(file.period) THEN AsInt(file.period.v) ELSE 0)
          IN  /\ sched' = [timed EXCEPT !.repeating =
                             IF Given(file.repeating) THEN file.repeating.v ELSE TRUE]
              /\ stage' = IF events = <<>> THEN "check" ELSE "insert"
  /\ UNCHANGED <<file, next, tables, events, today>>

\* add_event, once for each event; a name that is taken is refused.
AddEvent ==
  /\ stage = "insert"
  /\ IF \E i \in DOMAIN sched.events : sched.events[i].name = events[next].name
     THEN Stop("refused") /\ UNCHANGED sched
     ELSE /\ \E list \in Insertions(sched.events, events[next]) :
               sched' = Recalculated([sched EXCEPT !.events = list])
          /\ Advance(events, "insert", "check")
  /\ UNCHANGED <<file, tables, events, today>>

CheckSchedule ==
  /\ stage = "check"
  /\ stage' = CASE Verdict(sched) = "valid" -> "loaded"
                [] Verdict(sched) = "invalid" -> "refused"
                [] OTHER -> "thrown"
  /\ UNCHANGED <<file, next, tables, events, sched, today>>

-----------------------------------------------------------------------------
(* The schedule handler.                                                   *)

\* Mutant of Redated: the end is moved before the start.
RedatedBackwards(s, day) == StartAt(EndAt(s, day + s.period - 1), day)

\* A run of the schedule from that day.
Redated(s, day) == EndAt(StartAt(s, day), day + s.period - 1)

\* add_schedule fills in the dates that are missing.
AddSchedule ==
  /\ stage = "loaded"
  /\ sched' = IF Given(sched.end) THEN sched
              ELSE IF Given(sched.start) THEN EndAt(sched, sched.start.v + sched.period - 1)
              ELSE Redated(sched, today)
  /\ stage' = "handled"
  /\ UNCHANGED <<file, next, tables, events, today>>

\* A repeating schedule whose end has passed is activated again.
Reactivate ==
  /\ stage = "handled" /\ sched.repeating /\ sched.end.v < today
  /\ sched' = Redated(sched, today)
  /\ UNCHANGED <<file, stage, next, tables, events, today>>

NextDay ==
  /\ stage = "handled" /\ today < LastDay
  /\ today' = today + 1
  /\ UNCHANGED <<file, stage, next, tables, events, sched>>

-----------------------------------------------------------------------------

Init ==
  /\ file \in Files
  /\ stage = "open" /\ next = 1
  /\ registry = [o \in OutputIds |-> <<>>]
  /\ pins = [o \in OutputIds |-> <<>>] /\ requested = {}
  /\ actions = <<>> /\ dubious = {}
  /\ events = <<>> /\ sched = EmptySchedule
  /\ today = 0

\* The end of loading, and of the clock.
Over ==
  /\ stage \in {"refused", "thrown"} \/ (stage = "handled" /\ today = LastDay)
  /\ UNCHANGED vars

Next ==
  \/ Open
  \/ SkipEmpty(file.outputs, "outputs", "actions")
  \/ \E d \in NextOutput : AddOutput(d) \/ AddPin(d) \/ RefuseChip(d) \/ RefusePin(d)
  \/ SkipEmpty(file.actions, "actions", "schedule")
  \/ AddAction
  \/ ReadTitle
  \/ SkipEmpty(file.events, "events", "dates")
  \/ ReadEvent
  \/ ReadDates
  \/ AddEvent
  \/ CheckSchedule
  \/ AddSchedule
  \/ Reactivate
  \/ NextDay
  \/ Over

Spec == Init /\ [][Next]_vars

-----------------------------------------------------------------------------

Stages ==
  {"open", "outputs", "actions", "schedule", "events", "dates", "insert", "check", "loaded",
   "handled", "refused", "thrown"}
Actions == [id : ActionIds, controls : Seq([output : OutputIds, value : OutputValues])]
FileEvents == {Read(e) : e \in {e \in UNION {Elements(f.events) : f \in Files} : e.whole}}
Dates == {Absent} \cup [is : {"given"}, v : Int]
Schedules ==
  [start : Dates, end : Dates, period : Nat, repeating : BOOLEAN, events : Seq(FileEvents)]

\* The variables keep to their types.
TypeOK ==
  /\ file \in Files /\ stage \in Stages /\ next \in Nat \ {0}
  /\ registry \in [OutputIds -> Optional(OutputValues)]
  /\ pins \in [OutputIds -> Optional(Lines)] /\ requested \subseteq Lines
  /\ actions \in Seq(Actions) /\ dubious \subseteq ActionIds
  /\ events \in Seq(FileEvents) /\ sched \in Schedules
  /\ today \in Nat

\* Each GPIO output of a file that is taken has a line of its own, which it has
\* requested; no destructor and no failed request released it.
PinsOwned ==
  stage # "refused" =>
    /\ \A o \in OutputIds : pins[o] # <<>> => registry[o] # <<>> /\ pins[o][1] \in requested
    /\ \A o, p \in OutputIds : pins[o] # <<>> /\ pins[o] = pins[p] => o = p

\* An action that was added without a complaint gives each output a value of
\* the type the output shows, but for words that fit no type and are kept as
\* strings, and for values that are described by an object.
ActionsFit ==
  \A i \in DOMAIN actions : actions[i].id \notin dubious =>
    \A j \in DOMAIN actions[i].controls :
      LET c == actions[i].controls[j]
      IN  \/ c.value.type \in {registry[c.output][1].type, "string"}
          \/ file.actions.v[i].values[j].json = "object"

\* The events are in the order of their days and times, whatever their order
\* in the file, and none is lost or doubled.
EventsInOrder ==
  /\ \A i, j \in DOMAIN sched.events : i < j => ~IsEarlier(sched.events[j], sched.events[i])
  /\ stage \in {"check", "loaded", "handled"} =>
       /\ {sched.events[i] : i \in DOMAIN sched.events} = {events[i] : i \in DOMAIN events}
       /\ Len(sched.events) = Len(events)

\* Every event of a schedule the handler took is due before the run ends,
\* whichever of start, end and period the file gives.
EventsFitRun ==
  stage = "handled" =>
    \A i \in DOMAIN sched.events : sched.start.v + sched.events[i].day <= sched.end.v

\* New dates never change the period, although every setter recalculates it
\* from the start and the end of the moment.
PeriodKeeps == [][(stage \in {"loaded", "handled"}) => sched'.period = sched.period]_vars

=============================================================================
