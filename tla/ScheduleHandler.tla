-------------------------- MODULE ScheduleHandler --------------------------
(***************************************************************************)
(* schedule_handler: the event thread that once per second looks at the    *)
(* clock, carries out the actions of the events that have become due, and  *)
(* moves schedules between the inactive and the active list, while main    *)
(* starts it, adds schedules and stops it.                                 *)
(*                                                                         *)
(* One tick of the thread holds the lock of singleton<schedule_handler>    *)
(* from the first clock reading to the end of the list handling, but the   *)
(* clock, the outputs and the unlocked half of add_schedule go on in       *)
(* between, so a tick is one step for the readings, one for each active    *)
(* schedule and one for the lists.  A batch of output controls is one      *)
(* step, as BatchControl promises.                                         *)
(***************************************************************************)
EXTENDS OutputBatch, Integers, FiniteSets

CONSTANTS
  Titles,          \* the titles a schedule file may give
  NoTitle,         \* the empty title of a schedule that was moved from
  Events,          \* Events[t]: the events of the schedule t, in schedule order
  Files,           \* the schedules as they were loaded, before add_schedule
  Outputs,         \* the ids of the outputs
  Breakable,       \* those that may stop answering
  MinutesPerDay,
  LastDay,         \* bound: the clock stops at the end of this day
  TicksPerMinute,  \* ticks the thread is granted before the clock moves on
  MidnightReads    \* whether midnight may fall between two clock readings

\* An optional<days> without a value compares below every day.
NoDay == -1

Event == [day : Nat, time : Nat, controls : Seq([output : Outputs, value : SwitchValues])]

\* A schedule; done holds the positions of the events marked as processed.
Schedule ==
  [title : Titles \cup {NoTitle}, repeating : BOOLEAN, start : Int, end : Int,
   period : Nat, done : SUBSET Nat]

ASSUME TitleAssumption == NoTitle \notin Titles
ASSUME EventsAssumption ==
  /\ Events \in [Titles \cup {NoTitle} -> Seq(Event)]
  /\ Events[NoTitle] = <<>>
ASSUME FilesAssumption ==
  /\ Files \subseteq Schedule
  /\ \A f \in Files : f.title \in Titles /\ f.done = {} /\ f.start >= NoDay /\ f.end >= NoDay
ASSUME OutputsAssumption == Breakable \subseteq Outputs
ASSUME ClockAssumption ==
  /\ MinutesPerDay \in Nat \ {0}
  /\ LastDay \in Nat
  /\ TicksPerMinute \in Nat
  /\ MidnightReads \in BOOLEAN

VARIABLES
  today, minute,    \* the system clock: days since the epoch, minute of the day
  active, inactive, \* m_active_schedules and m_inactive_schedules
  shouldExit,       \* m_should_exit
  isStarted,        \* m_is_started
  thread,           \* the event thread: "none", "loop", "scan", "sleep", "exited"
  curDay, curMin,   \* its current_day and minutes_since_today
  cursor,           \* the active schedule it looks at next
  client,           \* the caller of the interface: "idle", "adding", "joining"
  pending,          \* <<>>, or the schedule add_schedule is about to insert
  broken,           \* the outputs that refuse to be controlled at the moment
  level,            \* what every output shows
  ticks,            \* ticks completed since the clock moved, up to TicksPerMinute
  tornDay,          \* history: the day that last began between two readings
  ran               \* history: <<title, start, event>> of all executed events

clockVars == <<today, minute, ticks, tornDay>>
listVars == <<active, inactive>>
threadVars == <<thread, curDay, curMin, cursor>>
clientVars == <<client, pending, shouldExit, isStarted>>
outputVars == <<broken, level>>
vars == <<clockVars, listVars, threadVars, clientVars, outputVars, ran>>

-----------------------------------------------------------------------------
(* What a tick computes.                                                   *)

\* Mutant of Due: the day of an event is not looked at.
DueOnAnyDay(s) ==
  {i \in DOMAIN Events[s.title] :
     s.start # NoDay /\ Events[s.title][i].time <= curMin /\ i \notin s.done}

\* Mutant of Due: the minute itself is excluded.
DueAfterwards(s) ==
  {i \in DOMAIN Events[s.title] :
     /\ s.start # NoDay
     /\ Events[s.title][i].day <= curDay - s.start
     /\ Events[s.title][i].time < curMin
     /\ i \notin s.done}

\* The events of a schedule the thread considers due: their day has been
\* reached, the time of day is late enough - today, whichever day they are
\* of - and they are not marked.  A schedule without a start has none.
Due(s) ==
  {i \in DOMAIN Events[s.title] :
     /\ s.start # NoDay
     /\ Events[s.title][i].day <= curDay - s.start
     /\ Events[s.title][i].time <= curMin
     /\ i \notin s.done}

\* The outputs the i-th event of a schedule controls.
EventOutputs(t, i) == Touched(Events[t][i].controls)

\* Of the events a batch carries out, the outputs they name and, for each,
\* the last event that does: its control is the one that is not skipped.
BatchOutputs(t, events) == UNION {EventOutputs(t, i) : i \in events}
Decider(t, events, o) ==
  CHOOSE i \in events :
     o \in EventOutputs(t, i) /\ \A j \in events : o \in EventOutputs(t, j) => j <= i

\* Mutant of FailedEvents: the test of the result is turned round.
SucceededEvents(t, events) ==
  {i \in events : (EventOutputs(t, i) \cap BatchOutputs(t, events)) \ broken # {}}

\* The events that lose their mark again because an output of theirs failed.
FailedEvents(t, events) ==
  {i \in events : EventOutputs(t, i) \cap BatchOutputs(t, events) \cap broken # {}}

\* Mutant of ToActivate: repeating schedules are not begun anew.
ToActivateOnce(list) == {k \in DOMAIN list : list[k].end >= curDay}

\* The schedules std::remove_if takes out of each list.
ToActivate(list) == {k \in DOMAIN list : list[k].repeating \/ list[k].end >= curDay}
ToExpire(list) == {k \in DOMAIN list : list[k].end < curDay}

\* A schedule whose title and events were moved elsewhere.
MovedFrom(s) == [s EXCEPT !.title = NoTitle, !.done = {}]

\* What libstdc++'s remove_if leaves behind: the elements it keeps are moved
\* to the front in order, the rest of the vector is as it was, except that
\* an element kept and moved forward is a moved-from one there.
RemoveIf(list, gone) ==
  LET kept == DOMAIN list \ gone
      lands(i) == Cardinality({j \in kept : j <= i})
  IN  [k \in DOMAIN list |->
         IF \E i \in kept : lands(i) = k
         THEN list[CHOOSE i \in kept : lands(i) = k]
         ELSE IF k \in kept THEN MovedFrom(list[k]) ELSE list[k]]

\* Mutant of Removed: the first of the removed elements is passed over.
RemovedButOne(list, gone) ==
  SubSeq(RemoveIf(list, gone), Cardinality(DOMAIN list \ gone) + 2, Len(list))

\* Mutant of Left: nothing is erased.
LeftAll(list, gone) == list

\* The iterator remove_if returns, and the elements from it to the end.
FirstGone(list, gone) == Cardinality(DOMAIN list \ gone) + 1
Removed(list, gone) ==
  SubSeq(RemoveIf(list, gone), FirstGone(list, gone), Len(list))

\* vector::erase with one iterator: one element goes, not the whole tail.
EraseOne(list, k) == [i \in 1 .. Len(list) - 1 |-> IF i < k THEN list[i] ELSE list[i + 1]]
Left(list, gone) ==
  IF gone = {} THEN list ELSE EraseOne(RemoveIf(list, gone), FirstGone(list, gone))

\* Mutant of Activated: the marks of the last run stay.
ActivatedAsLeft(s) ==
  IF s.end < curDay /\ s.repeating
  THEN [s EXCEPT !.start = curDay, !.end = curDay + s.period - 1]
  ELSE s

\* A schedule on its way to the active list: a copy without marks, which a
\* repeating schedule that is over begins anew today.
Activated(s) ==
  IF s.end < curDay /\ s.repeating
  THEN [s EXCEPT !.done = {}, !.start = curDay, !.end = curDay + s.period - 1]
  ELSE [s EXCEPT !.done = {}]

-----------------------------------------------------------------------------
(* The interface: what main calls.                                         *)

StartEventHandler ==
  /\ client = "idle" /\ ~isStarted
  /\ isStarted' = TRUE
  /\ thread' = "loop"
  /\ UNCHANGED <<clockVars, listVars, curDay, curMin, cursor, client, pending, shouldExit,
                 outputVars, ran>>

StopEventHandler ==
  /\ client = "idle" /\ isStarted
  /\ shouldExit' = TRUE
  /\ client' = "joining"
  /\ UNCHANGED <<clockVars, listVars, threadVars, pending, isStarted, outputVars, ran>>

\* m_event_thread.join() returns.
StopReturns ==
  /\ client = "joining" /\ thread = "exited"
  /\ thread' = "none"
  /\ isStarted' = FALSE
  /\ client' = "idle"
  /\ UNCHANGED <<clockVars, listVars, curDay, curMin, cursor, pending, shouldExit,
                 outputVars, ran>>

\* schedule::operator bool, for a start without which there is no end.
Valid(f) ==
  \/ f.end = NoDay
  \/ /\ f.period # 0
     /\ f.end >= f.start
     /\ f.end - f.start + 1 >= f.period
     /\ Events[f.title] # <<>>

\* is_conflicting_with_other_schedules.
Conflicting(f) ==
  \/ \E k \in DOMAIN active : active[k].title = f.title
  \/ \E k \in DOMAIN inactive : inactive[k].title = f.title

\* The dates add_schedule fills in.
Dated(f) ==
  LET start == IF f.start = NoDay /\ f.end = NoDay THEN today ELSE f.start
  IN  [f EXCEPT !.start = start, !.end = IF f.end = NoDay THEN start + f.period - 1 ELSE f.end]

\* add_schedule before it takes the lock: the checks and the dates.
AddScheduleCheck(f) ==
  /\ client = "idle"
  /\ Valid(f) /\ ~Conflicting(f)
  /\ Dated(f).repeating => Dated(f).start # NoDay /\ Dated(f).end # NoDay
  /\ pending' = <<Dated(f)>>
  /\ client' = "adding"
  /\ UNCHANGED <<clockVars, listVars, threadVars, shouldExit, isStarted, outputVars, ran>>

\* add_schedule under the lock.
AddScheduleInsert ==
  /\ client = "adding" /\ thread # "scan"
  /\ inactive' = inactive \o pending
  /\ pending' = <<>>
  /\ client' = "idle"
  /\ ticks' = 0
  /\ UNCHANGED <<today, minute, tornDay, active, threadVars, shouldExit, isStarted,
                 outputVars, ran>>

-----------------------------------------------------------------------------
(* The event thread.                                                       *)

\* The while condition is false and the thread ends.
LeaveLoop ==
  /\ thread = "loop" /\ shouldExit
  /\ thread' = "exited"
  /\ UNCHANGED <<clockVars, listVars, curDay, curMin, cursor, clientVars, outputVars, ran>>

\* The lock is taken and the clock read on one day.
ReadClock ==
  /\ thread = "loop" /\ ~shouldExit
  /\ thread' = "scan" /\ cursor' = 1
  /\ curDay' = today /\ curMin' = minute
  /\ UNCHANGED <<clockVars, listVars, clientVars, outputVars, ran>>

\* Midnight falls between two of the three readings.  The two that are
\* subtracted come in an unspecified order: the minutes may be those of the
\* old day (-1 after the subtraction), those of the new one counted from the
\* old (MinutesPerDay), or the third reading alone is of the new day.
ReadClockAtMidnight ==
  /\ MidnightReads
  /\ thread = "loop" /\ ~shouldExit
  /\ minute = MinutesPerDay - 1 /\ today < LastDay /\ ticks = TicksPerMinute
  /\ today' = today + 1 /\ minute' = 0 /\ ticks' = 0 /\ tornDay' = today + 1
  /\ thread' = "scan" /\ cursor' = 1
  /\ curDay' = today + 1 /\ curMin' \in {-1, MinutesPerDay - 1, MinutesPerDay}
  /\ UNCHANGED <<listVars, clientVars, outputVars, ran>>

\* The controls a batch leaves: the value it gives an output it names.
BatchValue(t, events, o) == LastValue(Events[t][Decider(t, events, o)].controls, o)

\* One round of the loop over the active schedules: mark the due events,
\* execute their actions as one batch, take the mark from those that failed.
ScanMarks ==
  /\ thread = "scan" /\ cursor \in DOMAIN active
  /\ LET s == active[cursor]
         due == Due(s)
     IN  /\ active' = [active EXCEPT ![cursor].done = (@ \cup due) \ FailedEvents(s.title, due)]
         /\ ran' = ran \cup {<<s.title, s.start, i>> : i \in due}
  /\ cursor' = cursor + 1
  /\ UNCHANGED <<clockVars, inactive, thread, curDay, curMin, clientVars, broken>>

\* The round with its batch, for outputs only the schedule controls.
ScanSchedule ==
  /\ ScanMarks
  /\ LET t == active[cursor].title
         due == Due(active[cursor])
     IN  level' = [o \in Outputs |->
                     IF o \in BatchOutputs(t, due) \ broken
                     THEN Applied(BatchValue(t, due, o), level[o])
                     ELSE level[o]]

\* The end of the tick: activation, then expiry, then the lock is released.
MoveSchedules ==
  /\ thread = "scan" /\ cursor \notin DOMAIN active
  /\ LET starting == Removed(inactive, ToActivate(inactive))
         running == active \o [k \in DOMAIN starting |-> Activated(starting[k])]
         waiting == Left(inactive, ToActivate(inactive))
     IN  /\ active' = Left(running, ToExpire(running))
         /\ inactive' = waiting \o Removed(running, ToExpire(running))
  /\ thread' = "sleep"
  /\ UNCHANGED <<clockVars, curDay, curMin, cursor, clientVars, outputVars, ran>>

\* sleep_for returns.
WakeUp ==
  /\ thread = "sleep"
  /\ thread' = "loop"
  /\ ticks' = IF ticks < TicksPerMinute THEN ticks + 1 ELSE ticks
  /\ UNCHANGED <<today, minute, tornDay, listVars, curDay, curMin, cursor, clientVars,
                 outputVars, ran>>

-----------------------------------------------------------------------------
(* The environment.                                                        *)

\* The clock moves on.  A running thread has been granted its ticks.
PassMinute ==
  /\ ticks = TicksPerMinute \/ thread \in {"none", "exited"}
  /\ IF minute < MinutesPerDay - 1
     THEN minute' = minute + 1 /\ UNCHANGED today
     ELSE today < LastDay /\ minute' = 0 /\ today' = today + 1
  /\ ticks' = 0
  /\ UNCHANGED <<tornDay, listVars, threadVars, clientVars, outputVars, ran>>

Break(o) ==
  /\ o \in Breakable \ broken
  /\ broken' = broken \cup {o}
  /\ UNCHANGED <<clockVars, listVars, threadVars, clientVars, level, ran>>

Repair(o) ==
  /\ o \in broken
  /\ broken' = broken \ {o}
  /\ UNCHANGED <<clockVars, listVars, threadVars, clientVars, level, ran>>

-----------------------------------------------------------------------------

Init ==
  /\ today = 0 /\ minute = 0 /\ ticks = 0 /\ tornDay = NoDay
  /\ active = <<>> /\ inactive = <<>>
  /\ shouldExit = FALSE /\ isStarted = FALSE
  /\ thread = "none" /\ curDay = 0 /\ curMin = 0 /\ cursor = 1
  /\ client = "idle" /\ pending = <<>>
  /\ broken = {}
  /\ level = [o \in Outputs |-> "off"]
  /\ ran = {}

Interface ==
  \/ StartEventHandler
  \/ StopEventHandler
  \/ StopReturns
  \/ \E f \in Files : AddScheduleCheck(f)
  \/ AddScheduleInsert

\* The steps of the thread that control no output.
ThreadAlone ==
  \/ LeaveLoop
  \/ ReadClock
  \/ ReadClockAtMidnight
  \/ MoveSchedules
  \/ WakeUp

EventThread == ThreadAlone \/ ScanSchedule

Environment == PassMinute \/ \E o \in Outputs : Break(o) \/ Repair(o)

Next == Interface \/ EventThread \/ Environment

Spec == Init /\ [][Next]_vars

-----------------------------------------------------------------------------
(* Properties.                                                             *)

\* The variables keep to their types.
TypeOK ==
  /\ today \in Nat /\ minute \in 0 .. MinutesPerDay - 1
  /\ ticks \in 0 .. TicksPerMinute /\ tornDay \in Int
  /\ active \in Seq(Schedule) /\ inactive \in Seq(Schedule) /\ pending \in Seq(Schedule)
  /\ shouldExit \in BOOLEAN /\ isStarted \in BOOLEAN
  /\ thread \in {"none", "loop", "scan", "sleep", "exited"}
  /\ curDay \in Nat /\ curMin \in -1 .. MinutesPerDay /\ cursor \in Nat \ {0}
  /\ client \in {"idle", "adding", "joining"}
  /\ broken \subseteq Breakable
  /\ level \in [Outputs -> Levels]
  /\ ran \subseteq (Titles \cup {NoTitle}) \X Int \X Nat

\* The day on which the i-th event of a schedule takes place.
EventDay(s, i) == s.start + Events[s.title][i].day

\* The moment of the i-th event of a schedule has come.
HasCome(s, i) ==
  \/ EventDay(s, i) < today
  \/ EventDay(s, i) = today /\ Events[s.title][i].time <= minute

\* No event is carried out before its moment - although the day and the time
\* of day are compared apart from each other - with one exception: when
\* midnight falls between two clock readings, the events of the day that has
\* just begun may be carried out at once, and no others.
NoEarlyEvent ==
  \A k \in DOMAIN active : \A i \in active[k].done :
     HasCome(active[k], i) \/ (EventDay(active[k], i) = today /\ tornDay = today)

\* How often a title is found in the two lists.
Listed(t) ==
  Cardinality({k \in DOMAIN active : active[k].title = t})
    + Cardinality({k \in DOMAIN inactive : inactive[k].title = t})

\* A title is listed once: what the conflict check of add_schedule looks for
\* (src/src/schedule/schedule_handler.cpp:46 "Schedule {} is conflicting with
\* other schedules") stays true while the thread moves schedules around.
ListedOnce == \A t \in Titles : Listed(t) <= 1

\* A schedule that was added is not lost on its way between the lists.
NeverDropped == [][\A t \in Titles : Listed(t) >= 1 => Listed(t)' >= 1]_vars

\* The outputs show what the schedule says: of the events that are marked as
\* processed, the last one in schedule order that controls an output has set
\* it (src/src/schedule/schedule_handler.cpp:123 "Actions are in order,
\* because the events are in order (sorted by event time on a per day basis)").
OutputsFollowSchedule ==
  \A k \in DOMAIN active : \A o \in BatchOutputs(active[k].title, active[k].done) :
     level[o] = BatchValue(active[k].title, active[k].done, o)

\* An event whose outputs always answer.
Reliable(t, i) == EventOutputs(t, i) \cap Breakable = {}

\* A running thread that gets its ticks in every minute misses nothing: when
\* the clock moves on, every event of the day whose time has come was carried
\* out in this run of its schedule, not only marked in an earlier one, and is
\* marked unless an output of it may have failed; and no schedule that should
\* run is waiting, also across midnights, expiry and the new beginning of a
\* repeating schedule.
NoMissedEvent ==
  [][(minute' # minute /\ isStarted /\ ~shouldExit) =>
       /\ \A k \in DOMAIN active : active[k].start # NoDay =>
            \A i \in DOMAIN Events[active[k].title] :
              (EventDay(active[k], i) = today /\ HasCome(active[k], i)) =>
                /\ <<active[k].title, active[k].start, i>> \in ran
                /\ Reliable(active[k].title, i) => i \in active[k].done
       /\ \A k \in DOMAIN inactive : ~inactive[k].repeating /\ inactive[k].end < today]_vars

\* An event whose outputs always answer is executed at most once in each run
\* of its schedule, whatever fails beside it: no mark is lost when schedules
\* change lists, expire and are activated again, and none is taken back from
\* an event that succeeded.
AtMostOncePerRun ==
  [][(thread = "scan" /\ cursor' # cursor) =>
       \A i \in Due(active[cursor]) :
         Reliable(active[cursor].title, i) => <<active[cursor].title, active[cursor].start, i>> \notin ran]_vars

=============================================================================
