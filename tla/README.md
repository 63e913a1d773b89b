# A TLA+ verification of quarium_controller

`quarium_controller` drives the devices of an aquarium: a schedule file names outputs (GPIO lines,
a CAN device, MQTT and HTTP switches), actions that set outputs, and events that carry out actions
at a time of day. A thread carries out what is due, a touch panel lets the user take outputs over,
a small web server shows the log. This directory holds a model of that program in TLA+, the
configurations with which TLC checks it, and proofs for TLAPS.

Paths below are those of the repository under `src/`; line numbers are those of its files.

## 1. The system

### Parts, their state and their operations

| part | source | state | operations |
|---|---|---|---|
| schedule file | `src/src/schedule/schedule.cpp`, `schedule_event.cpp`, `schedule_action.cpp` | the schedule (dates, period, sorted events), static tables of actions and outputs | `create_from_file`, `start_at`, `end_at`, `period`, `add_event`, `operator bool` |
| values | `src/src/io/outputs/output_value.cpp` | a variant, a default, a range | `deserialize`, `serialize` |
| schedule handler | `src/src/schedule/schedule_handler.cpp` | active and inactive schedules, exit flag, the event thread | `start_event_handler`, `stop_event_handler`, `add_schedule`, `event_handler` |
| actions, output scheduler | `schedule_action.cpp`, `src/src/io/outputs/output_scheduler.cpp` | one job per batch, its results | `execute_actions`, `do_output_job` |
| outputs | `src/src/io/outputs/outputs.cpp` | the list of outputs and its mutex | `add_output`, `control_output`, `override_with`, `restore_control`, `current_state` |
| GPIO output | `src/src/io/interfaces/gpio/gpio_pin.cpp` | controlled value, override, the line | as above |
| CAN output | `src/src/io/outputs/can/can_output.cpp`, `src/include/value_transitioner.h`, `output_transition.h` | value, override, a transitioner with a thread | as above, plus the transition thread |
| GPIO chips | `src/src/io/interfaces/gpio/gpio_chip.cpp` | open chips, requested lines | `access`, `open`, release with the owner |
| MQTT clients | `src/src/io/interfaces/mqtt/` | one client per broker in a map, one io thread | `instance`, `start_interface`, `stop` |
| MQTT output | `src/src/io/outputs/mqtt/` | value, a transitioner with a thread | as CAN; no panel |
| remote function | `src/src/io/outputs/remote_function/` | a URL, value, override | as above; each call is an HTTP request |
| panel of an output | `src/src/gui/single_output_view*.cpp` | check box, switch or slider | callbacks |
| main view | `src/src/gui/main_view*.cpp`, `src/include/ring_buffer.h` | pages, page shown, ring buffer of visited pages | `open_view`, `close_view`, `view_loop`, navigation |
| web server | `src/src/network/network_interface.cpp` | the listening thread | `start`, `stop`, destructor |
| main, signals | `src/src/quarium_controller.cpp`, `signal_handler.cpp`, `src/include/pattern_templates/singleton.h` | exit flag; one recursive mutex per singleton | start-up, `pause()` loop, shutdown |

### How they interact

* **main** loads the file, starts the event thread, adds the schedule, opens the view (a thread of its
  own), starts the server (another), waits in `pause()` for a signal, and stops them in turn.
* **The event thread** holds the mutex of `singleton<schedule_handler>` for a whole tick. It calls
  `execute_actions` with another mutex and waits, without a timeout, for a `std::async` job; the
  job locks the mutex of the outputs for each control. An output may take the seconds of a network
  timeout under that mutex.
* **The view thread** runs all callbacks. Navigation asks for `main_view::instance()` and so for the mutex
  under which `close_view` joins that very thread; the panel calls the outputs under their mutex.
* **A CAN or MQTT output** is moved by its own thread, under the mutex of the value, and sends from two threads.
* **A remote function** asks another host and waits for its answer; a request that was given up may still be on its way.
* **MQTT clients** are made during loading; their one thread runs a shared `io_context`.
* Shared state is the tables of outputs and actions (filled while loading), the lists of schedules, the
  values of the outputs, and flags. Nothing is persisted: there is no recovery to model.

### What is hard

Two clients of one output whose calls come between each other; a retry that repeats what was already
overwritten; three clock readings with midnight between two; `remove_if` followed by the erase of one
element; a condition variable notified outside its mutex; two threads that send one value; a request
that times out and takes effect all the same; loading that stops half-way; a comparison that is no order; joins under mutexes. PROJECT.json lists these hazards
at their lines with the properties aimed at them; where the code really does go wrong and a property has to exempt it, the note says so.

### What makes each part correct

* Batch: the reduction to one control per output changes nothing; a failure is reported for exactly the
  actions it belongs to.
* Schedule handler: no event early, none missed, none twice in a run; no schedule lost or doubled; outputs
  show what the schedule says; retries get through.
* Schedule and user: an output that is given back shows what the schedule asked for last.
* Output: what the schedule asked for meanwhile is not lost during an override; the panel tells the truth.
* View: the screen shows the last page of the history; the ring buffer is a bounded history.
* Transitioner: no wake-up is lost; a value arrives at its target and does not pass it.
* CAN and MQTT outputs: a settled output has the value of the schedule, and the bus or broker was told that value.
* Remote function: what was acknowledged is what the host shows; values stay in their range; a refused control gets through.
* Loading: GPIO lines have one owner, values fit, events are in order and inside the run.
* Program: no circular wait, no thread left behind, a request to stop is heeded, the shutdown ends.
* MQTT: one client per broker, one thread.

## 2. The modules

| module | models | corresponds to |
|---|---|---|
| `OutputBatch` | what a list of controls asks for | pure operators shared by the others |
| `BatchControl` | a batch as one step (abstract) | what `execute_actions` promises its caller |
| `OutputScheduler` | `execute_actions` and `do_output_job` | a control of a batch is known by its place, the position of its action and its own; `Optimized` is the walk from the end; one step per control |
| `ScheduleHandler` | the event thread and its interface | `ReadClock`, one `ScanSchedule` per active schedule, `MoveSchedules`, `WakeUp`; `AddScheduleCheck` is the half of `add_schedule` without the lock, `AddScheduleInsert` the other |
| `OverridableOutput` | what an output promises schedule and user (abstract) | `output_interface` |
| `GpioOutput` | `gpio_pin` between the schedule and the panel | one step per call into `outputs`; `CheckBox` and `TakeOver` are the two calls of one callback |
| `RingBuffer` | `ring_buffer<T, N>` | operators on a record of array, start, end, number |
| `BoundedHistory` | the last entries of a sequence (abstract) | what the view needs |
| `MainView` | pages, navigation, Back | one step per callback |
| `SchedulePanel` | the schedule handler, the outputs it controls and the user who takes them over | `ScanControls` is a round of the event thread with its batch, `OverrideWith` and `RestoreControl` the user's gestures |
| `OutputTransition` | `instant`, `linear_transition` | the set of results a call may have, by the time that passed |
| `ValueTransitioner` | the transition thread and its client | the step and the start of the wait are one step, under the mutex; tests and notifications are steps of their own |
| `TransitionedOutput` | `can_output` and `mqtt_output` on top of the transitioner, from description to destructor | `CreateCan`, `CreateMqtt`; control, `ReadCurrent` and `SendRead` of the caller; `TransitionAndSend` of the thread |
| `RemoteUrl` | how `remote_function` takes a URL apart | operators on sequences of tokens; `Meant` is what a URL means |
| `RemoteFunction` | `remote_function`, its panel with the slider, the network and the host | `ControlOutput` and `Override` begin a call, `update_values` is `Unconnected`, `SendRequest`, `ReceiveAnswer`, `GiveUp` |
| `OutputValue` | `output_value::deserialize` | operators |
| `ScheduleFile` | `schedule::create_from_file` with the GPIO lines its outputs request, then the new dates the handler gives | one step per array element; a file is an entry of `Files`; `stage` is the place in the function |
| `Controller` | main, signals, the event, batch, view and server threads and their mutexes | `main`, `event`, `batch`, `view`, `listen` are the places of the threads; `lock` the mutexes |
| `MqttClients` | `mqtt`: clients, map, io thread, stop | `Before` is `mqtt_address_cmp`; `Found` and `Insertable` are what libstdc++'s tree does with it |
| `MC*` | instances for TLC | values of the constants; `MCScheduleFile` builds the files |
| `*Proofs` | theorems | see section 5 |

How the modules compose: `TransitionedOutput` extends `ValueTransitioner` and runs its actions together with
its own; that this implements `ValueTransitioner` is a theorem (`OutputImplements`). `SchedulePanel` extends
`ScheduleHandler`: the thread, the clock and the lists are the same actions, and the batch of a round now reaches
outputs that have an override. `ScheduleHandler` takes a batch for one step; `OutputScheduler` shows by refinement of
`BatchControl` that its caller may, and `ScanIsBatch` that this step is one of `BatchControl`. `MainView` extends `RingBuffer` and refines `BoundedHistory`;
`GpioOutput` refines `OverridableOutput`. `ScheduleFile` uses `OutputValue`; what it
loads is what `ScheduleHandler` may be given (`HandedIsTaken`, `DatesAgree`). `Controller` keeps of
every part only which mutexes it takes and when it ends, so that all threads fit in one model.

Choices a reader should know:

* `std::remove_if` leaves moved-from elements behind, and the handler then erases one element only.
  `RemoveIf`, `Removed` and `Left` say what libstdc++ does; a schedule that was moved from has no
  title and no events.
* The lock of the handler is modelled where it matters: `AddScheduleInsert` waits while the thread scans.
* In `TransitionedOutput` the kind of the output is chosen in the initial state: CAN with either transition, MQTT with the instant one.
* In `RemoteFunction` `up` says whether network and host are in order; while they are not, a request may be refused, lost, or
  answered too late, and then still take effect.
* Words, titles and ids are model values or short strings. A toggle is modelled by what it does to a line.
* `linear_transition` computes its step in an `unsigned int` and the distance in an `int32_t`; `StepBound` stands for 2^32. A distance
  that wraps around comes out too small, so the step goes to the target at once.
* The slider computes in `float`: every conversion, product and sum is rounded to the nearest float, of two to the even one, and the product
  may stay unrounded where the compiler contracts it with the sum. `Mantissa` stands for 2^24, `Ulps` for what the last bit of a float may be
  worth; all floats are counted in a common unit, `Unit` of which make one. Infinities do not occur. The conversion of a float beyond
  an `int` is undefined: it gives the smallest `int` or the nearest.
* A frame carries one byte; `FrameSize` stands for 256.
* Midnight between two readings gives the minutes of the old day, -1, or a whole day, as the evaluation
  order of the subtraction is unspecified.
* An uninitialised `std::array` in the ring buffer is any array of pages.
* Definitions called "Mutant of ..." are not used by any specification: each is a plausible slip in the code, with
  which the property it is paired with in PROJECT.json fails.

## 3. The runs

State counts are distinct states with the values given; the passing runs explore all of them.

| run | constants | states | question and answer |
|---|---|---|---|
| `batch` | 3 outputs, 4 ids (one not registered), at most 3 ids in a call | 6064 | May a batch be reduced to one control per output, and are failures attributed correctly? Yes, for absolute values; and a batch is one step for its caller. |
| `schedule_timely` | a day of 3 minutes, 5 days, 4 ticks a minute, midnight readings, three ways to date a file, one output that breaks | 213126 | Does a handler that gets its ticks run each event once, in its minute, and keep its lists in order, whatever an output does? Yes, but for events of the output that fails. |
| `schedule_panel` | a day of 2 minutes, 2 days, ticks may be late, one output that breaks and is taken over by the user | 41616 | With failures, late ticks and a user: does an output that is given back show what the schedule wants, do retries get through, do repeating schedules come back? Yes, for schedules of one day whose events control one output each. |
| `schedule_retry` | as before without the user, but an event on two outputs | 1935 to the error | Do outputs follow the schedule in general? **No**, see section 6. |
| `gpio` | every value an event may give, one of an unknown type included | 1032 | Does the panel agree with the pin, does the pin keep the promise of an output, does a refused control get through? Yes. |
| `main_view` | 7 pages, a buffer of 4 instead of 20 | 7041 | Does the history match the screen, does Back move, is the ring a bounded history? Yes. |
| `transitioned_output` | CAN and MQTT, both transitions, targets of three types, velocity 3, an int of 8 values, frames of 2 values | 118066 | Is a wake-up lost, does a settled output have the value of the schedule, was that value sent, is a target passed, does the destructor return? Only the destructor's notification can be overtaken. |
| `loading` | 2 outputs, 2 actions, 3 event names, words of 16 values, 2 lines, 7 days; 2967 files | 40959 | Whatever the file: do lines have one owner, do values fit, events stay in order and inside the run, does the period stay? Yes, with the exceptions the properties name. |
| `controller` | at most 2 controls in a batch | 4144 | Is there a circular wait, a thread left behind, a lost request, a shutdown that hangs? Only the circle of `close_view`. |
| `controller_shutdown` | 1 control | 3426 | Does the shutdown always complete? **No**, see section 6. |
| `mqtt` | 2 names, 2 ports, 3 outputs | 4612 | Do outputs share clients as they share brokers, when is one refused, is there one thread, does stopping return? Section 6 has the price. |
| `remote` | 2 URLs, 3 ranges, 2 numbers, an int of 16 values, floats with a mantissa of up to 4, a slider of 4 positions, 1 late request | 109594 | Does the host show what was acknowledged, do values stay in range, when is a URL taken apart as it is written, does a control get through once the host is in order? Yes, with the exceptions the properties name. |

`schedule_timely` is where `ListedOnce` and `NeverDropped` are checked; they hold for **one** schedule,
which is all the program ever adds (see section 6). The pump may break and be repaired at any time: `Reliable` names the
events it does not touch, which are those `AtMostOncePerRun` promises to run once.

### Why the bounds are enough

* `MaxBatch = 3`: an overlap of actions needs two, a failure between two others three. One action names
  an output twice.
* A day of 3 minutes has a first, a middle and a last one: an event at midnight, one at the last minute, one in
  between. The clock passes through five days: a run of two days, its expiry, a second run. 2 minutes and two days suffice
  where expiry of a one-day schedule is the point. `TicksPerMinute = 4` lets the thread finish everything that
  activation and events of one minute need; 0 means the clock may move at any time, so ticks may be late or
  skip a minute.
* `Capacity = 4`: empty, one, full, wrapped; the operations only compare positions. The proofs are for every capacity.
* The transition needs steps that wrap, a distance that wraps and a step longer than the distance: `StepBound = 8` with velocity 3 and up to 3
  periods gives the steps 0, 3, 6 and 1, and the targets -3 and 2 lie 5 apart, more than half the bound. A CAN output starts at 0, between them,
  whatever number its default is.
* `Breakable` and `Operated` are one output of two: the second one, with the last event, shows that the first one's trouble
  stays its own.
* `MaxInt = 7` with the ranges 1 to 3, -1 to 2 and 0 to 7: one on either side of zero, a default outside its own range, and one whose upper end is
  more than floats with `Mantissa = 4` can count to, so that the sum is rounded up to 8, beyond an `int`. Four
  positions are both ends of the slider and two fractions that are no floats. `MaxLate = 1`: one late request is enough to overtake. `SplitsAsWritten` takes hosts
  with and without the tokens a URL is divided at, and all paths of up to two tokens that are a number, a colon or a slash; the theorem takes any.
* `FrameSize = 2` makes two values share a frame, as 1 and 257 do.
* `WordSize = 16` puts the bounds of a type within reach of the values in the files. The files vary, one dimension at a time,
  types of values, malformed entries, ranges the wrong way round, and all combinations of dates, periods and events.
* `LastDay = 6` lets a schedule expire and begin again with a period of up to 4; a period of 12 runs past the end.
* In `MqttClients` at most two brokers are in the map - `Insert` stops at a third. Two suffice for a crossing
  pair, and libstdc++ never rotates a tree of two nodes.
* In `Controller` a batch is nothing but a number of controls; two let the panel come in between.

### Stuttering at the end

No run switches deadlock checking off. Where the program ends, an action without effect says so (`Over`, `Ended`,
`Stopped`), with the states in which it may as its guard.

## 4. Fairness

* Threads are scheduled: WF of the event thread, the job, the io thread, the transition thread's test,
  step and timeout, and a call that an output is in the middle of. A wake-up that nobody asked for is not fair: it may never come.
  No fairness is given to the user, to the device, to signals, or to starting a batch.
* Mutexes: `AddScheduleInsert` and the threads of `Controller` have SF. A `std::mutex` does not promise it, but the holders sleep
  without the lock - the event thread one second in each tick, the view thread what is left of 15 ms, main in `pause()` - so one who
  waits gets it. The mutex of the outputs is taken anew for every control, between which the waiting thread is runnable.
* The clock: SF of `PassMinute`, as it is only held up by ticks the thread is granted.
* A transition step that may move the value will (SF of a step with `current' # current`): `linear_transition` returns
  `value_did_not_change` until a period has passed, and time adds up.
* `GpioOutput` (`FairPinSpec`): WF of the retry, which every tick makes while the event is not marked, and of the callback's second half.
* `RemoteFunction`: WF of the call and of a host that has a request, SF of the retry: the schedule's thread competes with the
  panel for the mutex of the outputs and sleeps between its attempts, so it is not locked out, but it may have to wait.
* The runs without liveness properties (`batch`, `schedule_timely`, `schedule_retry`, `main_view`, `loading`) state no fairness.
* Under `<>[](broken = {})` and `<>[]up`, the properties speak about devices that answer from some time on.

## 5. What is proved

TLAPS proves the following for every value of the constants that satisfies the named assumptions of the modules.

* **`OutputSchedulerProofs`**: `TypeCorrect`, `AcknowledgedTookEffectHolds`, `AtomicForTheCallerHolds`, `OptimizedAsInTurnHolds`, for any actions and
  any number of ids in a call. The inductive invariant is `JobInv`: while the job runs, the output of a control that is left still shows what it showed at the
  beginning, and so does one that nobody named; the output of a control of the optimised list that is not left any more shows what the control asks for, or
  has refused it and is as it was. At the end none is left, and as the optimised list has the last control of every output, once, the second theorem
  follows (`JobResult`). For
  the refinement of `BatchControl` the level an observer sees while the batch is under way is the one at its beginning. `OptimizedAsInTurnHolds`
  assumes `AbsoluteValues`, no action toggles: `CarriedOut` and `InTurn` are recursive functions, of which `CarriedOutIs` and `InTurnIs` say what
  they compute for any list (the solution is given and shown to be the only one, by a least position at which two would differ).
* **`ScheduleHandlerProofs`**: the handler alone, for any files, dates and lengths of a day, and the handler with the panels.
  * `TypeCorrect`, `NoEarlyEventHolds`. An active list is a sequence of *punctual* schedules, whose marks are all of events whose moment has come. That
    alone is not inductive: while the thread scans it uses the clock it read earlier. `EarlyInv` therefore adds that the day read is not later than the
    clock's, and that minutes ahead of the clock were read at a midnight. The lemmas about `RemoveIf`, `Removed` and `Left` hold for any list and any set to remove.
  * `ListedOnceHolds`, `NeverDroppedHolds`, under `OneTitle`: main loads one schedule file. `SingleInv` counts both lists and what `add_schedule` is about to
    insert: one schedule at most in all. `MoveCases` follows it through `remove_if`, `erase` and the activation of a tick. With two titles both properties fail, because of the `erase` of one element (section 6).
  * `AtMostOncePerRunHolds`, under `OneTitle`, of every event whose outputs cannot fail, beside any that do. `RunInv`: what an active schedule has executed belongs to its
    run and is marked, or to an earlier run; a schedule that waits after a run is past its end, so that it is begun anew before it becomes active; and dates are in order.
  * `NoMissedEventHolds`, under the same and with at least four ticks a minute and files of at least one day; an event that failed was not missed. `TickInv` counts the ticks since the clock moved: the first may still use
    the reading of before, the second has moved what expired, the third has activated what waited, the fourth has scanned the events of what is active.
  * `ScanIsBatchHolds` closes the gap between `ScheduleHandler`, in which a round of the scan is one step over the events of a file, and
    `BatchControl`, which is about ids in a list: the due events, enumerated in their order, are a batch (`Enumerated`) that leaves what the round leaves
    and reports the events whose marks the round takes back (`BatchOfEvents`). With `AtomicForTheCallerHolds` the step of
    the handler rests on the job that reduces, controls and reports.
  * `PanelNoEarlyEventHolds`, `PanelListedOnceHolds`, `PanelNeverDroppedHolds`, `PanelAtMostOncePerRunHolds`, `PanelNoMissedEventHolds`: what is proved of the
    handler alone holds beside a user who takes outputs over and gives them back, from the same invariants, as no gesture touches a list.
  * `PanelTypeCorrect`, `ReleasedFollowsScheduleHolds`, under `OneTitle`, `OneOutputEach` (an event controls one output), `InTurnOnOutputs` (the events of an output
    are in the order of their days and also of their times) and `NoToggles`. Failures, late ticks, midnights and the user are not restricted. `PanelInv` adds what the property does
    not say: an output that nobody holds and that answered last shows what was asked of it; of its events the marked ones are the first ones; and
    once all that were executed are marked, what was asked is what the last of them asks for. Without the second and third hypothesis section 6 has the counterexamples.
* **`GuiProofs`**, about the two modules of the panels, which share no state (the names of `GpioOutput` begin with `Pin` where both have them).
  * The pin: `PinTypeCorrect`, `PanelAgreesHolds` (the invariant also says what the box and the switch are between the two calls of the
    callback), and `KeepsPromiseHolds`, the refinement of `OverridableOutput`.
  * The view: `TypeCorrect`, `ShownIsRememberedHolds`, `BackMovesHolds`, `KeepsHistoryHolds`. The invariant `Consistent` ties the three
    positions of the ring: `end` is `start + number - 1` modulo the capacity. `PutContents` and `RemoveContents` say
    what the operations do to the contents, and the refinement of `BoundedHistory` follows. `BackMovesHolds` adds that in the history no page follows itself
    (`Alternating`), which a step of the ring keeps because `switch_page` compares with the last element.
* **`ScheduleFileProofs`**: `TypeCorrect`, `PinsOwnedHolds`, `ActionsFitHolds`, `EventsInOrderHolds`, `EventsFitRunHolds`, `PeriodKeepsHolds`, for any
  set of files and any word size. `FilesAssumption` says only what the JSON parser and the tests of the code at each element leave: an array is an array, a number a number.
  * `TypeCorrect` rests on `DeserializeType`: whatever the description, `deserialize` yields nothing or a value of the type that was asked for, save for words kept as
    a string and for descriptions by an object, which name a type of their own.
  * `ActionsFitHolds`, from `FitInv`: each element of the array has become one action, so that an action and the description of its values keep their places, and no output is
    replaced once actions are read.
    `AttachedIs` says what the loop over outputs and values leaves, `SingleType` that a value which was found carries the type of its output.
  * The three about events, from `EventsAt`: after `next - 1` insertions the schedule has exactly the first `next - 1` events of the file, sorted; the period is enough
    for all of them at any time; what is loaded is valid, and what the handler took has dates that fit. `RecalculatedIs` says what the setters of the dates do with the period for a list of any length, for which a list of events has
    a greatest day (`GreatestInList`); `InsertionIs` what `std::sort` may leave, with events of the same moment in any order.
    `PeriodKeepsHolds` follows: a period that is enough already is not raised by new dates.
  * `HandedIsTakenHolds` and `DatesAgreeHolds` tie loading to the handler, through the definitions of `ScheduleHandler` about one schedule (`Handler!`):
    what was loaded as valid is a schedule the handler may be given, its own `Valid` agrees, and the setters, which recalculate the period each time, do to the dates what
    its `Dated` and `Activated` say. `FromEpoch` is assumed: dates, days and times in the file are not negative and days fit the word. Neither
    `deserialize` nor the setters check that. A date before 1970 is a day like any other to the code, but `ScheduleHandler` has its value
    `NoDay` for a date that is absent, so that for such files the modules would not speak of the same schedule; all other theorems about
    loading do without it.
* **`TransitionedOutputProofs`**: `TypeCorrect` and `ParkedAtTargetHolds` for the transitioner alone, with any transition that satisfies
  `TransitionAssumption` (a step that reports the end has reached the target; TLC evaluates it for the two transitions of the code).
  `OutputImplements`: each step of an output is one of the transitioner's or leaves it alone, so `OutputParked` needs no proof of its own.
  `OutputTypeCorrect`; `SettledAtControlHolds`, from the invariant that without an override the target is the controlled value;
  `LastFrameCurrentHolds`, whose invariant `FrameFollows` says that any frame is that of the
  current value unless it failed or was overtaken, and that a thread that sleeps has tried to send. `NoOvershootHolds`: a step of any length ends
  between the value and the target (`StepToBetween`), so that one that has wrapped around does no harm. All for any values, velocity, width of an int and frame size.
* **`RemoteFunctionProofs`**: `TypeCorrect`; `AcknowledgedIsShownHolds`, from `SentInv`: only the call that waits has a request under way, the request carries the
  value in force, and a positive answer means that the host was told it. `InRangeHolds`, from `RangeInv`, which follows
  a value from the slider through the override to the check box; `SliderInRange` is the arithmetic, for floats of any precision, any manageable range and number of positions.
  It rests on `RoundedKeeps`, that rounding never leads past a float: both ends of the range are floats, and so is the most the slider may add.
  `SplitsAsWrittenHolds`, for hosts and paths of any tokens and length: `Pieces`, `LastIs` and `AfterIs` say where a token was found last in a URL put together from
  parts, `CutWhereWritten` what is before and behind it, and the four cases (a port, a port too big, none, a scheme) follow one by one; `ColonInPath` is
  the case in which the URL is taken apart in the wrong place.
* **`ControllerProofs`**: `TypeCorrect`, `NoThreadLeftBehindHolds`, `NoCircularWaitHolds`. `Owners` ties every mutex to the place of its holder and
  `Phases` the places of the threads to that of main; the wait-for relation then has no circle but the one the property names.
* **`MqttClientsProofs`**: `TypeCorrect`, `ClientPerBrokerHolds`, `RefusedOnlyCrossedHolds`, `OneThreadHolds`, for any names and ports. The argument
  is that a tree of two nodes always finds its root, whatever hangs below it, and finds its child unless that is on the
  left and crosses the root (`RootIsFound`, `RefusedCrosses`).

The type invariants are theorems and take no part in the runs.

**Only model-checked** are the liveness properties, as fairness and ENABLED are beyond the prover: `EventuallyProcessed` and
`RepeatingComesBack` of the schedule, `RetryGetsThrough` of the GPIO output, `TargetIsSent` and `DestructorReturns` of the transitioner, `RequestHeeded` and `ShutsDown` of the program,
`StopReturns` of the MQTT clients and `RetryIsTaken` of remote functions. Every invariant and action property of a
passing run is a theorem. **Not proved** are those of the two runs with a counterexample.

## 6. What the models show about the code

Two runs end in a counterexample.

* **`schedule_retry`** (`schedule_handler.cpp:146`). An event that failed on one of its outputs loses its mark and is
  executed again *as a whole*. If a later event was carried out meanwhile, the earlier value overwrites it on an output both name: the
  light that was switched off goes on again and stays on until the next event. The comment at line 123 says that actions are in order because
  the events are. `schedule_panel` shows that the order is kept with one output per event in a schedule of one day. It is not in
  a schedule of several days: a failed event is retried at its time of day on the next day, after that day's earlier events, and
  undoes them.
* **`controller_shutdown`** (`main_view.cpp:41`). `close_view` holds the lock of `singleton<main_view>` while it joins the view
  thread, and a button of that view asks for the same lock: a touch at that moment hangs the program for good. `NoCircularWait` says
  that this is the only circle.

Behaviour that is modelled as it is and that a maintainer may want to know:

* The reduced list of a batch is never reversed back (`output_scheduler.cpp:64`): different outputs are controlled in the opposite
  order of the actions. `OptimizedAsInTurn` says it makes no difference to what they show. A toggle that is skipped is a toggle less.
* A retried or restored toggle on a GPIO flips the line once more; `OverridableOutput` allows it.
* An event that was missed - the program started late - is carried out when its *time of day* comes, on the same or any later day of the run.
* `erase` after `remove_if` takes one element (`schedule_handler.cpp:185`): with two schedules that change lists in one tick,
  one would stay behind as an untitled duplicate. The program only ever adds one.
* The ring buffer that was emptied and used again does not move its end for the first element (`ring_buffer.h:40`); the view never empties it.
* The conditional at `can_output.cpp:32` is the wrong way round: a description without a default throws, one with a default starts at 0.
* The range of an unsigned value sets its lower end twice; an action whose value was refused is added all the same, with 0.
* A schedule with an end and no start makes `operator bool` throw.
* A control of an output that the user holds counts as done: its event is marked, and the value shows when the output is given
  back (`ReleasedFollowsSchedule`). If the device does not answer then, nothing tries again before the next event.
* Override and restore ignore their results (`single_output_view_controller.cpp`), and a frame or message the transition thread failed
  to send is never repeated, although the event that caused it counts as done.
* The caller of a CAN or MQTT output reads the current value and sends it later; if the thread's last step comes between, the older
  value is the last on the bus (`stale`).
* A velocity of 0 never reaches its target; the transition goes on for ever.
* `mqtt_output::control_output` dereferences the string of a value of any type (`Crash`).
* The last colon of a URL is taken for that of the port (`remote_function.cpp:84`), also one in the path: `plug:80/a:8/x` goes to the host
  `plug:80/a`. Nothing in the repository says what a URL may look like; `SplitsAsWritten` says that these are exactly the ones that go wrong.
* Of a URL without a port and with two slashes in its path the last part alone is the function, the rest is taken for the host;
  a URL with `http://` is refused at each call (`SplitsAsWritten`).
* The slider subtracts the *size* of the lower end of a range: if that is larger than the upper end, it goes below the range. It computes in floats,
  so that with an upper end beyond 2^24 it may go above: of the range 0 to 33554435 position 100 gives 33554436. `InRange` excludes both (`Manageable`).
* A control from the schedule replaces the value together with its range. The bounds of the slider are then those of an `int`, less one at each end,
  whose difference of sizes is -1: wherever the user moves it, the slider gives the smallest `int`.
* A default is never compared with the range of its description.
* A second output on a GPIO line that is in use is refused, and the wrapper that is destroyed on the way releases the line of the first
  output, which is still in the list (`gpio_pin.cpp:66`); the file is then refused as a whole, which is why `PinsOwned` holds.
* The destructor of the transitioner notifies without the mutex and may be overtaken; `DestructorReturns` excludes just that.
* Of two MQTT brokers where one has the smaller address and the other the smaller port, the second one is found only while it is on
  the right of the map: naming it twice refuses the file. A second broker opened before the io thread has set its flag terminates the program.
* A signal between the test of the flag and `pause()` waits for the next one.
* A server that begins to listen later than a second after its start is never stopped.

## 7. What is not modelled

* `gui/view.cpp`: in the tree, not compiled. lvgl drivers, configuration, logging: pure I/O. AWS IoT: a stub. Inputs: interfaces
  only. Of `gpio_chip` and its wrapper of libgpiod only what loading asks for: inversion and the search for devices are not, and
  `open_pin` and `free_gpiochip` have no caller.
* `m_container[6]` (`main_view.h:60`) has no room for the seventh page; with libstdc++ the write lands in padding. The model has a container for every page.
* A clock that is set back: the comment in the source names it as unsupported.
* A period of 0 in a transition (division by zero); days beyond 32 bits.
* The socket of a CAN device, opened by `can::instance`; the queue of the MQTT client behind `publish`; serialisation; layout of the panels.
* The mutex of the outputs between the two calls of a check box in `SchedulePanel`: there a gesture is one step; `GpioOutput` and `RemoteFunction`
  have the two calls.
* What running threads do after main returned on its failure path: the lists they use are destroyed, which is undefined.
* The lifetime of `m_can_instance`, destroyed before the thread that uses it is joined: a send during destruction succeeds or fails.
* `quarium_controller.cpp:109` dereferences an optional before the test; the server it holds is always valid, so it always has a value.

## 8. Plan

Done, in this order: batches, schedule handler, GPIO output and panel, main view, transitioner with CAN and MQTT outputs, loading
with GPIO lines, program and locks, MQTT clients, remote functions, the schedule together with the panel; proofs beside each; the batch and the loading tied to the handler.

Next:

1. The queue of the MQTT client between `publish` and the io thread.

## 9. Running it

    tlc -workers 2 -config ScheduleTimely.cfg MCScheduleHandler.tla
    tlapm ScheduleHandlerProofs.tla

PROJECT.json names the module and the configuration of every run, the source lines each definition
models, the mutants, and the theorems.
