----------------------------- MODULE Controller -----------------------------
(***************************************************************************)
(* The program as a whole: main starts the schedule handler, the view and  *)
(* the HTTP server, waits in pause() for a signal, and takes them down     *)
(* again in that order.  Four threads besides main - the event thread, the *)
(* thread of a batch of controls, the view thread and the server's         *)
(* listener - meet main and each other at four mutexes and at the joins.   *)
(*                                                                         *)
(* What the threads compute is the business of the modules ScheduleHandler,*)
(* OutputScheduler and MainView; here a thread is where it waits and what  *)
(* it holds.  A critical section in which a thread waits for nothing and   *)
(* that nobody can observe is one step.                                    *)
(***************************************************************************)
EXTENDS Naturals

CONSTANT
  MaxControls   \* bound on the outputs a batch controls

ASSUME ControlsAssumption == MaxControls \in Nat

\* singleton<schedule_handler>, singleton<main_view>, the mutex of the
\* actions and that of the list of outputs.
Mutexes == {"handler", "view", "actions", "outputs"}
Threads == {"main", "event", "batch", "view", "listen"}
Nobody == "nobody"

VARIABLES
  lock,        \* lock[m]: the thread that holds the mutex m, or Nobody
  main,        \* what main does next
  result,      \* "none", or what main is going to return
  exit,        \* _should_exit
  missed,      \* history: the last signal came between the test and pause()
  event,       \* the event thread
  handlerExit, \* its m_should_exit
  batch,       \* the thread of std::async
  left,        \* the controls it has left
  view,        \* the view thread
  viewExit,    \* its m_should_exit
  listen,      \* the listening thread of the server
  bound,       \* whether the server got its port
  closed       \* whether its socket was closed by stop

signalVars == <<exit, missed>>
eventVars == <<event, handlerExit>>
batchVars == <<batch, left>>
viewVars == <<view, viewExit>>
serverVars == <<listen, bound, closed>>
vars == <<lock, main, result, signalVars, eventVars, batchVars, viewVars, serverVars>>

-----------------------------------------------------------------------------
(* Mutexes.                                                                *)

\* Mutant of Wanted: the job looks the actions up again.
WantedWithActions(t) ==
  CASE t = "main"  -> (IF main \in {"adding", "stopping_handler"} THEN {"handler"} ELSE {})
                        \cup (IF main \in {"opening", "closing"} THEN {"view"} ELSE {})
    [] t = "event" -> IF event \in {"entering", "locking"} THEN {"handler"} ELSE {}
    [] t = "batch" -> IF batch = "ready" THEN {"outputs", "actions"} ELSE {}
    [] t = "view"  -> (IF view \in {"entering", "navigating"} THEN {"view"} ELSE {})
                        \cup (IF view \in {"creating", "reading", "panel"} THEN {"outputs"} ELSE {})
    [] OTHER       -> {}

\* The mutexes a thread has to lock where it is.
Wanted(t) ==
  CASE t = "main"  -> (IF main \in {"adding", "stopping_handler"} THEN {"handler"} ELSE {})
                        \cup (IF main \in {"opening", "closing"} THEN {"view"} ELSE {})
    [] t = "event" -> IF event \in {"entering", "locking"} THEN {"handler"} ELSE {}
    [] t = "batch" -> IF batch = "ready" THEN {"outputs"} ELSE {}
    [] t = "view"  -> (IF view \in {"entering", "navigating"} THEN {"view"} ELSE {})
                        \cup (IF view \in {"creating", "reading", "panel"} THEN {"outputs"} ELSE {})
    [] OTHER       -> {}

Free(t) == \A m \in Wanted(t) : lock[m] = Nobody
Take(t, m) == lock' = [lock EXCEPT ![m] = t]
Release(m) == lock' = [lock EXCEPT ![m] = Nobody]

-----------------------------------------------------------------------------
(* main.                                                                   *)

\* From the command line to the schedule file: every failure returns before a
\* thread of the program was started.
Load ==
  /\ main = "loading"
  /\ \/ main' = "starting" /\ UNCHANGED result
     \/ main' = "ended" /\ result' = "failure"
  /\ UNCHANGED <<lock, signalVars, eventVars, batchVars, viewVars, serverVars>>

StartHandler ==
  /\ main = "starting"
  /\ event' = "entering"
  /\ main' = "adding"
  /\ UNCHANGED <<lock, result, signalVars, handlerExit, batchVars, viewVars, serverVars>>

AddSchedule ==
  /\ main = "adding" /\ Free("main")
  /\ main' = "opening"
  /\ UNCHANGED <<lock, result, signalVars, eventVars, batchVars, viewVars, serverVars>>

OpenView ==
  /\ main = "opening" /\ Free("main")
  /\ view' = "entering"
  /\ main' = "listening"
  /\ UNCHANGED <<lock, result, signalVars, eventVars, batchVars, viewExit, serverVars>>

\* create_on_port and start up to its second of sleep.  A port that is in use
\* is noticed by the thread only.
StartServer ==
  /\ main = "listening"
  /\ bound' \in BOOLEAN
  /\ listen' = "starting"
  /\ main' = "confirming"
  /\ UNCHANGED <<lock, result, signalVars, eventVars, batchVars, viewVars, closed>>

\* The second is over.  If the server does not run - not yet, or not any more
\* - main returns, and the destructor of network_interface stops it.
ConfirmServer ==
  /\ main = "confirming"
  /\ IF listen = "running"
     THEN main' = "testing" /\ UNCHANGED result
     ELSE main' = "stopping_server" /\ result' = "failure"
  /\ UNCHANGED <<lock, signalVars, eventVars, batchVars, viewVars, serverVars>>

TestExit ==
  /\ main = "testing"
  /\ main' = IF exit THEN "stopping_handler" ELSE "tested"
  /\ UNCHANGED <<lock, result, signalVars, eventVars, batchVars, viewVars, serverVars>>

Pause ==
  /\ main = "tested"
  /\ main' = "paused"
  /\ UNCHANGED <<lock, result, signalVars, eventVars, batchVars, viewVars, serverVars>>

\* Mutant of Signal: a thread other than main takes the signal.
SignalElsewhere ==
  /\ main # "ended"
  /\ exit' = TRUE
  /\ missed' = (main = "tested")
  /\ UNCHANGED <<lock, main, result, eventVars, batchVars, viewVars, serverVars>>

\* SIGINT or SIGTERM.  The event, batch and view threads block them, and of the
\* others the kernel prefers main.
Signal ==
  /\ main # "ended"
  /\ exit' = TRUE
  /\ missed' = (main = "tested")
  /\ main' = IF main = "paused" THEN "testing" ELSE main
  /\ UNCHANGED <<lock, result, eventVars, batchVars, viewVars, serverVars>>

\* Mutant of StopHandler: stop_event_handler holds the lock of the singleton,
\* as its counterpart of the view does.
StopHandlerLocked ==
  /\ main = "stopping_handler" /\ Free("main")
  /\ Take("main", "handler")
  /\ handlerExit' = TRUE
  /\ main' = "joining_handler"
  /\ UNCHANGED <<result, signalVars, event, batchVars, viewVars, serverVars>>

\* schedule_handler::instance takes the lock, stop_event_handler does not.
StopHandler ==
  /\ main = "stopping_handler" /\ Free("main")
  /\ handlerExit' = TRUE
  /\ main' = "joining_handler"
  /\ UNCHANGED <<lock, result, signalVars, event, batchVars, viewVars, serverVars>>

\* Mutant of JoinHandler: the thread is detached.
DetachHandler ==
  /\ main = "joining_handler"
  /\ main' = "closing"
  /\ UNCHANGED <<lock, result, signalVars, eventVars, batchVars, viewVars, serverVars>>

JoinHandler ==
  /\ main = "joining_handler" /\ event = "exited"
  /\ main' = "closing"
  /\ UNCHANGED <<lock, result, signalVars, eventVars, batchVars, viewVars, serverVars>>

\* close_view joins under the lock of the singleton.
CloseView ==
  /\ main = "closing" /\ Free("main")
  /\ Take("main", "view")
  /\ viewExit' = TRUE
  /\ main' = "joining_view"
  /\ UNCHANGED <<result, signalVars, eventVars, batchVars, view, serverVars>>

JoinView ==
  /\ main = "joining_view" /\ view = "exited"
  /\ Release("view")
  /\ main' = "stopping_server" /\ result' = "success"
  /\ UNCHANGED <<signalVars, eventVars, batchVars, viewVars, serverVars>>

\* network_interface::stop; a server that does not run yet is not stopped.
StopServer ==
  /\ main = "stopping_server"
  /\ closed' = (listen = "running")
  /\ main' = "joining_server"
  /\ UNCHANGED <<lock, result, signalVars, eventVars, batchVars, viewVars, listen, bound>>

\* main returns; the process ends, whatever its threads are doing.
JoinServer ==
  /\ main = "joining_server" /\ listen = "exited"
  /\ main' = "ended"
  /\ UNCHANGED <<lock, result, signalVars, eventVars, batchVars, viewVars, serverVars>>

-----------------------------------------------------------------------------
(* The event thread and its batches.                                       *)

EventEnter ==
  /\ event = "entering" /\ Free("event")
  /\ event' = "testing"
  /\ UNCHANGED <<lock, main, result, signalVars, handlerExit, batchVars, viewVars, serverVars>>

EventTest ==
  /\ event = "testing"
  /\ event' = IF handlerExit THEN "exited" ELSE "locking"
  /\ UNCHANGED <<lock, main, result, signalVars, handlerExit, batchVars, viewVars, serverVars>>

BeginTick ==
  /\ event = "locking" /\ Free("event")
  /\ Take("event", "handler")
  /\ event' = "scanning"
  /\ UNCHANGED <<main, result, signalVars, handlerExit, batchVars, viewVars, serverVars>>

\* execute_actions for the schedule main has added: the job starts and the
\* thread waits for it, with both locks.
BeginBatch ==
  /\ event = "scanning" /\ main \notin {"adding", "starting", "loading"}
  /\ lock["actions"] = Nobody
  /\ Take("event", "actions")
  /\ batch' = "ready" /\ left' \in 1 .. MaxControls
  /\ event' = "waiting"
  /\ UNCHANGED <<main, result, signalVars, handlerExit, viewVars, serverVars>>

EndBatch ==
  /\ event = "waiting" /\ batch = "done"
  /\ Release("actions")
  /\ batch' = "none"
  /\ event' = "moving"
  /\ UNCHANGED <<main, result, signalVars, handlerExit, left, viewVars, serverVars>>

\* The end of a tick, with or without a batch, and the lock is released.
EndTick ==
  /\ event \in {"scanning", "moving"}
  /\ Release("handler")
  /\ event' = "sleeping"
  /\ UNCHANGED <<main, result, signalVars, handlerExit, batchVars, viewVars, serverVars>>

EventWake ==
  /\ event = "sleeping"
  /\ event' = "testing"
  /\ UNCHANGED <<lock, main, result, signalVars, handlerExit, batchVars, viewVars, serverVars>>

\* outputs::control_output up to the call of the output.
BeginControl ==
  /\ batch = "ready" /\ Free("batch")
  /\ Take("batch", "outputs")
  /\ batch' = "controlling"
  /\ UNCHANGED <<main, result, signalVars, eventVars, left, viewVars, serverVars>>

\* The output returns: a line was set, a frame written, or a remote host asked,
\* which may take the seconds of a timeout.
EndControl ==
  /\ batch = "controlling"
  /\ Release("outputs")
  /\ left' = left - 1
  /\ batch' = IF left = 1 THEN "done" ELSE "ready"
  /\ UNCHANGED <<main, result, signalVars, eventVars, viewVars, serverVars>>

-----------------------------------------------------------------------------
(* The view thread.                                                        *)

\* main_view::instance at the start of view_loop.
ViewEnter ==
  /\ view = "entering" /\ Free("view")
  /\ view' = "creating"
  /\ UNCHANGED <<lock, main, result, signalVars, eventVars, batchVars, viewExit, serverVars>>

\* create_pages asks for the ids of the outputs.
CreatePages ==
  /\ view = "creating" /\ Free("view")
  /\ view' = "testing"
  /\ UNCHANGED <<lock, main, result, signalVars, eventVars, batchVars, viewExit, serverVars>>

ViewTest ==
  /\ view = "testing"
  /\ view' = IF viewExit THEN "exited" ELSE "handling"
  /\ UNCHANGED <<lock, main, result, signalVars, eventVars, batchVars, viewExit, serverVars>>

\* lv_task_handler, with no callback, with that of a button of the view, which
\* asks for main_view::instance, or with one of the panel of an output.
HandleTasks ==
  /\ view = "handling"
  /\ view' \in {"sleeping", "navigating", "reading", "panel"}
  /\ UNCHANGED <<lock, main, result, signalVars, eventVars, batchVars, viewExit, serverVars>>

Navigate ==
  /\ view = "navigating" /\ Free("view")
  /\ view' = "sleeping"
  /\ UNCHANGED <<lock, main, result, signalVars, eventVars, batchVars, viewExit, serverVars>>

\* outputs::current_state, before the panel overrides.
ReadState ==
  /\ view = "reading" /\ Free("view")
  /\ view' = "panel"
  /\ UNCHANGED <<lock, main, result, signalVars, eventVars, batchVars, viewExit, serverVars>>

\* outputs::override_with or restore_control up to the call of the output.
BeginOverride ==
  /\ view = "panel" /\ Free("view")
  /\ Take("view", "outputs")
  /\ view' = "overriding"
  /\ UNCHANGED <<main, result, signalVars, eventVars, batchVars, viewExit, serverVars>>

EndOverride ==
  /\ view = "overriding"
  /\ Release("outputs")
  /\ view' = "sleeping"
  /\ UNCHANGED <<main, result, signalVars, eventVars, batchVars, viewExit, serverVars>>

ViewWake ==
  /\ view = "sleeping"
  /\ view' = "testing"
  /\ UNCHANGED <<lock, main, result, signalVars, eventVars, batchVars, viewExit, serverVars>>

-----------------------------------------------------------------------------
(* The server, a library: listen_after_bind.                               *)

Listen ==
  /\ \/ listen = "starting" /\ listen' = IF bound THEN "running" ELSE "exited"
     \/ listen = "running" /\ closed /\ listen' = "exited"
  /\ UNCHANGED <<lock, main, result, signalVars, eventVars, batchVars, viewVars, bound, closed>>

-----------------------------------------------------------------------------

Init ==
  /\ lock = [m \in Mutexes |-> Nobody]
  /\ main = "loading" /\ result = "none"
  /\ exit = FALSE /\ missed = FALSE
  /\ event = "none" /\ handlerExit = FALSE
  /\ batch = "none" /\ left = 0
  /\ view = "none" /\ viewExit = FALSE
  /\ listen = "none" /\ bound = FALSE /\ closed = FALSE

Main ==
  \/ Load \/ StartHandler \/ AddSchedule \/ OpenView \/ StartServer \/ ConfirmServer
  \/ TestExit \/ Pause \/ StopHandler \/ JoinHandler \/ CloseView \/ JoinView
  \/ StopServer \/ JoinServer

Event == EventEnter \/ EventTest \/ BeginTick \/ BeginBatch \/ EndBatch \/ EndTick \/ EventWake

Batch == BeginControl \/ EndControl

View ==
  \/ ViewEnter \/ CreatePages \/ ViewTest \/ HandleTasks \/ Navigate
  \/ ReadState \/ BeginOverride \/ EndOverride \/ ViewWake

\* After the end of the process nothing happens.
Ended == main = "ended" /\ UNCHANGED vars

Next ==
  \/ Main
  \/ Signal
  \/ main # "ended" /\ (Event \/ Batch \/ View \/ Listen)
  \/ Ended

Spec == Init /\ [][Next]_vars

\* Every thread goes on, and gets a mutex that is free again and again: the
\* holders sleep without it, the event thread for a second in each tick and
\* the view thread for what is left of 15 milliseconds.
FairSpec ==
  /\ Spec
  /\ SF_vars(Main)
  /\ SF_vars(main # "ended" /\ Event)
  /\ SF_vars(main # "ended" /\ Batch)
  /\ SF_vars(main # "ended" /\ View)
  /\ WF_vars(main # "ended" /\ Listen)

-----------------------------------------------------------------------------

\* The variables keep to their types.
TypeOK ==
  /\ lock \in [Mutexes -> Threads \cup {Nobody}]
  /\ main \in {"loading", "starting", "adding", "opening", "listening", "confirming", "testing",
               "tested", "paused", "stopping_handler", "joining_handler", "closing",
               "joining_view", "stopping_server", "joining_server", "ended"}
  /\ result \in {"none", "failure", "success"}
  /\ event \in {"none", "entering", "testing", "locking", "scanning", "waiting", "moving",
                "sleeping", "exited"}
  /\ batch \in {"none", "ready", "controlling", "done"} /\ left \in 0 .. MaxControls
  /\ view \in {"none", "entering", "creating", "testing", "handling", "navigating", "reading",
               "panel", "overriding", "sleeping", "exited"}
  /\ listen \in {"none", "starting", "running", "exited"}
  /\ exit \in BOOLEAN /\ missed \in BOOLEAN
  /\ handlerExit \in BOOLEAN /\ viewExit \in BOOLEAN
  /\ bound \in BOOLEAN /\ closed \in BOOLEAN

\* When main returns, the server's thread is gone; and when it returns success
\* so are the event thread, its batch and the view thread: no output is being
\* controlled while the process takes its lists of outputs and actions down.
NoThreadLeftBehind ==
  main = "ended" =>
    /\ listen \in {"none", "exited"}
    /\ result = "success" => event = "exited" /\ batch = "none" /\ view = "exited"

\* t cannot go on before u does something.
WaitsFor(t, u) ==
  \/ \E m \in Wanted(t) : lock[m] = u
  \/ t = "main" /\ u = "event" /\ main = "joining_handler" /\ event # "exited"
  \/ t = "main" /\ u = "view" /\ main = "joining_view" /\ view # "exited"
  \/ t = "main" /\ u = "listen" /\ main = "joining_server" /\ listen # "exited"
  \/ t = "event" /\ u = "batch" /\ event = "waiting" /\ batch # "done"

\* Threads never wait for each other in a circle - although the event thread
\* keeps two mutexes while it waits for a thread that needs a third, which the
\* panel uses too - but for one circle: main, which joins the view thread with
\* the mutex that a button of the view asks for.
NoCircularWait ==
  \A S \in (SUBSET Threads) \ {{}} :
    \/ \E t \in S : \A u \in S : ~WaitsFor(t, u)
    \/ main = "joining_view" /\ view \in {"entering", "navigating"} /\ {"main", "view"} \subseteq S

\* A request to stop reaches main wherever it is, unless the last signal came
\* between its test of the flag and pause(): main leaves the loop, or it never
\* got there.
RequestHeeded ==
  (exit /\ ~missed) ~> (main \in {"stopping_handler", "joining_handler", "closing", "joining_view",
                                  "stopping_server", "joining_server", "ended"})

\* The shutdown of handler, view and server comes to its end, unless the view
\* thread asks for the mutex that close_view keeps.
ShutsDown ==
  (main = "stopping_handler")
    ~> (main = "ended" \/ (main = "joining_view" /\ view \in {"entering", "navigating"}))

\* src/src/quarium_controller.cpp:132 "Shutting down server, schedule handler
\* and gui": once main has begun, it shuts all three down.
ShutdownCompletes == (main = "stopping_handler") ~> (main = "ended")

=============================================================================
