-------------------------- MODULE ControllerProofs --------------------------
(***************************************************************************)
(* Proofs about Controller.  What the mutexes and the joins are worth is   *)
(* said by Owners, which ties every mutex to the place of the thread that  *)
(* holds it, and by Phases, which ties the places of the threads to that   *)
(* of main; with the types they are inductive.                             *)
(***************************************************************************)
EXTENDS Controller, TLAPS

\* Who holds what, and where the holder is.
Owners ==
  /\ lock["handler"] = IF event \in {"scanning", "waiting", "moving"} THEN "event" ELSE Nobody
  /\ lock["actions"] = IF event = "waiting" THEN "event" ELSE Nobody
  /\ lock["view"] = IF main = "joining_view" THEN "main" ELSE Nobody
  /\ lock["outputs"] = IF batch = "controlling" THEN "batch"
                       ELSE IF view = "overriding" THEN "view" ELSE Nobody
  /\ ~(batch = "controlling" /\ view = "overriding")

\* How far the threads are when main is where it is.
Phases ==
  /\ event = "waiting" <=> batch # "none"
  /\ batch \in {"ready", "controlling"} => left > 0
  /\ main \in {"closing", "joining_view"} \/ result = "success" => event = "exited"
  /\ result = "success" => view = "exited"
  /\ main \in {"loading", "starting"} => event = "none"
  /\ main \in {"loading", "starting", "adding", "opening"} => view = "none"
  /\ main \in {"loading", "starting", "adding", "opening", "listening"} => listen = "none"
  /\ main = "ended" => listen \in {"none", "exited"}
  /\ main \in {"loading", "starting", "adding", "opening", "listening", "confirming", "testing",
               "tested", "paused", "stopping_handler", "joining_handler", "closing",
               "joining_view"} => result = "none"

IInv == TypeOK /\ Owners /\ Phases

LEMMA InitInv == Init => IInv
<1> SUFFICES ASSUME Init PROVE IInv
  OBVIOUS
<1>1. TypeOK
  <2>1. left \in 0 .. MaxControls
    BY ControlsAssumption DEF Init
  <2>2. lock \in [Mutexes -> Threads \cup {Nobody}]
    BY DEF Init
  <2>3. exit \in BOOLEAN /\ missed \in BOOLEAN /\ handlerExit \in BOOLEAN /\ viewExit \in BOOLEAN
          /\ bound \in BOOLEAN /\ closed \in BOOLEAN
    BY DEF Init
  <2> QED
    BY <2>1, <2>2, <2>3 DEF Init, TypeOK
<1>2. Owners
  BY DEF Init, Owners, Mutexes, Nobody
<1>3. Phases
  BY DEF Init, Phases
<1> QED
  BY <1>1, <1>2, <1>3 DEF IInv

USE DEF Mutexes, Threads, Nobody, vars, signalVars, eventVars, batchVars, viewVars, serverVars,
        Take, Release

\* A step of main that is not a signal keeps the invariant.
LEMMA MainInv == IInv /\ Main => IInv'
<1> SUFFICES ASSUME IInv, Main PROVE IInv'
  OBVIOUS
<1> USE ControlsAssumption DEF IInv, TypeOK, Owners, Phases
<1>1. CASE Load
  BY <1>1 DEF Load
<1>2. CASE StartHandler
  BY <1>2 DEF StartHandler
<1>3. CASE AddSchedule
  BY <1>3 DEF AddSchedule
<1>4. CASE OpenView
  BY <1>4 DEF OpenView
<1>5. CASE StartServer
  BY <1>5 DEF StartServer
<1>6. CASE ConfirmServer
  BY <1>6 DEF ConfirmServer
<1>7. CASE TestExit
  BY <1>7 DEF TestExit
<1>8. CASE Pause
  BY <1>8 DEF Pause
<1>9. CASE StopHandler
  BY <1>9 DEF StopHandler
<1>10. CASE JoinHandler
  BY <1>10 DEF JoinHandler
<1>11. CASE CloseView
  BY <1>11 DEF CloseView
<1>12. CASE JoinView
  BY <1>12 DEF JoinView
<1>13. CASE StopServer
  BY <1>13 DEF StopServer
<1>14. CASE JoinServer
  BY <1>14 DEF JoinServer
<1> QED
  BY <1>1, <1>2, <1>3, <1>4, <1>5, <1>6, <1>7, <1>8, <1>9, <1>10, <1>11, <1>12, <1>13, <1>14
  DEF Main

\* So does a step of the event thread or of its batch.
LEMMA EventInv == IInv /\ main # "ended" /\ (Event \/ Batch) => IInv'
<1> SUFFICES ASSUME IInv, main # "ended", Event \/ Batch PROVE IInv'
  OBVIOUS
<1> USE ControlsAssumption DEF IInv, TypeOK, Owners, Phases
<1>1. CASE EventEnter
  BY <1>1 DEF EventEnter
<1>2. CASE EventTest
  BY <1>2 DEF EventTest
<1>3. CASE BeginTick
  BY <1>3 DEF BeginTick
<1>4. CASE BeginBatch
  BY <1>4 DEF BeginBatch
<1>5. CASE EndBatch
  BY <1>5 DEF EndBatch
<1>6. CASE EndTick
  BY <1>6 DEF EndTick
<1>7. CASE EventWake
  BY <1>7 DEF EventWake
<1>8. CASE BeginControl
  <2>1. lock["outputs"] = Nobody
    BY <1>8 DEF BeginControl, Free, Wanted
  <2> QED
    BY <1>8, <2>1 DEF BeginControl
<1>9. CASE EndControl
  BY <1>9 DEF EndControl
<1> QED
  BY <1>1, <1>2, <1>3, <1>4, <1>5, <1>6, <1>7, <1>8, <1>9 DEF Event, Batch

\* And one of the view thread, of the server or of a signal.
LEMMA OthersInv == IInv /\ (Signal \/ (main # "ended" /\ (View \/ Listen))) => IInv'
<1> SUFFICES ASSUME IInv, Signal \/ (main # "ended" /\ (View \/ Listen)) PROVE IInv'
  OBVIOUS
<1> USE ControlsAssumption DEF IInv, TypeOK, Owners, Phases
<1>1. CASE Signal
  BY <1>1 DEF Signal
<1>2. CASE main # "ended" /\ Listen
  BY <1>2 DEF Listen
<1>3. CASE main # "ended" /\ View
  <2>1. CASE BeginOverride
    <3>1. lock["outputs"] = Nobody
      BY <2>1 DEF BeginOverride, Free, Wanted
    <3> QED
      BY <1>3, <2>1, <3>1 DEF BeginOverride
  <2>2. CASE ViewEnter \/ CreatePages \/ ViewTest \/ HandleTasks
    BY <1>3, <2>2 DEF ViewEnter, CreatePages, ViewTest, HandleTasks
  <2>3. CASE Navigate \/ ReadState \/ EndOverride \/ ViewWake
    BY <1>3, <2>3 DEF Navigate, ReadState, EndOverride, ViewWake
  <2> QED
    BY <1>3, <2>1, <2>2, <2>3 DEF View
<1> QED
  BY <1>1, <1>2, <1>3

\* The types, the owners of the mutexes and the phases of the threads hold in
\* every state, for any number of controls in a batch.
THEOREM Invariance == Spec => []IInv
<1>1. IInv /\ [Next]_vars => IInv'
  <2> SUFFICES ASSUME IInv, [Next]_vars PROVE IInv'
    OBVIOUS
  <2>1. CASE UNCHANGED vars
    BY <2>1 DEF IInv, TypeOK, Owners, Phases
  <2> QED
    BY <2>1, MainInv, EventInv, OthersInv DEF Next, Ended
<1> QED
  BY InitInv, <1>1, PTL DEF Spec

\* The variables of Controller keep to their types.
THEOREM TypeCorrect == Spec => []TypeOK
<1>1. IInv => TypeOK
  BY DEF IInv
<1> QED
  BY Invariance, <1>1, PTL

\* main leaves no thread behind, for any number of controls in a batch.
THEOREM NoThreadLeftBehindHolds == Spec => []NoThreadLeftBehind
<1>1. IInv => NoThreadLeftBehind
  BY DEF IInv, TypeOK, Phases, NoThreadLeftBehind
<1> QED
  BY Invariance, <1>1, PTL

\* Nobody waits in a circle but main and the view thread: the listener waits
\* for nobody, the batch only for a view thread that is about to give the
\* outputs back, the event thread only for its batch.
LEMMA NoCircle == IInv => NoCircularWait
<1> SUFFICES ASSUME IInv, NEW S \in (SUBSET Threads) \ {{}},
                    ~(main = "joining_view" /\ view \in {"entering", "navigating"}
                        /\ {"main", "view"} \subseteq S)
             PROVE  \E t \in S : \A u \in S : ~WaitsFor(t, u)
  BY DEF NoCircularWait
<1>1. \A u \in Threads : ~WaitsFor("listen", u)
  BY DEF WaitsFor, Wanted
<1>2. view = "overriding" => \A u \in Threads : ~WaitsFor("view", u)
  BY DEF WaitsFor, Wanted
<1>3. \A u \in Threads : WaitsFor("batch", u) => u = "view" /\ view = "overriding"
  BY DEF WaitsFor, Wanted, IInv, Owners
<1>4. \A u \in Threads : WaitsFor("event", u) => u = "batch"
  BY DEF WaitsFor, Wanted, IInv, Owners
<1>5. \A u \in Threads : WaitsFor("view", u) =>
        u = "batch" \/ (u = "main" /\ main = "joining_view" /\ view \in {"entering", "navigating"})
  BY DEF WaitsFor, Wanted, IInv, Owners
<1>6. ~WaitsFor("main", "main")
  BY DEF WaitsFor, Wanted, IInv, Owners
<1>7. CASE "listen" \in S
  BY <1>1, <1>7
<1>8. CASE "batch" \in S
  BY <1>2, <1>3, <1>8
<1>9. CASE "event" \in S /\ "batch" \notin S
  BY <1>4, <1>9
<1>10. CASE "view" \in S /\ "batch" \notin S
  BY <1>5, <1>10
<1>11. CASE S = {"main"}
  BY <1>6, <1>11
<1> QED
  BY <1>7, <1>8, <1>9, <1>10, <1>11

\* No circular wait but the one of close_view ever arises, for any number of
\* controls in a batch.
THEOREM NoCircularWaitHolds == Spec => []NoCircularWait
BY Invariance, NoCircle, PTL

=============================================================================
