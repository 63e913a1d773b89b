---------------------- MODULE TransitionedOutputProofs ---------------------
(***************************************************************************)
(* No wake-up is lost on target_value, for any values and any transition   *)
(* that reports its end only at the target; an output with a transition    *)
(* thread implements the transitioner, and once nobody is at work on it,   *)
(* it is at the value of the schedule and its last frame is current.       *)
(***************************************************************************)
EXTENDS TransitionedOutput, TLAPS

\* What a transition step may return.
LEMMA StepResult ==
  ASSUME TypeOK, NEW r \in Transition(current, target)
  PROVE  /\ r.value \in Values
         /\ r.state = "finished_transition" => r.value = target
<1>1. current \in Values /\ target \in Targets
  BY DEF TypeOK
<1> QED
  BY <1>1, TransitionAssumption

\* A step of the transitioner keeps the types.
LEMMA TypeStep == TypeOK /\ [Next]_vars => TypeOK'
<1> SUFFICES ASSUME TypeOK, [Next]_vars PROVE TypeOK'
  OBVIOUS
<1>1. CASE StartTransitionThread
  BY <1>1 DEF StartTransitionThread, TypeOK, clientVars
<1>2. ASSUME NEW v \in Targets, SetTarget(v) PROVE TypeOK'
  BY <1>2 DEF SetTarget, TypeOK, threadVars
<1>3. CASE NotifyTarget
  BY <1>3 DEF NotifyTarget, NotifyAll, TypeOK
<1>4. CASE StoreExit
  BY <1>4 DEF StoreExit, TypeOK, threadVars
<1>5. CASE NotifyExit
  <2>1. overtaken' \in BOOLEAN
    BY <1>5 DEF NotifyExit
  <2>2. thread' \in {"none", "test", "step", "timed", "parked", "exited"}
    BY <1>5 DEF NotifyExit, NotifyAll, TypeOK
  <2> QED
    BY <1>5, <2>1, <2>2 DEF NotifyExit, TypeOK
<1>6. CASE Join
  BY <1>6 DEF Join, TypeOK, threadVars
<1>7. CASE TestExit
  BY <1>7 DEF TestExit, TypeOK, clientVars
<1>8. ASSUME NEW r \in Transition(current, target), TransitionStep(r) PROVE TypeOK'
  BY <1>8, StepResult DEF TransitionStep, TypeOK, clientVars
<1>9. CASE TimeOut \/ WakeUnasked
  BY <1>9 DEF TimeOut, WakeUnasked, TypeOK, clientVars
<1>10. CASE UNCHANGED vars
  BY <1>10 DEF vars, threadVars, clientVars, TypeOK
<1> QED
  BY <1>1, <1>2, <1>3, <1>4, <1>5, <1>6, <1>7, <1>8, <1>9, <1>10
     DEF Next, Client, Thread, Step, Stopped

\* The variables keep to their types.
THEOREM TypeCorrect == Spec => []TypeOK
<1>1. Init => TypeOK
  BY TransitionAssumption DEF Init, TypeOK
<1> QED
  BY <1>1, TypeStep, PTL DEF Spec

\* The target changes under the mutex the thread holds from its step to its
\* wait, and the notification follows the change.
LEMMA ParkedStep == TypeOK /\ ParkedAtTarget /\ [Next]_vars => ParkedAtTarget'
<1> SUFFICES ASSUME TypeOK, ParkedAtTarget, [Next]_vars PROVE ParkedAtTarget'
  OBVIOUS
<1> USE DEF ParkedAtTarget
<1>1. CASE StartTransitionThread
  BY <1>1 DEF StartTransitionThread
<1>2. ASSUME NEW v \in Targets, SetTarget(v) PROVE ParkedAtTarget'
  BY <1>2 DEF SetTarget
<1>3. CASE NotifyTarget
  BY <1>3 DEF NotifyTarget, NotifyAll
<1>4. CASE StoreExit
  BY <1>4 DEF StoreExit, threadVars
<1>5. CASE NotifyExit
  BY <1>5 DEF NotifyExit, NotifyAll
<1>6. CASE Join
  BY <1>6 DEF Join, threadVars
<1>7. CASE TestExit
  BY <1>7 DEF TestExit
<1>8. ASSUME NEW r \in Transition(current, target), TransitionStep(r) PROVE ParkedAtTarget'
  BY <1>8, StepResult DEF TransitionStep, clientVars
<1>9. CASE TimeOut \/ WakeUnasked
  BY <1>9 DEF TimeOut, WakeUnasked
<1>10. CASE UNCHANGED vars
  BY <1>10 DEF vars, threadVars, clientVars
<1> QED
  BY <1>1, <1>2, <1>3, <1>4, <1>5, <1>6, <1>7, <1>8, <1>9, <1>10
     DEF Next, Client, Thread, Step, Stopped

\* A thread that sleeps without a timeout is at its target, or its wake-up is
\* on the way.
THEOREM ParkedAtTargetHolds == Spec => []ParkedAtTarget
<1>1. Init => ParkedAtTarget
  BY DEF Init, ParkedAtTarget
<1> QED
  BY <1>1, ParkedStep, TypeCorrect, PTL DEF Spec

-----------------------------------------------------------------------------
(* The output.                                                             *)

\* What a step of an output's own transition may return.
LEMMA ResultsFit ==
  ASSUME OutputTypeOK, NEW r \in Results
  PROVE  /\ r \in Transition(current, target)
         /\ r.value \in Values
         /\ r.state = "finished_transition" => r.value = target
<1>1. current \in Values /\ target \in Targets
  BY DEF OutputTypeOK, TypeOK
<1>2. r \in Instant(current, target) \cup Linear(current, target)
  BY DEF Results
<1>3. r \in Transition(current, target)
  BY <1>1, <1>2, OutputAssumption
<1> QED
  BY <1>3, StepResult DEF OutputTypeOK

\* Every step of the output is one of its transitioner, or leaves it alone.
LEMMA OutputStep == OutputTypeOK /\ [OutputNext]_allVars => [Next]_vars
<1> SUFFICES ASSUME OutputTypeOK, [OutputNext]_allVars PROVE [Next]_vars
  OBVIOUS
<1> USE DEF Next, Client, Thread
<1>1. CASE CreateCan \/ CreateMqtt
  BY <1>1 DEF CreateCan, CreateMqtt, Make, Fail
<1>2. ASSUME NEW v \in Targets, ControlOutput(v) \/ Crash(v) \/ OverrideWith(v) PROVE [Next]_vars
  BY <1>2 DEF ControlOutput, Crash, OverrideWith
<1>3. CASE RestoreControl
  BY <1>3 DEF RestoreControl, OutputTypeOK
<1>4. CASE NotifyThread \/ ReadCurrent \/ SendRead
  BY <1>4 DEF NotifyThread, ReadCurrent, SendRead
<1>5. CASE Destroy
  BY <1>5 DEF Destroy
<1>6. CASE StepAndSend
  <2>1. PICK r \in Results : TransitionAndSend(r)
    BY <1>6 DEF StepAndSend
  <2>2. r \in Transition(current, target) /\ TransitionStep(r)
    BY <2>1, ResultsFit DEF TransitionAndSend
  <2> QED
    BY <2>2 DEF Step
<1>7. CASE Loop \/ WakesUp
  BY <1>7 DEF Loop, WakesUp
<1>8. CASE Over \/ UNCHANGED allVars
  BY <1>8 DEF Over, allVars
<1> QED
  BY <1>1, <1>2, <1>3, <1>4, <1>5, <1>6, <1>7, <1>8 DEF OutputNext

\* What a caller may find in the variables of the output.
LEMMA OutputTypeStep == OutputTypeOK /\ [OutputNext]_allVars => OutputTypeOK'
<1> SUFFICES ASSUME OutputTypeOK, [OutputNext]_allVars PROVE OutputTypeOK'
  OBVIOUS
<1>1. TypeOK'
  BY OutputStep, TypeStep DEF OutputTypeOK
<1> DEFINE OwnTypeOK ==
      /\ <<kind, transition>> \in Kinds
      /\ created \in {"described", "yes", "refused", "thrown", "crashed"} /\ default \in Defaults
      /\ value \in Targets /\ overridden \in Targets \cup {NoEntry} /\ sending \in Values
      /\ caller \in {"idle", "update", "send"}
      /\ frame \in Int \cup {NoEntry}
      /\ missed \in BOOLEAN /\ stale \in BOOLEAN
<1>2. OwnTypeOK
  BY DEF OutputTypeOK
<1>3. Zero \in Values /\ current \in Values /\ target \in Targets
  BY OutputAssumption, TransitionAssumption DEF OutputTypeOK, TypeOK
<1>4. ASSUME NEW v \in Values, Send(v)
      PROVE frame' \in Int \cup {NoEntry} /\ missed' \in BOOLEAN /\ stale' \in BOOLEAN
  <2>1. FrameOf(v) \in Int
    BY OutputAssumption DEF FrameOf
  <2> QED
    BY <1>2, <1>4, <2>1 DEF Send
<1>5. ASSUME CreateCan \/ CreateMqtt PROVE OwnTypeOK'
  BY <1>2, <1>5 DEF CreateCan, CreateMqtt, Make, Fail
<1>6. ASSUME NEW v \in Targets, ControlOutput(v) \/ Crash(v) \/ OverrideWith(v) PROVE OwnTypeOK'
  BY <1>2, <1>6 DEF ControlOutput, Crash, OverrideWith
<1>7. ASSUME RestoreControl PROVE OwnTypeOK'
  BY <1>2, <1>7 DEF RestoreControl
<1>8. ASSUME ReadCurrent PROVE OwnTypeOK'
  BY <1>2, <1>3, <1>8 DEF ReadCurrent, objectVars
<1>9. ASSUME SendRead PROVE OwnTypeOK'
  <2>1. Send(sending) /\ sending' = Zero /\ caller' = "idle" /\ UNCHANGED objectVars
    BY <1>9 DEF SendRead
  <2>2. frame' \in Int \cup {NoEntry} /\ missed' \in BOOLEAN /\ stale' \in BOOLEAN
    BY <1>2, <1>4, <2>1
  <2> QED
    BY <1>2, <1>3, <2>1, <2>2 DEF objectVars
<1>10. ASSUME StepAndSend PROVE OwnTypeOK'
  <2>1. PICK r \in Results : TransitionAndSend(r)
    BY <1>10 DEF StepAndSend
  <2>2. UNCHANGED <<objectVars, caller, sending>>
    BY <2>1 DEF TransitionAndSend
  <2>3. frame' \in Int \cup {NoEntry} /\ missed' \in BOOLEAN /\ stale' \in BOOLEAN
    BY <1>2, <1>4, <2>1, ResultsFit DEF TransitionAndSend
  <2> QED
    BY <1>2, <2>2, <2>3 DEF objectVars
<1>11. ASSUME NotifyThread \/ Destroy \/ Loop \/ WakesUp \/ Over \/ UNCHANGED allVars PROVE OwnTypeOK'
  BY <1>2, <1>11 DEF NotifyThread, Destroy, Loop, WakesUp, Over, allVars, outputVars
<1> QED
  BY <1>1, <1>5, <1>6, <1>7, <1>8, <1>9, <1>10, <1>11 DEF OutputNext, OutputTypeOK

\* The variables of the output keep to their types.
THEOREM OutputTypeCorrect == OutputSpec => []OutputTypeOK
<1>1. OutputInit => OutputTypeOK
  <2> SUFFICES ASSUME OutputInit PROVE OutputTypeOK
    OBVIOUS
  <2>1. Initial \in Targets
    BY OutputAssumption DEF OutputInit, Initial
  <2>2. TypeOK
    BY <2>1, TransitionAssumption DEF OutputInit, Init, TypeOK
  <2>3. Zero \in Values
    BY OutputAssumption, TransitionAssumption
  <2>4. <<kind, transition>> \in Kinds
    BY DEF OutputInit, Kinds
  <2> QED
    BY <2>1, <2>2, <2>3, <2>4 DEF OutputInit, OutputTypeOK
<1> QED
  BY <1>1, OutputTypeStep, PTL DEF OutputSpec

\* An output with its two sending threads implements the transitioner: what
\* holds of the one holds of the other.
THEOREM OutputImplements == OutputSpec => Spec
<1>1. OutputInit => Init
  BY DEF OutputInit
<1> QED
  BY <1>1, OutputStep, OutputTypeCorrect, PTL DEF OutputSpec, Spec

\* No wake-up of an output's thread is lost.
THEOREM OutputParked == OutputSpec => []ParkedAtTarget
  BY OutputImplements, ParkedAtTargetHolds, PTL

-----------------------------------------------------------------------------
(* A settled output.                                                       *)

\* Without an override the thread is on its way to the value of the schedule.
AimsAtControl == overridden = NoEntry => target = value

LEMMA AimStep ==
  OutputTypeOK /\ AimsAtControl /\ [OutputNext]_allVars => AimsAtControl'
<1> SUFFICES ASSUME OutputTypeOK, AimsAtControl, [OutputNext]_allVars PROVE AimsAtControl'
  OBVIOUS
<1> USE DEF AimsAtControl
<1>1. CASE CreateCan \/ CreateMqtt
  BY <1>1 DEF CreateCan, CreateMqtt, Make, Fail, StartTransitionThread, vars, clientVars
<1>2. ASSUME NEW v \in Targets, ControlOutput(v) PROVE AimsAtControl'
  BY <1>2 DEF ControlOutput, SetTarget
<1>3. ASSUME NEW v \in Targets, Crash(v) PROVE AimsAtControl'
  BY <1>3 DEF Crash, vars, clientVars
<1>4. ASSUME NEW v \in Targets, OverrideWith(v) PROVE AimsAtControl'
  BY <1>4, OutputAssumption DEF OverrideWith
<1>5. CASE RestoreControl
  BY <1>5 DEF RestoreControl, SetTarget
<1>6. CASE NotifyThread \/ ReadCurrent \/ SendRead
  BY <1>6 DEF NotifyThread, NotifyTarget, ReadCurrent, SendRead, vars, clientVars, objectVars, outputVars
<1>7. CASE Destroy
  BY <1>7 DEF Destroy, StoreExit, NotifyExit, Join, outputVars
<1>8. CASE StepAndSend
  <2>1. PICK r \in Results : TransitionAndSend(r)
    BY <1>8 DEF StepAndSend
  <2> QED
    BY <2>1 DEF TransitionAndSend, TransitionStep, clientVars, objectVars
<1>9. CASE Loop \/ WakesUp
  BY <1>9 DEF Loop, WakesUp, TestExit, TimeOut, WakeUnasked, clientVars, outputVars
<1>10. CASE Over \/ UNCHANGED allVars
  BY <1>10 DEF Over, allVars, vars, clientVars, outputVars
<1> QED
  BY <1>1, <1>2, <1>3, <1>4, <1>5, <1>6, <1>7, <1>8, <1>9, <1>10 DEF OutputNext

\* However control, override and restore followed each other during a
\* transition, an output that has settled is where the schedule wants it.
THEOREM SettledAtControlHolds == OutputSpec => []SettledAtControl
<1>1. OutputInit => AimsAtControl
  BY DEF OutputInit, Init, AimsAtControl
<1>2. AimsAtControl /\ ParkedAtTarget => SettledAtControl
  BY DEF AimsAtControl, ParkedAtTarget, SettledAtControl, Settled
<1> QED
  BY <1>1, <1>2, AimStep, OutputTypeCorrect, OutputParked, PTL DEF OutputSpec

\* A step that says the value did not change leaves it as it is.
LEMMA QuietStep ==
  ASSUME NEW r \in Results
  PROVE  r.state \in {"value_did_change", "finished_transition"} \/ r.value = current
  BY DEF Results, Instant, Linear, Result

\* The frame is that of the current value but for the exceptions named, and a
\* thread that sleeps has tried to send.
FrameFollows ==
  /\ (frame # NoEntry /\ ~missed /\ ~stale) => frame = FrameOf(current)
  /\ thread = "parked" => (frame # NoEntry \/ missed)

\* An attempt to send the value that is current afterwards, or an older one.
LEMMA Attempt ==
  ASSUME NEW v \in Values, Send(v), kind' = kind
  PROVE  FrameFollows'
<1>1. FrameOf(v) # NoEntry
  BY OutputAssumption DEF FrameOf
<1>2. FrameOf(v)' = FrameOf(v)
  BY DEF FrameOf
<1>3. CASE missed'
  BY <1>3 DEF FrameFollows
<1>4. CASE ~missed'
  <2>1. frame' = FrameOf(v) /\ stale' = (v # current')
    BY <1>4 DEF Send
  <2>2. ~stale' => FrameOf(current)' = FrameOf(v)
    BY <2>1 DEF FrameOf
  <2> QED
    BY <1>1, <2>1, <2>2 DEF FrameFollows
<1> QED
  BY <1>3, <1>4

LEMMA FrameStep ==
  OutputTypeOK /\ FrameFollows /\ [OutputNext]_allVars => FrameFollows'
<1> SUFFICES ASSUME OutputTypeOK, FrameFollows, [OutputNext]_allVars PROVE FrameFollows'
  OBVIOUS
<1>1. ASSUME UNCHANGED <<kind, current, frame, missed, stale>>,
             thread' # "parked" \/ thread' = thread
      PROVE  FrameFollows'
  BY <1>1 DEF FrameFollows, FrameOf
<1>2. CASE CreateCan \/ CreateMqtt
  BY <1>1, <1>2 DEF CreateCan, CreateMqtt, Make, Fail, StartTransitionThread, vars, threadVars
<1>3. ASSUME NEW v \in Targets, ControlOutput(v) \/ Crash(v) \/ OverrideWith(v) PROVE FrameFollows'
  BY <1>1, <1>3 DEF ControlOutput, Crash, OverrideWith, SetTarget, vars, threadVars
<1>4. CASE RestoreControl
  BY <1>1, <1>4 DEF RestoreControl, SetTarget, threadVars
<1>5. CASE NotifyThread
  BY <1>1, <1>5 DEF NotifyThread, NotifyTarget, NotifyAll, outputVars
<1>6. CASE ReadCurrent
  BY <1>1, <1>6 DEF ReadCurrent, vars, threadVars, objectVars
<1>7. CASE SendRead
  <2>1. sending \in Values
    BY DEF OutputTypeOK
  <2> QED
    BY <1>7, <2>1, Attempt DEF SendRead, objectVars
<1>8. CASE Destroy
  BY <1>1, <1>8 DEF Destroy, StoreExit, NotifyExit, NotifyAll, Join, threadVars, outputVars
<1>9. CASE StepAndSend
  <2>1. PICK r \in Results : TransitionAndSend(r)
    BY <1>9 DEF StepAndSend
  <2>2. kind' = kind
    BY <2>1 DEF TransitionAndSend, objectVars
  <2>3. CASE r.state \in {"value_did_change", "finished_transition"}
    BY <2>1, <2>2, <2>3, Attempt, ResultsFit DEF TransitionAndSend
  <2>4. CASE r.state \notin {"value_did_change", "finished_transition"}
    <3>1. r.value = current
      BY <2>4, QuietStep
    <3>2. current' = current /\ thread' = "timed" /\ UNCHANGED <<frame, missed, stale>>
      BY <2>1, <2>4, <3>1 DEF TransitionAndSend, TransitionStep
    <3> QED
      BY <1>1, <2>2, <3>2
  <2> QED
    BY <2>3, <2>4
<1>10. CASE Loop \/ WakesUp
  BY <1>1, <1>10 DEF Loop, WakesUp, TestExit, TimeOut, WakeUnasked, outputVars
<1>11. CASE Over \/ UNCHANGED allVars
  BY <1>1, <1>11 DEF Over, allVars, vars, threadVars, outputVars
<1> QED
  BY <1>2, <1>3, <1>4, <1>5, <1>6, <1>7, <1>8, <1>9, <1>10, <1>11 DEF OutputNext

\* Of an output at rest the bus or the broker has the current value, unless
\* sending failed or the caller sent what the thread had overtaken.
THEOREM LastFrameCurrentHolds == OutputSpec => []LastFrameCurrent
<1>1. OutputInit => FrameFollows
  BY DEF OutputInit, Init, FrameFollows
<1>2. FrameFollows => LastFrameCurrent
  BY DEF FrameFollows, LastFrameCurrent, Settled
<1> QED
  BY <1>1, <1>2, FrameStep, OutputTypeCorrect, PTL DEF OutputSpec

-----------------------------------------------------------------------------
(* The path of a transition.                                               *)

\* Of three numbers the second lies between the others.
Between(a, b, c) == (a <= b /\ b <= c) \/ (c <= b /\ b <= a)

\* A step stays between where it starts and the target, whatever its length:
\* also when the product of velocity and periods has wrapped around.
LEMMA StepToBetween ==
  ASSUME NEW c \in Int, NEW t \in Int, NEW step \in Nat
  PROVE  Between(c, StepTo(c, t, step), t)
<1> DEFINE apart == IF c < t THEN t - c ELSE c - t
<1>1. Distance(c, t) \in Int /\ Distance(c, t) <= apart
  BY VelocityAssumption DEF Distance
<1> QED
  BY <1>1 DEF StepTo, Between

\* So does the value of a result, if no type changes.
LEMMA ResultBetween ==
  ASSUME NEW c \in Values, NEW t \in Values, c.type = t.type,
         NEW r \in Linear(c, t) \cup Instant(c, t)
  PROVE  Between(c.n, r.value.n, t.n)
<1>1. c \in [type : STRING, n : Int] /\ t.n \in Int /\ c.n \in Int
  BY OutputAssumption
<1>2. CASE r.value = t \/ r.value = c
  BY <1>1, <1>2 DEF Between
<1>3. ASSUME r.value # t, r.value # c PROVE Between(c.n, r.value.n, t.n)
  <2>1. PICK step \in {(Velocity * periods) % StepBound : periods \in 0 .. MaxPeriods} :
          r.value = [c EXCEPT !.n = StepTo(@, t.n, step)]
    BY <1>3 DEF Linear, Instant, Result
  <2>2. step \in Nat
    <3>1. PICK periods \in 0 .. MaxPeriods : step = (Velocity * periods) % StepBound
      BY <2>1
    <3>2. Velocity * periods \in Int /\ StepBound \in Nat \ {0}
      BY VelocityAssumption
    <3> DEFINE way == Velocity * periods
    <3> HIDE DEF way
    <3>3. way % StepBound \in Nat
      BY <3>2 DEF way
    <3> QED
      BY <3>1, <3>3 DEF way
  <2>3. r.value.n = StepTo(c.n, t.n, step)
    BY <1>1, <2>1
  <2> QED
    BY <1>1, <2>2, <2>3, StepToBetween
<1> QED
  BY <1>2, <1>3

\* Only the thread moves the value, by a result of its transition.
LEMMA OvershootStep ==
  ASSUME OutputTypeOK, [OutputNext]_allVars,
         current' # current, current'.type = target.type, current.type = target.type
  PROVE  Between(current.n, current'.n, target.n)
<1>1. CASE StepAndSend
  <2>1. PICK r \in Results : TransitionAndSend(r)
    BY <1>1 DEF StepAndSend
  <2>2. current' = r.value /\ r \in Linear(current, target) \cup Instant(current, target)
    BY <2>1 DEF TransitionAndSend, TransitionStep, Results
  <2>3. current \in Values /\ target \in Values
    BY TransitionAssumption DEF OutputTypeOK, TypeOK
  <2> QED
    BY <2>2, <2>3, ResultBetween
<1>2. CASE ~StepAndSend
  <2>1. current' = current
    BY <1>2 DEF OutputNext, CreateCan, CreateMqtt, Make, Fail, StartTransitionThread, ControlOutput,
                Crash, OverrideWith, RestoreControl, SetTarget, NotifyThread, NotifyTarget, ReadCurrent,
                SendRead, Destroy, StoreExit, NotifyExit, Join, Loop, TestExit, TimeOut, WakesUp,
                WakeUnasked, Over, allVars, vars, threadVars
  <2> QED
    BY <2>1
<1> QED
  BY <1>1, <1>2

\* For every velocity, period and width of the step: a transition never
\* passes its target and never turns back.
THEOREM NoOvershootHolds == OutputSpec => NoOvershoot
<1>1. OutputTypeOK /\ [OutputNext]_allVars =>
        [(current'.type = target.type /\ current.type = target.type) =>
           \/ current.n <= current'.n /\ current'.n <= target.n
           \/ target.n <= current'.n /\ current'.n <= current.n]_current
  BY OvershootStep DEF Between
<1> QED
  BY <1>1, OutputTypeCorrect, PTL DEF OutputSpec, NoOvershoot

=============================================================================
