------------------------- MODULE TransitionedOutput -------------------------
(***************************************************************************)
(* can_output and mqtt_output: outputs whose value is moved by a           *)
(* value_transitioner and sent by two threads - the one that controls the  *)
(* output sends the current value once after every change of the target,   *)
(* the transition thread whenever a step changed the value or found it at  *)
(* its target.                                                             *)
(*                                                                         *)
(* The callers hold the mutex of the list of outputs, so there is one at a *)
(* time; reading the current value and sending it are two steps, and the   *)
(* transition thread may come between them.  For a string the panel has no *)
(* widget: an mqtt output is never overridden.                             *)
(***************************************************************************)
EXTENDS ValueTransitioner, OutputTransition

CONSTANTS
  Defaults,   \* the default entries of a description; NoEntry if there is none
  NoEntry,
  FrameSize   \* one byte of the value is sent: 256 values in the program

\* 0u, and the empty string.
Zero == [type |-> "number_unsigned", n |-> 0]
Empty == [type |-> "string", n |-> 0]

ASSUME OutputAssumption ==
  /\ FrameSize \in Nat \ {0}
  /\ Zero \in Targets /\ Empty \in Targets
  /\ NoEntry \notin Targets /\ NoEntry \notin Int
  /\ Values \subseteq [type : STRING, n : Int]
  /\ \A entry \in Defaults : entry # NoEntry /\ entry.type = "string" => entry \in Targets
  /\ \A c \in Values, t \in Targets : Instant(c, t) \cup Linear(c, t) \subseteq Transition(c, t)

VARIABLES
  kind,       \* "can" or "mqtt"
  transition, \* "instant" or "linear"
  created,    \* "described", "yes", "refused", "thrown", "crashed"
  default,    \* the default entry
  value,      \* m_value
  overridden, \* m_overriden_value, or NoEntry
  caller,     \* "idle", "update" before and "send" after current_state
  sending,    \* the value the caller is about to send, Zero if there is none
  frame,      \* the data of the latest frame on the bus, or NoEntry
  missed,     \* history: the latest attempt to send failed
  stale       \* history: the latest frame held a value no longer current

outputVars == <<kind, transition, created, default, value, overridden, caller, sending, frame, missed, stale>>
objectVars == <<kind, transition, created, default, value, overridden>>
allVars == <<vars, outputVars>>

-----------------------------------------------------------------------------

\* The outputs there are, with their transitions.
Kinds == {<<"can", "instant">>, <<"can", "linear">>, <<"mqtt", "instant">>}

\* The types update_value has a representation for.
Sendable(v) ==
  v.type \in IF kind = "can" THEN {"number", "number_unsigned", "switch_output"} ELSE {"string"}

\* The part of the value a CAN frame of length one carries; the payload of a
\* message is the whole string.
FrameOf(v) == IF kind = "can" THEN v.n % FrameSize ELSE v.n

\* Mutant of Send: the result of writing the frame is not looked at.
SendUnchecked(v) ==
  \/ Sendable(v) /\ frame' = FrameOf(v) /\ missed' = FALSE /\ stale' = (v # current')
  \/ missed' = FALSE /\ UNCHANGED <<frame, stale>>

\* update_value: the frame goes out, or sending it fails, or the type is
\* refused.
Send(v) ==
  \/ /\ Sendable(v)
     /\ frame' = FrameOf(v)
     /\ missed' = FALSE
     /\ stale' = (v # current')
  \/ /\ missed' = TRUE
     /\ UNCHANGED <<frame, stale>>

\* The value create_for_interface starts with.  For CAN the conditional is the
\* wrong way round: a given default is replaced by 0 (and a missing one is
\* converted, which throws).  For mqtt a default that is no string counts for
\* none.
Initial ==
  IF kind = "can" THEN Zero
  ELSE IF default = NoEntry \/ default.type # "string" THEN Empty
  ELSE default

Make ==
  /\ created = "described" /\ created' = "yes"
  /\ StartTransitionThread
  /\ UNCHANGED <<kind, transition, default, value, overridden, caller, sending, frame, missed, stale>>

\* Nothing is made.
Fail(as) ==
  /\ created = "described" /\ created' = as
  /\ UNCHANGED <<vars, kind, transition, default, value, overridden, caller, sending, frame, missed, stale>>

CreateCan ==
  /\ kind = "can"
  /\ IF default = NoEntry THEN Fail("thrown")
     ELSE IF default.type # "number_unsigned" THEN Fail("refused")
     ELSE Make \/ Fail("refused")

\* The broker may be out of reach, or the device of the CAN bus not there.
CreateMqtt == kind = "mqtt" /\ (Make \/ Fail("refused"))

-----------------------------------------------------------------------------
(* The caller: outputs::control_output and its siblings.                   *)

Ready == created = "yes" /\ caller = "idle"

\* control_output of the mqtt output logs the string without asking whether
\* there is one: for another type that ends the program or does not.
Crash(v) ==
  /\ Ready /\ kind = "mqtt" /\ client = "idle" /\ v.type # "string"
  /\ created' = "crashed"
  /\ UNCHANGED <<vars, kind, transition, default, value, overridden, caller, sending, frame, missed, stale>>

ControlOutput(v) ==
  /\ Ready
  /\ value' = v
  /\ SetTarget(v)
  /\ caller' = "update"
  /\ UNCHANGED <<kind, transition, created, default, overridden, sending, frame, missed, stale>>

OverrideWith(v) ==
  /\ Ready /\ kind = "can"
  /\ overridden' = v
  /\ SetTarget(v)
  /\ caller' = "update"
  /\ UNCHANGED <<kind, transition, created, default, value, sending, frame, missed, stale>>

\* Mutant of RestoreControl: the target stays that of the override.
RestoreNothing ==
  /\ Ready /\ kind = "can"
  /\ overridden' = NoEntry
  /\ SetTarget(target)
  /\ caller' = "update"
  /\ UNCHANGED <<kind, transition, created, default, value, sending, frame, missed, stale>>

RestoreControl ==
  /\ Ready /\ kind = "can"
  /\ overridden' = NoEntry
  /\ SetTarget(value)
  /\ caller' = "update"
  /\ UNCHANGED <<kind, transition, created, default, value, sending, frame, missed, stale>>

NotifyThread == NotifyTarget /\ UNCHANGED outputVars

\* sync_values on the caller's thread, after the notification.
ReadCurrent ==
  /\ caller = "update" /\ client = "idle"
  /\ sending' = current
  /\ caller' = "send"
  /\ UNCHANGED <<vars, objectVars, frame, missed, stale>>

SendRead ==
  /\ caller = "send"
  /\ UNCHANGED <<vars, objectVars>>
  /\ Send(sending)
  /\ caller' = "idle" /\ sending' = Zero

\* The destructor.  m_can_instance is destroyed before m_transitioner joins
\* its thread, which may therefore send or fail to; Send allows for both.
\* mqtt_output declares them in the right order.
Destroy ==
  /\ Ready
  /\ StoreExit \/ NotifyExit \/ Join
  /\ UNCHANGED outputVars

-----------------------------------------------------------------------------
(* The transition thread.                                                  *)

\* Mutant of TransitionAndSend: the thread leaves sending to the callers.
TransitionOnly(r) ==
  TransitionStep(r) /\ UNCHANGED <<objectVars, caller, sending, frame, missed, stale>>

\* The step of the transitioner, wrapped: sync_values is called by the thread
\* under the mutex of the value, so what it reads is what the step left.
TransitionAndSend(r) ==
  /\ TransitionStep(r)
  /\ IF r.state \in {"value_did_change", "finished_transition"}
     THEN Send(r.value)
     ELSE UNCHANGED <<frame, missed, stale>>
  /\ UNCHANGED <<objectVars, caller, sending>>

\* The transition of the object; an mqtt output has the instant one.
Results ==
  IF transition = "linear" THEN Linear(current, target) ELSE Instant(current, target)

Running == created # "crashed"

StepAndSend == Running /\ \E r \in Results : TransitionAndSend(r)

Loop == Running /\ (TestExit \/ TimeOut) /\ UNCHANGED outputVars

WakesUp == Running /\ WakeUnasked /\ UNCHANGED outputVars

-----------------------------------------------------------------------------

OutputInit ==
  /\ \E k \in Kinds : kind = k[1] /\ transition = k[2]
  /\ created = "described" /\ default \in Defaults
  /\ Init /\ current = Initial /\ value = Initial /\ overridden = NoEntry
  /\ caller = "idle" /\ sending = Zero
  /\ frame = NoEntry /\ missed = FALSE /\ stale = FALSE

\* The end of an object that was never made or is gone.
Over ==
  /\ created \in {"refused", "thrown", "crashed"} \/ client = "destroyed"
  /\ UNCHANGED allVars

OutputNext ==
  \/ CreateCan
  \/ CreateMqtt
  \/ \E v \in Targets : ControlOutput(v) \/ Crash(v) \/ OverrideWith(v)
  \/ RestoreControl
  \/ NotifyThread
  \/ ReadCurrent
  \/ SendRead
  \/ Destroy
  \/ StepAndSend
  \/ Loop
  \/ WakesUp
  \/ Over

OutputSpec == OutputInit /\ [][OutputNext]_allVars

\* The thread runs on, a timeout passes, and time adds up, so that steps that
\* may move the value will; the caller finishes its call.
OutputFairSpec ==
  /\ OutputSpec
  /\ WF_allVars(StepAndSend) /\ WF_allVars(Loop) /\ SF_allVars(StepAndSend /\ current' # current)
  /\ WF_allVars(NotifyThread) /\ WF_allVars(ReadCurrent) /\ WF_allVars(SendRead)
  /\ WF_allVars(Destroy /\ client \in {"exiting", "joining"})

-----------------------------------------------------------------------------

\* The variables keep to their types.
OutputTypeOK ==
  /\ TypeOK
  /\ <<kind, transition>> \in Kinds /\ created \in {"described", "yes", "refused", "thrown", "crashed"} /\ default \in Defaults
  /\ value \in Targets /\ overridden \in Targets \cup {NoEntry} /\ sending \in Values
  /\ caller \in {"idle", "update", "send"}
  /\ frame \in Int \cup {NoEntry}
  /\ missed \in BOOLEAN /\ stale \in BOOLEAN

\* Nobody is at work on the output.
Settled == created = "yes" /\ thread = "parked" /\ client = "idle" /\ caller = "idle"

\* A settled output that is not overridden has arrived at what the schedule
\* asked for last, however control, override and restore followed each other
\* while a transition was under way.
SettledAtControl == (Settled /\ overridden = NoEntry) => current = value

\* The latest frame on the bus, or message of the broker, is that of the
\* current value, unless sending it failed or the caller's, read before the
\* thread's last step, was the last to go out.
LastFrameCurrent == (Settled /\ ~missed /\ ~stale) => frame = FrameOf(current)

\* A target that is left alone is sent some time after it was set, unless an
\* attempt to send fails, which nobody tries again.  (It need not be the last
\* that is sent: a caller that read the value before the thread's last step
\* sends the older one after it, and nothing is sent again before the thread
\* is woken.)
TargetIsSent ==
  \A v \in Targets :
    (client = "notifying" /\ target = v /\ ~missed) ~>
       (frame = FrameOf(v) \/ missed \/ target # v \/ exit \/ created = "crashed")

\* A transition never passes its target, nor does it turn back, also when
\* the last step is cut short or the computed step wraps around.
NoOvershoot ==
  [][(current'.type = target.type /\ current.type = target.type) =>
       \/ current.n <= current'.n /\ current'.n <= target.n
       \/ target.n <= current'.n /\ current'.n <= current.n]_current

=============================================================================
