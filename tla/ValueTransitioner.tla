------------------------- MODULE ValueTransitioner -------------------------
(***************************************************************************)
(* value_transitioner: a thread that moves a value towards a target, one   *)
(* transition step at a time, and sleeps on a condition variable, with a   *)
(* timeout while the transition is under way and without one when it is    *)
(* finished; a client that sets targets and at last destroys the object.   *)
(*                                                                         *)
(* The step and the beginning of the wait hold m_instance_mutex throughout *)
(* and are one step here; what happens without the mutex - the test of the *)
(* exit flag, the notifications - are steps of their own.                  *)
(***************************************************************************)
EXTENDS Naturals

CONSTANTS
  Values,           \* the values there are
  Targets,          \* those a client sets
  Transition(_, _)  \* the results of a transition step: sets of [value, state]

States == {"value_did_change", "value_did_not_change", "finished_transition"}

\* A step that reports the end of a transition has reached the target.
ASSUME TransitionAssumption ==
  /\ Targets \subseteq Values
  /\ \A c \in Values, t \in Targets : \A r \in Transition(c, t) :
       /\ r.value \in Values /\ r.state \in States
       /\ r.state = "finished_transition" => r.value = t

VARIABLES
  thread,    \* "none", "test", "step", "timed", "parked", "exited"
  current,   \* m_current_value
  target,    \* m_target_value
  exit,      \* m_exit_thread
  client,    \* "idle", "notifying", "exiting", "joining", "destroyed"
  overtaken  \* history: the destructor notified a thread about to wait

threadVars == <<thread, current>>
clientVars == <<client, target, exit, overtaken>>
vars == <<threadVars, clientVars>>

-----------------------------------------------------------------------------
(* The client.                                                             *)

\* start_transition_thread.
StartTransitionThread ==
  /\ client = "idle" /\ thread = "none"
  /\ thread' = "test"
  /\ UNCHANGED <<current, clientVars>>

\* Mutant of SetTarget: the thread is not notified.
SetTargetSilently(v) ==
  /\ client = "idle"
  /\ target' = v
  /\ UNCHANGED <<threadVars, client, exit, overtaken>>

\* target_value under the lock.
SetTarget(v) ==
  /\ client = "idle"
  /\ target' = v
  /\ client' = "notifying"
  /\ UNCHANGED <<threadVars, exit, overtaken>>

\* notify_all wakes a thread that waits, and is lost on any other.
NotifyAll == thread' = IF thread \in {"timed", "parked"} THEN "test" ELSE thread

\* target_value after the lock was released.
NotifyTarget ==
  /\ client = "notifying"
  /\ NotifyAll
  /\ client' = "idle"
  /\ UNCHANGED <<current, target, exit, overtaken>>

\* The destructor: the flag, the notification and the join, without the lock.
StoreExit ==
  /\ client = "idle"
  /\ exit' = TRUE
  /\ client' = "exiting"
  /\ UNCHANGED <<threadVars, target, overtaken>>

\* Mutant of NotifyExit: the destructor goes straight to the join.
SkipNotification ==
  /\ client = "exiting"
  /\ client' = "joining"
  /\ UNCHANGED <<threadVars, target, exit, overtaken>>

NotifyExit ==
  /\ client = "exiting"
  /\ NotifyAll
  /\ overtaken' = (thread = "step")
  /\ client' = "joining"
  /\ UNCHANGED <<current, target, exit>>

Join ==
  /\ client = "joining" /\ thread \in {"none", "exited"}
  /\ client' = "destroyed"
  /\ UNCHANGED <<threadVars, target, exit, overtaken>>

-----------------------------------------------------------------------------
(* The thread.                                                             *)

\* The while condition.
TestExit ==
  /\ thread = "test"
  /\ thread' = IF exit THEN "exited" ELSE "step"
  /\ UNCHANGED <<current, clientVars>>

\* One transition step, and the wait that follows it begins.
TransitionStep(r) ==
  /\ thread = "step"
  /\ current' = r.value
  /\ thread' = IF r.state = "finished_transition" THEN "parked" ELSE "timed"
  /\ UNCHANGED clientVars

\* wait_until times out.
TimeOut ==
  /\ thread = "timed"
  /\ thread' = "test"
  /\ UNCHANGED <<current, clientVars>>

\* wait returns without a notification, as it may.
WakeUnasked ==
  /\ thread = "parked"
  /\ thread' = "test"
  /\ UNCHANGED <<current, clientVars>>

-----------------------------------------------------------------------------

Init ==
  /\ current \in Targets /\ target = current
  /\ thread = "none" /\ exit = FALSE /\ client = "idle" /\ overtaken = FALSE

Step == \E r \in Transition(current, target) : TransitionStep(r)

Client ==
  \/ StartTransitionThread
  \/ \E v \in Targets : SetTarget(v)
  \/ NotifyTarget
  \/ StoreExit
  \/ NotifyExit
  \/ Join

Thread == TestExit \/ Step \/ TimeOut \/ WakeUnasked

Stopped == client = "destroyed" /\ UNCHANGED vars

Next == Client \/ Thread \/ Stopped

Spec == Init /\ [][Next]_vars

-----------------------------------------------------------------------------

\* The variables keep to their types.
TypeOK ==
  /\ thread \in {"none", "test", "step", "timed", "parked", "exited"}
  /\ current \in Values /\ target \in Targets
  /\ exit \in BOOLEAN /\ overtaken \in BOOLEAN
  /\ client \in {"idle", "notifying", "exiting", "joining", "destroyed"}

\* No wake-up is lost on target_value: a thread that sleeps without a timeout
\* has reached the target, unless the notification is still on its way.
ParkedAtTarget == (thread = "parked" /\ client # "notifying") => current = target

\* The destructor returns, unless its notification came between the thread's
\* test of the exit flag and its wait: it does not take the mutex the thread
\* holds there, and a thread that then sleeps without a timeout misses it.
DestructorReturns == (client = "joining" /\ ~overtaken) ~> (client = "destroyed")

=============================================================================
