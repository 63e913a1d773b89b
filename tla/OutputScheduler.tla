-------------------------- MODULE OutputScheduler --------------------------
(***************************************************************************)
(* schedule_action::execute_actions and output_scheduler::do_output_job:   *)
(* a caller hands over a list of action ids, the controls of the actions   *)
(* are collected, reduced to one control per output, sent one at a time to *)
(* the outputs, and the ids of which an output failed are reported back.   *)
(*                                                                         *)
(* The batch runs on a thread of its own (std::async) while the caller     *)
(* waits for the future, so a batch is sequential; what the outputs answer *)
(* is the environment's choice.                                            *)
(***************************************************************************)
EXTENDS OutputBatch, Integers, SequencesExt

CONSTANTS
  Outputs,      \* the ids of the outputs
  Ids,          \* the action ids a caller may name
  Registered,   \* the ids of schedule_action::_actions
  Controls,     \* Controls[a]: the m_outputs of the registered action a
  MaxBatch      \* bound on the number of ids of one call

ASSUME ActionsAssumption ==
  /\ Registered \subseteq Ids
  /\ Controls \in [Registered -> Seq([output : Outputs, value : SwitchValues])]

ASSUME BoundAssumption == MaxBatch \in Nat

VARIABLES
  pc,        \* "idle", "controlling" or "returned"
  ids,       \* the argument of execute_actions
  left,      \* the controls of the optimised list the loop has not reached
  results,   \* control_results: the skipped and the failed controls
  failed,    \* failed_actions, the value returned: the ids at these positions
  level,     \* level[o]: what the output o shows
  before     \* history: level when the call began

vars == <<pc, ids, left, results, failed, level, before>>

-----------------------------------------------------------------------------

\* The controls of a batch in the order of its ids: the place <<i, j>> is that
\* of the j-th control of the i-th action.
Places(batch) == UNION {{i} \X DOMAIN Controls[batch[i]] : i \in DOMAIN batch}
ControlAt(batch, p) == Controls[batch[p[1]]][p[2]]
Precedes(p, q) == p[1] < q[1] \/ (p[1] = q[1] /\ p[2] < q[2])

\* Mutant of Optimized: the walk starts at the front, so the first control of
\* an output is kept.
KeepFirst(batch) ==
  {p \in Places(batch) : \A q \in Places(batch) :
     ControlAt(batch, q).output = ControlAt(batch, p).output => ~Precedes(q, p)}

\* The optimised list: walking from the end, the first control met of each
\* output is kept.
Optimized(batch) ==
  {p \in Places(batch) : \A q \in Places(batch) :
     ControlAt(batch, q).output = ControlAt(batch, p).output => ~Precedes(p, q)}

\* The controls that lost against a later one of the same output.
Skipped(batch) ==
  {[output |-> ControlAt(batch, p).output, result |-> "skipped"] :
     p \in Places(batch) \ Optimized(batch)}

\* The control the loop is at: the list is never turned round again, so it
\* begins with the last one.
Coming == CHOOSE p \in left : \A q \in left : ~Precedes(p, q)

\* Mutant of Failing: an action fails only when all its outputs do.
FailingAltogether(batch, res) ==
  {i \in DOMAIN batch :
     \A o \in Touched(Controls[batch[i]]) : [output |-> o, result |-> "failure"] \in res}

\* Mutant of Failing: a skipped control counts as a failure.
FailingOrSkipped(batch, res) ==
  {i \in DOMAIN batch : \E o \in Touched(Controls[batch[i]]) : \E r \in res : r.output = o}

\* The ids left in failed_actions: those with an output of which a result is
\* a failure.
Failing(batch, res) ==
  {i \in DOMAIN batch :
     \E o \in Touched(Controls[batch[i]]) : [output |-> o, result |-> "failure"] \in res}

-----------------------------------------------------------------------------

Init ==
  /\ pc = "idle"
  /\ ids = <<>> /\ left = {} /\ results = {} /\ failed = {}
  /\ level \in [Outputs -> Levels]
  /\ before = level

\* execute_actions on an empty list, or with an id no action has: nothing is
\* controlled and the whole argument is returned as failed.
ReturnUnexecuted(batch) ==
  /\ pc # "controlling"
  /\ batch = <<>> \/ ~ ToSet(batch) \subseteq Registered
  /\ pc' = "returned"
  /\ ids' = batch /\ failed' = DOMAIN batch
  /\ left' = {} /\ results' = {}
  /\ before' = level
  /\ UNCHANGED level

\* execute_actions up to the start of the loop of do_output_job.
StartJob(batch) ==
  /\ pc # "controlling"
  /\ batch # <<>> /\ ToSet(batch) \subseteq Registered
  /\ pc' = "controlling"
  /\ ids' = batch
  /\ left' = Optimized(batch)
  /\ results' = Skipped(batch)
  /\ failed' = {}
  /\ before' = level
  /\ UNCHANGED level

\* One iteration: outputs::control_output accepts the value.
ControlSucceeds ==
  /\ pc = "controlling" /\ left # {}
  /\ LET c == ControlAt(ids, Coming)
     IN  level' = [level EXCEPT ![c.output] = Applied(c.value, @)]
  /\ left' = left \ {Coming}
  /\ UNCHANGED <<pc, ids, results, failed, before>>

\* One iteration: outputs::control_output returns false and a failure is
\* recorded.
ControlFails ==
  /\ pc = "controlling" /\ left # {}
  /\ results' = results \cup {[output |-> ControlAt(ids, Coming).output, result |-> "failure"]}
  /\ left' = left \ {Coming}
  /\ UNCHANGED <<pc, ids, failed, level, before>>

\* The rest of execute_actions, once the future is ready.
ReportFailures ==
  /\ pc = "controlling" /\ left = {}
  /\ failed' = Failing(ids, results)
  /\ pc' = "returned"
  /\ UNCHANGED <<ids, left, results, level, before>>

Next ==
  \/ \E batch \in BoundedSeq(Ids, MaxBatch) : ReturnUnexecuted(batch) \/ StartJob(batch)
  \/ ControlSucceeds
  \/ ControlFails
  \/ ReportFailures

Spec == Init /\ [][Next]_vars

-----------------------------------------------------------------------------

\* The variables keep to their types.
TypeOK ==
  /\ pc \in {"idle", "controlling", "returned"}
  /\ ids \in Seq(Ids) /\ failed \subseteq DOMAIN ids
  /\ pc = "controlling" => ToSet(ids) \subseteq Registered
  /\ left \subseteq (IF pc = "controlling" THEN Places(ids) ELSE {})
  /\ results \subseteq [output : Outputs, result : {"skipped", "failure"}]
  /\ level \in [Outputs -> Levels] /\ before \in [Outputs -> Levels]

\* Seen from the caller, who waits for the future, a batch is one step: the
\* abstract specification, which knows neither the optimised list nor the
\* skipped controls, is implemented.  The schedule handler relies on it.
Abstract == INSTANCE BatchControl WITH
  busy <- pc = "controlling",
  request <- ids,
  answer <- failed,
  level <- IF pc = "controlling" THEN before ELSE level

AtomicForTheCaller == Abstract!Spec

\* What the outputs show after a list of controls, each carried out in turn,
\* and after the lists of a batch.
CarriedOut(controls, shown) ==
  LET after[k \in 0 .. Len(controls)] ==
        IF k = 0 THEN shown
        ELSE [after[k - 1] EXCEPT ![controls[k].output] = Applied(controls[k].value, @)]
  IN  after[Len(controls)]

InTurn(batch, shown) ==
  LET after[i \in 0 .. Len(batch)] ==
        IF i = 0 THEN shown ELSE CarriedOut(Controls[batch[i]], after[i - 1])
  IN  after[Len(batch)]

\* A batch that reports no failure leaves every output as if all its controls
\* had been carried out one after the other, although execute_actions sends
\* only one of them to each output, and in another order.  (It holds for
\* absolute values; a toggle that is skipped is a toggle less.)
OptimizedAsInTurn ==
  (pc = "returned" /\ ids # <<>> /\ failed = {}) => level = InTurn(ids, before)

\* An action that execute_actions does not report as failed has taken effect:
\* each of its outputs shows what the last action of the batch that names the
\* output asks for, even when other actions of the batch failed.
AcknowledgedTookEffect ==
  pc = "returned" =>
    \A i \in DOMAIN ids \ failed : \A o \in Touched(Controls[ids[i]]) :
       level[o] = Applied(Abstract!Asked(ids, o), before[o])

=============================================================================
