---------------------------- MODULE BatchControl ---------------------------
(***************************************************************************)
(* What schedule_action::execute_actions promises its caller: a batch of   *)
(* action ids is carried out as a whole, some outputs refuse, every other  *)
(* output shows what the last action that names it asks for, and the ids   *)
(* reported back are exactly those that name an output that refused.  An   *)
(* empty batch, or one with an unknown id, does nothing and comes back.    *)
(***************************************************************************)
EXTENDS OutputBatch, SequencesExt

CONSTANTS Outputs, Ids, Registered, Controls, MaxBatch

VARIABLES
  busy,      \* a caller waits for the batch
  request,   \* the ids of the latest call
  answer,    \* the positions in it of the ids it reported as failed
  level      \* what every output shows

Init == busy = FALSE /\ request = <<>> /\ answer = {} /\ level \in [Outputs -> Levels]

\* What a batch asks of an output: the last action that names it decides.
Asked(batch, o) ==
  LET last == CHOOSE i \in DOMAIN batch :
                /\ o \in Touched(Controls[batch[i]])
                /\ \A j \in DOMAIN batch : j > i => o \notin Touched(Controls[batch[j]])
  IN  LastValue(Controls[batch[last]], o)

Named(batch) == UNION {Touched(Controls[batch[i]]) : i \in DOMAIN batch}

\* What the outputs show after a batch and what it reports, given those that
\* refuse.
Carried(batch, refusing) ==
  [o \in Outputs |-> IF o \in Named(batch) \ refusing THEN Applied(Asked(batch, o), level[o]) ELSE level[o]]
Failing(batch, refusing) == {i \in DOMAIN batch : Touched(Controls[batch[i]]) \cap refusing # {}}

Refuse(batch) ==
  /\ ~busy
  /\ batch = <<>> \/ ~ ToSet(batch) \subseteq Registered
  /\ request' = batch /\ answer' = DOMAIN batch
  /\ UNCHANGED <<busy, level>>

Call(batch) ==
  /\ ~busy
  /\ batch # <<>> /\ ToSet(batch) \subseteq Registered
  /\ busy' = TRUE /\ request' = batch /\ answer' = {}
  /\ UNCHANGED level

Return(refusing) ==
  /\ busy
  /\ busy' = FALSE
  /\ level' = Carried(request, refusing)
  /\ answer' = Failing(request, refusing)
  /\ UNCHANGED request

Next ==
  \/ \E batch \in BoundedSeq(Ids, MaxBatch) : Refuse(batch) \/ Call(batch)
  \/ \E refusing \in SUBSET Outputs : Return(refusing)

Spec == Init /\ [][Next]_<<busy, request, answer, level>>

=============================================================================
