------------------------ MODULE OutputSchedulerProofs ------------------------
(***************************************************************************)
(* Theorems about OutputScheduler, for any outputs, actions and lists of   *)
(* controls: a batch is one step of BatchControl, and what is acknowledged *)
(* has taken effect.                                                       *)
(***************************************************************************)
EXTENDS OutputScheduler, WellFoundedInduction, SequenceTheorems, TLAPS

-----------------------------------------------------------------------------
(* The controls of a batch.                                                *)

\* A batch the outputs are controlled for.
Accepted(batch) == batch \in Seq(Ids) /\ ToSet(batch) \subseteq Registered

Control == [output : Outputs, value : SwitchValues]

\* A non-empty set of numbers has a least one, and one of positions a last one.
LEMMA LeastNumber ==
  ASSUME NEW S \in SUBSET Nat, S # {}
  PROVE  \E i \in S : \A j \in S : i <= j
<1> DEFINE R == OpToRel(<, Nat)
<1>1. IsWellFoundedOn(R, Nat) /\ S \subseteq Nat
  BY NatLessThanWellFounded
<1>2. \A a, b \in Nat : <<a, b>> \in R <=> a < b
  BY DEF OpToRel
<1> HIDE DEF R
<1>3. PICK i \in S : \A j \in S : ~ (<<j, i>> \in R)
  BY <1>1, WFMin
<1>4. ASSUME NEW j \in S PROVE i <= j
  <2>1. i \in Nat /\ j \in Nat /\ ~ (<<j, i>> \in R)
    BY <1>3
  <2>2. ~(j < i)
    BY <1>2, <2>1
  <2> QED
    BY <2>1, <2>2
<1> QED
  BY <1>4

\* A set of positions has a last one.
LEMMA LastPosition ==
  ASSUME NEW n \in Nat, NEW S \in SUBSET (1 .. n), S # {}
  PROVE  \E i \in S : \A j \in S : j <= i
<1> DEFINE T == {n - i : i \in S}
<1>1. \A i \in S : i \in 1 .. n /\ n - i \in Nat
  OBVIOUS
<1>2. T \in SUBSET Nat /\ T # {}
  BY <1>1
<1>3. PICK x \in T : \A y \in T : x <= y
  <2> HIDE DEF T
  <2> QED
    BY <1>2, LeastNumber
<1>4. PICK i \in S : x = n - i
  BY <1>3
<1>5. \A j \in S : n - i <= n - j
  BY <1>3, <1>4
<1> QED
  BY <1>1, <1>5

\* The last control of an output decides.
LEMMA LastDecides ==
  ASSUME NEW C, NEW controls \in Seq(C), NEW m \in DOMAIN controls, NEW o, controls[m].output = o,
         \A j \in DOMAIN controls : controls[j].output = o => j <= m
  PROVE  LastValue(controls, o) = controls[m].value
<1>1. DOMAIN controls \subseteq Nat
  OBVIOUS
<1>2. m \in Deciding(controls)
  BY DEF Deciding
<1>3. \A c \in Deciding(controls) : controls[c].output = o => c = m
  <2> SUFFICES ASSUME NEW c \in Deciding(controls), controls[c].output = o PROVE c = m
    OBVIOUS
  <2>1. c \in DOMAIN controls /\ c <= m /\ m <= c
    BY DEF Deciding
  <2> QED
    BY <1>1, <2>1
<1>4. (CHOOSE c \in Deciding(controls) : controls[c].output = o) = m
  BY <1>2, <1>3
<1> QED
  BY <1>4 DEF LastValue

\* A place, and the control that is there.
LEMMA PlaceType ==
  ASSUME NEW batch, Accepted(batch), NEW p \in Places(batch)
  PROVE  /\ p = <<p[1], p[2]>>
         /\ p[1] \in 1 .. Len(batch) /\ Len(batch) \in Nat
         /\ Controls[batch[p[1]]] \in Seq(Control)
         /\ p[2] \in 1 .. Len(Controls[batch[p[1]]]) /\ Len(Controls[batch[p[1]]]) \in Nat
         /\ ControlAt(batch, p) \in Control
<1>1. PICK i \in DOMAIN batch : p \in {i} \X DOMAIN Controls[batch[i]]
  BY DEF Places
<1>2. p = <<p[1], p[2]>> /\ p[1] = i /\ p[2] \in DOMAIN Controls[batch[i]]
  BY <1>1
<1>3. batch \in Seq(Ids)
  BY DEF Accepted
<1>4. batch[i] \in Registered
  BY DEF Accepted, ToSet
<1>5. Controls[batch[i]] \in Seq(Control)
  BY <1>4, ActionsAssumption DEF Control
<1> DEFINE cs == Controls[batch[i]]
<1>6. cs \in Seq(Control) /\ p[2] \in DOMAIN cs
  BY <1>2, <1>5
<1> HIDE DEF cs
<1>7. cs[p[2]] \in Control /\ DOMAIN cs = 1 .. Len(cs) /\ Len(cs) \in Nat
  BY <1>6
<1>8. DOMAIN batch = 1 .. Len(batch) /\ Len(batch) \in Nat
  BY <1>3
<1> QED
  BY <1>2, <1>5, <1>6, <1>7, <1>8 DEF cs, ControlAt

\* A non-empty set of places has a last one.
LEMMA LastPlace ==
  ASSUME NEW batch, Accepted(batch), NEW S \in SUBSET Places(batch), S # {}
  PROVE  \E p \in S : \A q \in S : ~Precedes(p, q)
<1> DEFINE I == {p[1] : p \in S}
<1>1. Len(batch) \in Nat
  BY DEF Accepted
<1>2. I \in SUBSET (1 .. Len(batch)) /\ I # {}
  BY PlaceType
<1>3. PICK i \in I : \A j \in I : j <= i
  <2> HIDE DEF I
  <2> QED
    BY <1>1, <1>2, LastPosition
<1> DEFINE n == Len(Controls[batch[i]])
           J == {p[2] : p \in {q \in S : q[1] = i}}
<1>4. n \in Nat /\ J \in SUBSET (1 .. n) /\ J # {}
  BY PlaceType
<1>5. PICK j \in J : \A k \in J : k <= j
  <2> HIDE DEF J, n
  <2> QED
    BY <1>4, LastPosition
<1>6. PICK p \in S : p[1] = i /\ p[2] = j
  OBVIOUS
<1>7. ASSUME NEW q \in S PROVE ~Precedes(p, q)
  <2>1. q[1] \in Int /\ q[2] \in Int /\ i \in Int /\ j \in Int
    BY <1>6, PlaceType
  <2>2. q[1] <= i
    BY <1>3
  <2>3. q[1] = i => q[2] <= j
    BY <1>5
  <2> QED
    BY <1>6, <2>1, <2>2, <2>3 DEF Precedes
<1> QED
  BY <1>6, <1>7

\* Two places are in an order.
LEMMA PlacesOrdered ==
  ASSUME NEW batch, Accepted(batch), NEW p \in Places(batch), NEW q \in Places(batch),
         ~Precedes(p, q), ~Precedes(q, p)
  PROVE  p = q
<1>1. p[1] \in Int /\ p[2] \in Int /\ q[1] \in Int /\ q[2] \in Int
  BY PlaceType
<1>2. p[1] = q[1] /\ p[2] = q[2]
  BY <1>1 DEF Precedes
<1>3. p = <<p[1], p[2]>> /\ q = <<q[1], q[2]>>
  BY PlaceType
<1> QED
  BY <1>2, <1>3

\* The optimised list names an output once.
LEMMA OptimizedOnce ==
  ASSUME NEW batch, Accepted(batch), NEW p \in Optimized(batch), NEW q \in Optimized(batch),
         ControlAt(batch, p).output = ControlAt(batch, q).output
  PROVE  p = q
BY PlacesOrdered DEF Optimized

\* What BatchControl says of a batch, in the terms of this module.
LEMMA AbstractBatch ==
  ASSUME NEW batch
  PROVE  /\ Abstract!Named(batch) = UNION {Touched(Controls[batch[i]]) : i \in DOMAIN batch}
         /\ \A o : Abstract!Asked(batch, o) =
                    LastValue(Controls[batch[CHOOSE i \in DOMAIN batch :
                      /\ o \in Touched(Controls[batch[i]])
                      /\ \A j \in DOMAIN batch : j > i => o \notin Touched(Controls[batch[j]])]], o)
BY DEF Abstract!Named, Abstract!Asked, Abstract!Touched, Abstract!LastValue, Abstract!Deciding,
       Touched, LastValue, Deciding

\* The outputs of the controls are those of the actions.
LEMMA NamedPlaces ==
  ASSUME NEW batch, Accepted(batch), NEW o
  PROVE  o \in Abstract!Named(batch) <=> \E p \in Places(batch) : ControlAt(batch, p).output = o
<1>1. ASSUME NEW p \in Places(batch), ControlAt(batch, p).output = o
      PROVE  o \in Abstract!Named(batch)
  <2>1. p[1] \in DOMAIN batch /\ p[2] \in DOMAIN Controls[batch[p[1]]]
    BY DEF Places
  <2> QED
    BY <1>1, <2>1, AbstractBatch DEF ControlAt, Touched
<1>2. ASSUME o \in Abstract!Named(batch)
      PROVE  \E p \in Places(batch) : ControlAt(batch, p).output = o
  <2>1. PICK i \in DOMAIN batch : o \in Touched(Controls[batch[i]])
    BY <1>2, AbstractBatch
  <2>2. PICK j \in DOMAIN Controls[batch[i]] : Controls[batch[i]][j].output = o
    BY <2>1 DEF Touched
  <2>3. <<i, j>> \in Places(batch)
    BY <2>2 DEF Places
  <2> QED
    BY <2>2, <2>3 DEF ControlAt
<1> QED
  BY <1>1, <1>2

\* The optimised list names every output the batch names.
LEMMA OptimizedExists ==
  ASSUME NEW batch, Accepted(batch), NEW o \in Abstract!Named(batch)
  PROVE  \E p \in Optimized(batch) : ControlAt(batch, p).output = o
<1> DEFINE S == {p \in Places(batch) : ControlAt(batch, p).output = o}
<1>1. S \in SUBSET Places(batch) /\ S # {}
  BY NamedPlaces
<1>2. PICK p \in S : \A q \in S : ~Precedes(p, q)
  <2> HIDE DEF S
  <2> QED
    BY <1>1, LastPlace
<1> QED
  BY <1>2 DEF Optimized

\* What the optimised list asks of an output is what BatchControl says: the
\* last control of it in the last action that names it.
LEMMA OptimizedAsked ==
  ASSUME NEW batch, Accepted(batch), NEW p \in Optimized(batch)
  PROVE  Abstract!Asked(batch, ControlAt(batch, p).output) = ControlAt(batch, p).value
<1> DEFINE o == ControlAt(batch, p).output
           i == p[1]
           cs == Controls[batch[i]]
           IsLast(k) == /\ o \in Touched(Controls[batch[k]])
                        /\ \A j \in DOMAIN batch : j > k => o \notin Touched(Controls[batch[j]])
<1>1. p \in Places(batch)
  BY DEF Optimized
<1>2. i \in DOMAIN batch /\ p[2] \in DOMAIN cs /\ cs[p[2]] = ControlAt(batch, p)
  BY <1>1 DEF Places, ControlAt
<1>3. DOMAIN batch \subseteq Nat
  BY DEF Accepted
<1>4. ASSUME NEW k \in DOMAIN batch, NEW c \in DOMAIN Controls[batch[k]],
             Controls[batch[k]][c].output = o
      PROVE  ~Precedes(p, <<k, c>>)
  <2>1. <<k, c>> \in Places(batch)
    BY DEF Places
  <2>2. ControlAt(batch, <<k, c>>).output = o
    BY <1>4 DEF ControlAt
  <2> QED
    BY <2>1, <2>2 DEF Optimized
<1>5. IsLast(i)
  <2>1. o \in Touched(cs)
    BY <1>2 DEF Touched
  <2>2. ASSUME NEW j \in DOMAIN batch, j > i, o \in Touched(Controls[batch[j]]) PROVE FALSE
    <3>1. PICK c \in DOMAIN Controls[batch[j]] : Controls[batch[j]][c].output = o
      BY <2>2 DEF Touched
    <3>2. ~(i < j)
      BY <1>4, <3>1 DEF Precedes
    <3> QED
      BY <1>2, <1>3, <2>2, <3>2
  <2> QED
    BY <2>1, <2>2
<1>6. \A k \in DOMAIN batch : IsLast(k) => k = i
  <2> SUFFICES ASSUME NEW k \in DOMAIN batch, IsLast(k), k # i PROVE FALSE
    OBVIOUS
  <2>1. k \in Nat /\ i \in Nat
    BY <1>2, <1>3
  <2>2. k < i \/ i < k
    BY <2>1
  <2> QED
    BY <1>2, <1>5, <2>1, <2>2
<1>7. (CHOOSE k \in DOMAIN batch : IsLast(k)) = i
  <2> HIDE DEF i, IsLast
  <2> QED
    BY <1>2, <1>5, <1>6
<1>8. Abstract!Asked(batch, o) = LastValue(cs, o)
  BY <1>7, AbstractBatch
<1>9. cs \in Seq(Control) /\ p[2] \in Nat /\ DOMAIN cs \subseteq Nat
  BY <1>1, PlaceType
<1>11. cs[p[2]].output = o
  BY <1>2
<1>10. ASSUME NEW c \in DOMAIN cs, cs[c].output = o PROVE c <= p[2]
  <2>1. ~Precedes(p, <<i, c>>)
    BY <1>2, <1>4, <1>10
  <2>2. ~(p[2] < c)
    BY <2>1 DEF Precedes
  <2> QED
    BY <1>9, <2>2
<1> QED
  <2> HIDE DEF cs, o
  <2> QED
    BY <1>2, <1>8, <1>9, <1>10, <1>11, LastDecides

-----------------------------------------------------------------------------
(* A batch on its way.                                                     *)

\* The batch the caller may name is a list of ids.
LEMMA BatchType ==
  ASSUME NEW batch \in BoundedSeq(Ids, MaxBatch)
  PROVE  batch \in Seq(Ids) /\ batch = [i \in DOMAIN batch |-> batch[i]]
<1>1. PICK m \in 0 .. MaxBatch : batch \in [1 .. m -> Ids]
  BY DEF BoundedSeq, SeqOf
<1>2. m \in Nat
  BY BoundAssumption
<1> QED
  BY <1>1, <1>2

\* The loop is at the last control that is left.
LEMMA ComingIsLeft ==
  ASSUME TypeOK, pc = "controlling", left # {}
  PROVE  Coming \in left
<1>1. Accepted(ids) /\ left \in SUBSET Places(ids)
  BY DEF TypeOK, Accepted
<1> QED
  BY <1>1, LastPlace DEF Coming

\* Every step of a batch keeps the types.
LEMMA TypeStep == ASSUME TypeOK, [Next]_vars PROVE TypeOK'
<1>1. ASSUME NEW batch \in BoundedSeq(Ids, MaxBatch), ReturnUnexecuted(batch) PROVE TypeOK'
  BY <1>1, BatchType DEF TypeOK, ReturnUnexecuted
<1>2. ASSUME NEW batch \in BoundedSeq(Ids, MaxBatch), StartJob(batch) PROVE TypeOK'
  <2>1. Accepted(batch)
    BY <1>2, BatchType DEF StartJob, Accepted
  <2>2. Skipped(batch) \subseteq [output : Outputs, result : {"skipped", "failure"}]
    <3> SUFFICES ASSUME NEW p \in Places(batch) PROVE ControlAt(batch, p).output \in Outputs
      BY DEF Skipped
    <3> QED
      BY <2>1, PlaceType DEF Control
  <2>3. Optimized(batch) \subseteq Places(batch)
    BY DEF Optimized
  <2> QED
    BY <1>2, <2>1, <2>2, <2>3 DEF TypeOK, StartJob, Accepted
<1>3. ASSUME ControlSucceeds \/ ControlFails PROVE TypeOK'
  <2>1. PICK p : p = Coming
    OBVIOUS
  <2>2. p \in left /\ Accepted(ids) /\ p \in Places(ids)
    BY <1>3, <2>1, ComingIsLeft DEF ControlSucceeds, ControlFails, TypeOK, Accepted
  <2>3. PICK c : c = ControlAt(ids, p)
    OBVIOUS
  <2>4. c \in Control
    BY <2>2, <2>3, PlaceType
  <2>5. Applied(c.value, level[c.output]) \in Levels
    BY <2>4 DEF Control, TypeOK, Applied, SwitchValues, Levels
  <2>6. CASE ControlSucceeds
    <3>1. level' = [level EXCEPT ![c.output] = Applied(c.value, level[c.output])]
      BY <2>1, <2>3, <2>6 DEF ControlSucceeds
    <3>2. level' \in [Outputs -> Levels]
      BY <2>4, <2>5, <3>1 DEF Control, TypeOK
    <3> QED
      BY <2>6, <3>2 DEF ControlSucceeds, TypeOK
  <2>7. CASE ControlFails
    <3>1. results' = results \cup {[output |-> c.output, result |-> "failure"]}
      BY <2>1, <2>3, <2>7 DEF ControlFails
    <3>2. results' \subseteq [output : Outputs, result : {"skipped", "failure"}]
      BY <2>4, <3>1 DEF Control, TypeOK
    <3> QED
      BY <2>7, <3>2 DEF ControlFails, TypeOK
  <2> QED
    BY <1>3, <2>6, <2>7
<1>4. ASSUME ReportFailures PROVE TypeOK'
  BY <1>4 DEF TypeOK, ReportFailures, Failing
<1>5. ASSUME UNCHANGED vars PROVE TypeOK'
  BY <1>5 DEF TypeOK, vars
<1> QED
  BY <1>1, <1>2, <1>3, <1>4, <1>5 DEF Next

\* The variables of a batch keep to their types, whatever its actions ask for.
THEOREM TypeCorrect == Spec => []TypeOK
<1>1. Init => TypeOK
  BY DEF Init, TypeOK, Levels
<1>2. TypeOK /\ [Next]_vars => TypeOK'
  BY TypeStep
<1> QED
  BY <1>1, <1>2, PTL DEF Spec

\* The outputs of which a failure is among the results.
Refusing == {o \in Outputs : [output |-> o, result |-> "failure"] \in results}

\* What has become of an output once the loop has reached its control, if there
\* is one.
Done(o, value) ==
  level[o] = IF o \in Refusing THEN before[o] ELSE Applied(value, before[o])
Untouched(o) == level[o] = before[o] /\ o \notin Refusing

\* Of the optimised list some controls are left, and the outputs of the others
\* have been told their value or have refused it.
Job ==
  /\ Accepted(ids)
  /\ left \subseteq Optimized(ids)
  /\ \A p \in left : Untouched(ControlAt(ids, p).output)
  /\ \A p \in Optimized(ids) \ left : Done(ControlAt(ids, p).output, ControlAt(ids, p).value)
  /\ \A o \in Outputs \ Abstract!Named(ids) : Untouched(o)

\* The inductive invariant.
JobInv ==
  /\ pc = "controlling" => Job
  /\ pc = "returned" => \/ failed = DOMAIN ids
                        \/ Job /\ left = {} /\ failed = Failing(ids, results)

\* Every step of a batch keeps what is left of it.
LEMMA JobStep == ASSUME TypeOK, JobInv, [Next]_vars PROVE JobInv'
<1>1. ASSUME NEW batch \in BoundedSeq(Ids, MaxBatch), ReturnUnexecuted(batch) PROVE JobInv'
  BY <1>1 DEF JobInv, ReturnUnexecuted
<1>2. ASSUME NEW batch \in BoundedSeq(Ids, MaxBatch), StartJob(batch) PROVE JobInv'
  <2>1. Accepted(batch) /\ ids' = batch /\ left' = Optimized(batch) /\ results' = Skipped(batch)
    BY <1>2, BatchType DEF StartJob, Accepted
  <2>2. Refusing' = {}
    BY <2>1 DEF Refusing, Skipped
  <2>3. level' = before'
    BY <1>2 DEF StartJob
  <2>4. Job'
    BY <2>1, <2>2, <2>3 DEF Job, Untouched
  <2> QED
    BY <1>2, <2>4 DEF JobInv, StartJob
<1>3. ASSUME ControlSucceeds \/ ControlFails PROVE JobInv'
  <2>1. PICK p : p = Coming
    OBVIOUS
  <2>2. PICK c : c = ControlAt(ids, p)
    OBVIOUS
  <2>3. /\ pc = "controlling" /\ p \in left /\ p \in Optimized(ids)
        /\ ids' = ids /\ pc' = pc /\ before' = before /\ left' = left \ {p}
    BY <1>3, <2>1, ComingIsLeft DEF ControlSucceeds, ControlFails, JobInv, Job
  <2>4. Job
    BY <2>3 DEF JobInv
  <2>5. c \in Control /\ p \in Places(ids)
    BY <2>2, <2>3, <2>4, PlaceType DEF Job, Optimized
  <2>6. c.output \in Abstract!Named(ids)
    BY <2>2, <2>4, <2>5, NamedPlaces DEF Job
  <2>7. \A q \in Optimized(ids) \ {p} : ControlAt(ids, q).output # c.output
    BY <2>2, <2>3, <2>4, OptimizedOnce DEF Job
  <2>8. level[c.output] = before[c.output] /\ c.output \notin Refusing
    BY <2>2, <2>3, <2>4 DEF Job, Untouched
  <2>9. /\ \A o \in Outputs \ {c.output} : level'[o] = level[o] /\ (o \in Refusing' <=> o \in Refusing)
        /\ Done(c.output, c.value)'
    <3>1. CASE ControlSucceeds
      <4>1. level' = [level EXCEPT ![c.output] = Applied(c.value, level[c.output])] /\ results' = results
        BY <2>1, <2>2, <3>1 DEF ControlSucceeds
      <4> QED
        BY <2>3, <2>5, <2>8, <4>1 DEF TypeOK, Done, Refusing, Control
    <3>2. CASE ControlFails
      <4>1. level' = level /\ results' = results \cup {[output |-> c.output, result |-> "failure"]}
        BY <2>1, <2>2, <3>2 DEF ControlFails
      <4>2. c.output \in Refusing'
        BY <2>5, <4>1 DEF Refusing, Control
      <4>3. \A o \in Outputs \ {c.output} : o \in Refusing' <=> o \in Refusing
        BY <4>1 DEF Refusing
      <4> QED
        BY <2>3, <2>8, <4>1, <4>2, <4>3 DEF Done
    <3> QED
      BY <1>3, <3>1, <3>2
  <2>10. \A q \in Optimized(ids) : ControlAt(ids, q) \in Control
    BY <2>4, PlaceType DEF Job, Optimized
  <2>11. Job'
    <3>1. ASSUME NEW q \in left' PROVE Untouched(ControlAt(ids, q).output)'
      BY <2>3, <2>4, <2>7, <2>9, <2>10, <3>1 DEF Job, Untouched, Control
    <3>2. ASSUME NEW q \in Optimized(ids) \ left'
          PROVE  Done(ControlAt(ids, q).output, ControlAt(ids, q).value)'
      BY <2>2, <2>3, <2>4, <2>7, <2>9, <2>10, <3>2 DEF Job, Done, Control
    <3>3. ASSUME NEW o \in Outputs \ Abstract!Named(ids) PROVE Untouched(o)'
      BY <2>3, <2>4, <2>6, <2>9, <3>3 DEF Job, Untouched
    <3> QED
      BY <2>3, <2>4, <3>1, <3>2, <3>3 DEF Job
  <2> QED
    BY <2>3, <2>11 DEF JobInv
<1>4. ASSUME ReportFailures PROVE JobInv'
  BY <1>4 DEF JobInv, ReportFailures, Job, Done, Untouched, Refusing
<1>5. ASSUME UNCHANGED vars PROVE JobInv'
  BY <1>5 DEF JobInv, Job, Done, Untouched, Refusing, vars
<1> QED
  BY <1>1, <1>2, <1>3, <1>4, <1>5 DEF Next

\* So it is in every behaviour.
LEMMA JobHolds == Spec => []JobInv
<1>1. Init => JobInv
  BY DEF Init, JobInv
<1>2. TypeOK /\ JobInv /\ [Next]_vars => JobInv'
  BY JobStep
<1> QED
  BY <1>1, <1>2, TypeCorrect, PTL DEF Spec

\* Once no control is left, every output shows what the batch asked of it or,
\* if it refused or was not asked, what it showed before.
LEMMA JobResult ==
  ASSUME Job, left = {}, NEW o \in Outputs
  PROVE  level[o] = IF o \in Abstract!Named(ids) \ Refusing
                    THEN Applied(Abstract!Asked(ids, o), before[o]) ELSE before[o]
<1>1. CASE o \in Abstract!Named(ids)
  <2>1. PICK p \in Optimized(ids) : ControlAt(ids, p).output = o
    BY <1>1, OptimizedExists DEF Job
  <2>2. Abstract!Asked(ids, o) = ControlAt(ids, p).value
    BY <2>1, OptimizedAsked DEF Job
  <2> QED
    BY <1>1, <2>1, <2>2 DEF Job, Done
<1>2. CASE o \notin Abstract!Named(ids)
  BY <1>2 DEF Job, Untouched
<1> QED
  BY <1>1, <1>2

\* An action that is not reported as failed has taken effect, for any actions,
\* lists of controls - toggles and outputs named twice among them - and any
\* outputs that refuse.
THEOREM AcknowledgedTookEffectHolds == Spec => []AcknowledgedTookEffect
<1>1. TypeOK /\ JobInv => AcknowledgedTookEffect
  <2> SUFFICES ASSUME TypeOK, JobInv, pc = "returned", NEW i \in DOMAIN ids \ failed,
                      NEW o \in Touched(Controls[ids[i]])
               PROVE  level[o] = Applied(Abstract!Asked(ids, o), before[o])
    BY DEF AcknowledgedTookEffect
  <2>1. Job /\ left = {} /\ failed = Failing(ids, results)
    BY DEF JobInv
  <2>2. o \in Abstract!Named(ids)
    BY AbstractBatch
  <2>3. o \in Outputs
    BY <2>1, <2>2, NamedPlaces, PlaceType DEF Job, Control
  <2>4. o \notin Refusing
    BY <2>1 DEF Failing, Refusing
  <2> QED
    BY <2>1, <2>2, <2>3, <2>4, JobResult
<1> QED
  BY <1>1, TypeCorrect, JobHolds, PTL

\* For its caller a batch is one step of BatchControl.
THEOREM AtomicForTheCallerHolds == Spec => AtomicForTheCaller
<1>1. Init => Abstract!Init
  BY DEF Init, Abstract!Init, Levels, Abstract!Levels
<1>2. TypeOK /\ JobInv /\ [Next]_vars
        => [Abstract!Next]_<<pc = "controlling", ids, failed, IF pc = "controlling" THEN before ELSE level>>
  <2> SUFFICES ASSUME TypeOK, JobInv, [Next]_vars
               PROVE  \/ Abstract!Next
                      \/ UNCHANGED <<pc = "controlling", ids, failed,
                                     IF pc = "controlling" THEN before ELSE level>>
    OBVIOUS
  <2>1. ASSUME NEW batch \in BoundedSeq(Ids, MaxBatch), ReturnUnexecuted(batch)
        PROVE  Abstract!Refuse(batch)
    BY <2>1 DEF ReturnUnexecuted, Abstract!Refuse, ToSet, Abstract!ToSet
  <2>2. ASSUME NEW batch \in BoundedSeq(Ids, MaxBatch), StartJob(batch) PROVE Abstract!Call(batch)
    BY <2>2 DEF StartJob, Abstract!Call, ToSet, Abstract!ToSet
  <2>3. ASSUME ControlSucceeds \/ ControlFails
        PROVE  UNCHANGED <<pc = "controlling", ids, failed, IF pc = "controlling" THEN before ELSE level>>
    BY <2>3 DEF ControlSucceeds, ControlFails
  <2>4. ASSUME ReportFailures PROVE Abstract!Return(Refusing) /\ Refusing \in SUBSET Outputs
    <3>1. Job /\ left = {} /\ pc = "controlling" /\ pc' = "returned" /\ level' = level /\ ids' = ids
      BY <2>4 DEF ReportFailures, JobInv
    <3>2. level = [o \in Outputs |-> IF o \in Abstract!Named(ids) \ Refusing
                                     THEN Applied(Abstract!Asked(ids, o), before[o]) ELSE before[o]]
      BY <3>1, JobResult DEF TypeOK
    <3>3. failed' = {i \in DOMAIN ids : Touched(Controls[ids[i]]) \cap Refusing # {}}
      <4>1. \A i \in DOMAIN ids : Touched(Controls[ids[i]]) \subseteq Outputs
        BY <3>1, AbstractBatch, NamedPlaces, PlaceType DEF Job, Control
      <4> QED
        BY <2>4, <4>1 DEF ReportFailures, Failing, Refusing
    <3> QED
      BY <3>1, <3>2, <3>3 DEF Abstract!Return, Abstract!Carried, Abstract!Failing, Abstract!Touched, Touched, Abstract!Applied, Applied, Refusing
  <2>5. CASE UNCHANGED vars
    BY <2>5 DEF vars
  <2>6. BoundedSeq(Ids, MaxBatch) = Abstract!BoundedSeq(Ids, MaxBatch)
    BY DEF BoundedSeq, SeqOf, Abstract!BoundedSeq, Abstract!SeqOf
  <2> QED
    BY <2>1, <2>2, <2>3, <2>4, <2>5, <2>6 DEF Next, Abstract!Next
<1> QED
  BY <1>1, <1>2, TypeCorrect, JobHolds, PTL DEF Spec, AtomicForTheCaller, Abstract!Spec

-----------------------------------------------------------------------------
(* Carrying out the controls in turn.                                      *)

\* The last one of a set of numbers.
LEMMA MaxIs ==
  ASSUME NEW S \in SUBSET Int, NEW m \in S, \A j \in S : j <= m
  PROVE  Max(S) = m
<1>1. \A x \in S : (\A y \in S : x >= y) => x = m
  OBVIOUS
<1>2. \A y \in S : m >= y
  OBVIOUS
<1> QED
  BY <1>1, <1>2 DEF Max

\* After k steps of which the j-th sets the outputs of T[j] to V[j].
After(k, T, V, shown) ==
  [o \in Outputs |-> LET S == {j \in 1 .. k : o \in T[j]}
                     IN  IF S = {} THEN shown[o] ELSE V[Max(S)][o]]

\* It gives every output a level.
LEMMA AfterType ==
  ASSUME NEW k \in Nat, NEW T, NEW V, NEW shown \in [Outputs -> Levels],
         \A j \in 1 .. k : V[j] \in [Outputs -> Levels]
  PROVE  After(k, T, V, shown) \in [Outputs -> Levels]
<1> SUFFICES ASSUME NEW o \in Outputs PROVE After(k, T, V, shown)[o] \in Levels
  BY DEF After
<1> DEFINE S == {j \in 1 .. k : o \in T[j]}
<1>1. After(k, T, V, shown)[o] = IF S = {} THEN shown[o] ELSE V[Max(S)][o]
  BY DEF After
<1>2. CASE S = {}
  BY <1>1, <1>2
<1>3. CASE S # {}
  <2>1. S \in SUBSET (1 .. k) /\ S \in SUBSET Int
    OBVIOUS
  <2> HIDE DEF S
  <2>2. PICK m \in S : \A j \in S : j <= m
    BY <1>3, <2>1, LastPosition
  <2>3. Max(S) = m /\ m \in 1 .. k
    BY <2>1, <2>2, MaxIs
  <2> QED
    BY <1>1, <1>3, <2>3
<1> QED
  BY <1>2, <1>3

\* No control changes nothing,
LEMMA AfterNone ==
  ASSUME NEW T, NEW V, NEW shown \in [Outputs -> Levels]
  PROVE  After(0, T, V, shown) = shown
<1>1. \A o \in Outputs : {j \in 1 .. 0 : o \in T[j]} = {}
  OBVIOUS
<1> QED
  BY <1>1 DEF After

\* and one more changes the outputs it names.
LEMMA AfterStep ==
  ASSUME NEW k \in Nat \ {0}, NEW T, NEW V, NEW shown
  PROVE  After(k, T, V, shown) =
           [o \in Outputs |-> IF o \in T[k] THEN V[k][o] ELSE After(k - 1, T, V, shown)[o]]
<1>1. ASSUME NEW o \in Outputs
      PROVE  After(k, T, V, shown)[o] = IF o \in T[k] THEN V[k][o] ELSE After(k - 1, T, V, shown)[o]
  <2> DEFINE S == {j \in 1 .. k : o \in T[j]}
             R == {j \in 1 .. k - 1 : o \in T[j]}
  <2>1. CASE o \in T[k]
    <3>1. S \in SUBSET Int /\ k \in S /\ \A j \in S : j <= k
      BY <2>1
    <3>2. Max(S) = k
      <4> HIDE DEF S
      <4> QED
        BY <3>1, MaxIs
    <3>3. After(k, T, V, shown)[o] = IF S = {} THEN shown[o] ELSE V[Max(S)][o]
      BY DEF After
    <3> HIDE DEF S
    <3> QED
      BY <2>1, <3>1, <3>2, <3>3
  <2>2. CASE o \notin T[k]
    <3>1. S = R
      BY <2>2
    <3>2. After(k, T, V, shown)[o] = IF S = {} THEN shown[o] ELSE V[Max(S)][o]
      BY DEF After
    <3>3. After(k - 1, T, V, shown)[o] = IF R = {} THEN shown[o] ELSE V[Max(R)][o]
      BY DEF After
    <3> HIDE DEF S, R
    <3> QED
      BY <2>2, <3>1, <3>2, <3>3
  <2> QED
    BY <2>1, <2>2
<1>2. After(k, T, V, shown) = [o \in Outputs |-> After(k, T, V, shown)[o]]
  BY DEF After
<1> QED
  BY <1>1, <1>2

\* Two functions that begin alike and go on alike end alike.
Alike(f, g, n) == f[0] = g[0] /\ \A k \in 1 .. n : f[k - 1] = g[k - 1] => f[k] = g[k]

\* Which a least place at which they differ would contradict.
LEMMA SameSteps ==
  ASSUME NEW n \in Nat, NEW f, NEW g, Alike(f, g, n)
  PROVE  f[n] = g[n]
<1> DEFINE B == {k \in 0 .. n : f[k] # g[k]}
<1> SUFFICES ASSUME B # {} PROVE FALSE
  BY DEF Alike
<1>1. B \subseteq Nat
  OBVIOUS
<1>2. PICK k \in B : \A j \in B : k <= j
  <2> HIDE DEF B
  <2> QED
    BY <1>1, LeastNumber
<1>3. k \in 1 .. n
  BY DEF Alike
<1>4. k - 1 \in 0 .. n /\ k - 1 \notin B
  BY <1>2, <1>3
<1>5. f[k - 1] = g[k - 1]
  BY <1>4
<1> QED
  BY <1>3, <1>5 DEF Alike

\* No action toggles an output.
AbsoluteValues ==
  \A a \in Registered : \A k \in DOMAIN Controls[a] : Controls[a][k].value \in Levels

\* What a list of absolute controls leaves of the outputs.
LEMMA CarriedOutIs ==
  ASSUME NEW controls \in Seq([output : Outputs, value : Levels]), NEW shown \in [Outputs -> Levels]
  PROVE  CarriedOut(controls, shown) =
           [o \in Outputs |-> IF o \in Touched(controls) THEN LastValue(controls, o) ELSE shown[o]]
<1> DEFINE n == Len(controls)
           T == [k \in 1 .. n |-> {controls[k].output}]
           V == [k \in 1 .. n |-> [o \in Outputs |-> controls[k].value]]
           Body(f, k) == IF k = 0 THEN shown
                         ELSE [f[k - 1] EXCEPT ![controls[k].output] = Applied(controls[k].value, @)]
           after == CHOOSE f : f = [k \in 0 .. n |-> Body(f, k)]
           g == [k \in 0 .. n |-> After(k, T, V, shown)]
<1>1. n \in Nat /\ DOMAIN controls = 1 .. n /\ \A k \in 1 .. n : controls[k] \in [output : Outputs, value : Levels]
  BY LenProperties, ElementOfSeq
<1>2. ASSUME NEW h \in [Outputs -> Levels], NEW k \in 1 .. n
      PROVE  [h EXCEPT ![controls[k].output] = Applied(controls[k].value, @)]
               = [o \in Outputs |-> IF o \in T[k] THEN V[k][o] ELSE h[o]]
  <2>1. controls[k].output \in Outputs /\ controls[k].value \in Levels
    BY <1>1
  <2>2. Applied(controls[k].value, h[controls[k].output]) = controls[k].value
    BY <2>1 DEF Applied, Levels
  <2> QED
    BY <2>1, <2>2
<1>3. \A k \in 1 .. n : V[k] \in [Outputs -> Levels]
  BY <1>1
<1>4. g = [k \in 0 .. n |-> Body(g, k)]
  <2>1. ASSUME NEW k \in 0 .. n PROVE g[k] = Body(g, k)
    <3>1. CASE k = 0
      <4>1. After(0, T, V, shown) = shown
        <5> HIDE DEF T, V, n
        <5> QED
          BY AfterNone
      <4> QED
        BY <1>1, <3>1, <4>1
    <3>2. CASE k # 0
      <4>1. k \in 1 .. n /\ k - 1 \in 0 .. n /\ g[k - 1] = After(k - 1, T, V, shown) /\ g[k] = After(k, T, V, shown)
        BY <3>2
      <4>2. After(k - 1, T, V, shown) \in [Outputs -> Levels]
        <5> HIDE DEF T, V, n
        <5> QED
          BY <1>1, <1>3, <4>1, AfterType
      <4>3. After(k, T, V, shown) =
              [o \in Outputs |-> IF o \in T[k] THEN V[k][o] ELSE After(k - 1, T, V, shown)[o]]
        <5> HIDE DEF T, V, n
        <5>1. k \in Nat \ {0}
          BY <4>1
        <5> QED
          BY <5>1, AfterStep
      <4> HIDE DEF g, T, V
      <4> QED
        BY <1>2, <3>2, <4>1, <4>2, <4>3
    <3> QED
      BY <3>1, <3>2
  <2> HIDE DEF Body
  <2> QED
    BY <2>1
<1>5. after = [k \in 0 .. n |-> Body(after, k)]
  <2> HIDE DEF g, Body
  <2> QED
    BY <1>4
<1>6. after[n] = g[n]
  <2> HIDE DEF g, after
  <2>1. after[0] = g[0]
    BY <1>1, <1>4, <1>5
  <2>2. \A k \in 1 .. n : after[k - 1] = g[k - 1] => after[k] = g[k]
    <3> SUFFICES ASSUME NEW k \in 1 .. n, after[k - 1] = g[k - 1] PROVE after[k] = g[k]
      OBVIOUS
    <3>1. k \in 0 .. n /\ k # 0
      BY <1>1
    <3>2. after[k] = Body(after, k) /\ g[k] = Body(g, k)
      <4> HIDE DEF Body
      <4> QED
        BY <1>4, <1>5, <3>1
    <3>3. Body(after, k) = Body(g, k)
      BY <3>1
    <3> QED
      BY <3>2, <3>3
  <2>3. n \in Nat
    BY <1>1
  <2> HIDE DEF n
  <2>4. Alike(after, g, n)
    BY <2>1, <2>2 DEF Alike
  <2> QED
    BY <2>3, <2>4, SameSteps
<1>7. CarriedOut(controls, shown) = after[n]
  BY DEF CarriedOut
<1>8. ASSUME NEW o \in Outputs
      PROVE  After(n, T, V, shown)[o] = IF o \in Touched(controls) THEN LastValue(controls, o) ELSE shown[o]
  <2> DEFINE S == {j \in 1 .. n : o \in T[j]}
  <2>1. After(n, T, V, shown)[o] = IF S = {} THEN shown[o] ELSE V[Max(S)][o]
    BY DEF After
  <2>2. S = {j \in 1 .. n : controls[j].output = o}
    OBVIOUS
  <2>3. CASE S = {}
    BY <1>1, <2>1, <2>2, <2>3 DEF Touched
  <2>4. CASE S # {}
    <3>1. S \in SUBSET (1 .. n) /\ S \in SUBSET Int
      OBVIOUS
    <3>2. PICK m \in S : \A j \in S : j <= m
      <4> HIDE DEF S, n
      <4> QED
        BY <1>1, <2>4, <3>1, LastPosition
    <3>3. Max(S) = m
      <4> HIDE DEF S
      <4> QED
        BY <3>1, <3>2, MaxIs
    <3>4. m \in 1 .. n /\ controls[m].output = o
      BY <2>2, <3>2
    <3>5. V[m][o] = controls[m].value
      BY <3>4
    <3>6. LastValue(controls, o) = controls[m].value
      BY <1>1, <2>2, <3>2, <3>4, LastDecides
    <3>7. o \in Touched(controls)
      BY <1>1, <3>4 DEF Touched
    <3> QED
      BY <2>1, <2>4, <3>3, <3>5, <3>6, <3>7
  <2> QED
    BY <2>3, <2>4
<1>9. g[n] = After(n, T, V, shown)
  BY <1>1
<1>10. After(n, T, V, shown) = [o \in Outputs |-> After(n, T, V, shown)[o]]
  BY DEF After
<1> QED
  <2> HIDE DEF after, g, T, V, n
  <2> QED
    BY <1>6, <1>7, <1>8, <1>9, <1>10

\* The value a list leaves on an output it names is one of the list's.
LEMMA LastValueLevel ==
  ASSUME NEW controls \in Seq([output : Outputs, value : Levels]), NEW o \in Touched(controls)
  PROVE  LastValue(controls, o) \in Levels
<1> DEFINE S == {i \in DOMAIN controls : controls[i].output = o}
<1>1. S \in SUBSET (1 .. Len(controls)) /\ S # {} /\ Len(controls) \in Nat
  BY DEF Touched
<1>2. PICK i \in S : \A j \in S : j <= i
  <2> HIDE DEF S
  <2> QED
    BY <1>1, LastPosition
<1>3. LastValue(controls, o) = controls[i].value
  BY <1>2, LastDecides
<1>4. controls[i] \in [output : Outputs, value : Levels]
  BY <1>2, ElementOfSeq, LenProperties
<1> QED
  BY <1>3, <1>4

\* What a batch of absolute actions asks of an output: each action in turn.
LEMMA InTurnIs ==
  ASSUME AbsoluteValues, NEW batch, Accepted(batch), NEW shown \in [Outputs -> Levels]
  PROVE  InTurn(batch, shown) =
           [o \in Outputs |-> IF o \in Abstract!Named(batch) THEN Abstract!Asked(batch, o) ELSE shown[o]]
<1> DEFINE n == Len(batch)
           T == [i \in 1 .. n |-> Touched(Controls[batch[i]])]
           V == [i \in 1 .. n |-> [o \in Outputs |->
                   IF o \in T[i] THEN LastValue(Controls[batch[i]], o) ELSE "on"]]
           Body(f, i) == IF i = 0 THEN shown ELSE CarriedOut(Controls[batch[i]], f[i - 1])
           after == CHOOSE f : f = [i \in 0 .. n |-> Body(f, i)]
           g == [i \in 0 .. n |-> After(i, T, V, shown)]
<1>1. n \in Nat /\ DOMAIN batch = 1 .. n
  BY LenProperties DEF Accepted
<1>2. ASSUME NEW i \in 1 .. n
      PROVE  Controls[batch[i]] \in Seq([output : Outputs, value : Levels])
  <2>1. batch[i] \in Registered
    BY <1>1 DEF Accepted, ToSet
  <2> DEFINE cs == Controls[batch[i]]
             Plain == [output : Outputs, value : Levels]
  <2>2. cs \in Seq(Control)
    BY <2>1, ActionsAssumption DEF Control
  <2>3. \A c \in DOMAIN cs : cs[c].value \in Levels
    BY <2>1 DEF AbsoluteValues
  <2> HIDE DEF cs
  <2>4. ASSUME NEW c \in 1 .. Len(cs) PROVE cs[c] \in Plain
    <3>1. c \in DOMAIN cs /\ cs[c] \in Control
      BY <2>2, ElementOfSeq, LenProperties
    <3> QED
      BY <2>3, <3>1 DEF Control
  <2> HIDE DEF Plain
  <2>5. cs = [c \in 1 .. Len(cs) |-> cs[c]] /\ Len(cs) \in Nat
    BY <2>2
  <2>6. cs \in Seq(Plain)
    BY <2>4, <2>5
  <2> QED
    BY <2>6 DEF cs, Plain
<1>3. ASSUME NEW i \in 1 .. n PROVE V[i] \in [Outputs -> Levels]
  <2>1. ASSUME NEW o \in T[i] PROVE LastValue(Controls[batch[i]], o) \in Levels
    <3>1. PICK cs : cs = Controls[batch[i]]
      OBVIOUS
    <3>2. cs \in Seq([output : Outputs, value : Levels]) /\ o \in Touched(cs)
      BY <1>2, <3>1
    <3> QED
      BY <3>1, <3>2, LastValueLevel
  <2> QED
    BY <2>1 DEF Levels
<1>4. ASSUME NEW h \in [Outputs -> Levels], NEW i \in 1 .. n
      PROVE  CarriedOut(Controls[batch[i]], h) = [o \in Outputs |-> IF o \in T[i] THEN V[i][o] ELSE h[o]]
  <2>1. CarriedOut(Controls[batch[i]], h) =
          [o \in Outputs |-> IF o \in Touched(Controls[batch[i]])
                             THEN LastValue(Controls[batch[i]], o) ELSE h[o]]
    BY <1>2, CarriedOutIs
  <2> QED
    BY <2>1
<1>5. g = [i \in 0 .. n |-> Body(g, i)]
  <2>1. ASSUME NEW i \in 0 .. n PROVE g[i] = Body(g, i)
    <3>1. CASE i = 0
      <4>1. After(0, T, V, shown) = shown
        <5> HIDE DEF T, V, n
        <5> QED
          BY AfterNone
      <4> QED
        BY <1>1, <3>1, <4>1
    <3>2. CASE i # 0
      <4>1. i \in 1 .. n /\ i - 1 \in 0 .. n /\ g[i - 1] = After(i - 1, T, V, shown) /\ g[i] = After(i, T, V, shown)
        BY <3>2
      <4>2. After(i - 1, T, V, shown) \in [Outputs -> Levels]
        <5> HIDE DEF T, V, n
        <5> QED
          BY <1>1, <1>3, <4>1, AfterType
      <4>3. After(i, T, V, shown) =
              [o \in Outputs |-> IF o \in T[i] THEN V[i][o] ELSE After(i - 1, T, V, shown)[o]]
        <5> HIDE DEF T, V, n
        <5>1. i \in Nat \ {0}
          BY <4>1
        <5> QED
          BY <5>1, AfterStep
      <4> HIDE DEF g, T, V
      <4> QED
        BY <1>4, <3>2, <4>1, <4>2, <4>3
    <3> QED
      BY <3>1, <3>2
  <2> HIDE DEF Body
  <2> QED
    BY <2>1
<1>6. after = [i \in 0 .. n |-> Body(after, i)]
  <2> HIDE DEF g, Body
  <2> QED
    BY <1>5
<1>7. after[n] = g[n]
  <2> HIDE DEF g, after
  <2>1. after[0] = g[0]
    BY <1>1, <1>5, <1>6
  <2>2. \A i \in 1 .. n : after[i - 1] = g[i - 1] => after[i] = g[i]
    <3> SUFFICES ASSUME NEW i \in 1 .. n, after[i - 1] = g[i - 1] PROVE after[i] = g[i]
      OBVIOUS
    <3>1. i \in 0 .. n /\ i # 0
      BY <1>1
    <3>2. after[i] = Body(after, i) /\ g[i] = Body(g, i)
      <4> HIDE DEF Body
      <4> QED
        BY <1>5, <1>6, <3>1
    <3>3. Body(after, i) = Body(g, i)
      BY <3>1
    <3> QED
      BY <3>2, <3>3
  <2>3. n \in Nat
    BY <1>1
  <2> HIDE DEF n
  <2>4. Alike(after, g, n)
    BY <2>1, <2>2 DEF Alike
  <2> QED
    BY <2>3, <2>4, SameSteps
<1>8. InTurn(batch, shown) = after[n]
  BY DEF InTurn
<1>9. ASSUME NEW o \in Outputs
      PROVE  After(n, T, V, shown)[o] =
               IF o \in Abstract!Named(batch) THEN Abstract!Asked(batch, o) ELSE shown[o]
  <2> DEFINE S == {i \in 1 .. n : o \in T[i]}
  <2>1. After(n, T, V, shown)[o] = IF S = {} THEN shown[o] ELSE V[Max(S)][o]
    BY DEF After
  <2>2. S = {i \in DOMAIN batch : o \in Touched(Controls[batch[i]])}
    BY <1>1
  <2>3. CASE S = {}
    <3>1. o \notin Abstract!Named(batch)
      <4> SUFFICES ASSUME o \in Abstract!Named(batch) PROVE FALSE
        OBVIOUS
      <4>1. PICK i \in DOMAIN batch : o \in Touched(Controls[batch[i]])
        BY AbstractBatch
      <4> QED
        BY <2>2, <2>3, <4>1
    <3> HIDE DEF S
    <3> QED
      BY <2>1, <2>3, <3>1
  <2>4. CASE S # {}
    <3>1. S \in SUBSET (1 .. n) /\ S \in SUBSET Int
      OBVIOUS
    <3>2. PICK m \in S : \A i \in S : i <= m
      <4> HIDE DEF S, n
      <4> QED
        BY <1>1, <2>4, <3>1, LastPosition
    <3>3. Max(S) = m
      <4> HIDE DEF S
      <4> QED
        BY <3>1, <3>2, MaxIs
    <3>4. m \in DOMAIN batch /\ o \in Touched(Controls[batch[m]]) /\ m \in 1 .. n
      BY <1>1, <2>2, <3>2
    <3>5. V[m][o] = LastValue(Controls[batch[m]], o)
      BY <3>4
    <3>6. (CHOOSE i \in DOMAIN batch :
             /\ o \in Touched(Controls[batch[i]])
             /\ \A j \in DOMAIN batch : j > i => o \notin Touched(Controls[batch[j]])) = m
      <4> DEFINE IsLast(i) == /\ o \in Touched(Controls[batch[i]])
                              /\ \A j \in DOMAIN batch : j > i => o \notin Touched(Controls[batch[j]])
      <4>1. IsLast(m)
        <5> SUFFICES ASSUME NEW j \in DOMAIN batch, j > m, o \in Touched(Controls[batch[j]]) PROVE FALSE
          BY <3>4
        <5>1. j \in S
          BY <2>2
        <5>2. j <= m /\ j \in Int /\ m \in Int
          BY <3>1, <3>2, <5>1
        <5> QED
          BY <5>2
      <4>2. ASSUME NEW i \in DOMAIN batch, IsLast(i) PROVE i = m
        <5>1. i \in S
          BY <2>2, <4>2
        <5>2. i <= m /\ ~(m > i) /\ i \in Int /\ m \in Int
          BY <3>1, <3>2, <3>4, <4>2, <5>1
        <5> QED
          BY <5>2
      <4> HIDE DEF IsLast
      <4>3. (CHOOSE i \in DOMAIN batch : IsLast(i)) = m
        BY <3>4, <4>1, <4>2
      <4> QED
        BY <4>3 DEF IsLast
    <3>7. Abstract!Asked(batch, o) = LastValue(Controls[batch[m]], o)
      BY <3>6, AbstractBatch
    <3>8. o \in Abstract!Named(batch)
      BY <3>4, AbstractBatch
    <3> QED
      BY <2>1, <2>4, <3>3, <3>5, <3>7, <3>8
  <2> QED
    BY <2>3, <2>4
<1>10. g[n] = After(n, T, V, shown)
  BY <1>1
<1>11. After(n, T, V, shown) = [o \in Outputs |-> After(n, T, V, shown)[o]]
  BY DEF After
<1> QED
  <2> HIDE DEF after, g, T, V, n
  <2> QED
    BY <1>7, <1>8, <1>9, <1>10, <1>11

\* A batch that reports no failure shows what its controls show one after the
\* other, for any actions that toggle nothing.
THEOREM OptimizedAsInTurnHolds ==
  ASSUME AbsoluteValues
  PROVE  Spec => []OptimizedAsInTurn
<1>1. TypeOK /\ JobInv => OptimizedAsInTurn
  <2> SUFFICES ASSUME TypeOK, JobInv, pc = "returned", ids # <<>>, failed = {}
               PROVE  level = InTurn(ids, before)
    BY DEF OptimizedAsInTurn
  <2>1. DOMAIN ids # {}
    <3>1. ids \in Seq(Ids) /\ ids # <<>>
      BY DEF TypeOK
    <3>2. Len(ids) \in Nat /\ Len(ids) # 0 /\ DOMAIN ids = 1 .. Len(ids)
      BY <3>1, EmptySeq, LenProperties
    <3>3. 1 \in 1 .. Len(ids)
      BY <3>2
    <3> QED
      BY <3>2, <3>3
  <2>2. Job /\ left = {} /\ Failing(ids, results) = {}
    BY <2>1 DEF JobInv
  <2>3. InTurn(ids, before) =
          [o \in Outputs |-> IF o \in Abstract!Named(ids) THEN Abstract!Asked(ids, o) ELSE before[o]]
    BY <2>2, InTurnIs DEF Job, TypeOK
  <2>4. ASSUME NEW o \in Outputs
        PROVE  level[o] = IF o \in Abstract!Named(ids) THEN Abstract!Asked(ids, o) ELSE before[o]
    <3>1. level[o] = IF o \in Abstract!Named(ids) \ Refusing
                     THEN Applied(Abstract!Asked(ids, o), before[o]) ELSE before[o]
      BY <2>2, JobResult
    <3>2. CASE o \in Abstract!Named(ids)
      <4>1. PICK i \in DOMAIN ids : o \in Touched(Controls[ids[i]])
        BY <3>2, AbstractBatch
      <4>2. o \notin Refusing
        BY <2>2, <4>1 DEF Failing, Refusing
      <4>3. PICK p \in Optimized(ids) : ControlAt(ids, p).output = o
        BY <2>2, <3>2, OptimizedExists DEF Job
      <4>4. Abstract!Asked(ids, o) = ControlAt(ids, p).value
        BY <2>2, <4>3, OptimizedAsked DEF Job
      <4>5. ControlAt(ids, p).value \in Levels
        <5>1. p \in Places(ids)
          BY <4>3 DEF Optimized
        <5>2. ids[p[1]] \in Registered /\ p[2] \in DOMAIN Controls[ids[p[1]]]
          BY <2>2, <5>1 DEF Places, Job, Accepted, ToSet
        <5> QED
          BY <5>2 DEF AbsoluteValues, ControlAt
      <4>6. Applied(Abstract!Asked(ids, o), before[o]) = Abstract!Asked(ids, o)
        BY <4>4, <4>5 DEF Applied, Levels
      <4> QED
        BY <3>1, <3>2, <4>2, <4>6
    <3>3. CASE o \notin Abstract!Named(ids)
      BY <3>1, <3>3
    <3> QED
      BY <3>2, <3>3
  <2> QED
    BY <2>3, <2>4 DEF TypeOK
<1> QED
  BY <1>1, TypeCorrect, JobHolds, PTL

=============================================================================
