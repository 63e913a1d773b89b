----------------------- MODULE ScheduleHandlerProofs -----------------------
(***************************************************************************)
(* The schedule handler, for all schedules, outputs and clocks: no event   *)
(* is carried out before its moment, except for those of a day that began  *)
(* between two clock readings; a schedule is listed once and never lost.   *)
(* With one schedule in the handler: its events are carried out once in    *)
(* each run and none is missed, and outputs that were given back on their  *)
(* panels follow it.                                                       *)
(***************************************************************************)
EXTENDS SchedulePanel, WellFoundedInduction, FiniteSetTheorems, SequenceTheorems, TLAPS

-----------------------------------------------------------------------------
(* What the handler does but for the levels of the outputs, which are set  *)
(* by its batches and, on a panel, by the user as well.                    *)

handlerVars == <<clockVars, listVars, threadVars, clientVars, broken, ran>>

HandlerNext == Interface \/ ThreadAlone \/ ScanMarks \/ Environment

\* The handler alone.
LEMMA NextIsHandlerNext == [Next]_vars => [HandlerNext]_handlerVars
BY DEF Next, EventThread, ScanSchedule, HandlerNext, vars, handlerVars, outputVars

\* The handler and its panels.
LEMMA PanelNextIsHandlerNext == [PanelNext]_allVars => [HandlerNext]_handlerVars
<1>1. ASSUME User PROVE UNCHANGED handlerVars
  BY <1>1 DEF User, RestoreControl, OverrideWith, handlerVars
<1>2. ASSUME PanelThread PROVE HandlerNext
  BY <1>2 DEF PanelThread, ScanControls, HandlerNext
<1>3. ASSUME Interface \/ PassMinute \/ (\E o \in Outputs : Break(o) \/ Repair(o)) PROVE HandlerNext
  BY <1>3 DEF HandlerNext, Environment
<1>4. ASSUME UNCHANGED allVars PROVE UNCHANGED handlerVars
  BY <1>4 DEF allVars, vars, handlerVars, outputVars
<1> QED
  BY <1>1, <1>2, <1>3, <1>4 DEF PanelNext

-----------------------------------------------------------------------------
(* The list operations.  X is a set of schedules that a moved-from schedule *)
(* does not leave; what remove_if, erase and the tail contain stays in it.  *)

\* remove_if returns an iterator into the list or to its end.
LEMMA FirstGoneType ==
  ASSUME NEW X, NEW list \in Seq(X), NEW gone
  PROVE  FirstGone(list, gone) \in 1 .. Len(list) + 1
<1>0. Len(list) \in Nat /\ DOMAIN list = 1 .. Len(list)
  OBVIOUS
<1>1. IsFiniteSet(1 .. Len(list)) /\ Cardinality(1 .. Len(list)) = Len(list)
  <2> DEFINE n == Len(list)
  <2> HIDE DEF n
  <2>1. n \in Nat
    BY <1>0 DEF n
  <2>2. IsFiniteSet(1 .. n) /\ Cardinality(1 .. n) = IF 1 > n THEN 0 ELSE n - 1 + 1
    BY <2>1, FS_Interval
  <2> QED
    BY <2>1, <2>2 DEF n
<1> DEFINE kept == DOMAIN list \ gone
<1>2. kept \in SUBSET (1 .. Len(list))
  BY <1>0
<1> HIDE DEF kept
<1>3. IsFiniteSet(kept) /\ Cardinality(kept) <= Len(list)
  BY <1>1, <1>2, FS_Subset
<1>4. Cardinality(kept) \in Nat
  BY <1>3, FS_CardinalityType
<1> QED
  BY <1>0, <1>3, <1>4 DEF FirstGone, kept

\* remove_if leaves as many elements as there were, of any set that holds
\* the moved-from ones.
LEMMA RemoveIfType ==
  ASSUME NEW X, \A s \in X : MovedFrom(s) \in X, NEW list \in Seq(X), NEW gone
  PROVE  /\ RemoveIf(list, gone) \in Seq(X)
         /\ Len(RemoveIf(list, gone)) = Len(list)
<1> DEFINE kept == DOMAIN list \ gone
           lands(i) == Cardinality({j \in kept : j <= i})
           slot(k) == IF \E i \in kept : lands(i) = k
                      THEN list[CHOOSE i \in kept : lands(i) = k]
                      ELSE IF k \in kept THEN MovedFrom(list[k]) ELSE list[k]
<1>1. RemoveIf(list, gone) = [k \in 1 .. Len(list) |-> slot(k)]
  BY DEF RemoveIf
<1>2. \A k \in 1 .. Len(list) : slot(k) \in X
  <2> SUFFICES ASSUME NEW k \in 1 .. Len(list) PROVE slot(k) \in X
    OBVIOUS
  <2>1. CASE \E i \in kept : lands(i) = k
    <3> DEFINE c == CHOOSE i \in kept : lands(i) = k
    <3>1. c \in kept
      BY <2>1
    <3>2. c \in DOMAIN list
      BY <3>1
    <3> HIDE DEF c
    <3>3. list[c] \in X
      BY <3>2
    <3> QED
      BY <2>1, <3>3 DEF c
  <2>2. CASE ~ \E i \in kept : lands(i) = k
    BY <2>2
  <2> QED
    BY <2>1, <2>2
<1> HIDE DEF slot
<1> QED
  BY <1>1, <1>2

\* The elements from the returned iterator to the end are of that set too.
LEMMA RemovedType ==
  ASSUME NEW X, \A s \in X : MovedFrom(s) \in X, NEW list \in Seq(X), NEW gone
  PROVE  Removed(list, gone) \in Seq(X)
<1>1. RemoveIf(list, gone) \in Seq(X) /\ Len(RemoveIf(list, gone)) = Len(list)
  BY RemoveIfType
<1>2. FirstGone(list, gone) \in 1 .. Len(list) + 1
  BY FirstGoneType
<1>3. \A i \in FirstGone(list, gone) .. Len(list) : RemoveIf(list, gone)[i] \in X
  BY <1>1, <1>2
<1> QED
  BY <1>2, <1>3, SubSeqProperties DEF Removed

\* So are those left when one element of the tail is erased.
LEMMA LeftType ==
  ASSUME NEW X, \A s \in X : MovedFrom(s) \in X, NEW list \in Seq(X),
         NEW gone, gone \subseteq DOMAIN list
  PROVE  Left(list, gone) \in Seq(X)
<1>1. CASE gone = {}
  BY <1>1 DEF Left
<1>2. CASE gone # {}
  <2> DEFINE r == RemoveIf(list, gone)
             k == FirstGone(list, gone)
  <2>1. r \in Seq(X) /\ Len(r) = Len(list)
    BY RemoveIfType
  <2>2. k \in Nat
    BY FirstGoneType
  <2>3. Len(list) - 1 \in Nat
    BY <1>2
  <2> HIDE DEF r, k
  <2>4. EraseOne(r, k) \in Seq(X)
    BY <2>1, <2>2, <2>3 DEF EraseOne
  <2> QED
    BY <1>2, <2>4 DEF Left, r, k
<1> QED
  BY <1>1, <1>2

-----------------------------------------------------------------------------
(* The batch.                                                              *)

\* A non-empty set of positions of a sequence has a last one.
LEMMA LastPosition ==
  ASSUME NEW n \in Nat, NEW S \in SUBSET (1 .. n), S # {}
  PROVE  \E i \in S : \A j \in S : j <= i
<1> DEFINE T == {n - i : i \in S}
<1>a. \A i \in S : i \in 1 .. n /\ n - i \in Nat
  OBVIOUS
<1>1. T \subseteq Nat /\ T # {}
  BY <1>a
<1> DEFINE R == OpToRel(<, Nat)
<1>b. IsWellFoundedOn(R, Nat)
  BY NatLessThanWellFounded
<1>c. \A a, b \in Nat : <<a, b>> \in R <=> a < b
  BY DEF OpToRel
<1> HIDE DEF R
<1>2. PICK x \in T : \A y \in T : ~ (<<y, x>> \in R)
  BY <1>1, <1>b, WFMin
<1>3. \A y \in T : x <= y
  <2> SUFFICES ASSUME NEW y \in T PROVE x <= y
    OBVIOUS
  <2>1. x \in Nat /\ y \in Nat
    BY <1>1
  <2>2. ~ (<<y, x>> \in R)
    BY <1>2
  <2>3. ~ (y < x)
    BY <2>1, <2>2, <1>c
  <2> QED
    BY <2>1, <2>3
<1>4. PICK i \in S : x = n - i
  BY <1>2
<1>5. \A j \in S : j <= i
  <2> TAKE j \in S
  <2>1. x <= n - j
    BY <1>3
  <2> QED
    BY <2>1, <1>4, <1>a
<1> QED
  BY <1>5

\* Every output a list names has a deciding control.
LEMMA DecidingExists ==
  ASSUME NEW D, NEW controls \in Seq(D), NEW o \in Touched(controls)
  PROVE  \E i \in Deciding(controls) : controls[i].output = o
<1> DEFINE S == {i \in DOMAIN controls : controls[i].output = o}
<1>1. S \in SUBSET (1 .. Len(controls)) /\ S # {} /\ Len(controls) \in Nat
  BY DEF Touched
<1> HIDE DEF S
<1>2. PICK i \in S : \A j \in S : j <= i
  BY <1>1, LastPosition
<1> QED
  BY <1>2 DEF S, Deciding

\* The value a list leaves on an output it names is one of the list's.
LEMMA LastValueType ==
  ASSUME NEW C, NEW V, NEW controls \in Seq([output : C, value : V]),
         NEW o \in Touched(controls)
  PROVE  LastValue(controls, o) \in V
<1> DEFINE D == [output : C, value : V]
<1>a. controls \in Seq(D)
  OBVIOUS
<1> HIDE DEF D
<1>1. \E i \in Deciding(controls) : controls[i].output = o
  BY <1>a, DecidingExists
<1> DEFINE d == CHOOSE x \in Deciding(controls) : controls[x].output = o
<1>2. d \in Deciding(controls)
  BY <1>1
<1>3. d \in DOMAIN controls
  BY <1>2 DEF Deciding
<1> HIDE DEF d
<1>4. controls[d] \in D
  BY <1>3, <1>a
<1>5. controls[d].value \in V
  BY <1>4 DEF D
<1> QED
  BY <1>5 DEF LastValue, d

\* An output that is told a value shows a level afterwards.
LEMMA AppliedType ==
  ASSUME NEW value \in SwitchValues, NEW shown \in Levels
  PROVE  Applied(value, shown) \in Levels
BY DEF Applied, SwitchValues, Levels

\* A moved-from schedule is a schedule.
LEMMA MovedFromType == \A s \in Schedule : MovedFrom(s) \in Schedule
BY DEF MovedFrom, Schedule

\* The controls of an event are well typed.
LEMMA EventType ==
  ASSUME NEW t \in Titles \cup {NoTitle}, NEW i \in DOMAIN Events[t]
  PROVE  /\ Events[t][i].day \in Nat /\ Events[t][i].time \in Nat
         /\ Events[t][i].controls \in Seq([output : Outputs, value : SwitchValues])
<1>1. Events[t] \in Seq(Event)
  BY EventsAssumption
<1>2. Events[t][i] \in Event
  BY <1>1
<1> QED
  BY <1>2 DEF Event

\* Of the events of a batch the last one that names an output decides on its
\* value.
LEMMA DeciderExists ==
  ASSUME NEW t \in Titles \cup {NoTitle}, NEW events \in SUBSET DOMAIN Events[t],
         NEW o \in BatchOutputs(t, events)
  PROVE  \E d \in events :
           /\ o \in EventOutputs(t, d)
           /\ \A j \in events : o \in EventOutputs(t, j) => j <= d
           /\ Decider(t, events, o) = d
           /\ BatchValue(t, events, o) = LastValue(Events[t][d].controls, o)
<1> DEFINE S == {i \in events : o \in EventOutputs(t, i)}
           d == Decider(t, events, o)
<1>1. Events[t] \in Seq(Event)
  BY EventsAssumption
<1>2. S # {} /\ S \in SUBSET (1 .. Len(Events[t])) /\ Len(Events[t]) \in Nat
  BY <1>1 DEF BatchOutputs
<1> HIDE DEF S
<1>3. PICK m \in S : \A j \in S : j <= m
  BY <1>2, LastPosition
<1>4. \E i \in events : o \in EventOutputs(t, i) /\ \A j \in events : o \in EventOutputs(t, j) => j <= i
  BY <1>3 DEF S
<1>5. d \in events /\ o \in EventOutputs(t, d) /\ \A j \in events : o \in EventOutputs(t, j) => j <= d
  BY <1>4 DEF Decider
<1>6. BatchValue(t, events, o) = LastValue(Events[t][d].controls, o)
  BY DEF BatchValue
<1> HIDE DEF d
<1> QED
  BY <1>5, <1>6 DEF d

\* The value a batch gives an output is that of one of its events.
LEMMA BatchValueType ==
  ASSUME NEW t \in Titles \cup {NoTitle}, NEW events \in SUBSET DOMAIN Events[t],
         NEW o \in BatchOutputs(t, events)
  PROVE  BatchValue(t, events, o) \in SwitchValues
<1>1. PICK d \in events :
        /\ o \in EventOutputs(t, d)
        /\ BatchValue(t, events, o) = LastValue(Events[t][d].controls, o)
  BY DeciderExists
<1>2. d \in DOMAIN Events[t] /\ o \in Touched(Events[t][d].controls)
  BY <1>1 DEF EventOutputs
<1>3. Events[t][d].controls \in Seq([output : Outputs, value : SwitchValues])
  BY <1>2, EventType
<1>4. LastValue(Events[t][d].controls, o) \in SwitchValues
  BY <1>2, <1>3, LastValueType
<1> QED
  BY <1>1, <1>4

-----------------------------------------------------------------------------
(* The batch of a round is one that BatchControl promises.                 *)

\* The ids of a batch stand for the events of the schedules.  The round waits
\* for its batch, so that of the state of BatchControl only level is needed.
EventIds == {id \in (Titles \cup {NoTitle}) \X Nat : id[2] \in DOMAIN Events[id[1]]}
Batch == INSTANCE BatchControl WITH
  Ids <- EventIds, Registered <- EventIds, MaxBatch <- Cardinality(EventIds),
  Controls <- [id \in EventIds |-> Events[id[1]][id[2]].controls],
  busy <- FALSE, request <- <<>>, answer <- {}

\* A list of all numbers of a set in order, and one of events in order.
Ascending(list, numbers) ==
  /\ {list[p] : p \in DOMAIN list} = numbers
  /\ \A p, q \in DOMAIN list : p < q => list[p] < list[q]
EventBatch(t, list) == [p \in DOMAIN list |-> <<t, list[p]>>]

\* A round of the scan is a batch of the events that are due, in their order:
\* it leaves what BatchControl says, and the ids that BatchControl reports as
\* failed are the marks that are taken back.
ScanIsBatch ==
  [][ScanSchedule =>
       \E list \in Seq(Nat) :
         LET s == active[cursor]
             batch == EventBatch(s.title, list)
             failed == {list[p] : p \in Batch!Failing(batch, broken)}
         IN  /\ Ascending(list, Due(s)) /\ batch \in Seq(EventIds)
             /\ level' = Batch!Carried(batch, broken)
             /\ active'[cursor].done = (s.done \cup Due(s)) \ failed]_vars

\* The numbers of a set up to a bound can be listed in order.
LEMMA Enumerated ==
  ASSUME NEW n \in Nat, NEW D \in SUBSET (1 .. n)
  PROVE  \E list \in Seq(Nat) : Ascending(list, D)
<1> DEFINE Bad == {m \in Nat : \E E \in SUBSET (1 .. m) : ~ \E list \in Seq(Nat) : Ascending(list, E)}
           R == OpToRel(<, Nat)
<1>1. SUFFICES Bad = {}
  OBVIOUS
<1>2. SUFFICES ASSUME Bad # {} PROVE FALSE
  OBVIOUS
<1>3. Bad \subseteq Nat
  OBVIOUS
<1>4. IsWellFoundedOn(R, Nat)
  BY NatLessThanWellFounded
<1>5. \A a, b \in Nat : <<a, b>> \in R <=> a < b
  BY DEF OpToRel
<1> HIDE DEF R
<1> HIDE DEF Bad
<1>6. PICK m \in Bad : \A k \in Bad : ~ (<<k, m>> \in R)
  BY <1>2, <1>3, <1>4, WFMin
<1>7. m \in Nat /\ (m # 0 => m - 1 \in Nat /\ m - 1 \notin Bad)
  <2>1. m \in Nat
    BY <1>3
  <2>2. ASSUME m # 0 PROVE m - 1 \in Nat /\ m - 1 < m
    BY <2>1, <2>2
  <2>3. ASSUME m # 0, m - 1 \in Bad PROVE FALSE
    <3> DEFINE k == m - 1
    <3>1. k \in Nat /\ k < m /\ k \in Bad
      BY <2>2, <2>3
    <3> HIDE DEF k
    <3> QED
      BY <1>5, <1>6, <2>1, <3>1
  <2> QED
    BY <2>1, <2>2, <2>3
<1>8. PICK E \in SUBSET (1 .. m) : ~ \E list \in Seq(Nat) : Ascending(list, E)
  BY <1>6 DEF Bad
<1>9. m # 0
  <2> SUFFICES ASSUME m = 0 PROVE FALSE
    OBVIOUS
  <2>1. E = {}
    BY <1>8
  <2>2. <<>> \in Seq(Nat) /\ DOMAIN <<>> = {}
    BY EmptySeq
  <2>3. Ascending(<<>>, E)
    BY <2>1, <2>2 DEF Ascending
  <2> QED
    BY <1>8, <2>2, <2>3
<1>10. E \ {m} \in SUBSET (1 .. m - 1)
  BY <1>7, <1>8
<1>11. PICK list \in Seq(Nat) : Ascending(list, E \ {m})
  BY <1>7, <1>9, <1>10 DEF Bad
<1>12. m \in E
  BY <1>8, <1>11
<1> DEFINE longer == Append(list, m)
<1>13. /\ longer \in Seq(Nat) /\ DOMAIN longer = 1 .. Len(list) + 1
       /\ DOMAIN list = 1 .. Len(list) /\ Len(list) \in Nat
       /\ longer[Len(list) + 1] = m
       /\ \A p \in DOMAIN list : longer[p] = list[p]
  BY <1>7, <1>11
<1> HIDE DEF longer
<1>14. \A p \in DOMAIN list : list[p] \in 1 .. m - 1
  BY <1>10, <1>11 DEF Ascending
<1>15. {longer[p] : p \in DOMAIN longer} = E
  <2>1. ASSUME NEW p \in DOMAIN longer PROVE longer[p] \in E
    BY <1>11, <1>12, <1>13 DEF Ascending
  <2>2. ASSUME NEW e \in E PROVE \E p \in DOMAIN longer : longer[p] = e
    <3>1. CASE e = m
      BY <1>13, <3>1
    <3>2. CASE e # m
      <4>1. PICK p \in DOMAIN list : list[p] = e
        BY <1>11, <3>2 DEF Ascending
      <4> QED
        BY <1>13, <4>1
    <3> QED
      BY <3>1, <3>2
  <2> QED
    BY <2>1, <2>2
<1>16. ASSUME NEW p \in DOMAIN longer, NEW q \in DOMAIN longer, p < q PROVE longer[p] < longer[q]
  <2>1. p \in DOMAIN list
    BY <1>13, <1>16
  <2>2. CASE q \in DOMAIN list
    BY <1>11, <1>13, <1>16, <2>1, <2>2 DEF Ascending
  <2>3. CASE q = Len(list) + 1
    BY <1>7, <1>13, <1>14, <2>1, <2>3
  <2> QED
    BY <1>13, <2>2, <2>3
<1> QED
  BY <1>8, <1>13, <1>15, <1>16 DEF Ascending

\* The last of the listed events that names an output.
IsLast(t, list, o, last) ==
  /\ last \in DOMAIN list /\ o \in EventOutputs(t, list[last])
  /\ \A q \in DOMAIN list : q > last => o \notin EventOutputs(t, list[q])

\* What BatchControl's operators are on a batch of events.
LEMMA BatchOfEvents ==
  ASSUME NEW t \in Titles \cup {NoTitle}, NEW list \in Seq(Nat),
         NEW events \in SUBSET DOMAIN Events[t], Ascending(list, events)
  PROVE  LET batch == EventBatch(t, list) IN
           /\ batch \in Seq(EventIds) /\ DOMAIN batch = DOMAIN list
           /\ Batch!Named(batch) = UNION {EventOutputs(t, list[p]) : p \in DOMAIN list}
           /\ \A o, last : IsLast(t, list, o, last) =>
                Batch!Asked(batch, o) = LastValue(Events[t][list[last]].controls, o)
           /\ \A refusing : Batch!Failing(batch, refusing) =
                {p \in DOMAIN list : EventOutputs(t, list[p]) \cap refusing # {}}
<1> DEFINE batch == EventBatch(t, list)
           Controls == [id \in EventIds |-> Events[id[1]][id[2]].controls]
<1>1. DOMAIN batch = DOMAIN list /\ \A p \in DOMAIN list : batch[p] = <<t, list[p]>>
  BY DEF EventBatch
<1>2. \A p \in DOMAIN list : list[p] \in events /\ list[p] \in Nat
  BY ElementOfSeq, LenProperties DEF Ascending
<1>3. \A p \in DOMAIN list : batch[p] \in EventIds
  <2> TAKE p \in DOMAIN list
  <2> DEFINE id == <<t, list[p]>>
  <2>1. id \in (Titles \cup {NoTitle}) \X Nat /\ id[1] = t /\ id[2] = list[p]
    BY <1>2
  <2>2. list[p] \in DOMAIN Events[t]
    BY <1>2
  <2>3. batch[p] = id
    BY <1>1
  <2> HIDE DEF id, batch
  <2> QED
    BY <2>1, <2>2, <2>3 DEF EventIds
<1>4. batch \in Seq(EventIds)
  <2>1. DOMAIN list = 1 .. Len(list) /\ Len(list) \in Nat
    BY LenProperties
  <2>2. batch \in [1 .. Len(list) -> EventIds]
    BY <1>3, <2>1 DEF EventBatch
  <2> QED
    BY <2>1, <2>2
<1>5. \A p \in DOMAIN list : Controls[batch[p]] = Events[t][list[p]].controls
  BY <1>1, <1>3
<1> HIDE DEF batch, Controls
<1>6. Batch!Named(batch) = UNION {EventOutputs(t, list[p]) : p \in DOMAIN list}
  <2>1. Batch!Named(batch) = UNION {Touched(Controls[batch[p]]) : p \in DOMAIN list}
    BY <1>1, Zenon DEF Batch!Named, Batch!Touched, Touched, Controls
  <2> QED
    BY <1>5, <2>1 DEF EventOutputs
<1>7. ASSUME NEW o, NEW last, IsLast(t, list, o, last)
      PROVE  Batch!Asked(batch, o) = LastValue(Events[t][list[last]].controls, o)
  <2> DEFINE Names(p) == /\ o \in Touched(Controls[batch[p]])
                         /\ \A q \in DOMAIN batch : q > p => o \notin Touched(Controls[batch[q]])
  <2>1. Batch!Asked(batch, o) = LastValue(Controls[batch[CHOOSE p \in DOMAIN batch : Names(p)]], o)
    BY DEF Batch!Asked, Batch!Touched, Batch!LastValue, Batch!Deciding, Touched, LastValue, Deciding, Controls
  <2>2. \A p \in DOMAIN list : Names(p) <=> IsLast(t, list, o, p)
    BY <1>1, <1>5 DEF EventOutputs, IsLast
  <2>3. \A p \in DOMAIN list : IsLast(t, list, o, p) => p = last
    <3>1. DOMAIN list \subseteq Int
      BY LenProperties
    <3> QED
      BY <1>7, <3>1 DEF IsLast
  <2>4. last \in DOMAIN list
    BY <1>7 DEF IsLast
  <2> HIDE DEF Names
  <2>5. (CHOOSE p \in DOMAIN batch : Names(p)) = last
    BY <1>1, <1>7, <2>2, <2>3, <2>4
  <2> QED
    BY <1>5, <2>1, <2>4, <2>5
<1>8. ASSUME NEW refusing
      PROVE  Batch!Failing(batch, refusing) = {p \in DOMAIN list : EventOutputs(t, list[p]) \cap refusing # {}}
  <2>1. Batch!Failing(batch, refusing) = {p \in DOMAIN batch : Touched(Controls[batch[p]]) \cap refusing # {}}
    BY Zenon DEF Batch!Failing, Batch!Touched, Touched, Controls
  <2> QED
    BY <1>1, <1>5, <2>1 DEF EventOutputs
<1> QED
  BY <1>1, <1>4, <1>6, <1>7, <1>8 DEF batch

-----------------------------------------------------------------------------
(* Types.                                                                  *)

\* A record whose marks and dates are replaced is a schedule.
LEMMA DatesType ==
  ASSUME NEW s \in Schedule, NEW a \in Int, NEW b \in Int
  PROVE  /\ [s EXCEPT !.start = a, !.end = b] \in Schedule
         /\ [s EXCEPT !.done = {}, !.start = a, !.end = b] \in Schedule
         /\ [s EXCEPT !.done = {}] \in Schedule
BY DEF Schedule

\* A schedule stays one on its way to the active list.
LEMMA ActivatedType ==
  ASSUME NEW s \in Schedule, curDay \in Nat
  PROVE  Activated(s) \in Schedule
<1> DEFINE e == curDay + s.period - 1
<1>1. e \in Int /\ curDay \in Int
  BY DEF Schedule
<1> HIDE DEF e
<1>2. [s EXCEPT !.done = {}, !.start = curDay, !.end = e] \in Schedule
  BY <1>1, DatesType
<1>3. [s EXCEPT !.done = {}] \in Schedule
  BY <1>1, DatesType
<1> QED
  BY <1>2, <1>3 DEF Activated, e

\* The events that are due are positions in the schedule.
LEMMA DueType ==
  ASSUME NEW s \in Schedule
  PROVE  Due(s) \in SUBSET DOMAIN Events[s.title] /\ Due(s) \in SUBSET Nat
<1>1. s.title \in Titles \cup {NoTitle}
  BY DEF Schedule
<1>2. Events[s.title] \in Seq(Event)
  BY <1>1, EventsAssumption
<1> QED
  BY <1>2 DEF Due

\* The dates add_schedule fills in are days.
LEMMA DatedType ==
  ASSUME NEW f \in Schedule, today \in Nat
  PROVE  Dated(f) \in Schedule
<1> DEFINE start == IF f.start = NoDay /\ f.end = NoDay THEN today ELSE f.start
           end == IF f.end = NoDay THEN start + f.period - 1 ELSE f.end
<1>1. start \in Int /\ end \in Int
  BY DEF Schedule
<1> HIDE DEF start, end
<1>2. [f EXCEPT !.start = start, !.end = end] \in Schedule
  BY <1>1, DatesType
<1> QED
  BY <1>2 DEF Dated, start, end

\* One round of the loop over the active schedules keeps the types.
LEMMA ScanType ==
  ASSUME TypeOK, ScanMarks, level' \in [Outputs -> Levels]
  PROVE  TypeOK'
<1> DEFINE s == active[cursor]
           t == s.title
           due == Due(s)
<1>1. s \in Schedule /\ cursor \in DOMAIN active
  BY DEF TypeOK, ScanMarks
<1>2. t \in Titles \cup {NoTitle} /\ s.start \in Int /\ s.done \in SUBSET Nat
  BY <1>1 DEF Schedule
<1>3. due \in SUBSET DOMAIN Events[t] /\ due \in SUBSET Nat
  BY <1>1, DueType
<1>4. active' = [active EXCEPT ![cursor].done = (@ \cup due) \ FailedEvents(t, due)]
  BY DEF ScanMarks
<1>5. ran' = ran \cup {<<t, s.start, i>> : i \in due}
  BY DEF ScanMarks
<1> HIDE DEF due, t
<1>6. active' \in Seq(Schedule)
  <2> DEFINE d == (s.done \cup due) \ FailedEvents(t, due)
  <2>1. d \in SUBSET Nat
    BY <1>2, <1>3
  <2>2. [s EXCEPT !.done = d] \in Schedule
    BY <1>1, <2>1 DEF Schedule
  <2>3. active' = [active EXCEPT ![cursor] = [s EXCEPT !.done = d]]
    BY <1>4
  <2> QED
    BY <2>2, <2>3, <1>1 DEF TypeOK
<1>7. ran' \subseteq (Titles \cup {NoTitle}) \X Int \X Nat
  BY <1>2, <1>3, <1>5 DEF TypeOK
<1> QED
  BY <1>6, <1>7 DEF TypeOK, ScanMarks, clockVars, clientVars

\* So does the batch of that round.
LEMMA BatchLevels ==
  ASSUME TypeOK, ScanSchedule
  PROVE  level' \in [Outputs -> Levels]
<1> DEFINE s == active[cursor]
           t == s.title
           due == Due(s)
<1>0. s \in Schedule
  BY DEF TypeOK, ScanSchedule, ScanMarks
<1>1. s \in Schedule /\ t \in Titles \cup {NoTitle}
  BY <1>0 DEF Schedule
<1>2. due \in SUBSET DOMAIN Events[t]
  BY <1>1, DueType
<1>3. level' = [o \in Outputs |->
                  IF o \in BatchOutputs(t, due) \ broken
                  THEN Applied(BatchValue(t, due, o), level[o])
                  ELSE level[o]]
  BY DEF ScanSchedule
<1> HIDE DEF due, t
<1> SUFFICES ASSUME NEW o \in Outputs, o \in BatchOutputs(t, due) \ broken
             PROVE  Applied(BatchValue(t, due, o), level[o]) \in Levels
  BY <1>3 DEF TypeOK
<1>4. BatchValue(t, due, o) \in SwitchValues
  BY <1>1, <1>2, BatchValueType
<1>5. level[o] \in Levels
  BY DEF TypeOK
<1> QED
  BY <1>4, <1>5, AppliedType

\* Activation and expiry keep the types.
LEMMA MoveType ==
  ASSUME TypeOK, MoveSchedules
  PROVE  TypeOK'
<1> DEFINE starting == Removed(inactive, ToActivate(inactive))
           fresh == [k \in DOMAIN starting |-> Activated(starting[k])]
           running == active \o fresh
           waiting == Left(inactive, ToActivate(inactive))
<1>1. starting \in Seq(Schedule) /\ waiting \in Seq(Schedule)
  BY MovedFromType, RemovedType, LeftType DEF TypeOK, ToActivate
<1> HIDE DEF starting, waiting
<1>2. fresh \in Seq(Schedule)
  <2>1. Len(starting) \in Nat /\ DOMAIN starting = 1 .. Len(starting)
    BY <1>1, LenProperties
  <2>2. ASSUME NEW k \in 1 .. Len(starting) PROVE Activated(starting[k]) \in Schedule
    <3>1. starting[k] \in Schedule /\ curDay \in Nat
      BY <1>1, ElementOfSeq DEF TypeOK
    <3> QED
      BY <3>1, ActivatedType
  <2>3. fresh \in [1 .. Len(starting) -> Schedule]
    BY <2>1, <2>2
  <2> QED
    BY <2>1, <2>3, SeqDef
<1> HIDE DEF fresh
<1>3. running \in Seq(Schedule)
  BY <1>2 DEF TypeOK
<1> HIDE DEF running
<1>4. Left(running, ToExpire(running)) \in Seq(Schedule)
      /\ Removed(running, ToExpire(running)) \in Seq(Schedule)
  BY <1>3, MovedFromType, RemovedType, LeftType DEF ToExpire
<1>5. active' = Left(running, ToExpire(running))
      /\ inactive' = waiting \o Removed(running, ToExpire(running))
  BY DEF MoveSchedules, running, waiting, fresh, starting
<1>6. active' \in Seq(Schedule) /\ inactive' \in Seq(Schedule)
  BY <1>1, <1>4, <1>5
<1> QED
  BY <1>6 DEF TypeOK, MoveSchedules, clockVars, clientVars, outputVars

\* A step of the handler keeps the types if the levels keep theirs.
LEMMA TypeStep ==
  ASSUME TypeOK, [HandlerNext]_handlerVars, level' \in [Outputs -> Levels]
  PROVE  TypeOK'
<1> USE ClockAssumption
<1>1. CASE StartEventHandler
  BY <1>1 DEF StartEventHandler, TypeOK, clockVars, listVars, outputVars
<1>2. CASE StopEventHandler
  BY <1>2 DEF StopEventHandler, TypeOK, clockVars, listVars, threadVars, outputVars
<1>3. CASE StopReturns
  BY <1>3 DEF StopReturns, TypeOK, clockVars, listVars, outputVars
<1>4. ASSUME NEW f \in Files, AddScheduleCheck(f) PROVE TypeOK'
  <2>1. Dated(f) \in Schedule
    BY FilesAssumption, DatedType DEF TypeOK
  <2> QED
    BY <1>4, <2>1 DEF AddScheduleCheck, TypeOK, clockVars, listVars, threadVars, outputVars
<1>5. CASE AddScheduleInsert
  BY <1>5 DEF AddScheduleInsert, TypeOK, threadVars, outputVars
<1>6. CASE LeaveLoop
  BY <1>6 DEF LeaveLoop, TypeOK, clockVars, listVars, clientVars, outputVars
<1>7. CASE ReadClock
  BY <1>7 DEF ReadClock, TypeOK, clockVars, listVars, clientVars, outputVars
<1>8. CASE ReadClockAtMidnight
  BY <1>8 DEF ReadClockAtMidnight, TypeOK, listVars, clientVars, outputVars
<1>9. CASE ScanMarks
  BY <1>9, ScanType
<1>10. CASE MoveSchedules
  BY <1>10, MoveType
<1>11. CASE WakeUp
  BY <1>11 DEF WakeUp, TypeOK, listVars, clientVars, outputVars
<1>12. CASE PassMinute
  BY <1>12 DEF PassMinute, TypeOK, listVars, threadVars, clientVars, outputVars
<1>13. ASSUME NEW o \in Outputs, Break(o) \/ Repair(o) PROVE TypeOK'
  BY <1>13 DEF Break, Repair, TypeOK, clockVars, listVars, threadVars, clientVars
<1>14. CASE UNCHANGED handlerVars
  BY <1>14 DEF TypeOK, handlerVars, clockVars, listVars, threadVars, clientVars
<1> QED
  BY <1>1, <1>2, <1>3, <1>4, <1>5, <1>6, <1>7, <1>8, <1>9, <1>10, <1>11, <1>12, <1>13, <1>14
     DEF HandlerNext, Interface, ThreadAlone, Environment

\* The types hold at the start.
LEMMA InitType == Init => TypeOK
<1> SUFFICES ASSUME Init PROVE TypeOK
  OBVIOUS
<1>1. minute \in 0 .. MinutesPerDay - 1 /\ ticks \in 0 .. TicksPerMinute
  BY ClockAssumption DEF Init
<1>2. curMin \in -1 .. MinutesPerDay /\ tornDay \in Int
  BY ClockAssumption DEF Init, NoDay
<1>3. level \in [Outputs -> Levels]
  BY DEF Init, Levels
<1>4. active \in Seq(Schedule) /\ inactive \in Seq(Schedule) /\ pending \in Seq(Schedule)
  BY DEF Init
<1>5. today \in Nat /\ curDay \in Nat /\ cursor \in Nat \ {0}
  BY DEF Init
<1>6. broken \subseteq Breakable /\ ran \subseteq (Titles \cup {NoTitle}) \X Int \X Nat
  BY DEF Init
<1> QED
  BY <1>1, <1>2, <1>3, <1>4, <1>5, <1>6 DEF Init, TypeOK

\* Whatever the schedules and however long the lists: the state machine of
\* schedule_handler keeps its types.
THEOREM TypeCorrect == Spec => []TypeOK
<1>1. TypeOK /\ [Next]_vars => TypeOK'
  <2> SUFFICES ASSUME TypeOK, [Next]_vars PROVE TypeOK'
    OBVIOUS
  <2>1. level' \in [Outputs -> Levels]
    <3>1. CASE ScanSchedule
      BY <3>1, BatchLevels
    <3>2. CASE ~ScanSchedule
      <4>1. level' = level
        BY <3>2 DEF Next, Interface, EventThread, ThreadAlone, Environment, StartEventHandler,
               StopEventHandler, StopReturns, AddScheduleCheck, AddScheduleInsert, LeaveLoop, ReadClock,
               ReadClockAtMidnight, MoveSchedules, WakeUp, PassMinute, Break, Repair, vars, outputVars
      <4> QED
        BY <4>1 DEF TypeOK
    <3> QED
      BY <3>1, <3>2
  <2> QED
    BY <2>1, NextIsHandlerNext, TypeStep
<1> QED
  BY <1>1, InitType, PTL DEF Spec

\* The events that are due, listed in order, are a batch that leaves what the
\* round leaves and reports what the round takes the marks from.
LEMMA ScanStepIsBatch ==
  ASSUME TypeOK, ScanSchedule
  PROVE  \E list \in Seq(Nat) :
           LET s == active[cursor]
               batch == EventBatch(s.title, list)
               failed == {list[p] : p \in Batch!Failing(batch, broken)}
           IN  /\ Ascending(list, Due(s)) /\ batch \in Seq(EventIds)
               /\ level' = Batch!Carried(batch, broken)
               /\ active'[cursor].done = (s.done \cup Due(s)) \ failed
<1> DEFINE s == active[cursor]
           t == s.title
           due == Due(s)
<1>1. cursor \in DOMAIN active /\ s \in Schedule /\ t \in Titles \cup {NoTitle}
  <2>1. cursor \in DOMAIN active /\ active \in Seq(Schedule)
    BY DEF TypeOK, ScanSchedule, ScanMarks
  <2>2. s \in Schedule
    BY <2>1
  <2> QED
    BY <2>1, <2>2 DEF Schedule
<1>2. due \in SUBSET DOMAIN Events[t]
  BY DEF Due
<1>3. Events[t] \in Seq(Event)
  BY <1>1, EventsAssumption
<1>4. /\ active'[cursor].done = (s.done \cup due) \ FailedEvents(t, due)
      /\ level' = [o \in Outputs |-> IF o \in BatchOutputs(t, due) \ broken
                                     THEN Applied(BatchValue(t, due, o), level[o]) ELSE level[o]]
  <2>1. active' = [active EXCEPT ![cursor].done = (@ \cup due) \ FailedEvents(t, due)]
    BY DEF ScanSchedule, ScanMarks
  <2>2. active'[cursor].done = (s.done \cup due) \ FailedEvents(t, due)
    BY <1>1, <2>1 DEF Schedule
  <2> QED
    BY <2>2 DEF ScanSchedule
<1> HIDE DEF s, t, due
<1>5. PICK list \in Seq(Nat) : Ascending(list, due)
  <2>1. due \in SUBSET (1 .. Len(Events[t])) /\ Len(Events[t]) \in Nat
    BY <1>2, <1>3, LenProperties
  <2> QED
    BY <2>1, Enumerated
<1> DEFINE batch == EventBatch(t, list)
<1>6. /\ batch \in Seq(EventIds)
      /\ Batch!Named(batch) = UNION {EventOutputs(t, list[p]) : p \in DOMAIN list}
      /\ \A o, last : IsLast(t, list, o, last) =>
           Batch!Asked(batch, o) = LastValue(Events[t][list[last]].controls, o)
      /\ Batch!Failing(batch, broken) = {p \in DOMAIN list : EventOutputs(t, list[p]) \cap broken # {}}
  BY <1>1, <1>2, <1>5, BatchOfEvents
<1> HIDE DEF batch
<1>7. Batch!Named(batch) = BatchOutputs(t, due)
  BY <1>5, <1>6 DEF BatchOutputs, Ascending
<1>8. ASSUME NEW o \in BatchOutputs(t, due) PROVE Batch!Asked(batch, o) = BatchValue(t, due, o)
  <2>1. PICK d \in due : /\ o \in EventOutputs(t, d)
                         /\ \A j \in due : o \in EventOutputs(t, j) => j <= d
                         /\ BatchValue(t, due, o) = LastValue(Events[t][d].controls, o)
    BY <1>1, <1>2, <1>8, DeciderExists
  <2>2. PICK last \in DOMAIN list : list[last] = d
    BY <1>5, <2>1 DEF Ascending
  <2>3. ASSUME NEW q \in DOMAIN list, q > last PROVE o \notin EventOutputs(t, list[q])
    <3>1. list[last] < list[q] /\ list[q] \in due
      BY <1>5, <2>3 DEF Ascending
    <3>2. list[last] \in Nat /\ list[q] \in Nat
      BY <1>5, LenProperties, ElementOfSeq
    <3> QED
      BY <2>1, <2>2, <3>1, <3>2
  <2>4. IsLast(t, list, o, last)
    BY <2>1, <2>2, <2>3 DEF IsLast
  <2> QED
    BY <1>6, <2>1, <2>2, <2>4
<1>9. level' = Batch!Carried(batch, broken)
  <2>1. Batch!Carried(batch, broken)
          = [o \in Outputs |-> IF o \in Batch!Named(batch) \ broken
                               THEN Applied(Batch!Asked(batch, o), level[o]) ELSE level[o]]
    BY Zenon DEF Batch!Carried, Batch!Applied, Applied
  <2> QED
    BY <1>4, <1>7, <1>8, <2>1
<1>10. {list[p] : p \in Batch!Failing(batch, broken)} = FailedEvents(t, due)
  BY <1>5, <1>6 DEF Ascending, FailedEvents, BatchOutputs
<1>11. active'[cursor].done = (s.done \cup due) \ {list[p] : p \in Batch!Failing(batch, broken)}
  BY <1>4, <1>10
<1> QED
  BY <1>5, <1>6, <1>9, <1>11 DEF batch, s, t, due

\* The round of the handler is a batch as BatchControl promises it, of which
\* OutputScheduler is an implementation.
THEOREM ScanIsBatchHolds == Spec => ScanIsBatch
<1>1. TypeOK /\ [Next]_vars =>
        [ScanSchedule =>
           \E list \in Seq(Nat) :
             LET s == active[cursor]
                 batch == EventBatch(s.title, list)
                 failed == {list[p] : p \in Batch!Failing(batch, broken)}
             IN  /\ Ascending(list, Due(s)) /\ batch \in Seq(EventIds)
                 /\ level' = Batch!Carried(batch, broken)
                 /\ active'[cursor].done = (s.done \cup Due(s)) \ failed]_vars
  BY ScanStepIsBatch
<1> QED
  BY <1>1, TypeCorrect, PTL DEF Spec, ScanIsBatch

-----------------------------------------------------------------------------
(* No event before its moment.                                             *)

\* An event carried out at the moment the clock shows.
OnTime(s, i) == HasCome(s, i) \/ (EventDay(s, i) = today /\ tornDay = today)

\* The schedules whose marked events have all been carried out on time.
Punctual == {s \in Schedule : \A i \in s.done : i \in DOMAIN Events[s.title] /\ OnTime(s, i)}

\* The inductive invariant: the active schedules are punctual, and what the
\* thread has read of the clock is past, or the day began while it read.
EarlyInv ==
  /\ active \in Seq(Punctual)
  /\ thread = "scan" => curDay <= today
  /\ (thread = "scan" /\ curDay = today /\ curMin > minute) => tornDay = today

\* A moved-from schedule has no mark and so none before its time.
LEMMA MovedFromPunctual == \A s \in Punctual : MovedFrom(s) \in Punctual
BY MovedFromType DEF MovedFrom, Punctual, Schedule

\* Nor has a schedule that has just become active.
LEMMA ActivatedPunctual ==
  ASSUME NEW s \in Schedule, curDay \in Nat
  PROVE  Activated(s) \in Punctual
<1>1. Activated(s) \in Schedule
  BY ActivatedType
<1>2. Activated(s).done = {}
  BY DEF Activated, Schedule
<1> QED
  BY <1>1, <1>2 DEF Punctual

\* A step of the clock, or none, leaves a punctual schedule punctual.
LEMMA PunctualStays ==
  ASSUME TypeOK,
         \/ today' = today /\ minute' >= minute /\ (tornDay = today => tornDay' = today)
         \/ today' > today,
         today' \in Nat, minute' \in Nat
  PROVE  Punctual \subseteq Punctual'
<1> SUFFICES ASSUME NEW s \in Punctual, NEW i \in s.done
             PROVE  OnTime(s, i)'
  BY DEF Punctual
<1> DEFINE d == EventDay(s, i)
           m == Events[s.title][i].time
<1>1. s \in Schedule /\ i \in DOMAIN Events[s.title] /\ OnTime(s, i)
  BY DEF Punctual
<1>2. d \in Int /\ m \in Nat
  <2>1. s.title \in Titles \cup {NoTitle} /\ s.start \in Int
    BY <1>1 DEF Schedule
  <2> QED
    BY <1>1, <2>1, EventType DEF EventDay
<1>3. today \in Nat /\ minute \in Nat
  BY DEF TypeOK
<1>4. d < today \/ (d = today /\ m <= minute) \/ (d = today /\ tornDay = today)
  BY <1>1 DEF OnTime, HasCome
<1>5. d < today' \/ (d = today' /\ m <= minute') \/ (d = today' /\ tornDay' = today')
  BY <1>2, <1>3, <1>4
<1> QED
  BY <1>5 DEF OnTime, HasCome, EventDay

\* The scan marks no event early.
LEMMA ScanPunctual ==
  ASSUME TypeOK, EarlyInv, ScanMarks
  PROVE  EarlyInv'
<1> DEFINE s == active[cursor]
           t == s.title
           due == Due(s)
           d == (s.done \cup due) \ FailedEvents(t, due)
           marked == [s EXCEPT !.done = d]
<1>1. s \in Punctual /\ cursor \in DOMAIN active /\ thread = "scan"
  BY DEF EarlyInv, ScanMarks
<1>2. s \in Schedule
  BY <1>1 DEF Punctual
<1>3. t \in Titles \cup {NoTitle} /\ s.start \in Int /\ s.done \in SUBSET Nat
  BY <1>2 DEF Schedule
<1>4. active' = [active EXCEPT ![cursor] = marked]
  BY DEF ScanMarks
<1>5. \A i \in due : i \in DOMAIN Events[t] /\ OnTime(s, i)
  <2> SUFFICES ASSUME NEW i \in due PROVE i \in DOMAIN Events[t] /\ OnTime(s, i)
    OBVIOUS
  <2>1. /\ i \in DOMAIN Events[t]
        /\ Events[t][i].day <= curDay - s.start
        /\ Events[t][i].time <= curMin
    BY DEF Due
  <2>2. Events[t][i].day \in Nat /\ Events[t][i].time \in Nat
    BY <1>3, <2>1, EventType
  <2>3. curDay \in Nat /\ today \in Nat /\ minute \in Nat /\ curMin \in Int
    BY ClockAssumption DEF TypeOK
  <2>4. curDay <= today /\ ((curDay = today /\ curMin > minute) => tornDay = today)
    BY <1>1 DEF EarlyInv
  <2>5. s.start + Events[t][i].day <= curDay
    BY <2>1, <2>2, <2>3, <1>3
  <2>6. CASE s.start + Events[t][i].day < today
    BY <2>1, <2>6 DEF OnTime, HasCome, EventDay
  <2>7. CASE s.start + Events[t][i].day = today
    <3>1. curDay = today
      BY <2>3, <2>4, <2>5, <2>7
    <3>2. Events[t][i].time <= minute \/ tornDay = today
      BY <2>1, <2>2, <2>3, <2>4, <3>1
    <3> QED
      BY <2>1, <2>7, <3>2 DEF OnTime, HasCome, EventDay
  <2> QED
    BY <2>2, <2>3, <2>4, <2>5, <2>6, <2>7, <1>3
<1>6. \A i \in s.done : i \in DOMAIN Events[t] /\ OnTime(s, i)
  BY <1>1 DEF Punctual
<1>7. due \in SUBSET Nat
  <2>1. Events[t] \in Seq(Event)
    BY <1>3, EventsAssumption
  <2> QED
    BY <2>1, <1>5
<1> HIDE DEF due
<1>8. marked \in Punctual
  <2>1. d \in SUBSET Nat
    BY <1>3, <1>7
  <2>2. \A i \in d : i \in DOMAIN Events[t] /\ OnTime(s, i)
    BY <1>5, <1>6
  <2> HIDE DEF d
  <2>3. marked \in Schedule /\ marked.title = t /\ marked.start = s.start /\ marked.done = d
    BY <1>2, <2>1 DEF Schedule
  <2> HIDE DEF marked, s
  <2>4. \A i \in d : OnTime(marked, i) <=> OnTime(s, i)
    BY <2>3 DEF OnTime, HasCome, EventDay, t
  <2> QED
    BY <2>2, <2>3, <2>4 DEF Punctual
<1>9. active' \in Seq(Punctual)
  <2>1. active \in Seq(Punctual)
    BY DEF EarlyInv
  <2> HIDE DEF marked
  <2> QED
    BY <1>1, <1>4, <1>8, <2>1
<1>10. today' = today /\ minute' = minute /\ tornDay' = tornDay /\ thread' = thread
       /\ curDay' = curDay /\ curMin' = curMin
  BY DEF ScanMarks, clockVars
<1>11. Punctual' = Punctual
  BY <1>10 DEF Punctual, OnTime, HasCome, EventDay
<1> QED
  BY <1>9, <1>10, <1>11 DEF EarlyInv

\* Activation and expiry leave no early mark in the active list.
LEMMA MovePunctual ==
  ASSUME TypeOK, EarlyInv, MoveSchedules
  PROVE  EarlyInv'
<1> DEFINE starting == Removed(inactive, ToActivate(inactive))
           fresh == [k \in DOMAIN starting |-> Activated(starting[k])]
           running == active \o fresh
<1>1. starting \in Seq(Schedule)
  BY MovedFromType, RemovedType DEF TypeOK
<1> HIDE DEF starting
<1>2. fresh \in Seq(Punctual)
  <2>1. \A k \in DOMAIN starting : Activated(starting[k]) \in Punctual
    BY <1>1, ActivatedPunctual DEF TypeOK
  <2> QED
    BY <1>1, <2>1
<1> HIDE DEF fresh
<1>3. running \in Seq(Punctual)
  BY <1>2 DEF EarlyInv
<1> HIDE DEF running
<1>4. Left(running, ToExpire(running)) \in Seq(Punctual)
  BY <1>3, MovedFromPunctual, LeftType DEF ToExpire
<1>5. active' = Left(running, ToExpire(running)) /\ thread' = "sleep"
  BY DEF MoveSchedules, running, fresh, starting
<1>6. today' = today /\ minute' = minute /\ tornDay' = tornDay
  BY DEF MoveSchedules, clockVars
<1>7. Punctual' = Punctual
  BY <1>6 DEF Punctual, OnTime, HasCome, EventDay
<1> QED
  BY <1>4, <1>5, <1>7 DEF EarlyInv

\* A step that changes neither the active list nor what the thread has read,
\* and moves the clock forward or not at all.
LEMMA ClockPunctual ==
  ASSUME TypeOK, TypeOK', EarlyInv, UNCHANGED <<active, curDay, curMin>>,
         thread' = "scan" => thread = "scan",
         \/ today' = today /\ minute' >= minute /\ tornDay' = tornDay
         \/ today' > today
  PROVE  EarlyInv'
<1>1. today \in Nat /\ today' \in Nat /\ minute \in Nat /\ minute' \in Nat
      /\ curDay \in Nat /\ curMin \in Int
  BY ClockAssumption DEF TypeOK
<1>2. Punctual \subseteq Punctual'
  BY <1>1, PunctualStays
<1>3. active' \in Seq(Punctual')
  BY <1>2, SeqMonotonic DEF EarlyInv
<1> QED
  BY <1>1, <1>3 DEF EarlyInv

\* At the beginning nothing is listed, so that nothing is early,
LEMMA EarlyInit == Init => EarlyInv
BY DEF Init, EarlyInv

\* Every step keeps the events on time.
LEMMA EarlyStep ==
  ASSUME TypeOK, TypeOK', EarlyInv, [HandlerNext]_handlerVars
  PROVE  EarlyInv'
<1>0. today \in Nat /\ minute \in Nat /\ curMin \in Int /\ minute \in 0 .. MinutesPerDay - 1
  BY ClockAssumption DEF TypeOK
<1>1. CASE Interface
  <2>1. UNCHANGED <<active, curDay, curMin, today, minute, tornDay>>
    BY <1>1 DEF Interface, StartEventHandler, StopEventHandler, StopReturns, AddScheduleCheck,
                AddScheduleInsert, clockVars, listVars, threadVars
  <2>2. thread' = "scan" => thread = "scan"
    BY <1>1 DEF Interface, StartEventHandler, StopEventHandler, StopReturns, AddScheduleCheck,
                AddScheduleInsert, clockVars, listVars, threadVars
  <2> QED
    BY <1>0, <2>1, <2>2, ClockPunctual
<1>2. CASE LeaveLoop \/ WakeUp
  <2>1. UNCHANGED <<active, curDay, curMin, today, minute, tornDay>> /\ thread' # "scan"
    BY <1>2 DEF LeaveLoop, WakeUp, clockVars, listVars
  <2> QED
    BY <1>0, <2>1, ClockPunctual
<1>3. CASE ReadClock
  <2>1. UNCHANGED <<active, today, minute, tornDay>> /\ curDay' = today /\ curMin' = minute
    BY <1>3 DEF ReadClock, clockVars, listVars
  <2>2. Punctual \subseteq Punctual'
    BY <1>0, <2>1, PunctualStays
  <2>3. active' \in Seq(Punctual')
    BY <2>1, <2>2, SeqMonotonic DEF EarlyInv
  <2> QED
    BY <1>0, <2>1, <2>3 DEF EarlyInv
<1>4. CASE ReadClockAtMidnight
  <2>1. active' = active /\ today' = today + 1 /\ minute' = 0 /\ tornDay' = today + 1
        /\ curDay' = today + 1
    BY <1>4 DEF ReadClockAtMidnight, listVars
  <2>2. Punctual \subseteq Punctual'
    BY <1>0, <2>1, PunctualStays
  <2>3. active' \in Seq(Punctual')
    BY <2>1, <2>2, SeqMonotonic DEF EarlyInv
  <2> QED
    BY <1>0, <2>1, <2>3 DEF EarlyInv
<1>5. CASE ScanMarks
  BY <1>5, ScanPunctual
<1>6. CASE MoveSchedules
  BY <1>6, MovePunctual
<1>7. CASE PassMinute
  <2>1. UNCHANGED <<active, curDay, curMin, tornDay, thread>>
    BY <1>7 DEF PassMinute, listVars, threadVars
  <2>2. (today' = today /\ minute' >= minute) \/ today' > today
    BY <1>0, <1>7 DEF PassMinute
  <2> QED
    BY <2>1, <2>2, ClockPunctual
<1>8. ASSUME NEW o \in Outputs, Break(o) \/ Repair(o) PROVE EarlyInv'
  <2>1. UNCHANGED <<active, curDay, curMin, today, minute, tornDay, thread>>
    BY <1>8 DEF Break, Repair, clockVars, listVars, threadVars
  <2> QED
    BY <1>0, <2>1, ClockPunctual
<1>9. CASE UNCHANGED handlerVars
  <2>1. UNCHANGED <<active, curDay, curMin, today, minute, tornDay, thread>>
    BY <1>9 DEF handlerVars, clockVars, listVars, threadVars
  <2> QED
    BY <1>0, <2>1, ClockPunctual
<1> QED
  BY <1>1, <1>2, <1>3, <1>4, <1>5, <1>6, <1>7, <1>8, <1>9 DEF HandlerNext, ThreadAlone, Environment

\* and it is what NoEarlyEvent says.
LEMMA EarlyHolds == EarlyInv => NoEarlyEvent
BY DEF EarlyInv, NoEarlyEvent, Punctual, OnTime

\* Whatever the schedule and the clock do, an event is marked as processed at
\* or after its moment, or on a day that began while the clock was read.
THEOREM NoEarlyEventHolds == Spec => []NoEarlyEvent
<1>1. TypeOK /\ TypeOK' /\ EarlyInv /\ [Next]_vars => EarlyInv'
  BY EarlyStep, NextIsHandlerNext
<1> QED
  BY <1>1, EarlyInit, EarlyHolds, TypeCorrect, PTL DEF Spec

-----------------------------------------------------------------------------
(* A handler with one schedule: main loads one schedule file.              *)

OneTitle == \A t, u \in Titles : t = u

\* The size of an initial segment of the positions.
LEMMA UpToSize == ASSUME NEW n \in Nat PROVE Cardinality(1 .. n) = n
<1>1. Cardinality(1 .. n) = IF 1 > n THEN 0 ELSE n - 1 + 1
  BY FS_Interval
<1> QED
  BY <1>1

\* A list of at most one element that is not empty.
LEMMA OneElement ==
  ASSUME NEW X, NEW list \in Seq(X), Len(list) <= 1, list # <<>>
  PROVE  list = <<list[1]>> /\ list[1] \in X
<1>1. Len(list) \in Nat \ {0}
  BY EmptySeq
<1>2. Len(list) = 1
  BY <1>1
<1> QED
  BY <1>2

\* A list of at most one element loses all of it or nothing: the two results
\* of remove_if, and the erase that follows it, are then what was meant.
LEMMA OneLeft ==
  ASSUME NEW X, NEW list \in Seq(X), Len(list) <= 1, NEW gone, gone \subseteq DOMAIN list
  PROVE  /\ gone = {} => Removed(list, gone) = <<>> /\ Left(list, gone) = list
         /\ gone # {} => Removed(list, gone) = list /\ Left(list, gone) = <<>>
<1>0. Len(list) \in Nat /\ DOMAIN list = 1 .. Len(list)
  OBVIOUS
<1>00. Cardinality(1 .. Len(list)) = Len(list)
  BY <1>0, UpToSize
<1> DEFINE r == RemoveIf(list, gone)
<1>1. CASE gone = {}
  <2>1. FirstGone(list, gone) = Len(list) + 1
    <3>1. DOMAIN list \ gone = 1 .. Len(list)
      BY <1>0, <1>1
    <3>2. Cardinality(DOMAIN list \ gone) = Len(list)
      BY <1>00, <3>1, Zenon
    <3> QED
      BY <3>2 DEF FirstGone
  <2>2. Removed(list, gone) = <<>>
    BY <1>0, <2>1, SubSeqProperties DEF Removed
  <2> QED
    BY <1>1, <2>2 DEF Left
<1>2. CASE gone # {}
  <2>1. Len(list) = 1 /\ DOMAIN list \ gone = {}
    BY <1>0, <1>2
  <2>2. FirstGone(list, gone) = 1
    <3>1. Cardinality({}) = 0
      BY FS_EmptySet
    <3>2. Cardinality(DOMAIN list \ gone) = 0
      BY <2>1, <3>1, Zenon
    <3> QED
      BY <3>2 DEF FirstGone
  <2>3. r = [k \in 1 .. 1 |-> list[k]]
    BY <1>0, <2>1 DEF RemoveIf
  <2>4. r = list
    BY <2>1, <2>3
  <2> HIDE DEF r
  <2>5. Removed(list, gone) = list
    BY <2>1, <2>2, <2>4 DEF Removed, r
  <2>6. EraseOne(list, 1) = <<>>
    BY <2>1 DEF EraseOne
  <2> QED
    BY <1>2, <2>2, <2>4, <2>5, <2>6 DEF Left, r
<1> QED
  BY <1>1, <1>2

\* The schedules that were loaded: none of them has been moved from, and of
\* the fields of its file each has kept the title and the period.
Loaded ==
  {s \in Schedule : \E f \in Files : s.title = f.title /\ s.period = f.period}

\* There is one of them in all: in a list, or on its way into one.
SingleInv ==
  /\ active \in Seq(Loaded) /\ inactive \in Seq(Loaded) /\ pending \in Seq(Loaded)
  /\ Len(active) + Len(inactive) + Len(pending) <= 1
  /\ client # "adding" => pending = <<>>

\* What a tick makes of the only schedule: it stays active, expires, waits or
\* is activated, and one activated with an end that is past expires at once.
LEMMA MoveCases ==
  ASSUME TypeOK, SingleInv, MoveSchedules
  PROVE  \/ active = <<>> /\ inactive = <<>> /\ active' = <<>> /\ inactive' = <<>>
         \/ \E s \in Loaded :
              /\ active = <<s>> /\ inactive = <<>>
              /\ IF s.end < curDay THEN active' = <<>> /\ inactive' = <<s>>
                 ELSE active' = <<s>> /\ inactive' = <<>>
         \/ \E s \in Loaded :
              /\ active = <<>> /\ inactive = <<s>>
              /\ IF ~(s.repeating \/ s.end >= curDay) THEN active' = <<>> /\ inactive' = <<s>>
                 ELSE IF Activated(s).end < curDay
                 THEN active' = <<>> /\ inactive' = <<Activated(s)>>
                 ELSE active' = <<Activated(s)>> /\ inactive' = <<>>
<1> DEFINE starting == Removed(inactive, ToActivate(inactive))
           fresh == [k \in DOMAIN starting |-> Activated(starting[k])]
           running == active \o fresh
           waiting == Left(inactive, ToActivate(inactive))
<1>1. active' = Left(running, ToExpire(running))
      /\ inactive' = waiting \o Removed(running, ToExpire(running))
  BY DEF MoveSchedules
<1>2. Len(active) \in Nat /\ Len(inactive) \in Nat /\ Len(pending) \in Nat
  BY DEF SingleInv
<1>3. Len(inactive) <= 1 /\ Len(active) <= 1 /\ (active = <<>> \/ inactive = <<>>)
  BY <1>2 DEF SingleInv
<1>4. ToActivate(inactive) \subseteq DOMAIN inactive
  BY DEF ToActivate
<1>5. inactive \in Seq(Loaded) /\ active \in Seq(Loaded)
  BY DEF SingleInv
<1>6. ASSUME NEW s \in Schedule, running = <<s>>
      PROVE  IF s.end < curDay
             THEN Left(running, ToExpire(running)) = <<>> /\ Removed(running, ToExpire(running)) = <<s>>
             ELSE Left(running, ToExpire(running)) = <<s>> /\ Removed(running, ToExpire(running)) = <<>>
  <2> HIDE DEF running
  <2>0. running = <<s>> /\ DOMAIN running = {1} /\ running[1] = s
    BY <1>6
  <2>1. running \in Seq(Schedule) /\ Len(running) <= 1
    BY <2>0
  <2>2. ToExpire(running) \subseteq DOMAIN running
    BY DEF ToExpire
  <2>3. ToExpire(running) # {} <=> s.end < curDay
    BY <2>0 DEF ToExpire
  <2> QED
    BY <1>6, <2>1, <2>2, <2>3, OneLeft
<1>7. ASSUME running = <<>>
      PROVE  Left(running, ToExpire(running)) = <<>> /\ Removed(running, ToExpire(running)) = <<>>
  <2> HIDE DEF running
  <2>1. running \in Seq(Schedule) /\ Len(running) <= 1
    BY <1>7
  <2>2. ToExpire(running) = {} /\ {} \subseteq DOMAIN running
    BY <1>7 DEF ToExpire
  <2> QED
    BY <1>7, <2>1, <2>2, OneLeft
<1>8. CASE inactive = <<>>
  <2>1. ToActivate(inactive) = {}
    BY <1>8 DEF ToActivate
  <2>2. starting = <<>> /\ waiting = <<>>
    BY <1>3, <1>4, <1>5, <1>8, <2>1, OneLeft
  <2> HIDE DEF starting, waiting
  <2>3. fresh = <<>>
    BY <2>2
  <2>4. running = active
    BY <1>5, <2>3
  <2>5. CASE active = <<>>
    BY <1>1, <1>7, <1>8, <2>2, <2>4, <2>5
  <2>6. CASE active # <<>>
    <3> HIDE DEF fresh, running
    <3>1. active = <<active[1]>> /\ active[1] \in Loaded
      BY <1>3, <1>5, <2>6, OneElement
    <3>2. active[1] \in Schedule
      BY <3>1 DEF Loaded
    <3> DEFINE s == active[1]
    <3>3. s \in Loaded /\ s \in Schedule /\ active = <<s>> /\ running = <<s>>
      BY <2>4, <3>1, <3>2
    <3> HIDE DEF s
    <3>4. IF s.end < curDay THEN active' = <<>> /\ inactive' = <<s>>
          ELSE active' = <<s>> /\ inactive' = <<>>
      BY <1>1, <1>6, <2>2, <3>3
    <3> QED
      BY <1>8, <3>3, <3>4
  <2> QED
    BY <2>5, <2>6
<1>9. CASE inactive # <<>>
  <2>1. inactive = <<inactive[1]>> /\ inactive[1] \in Loaded /\ active = <<>>
    BY <1>3, <1>5, <1>9, OneElement
  <2> DEFINE s == inactive[1]
             a == Activated(s)
  <2>2. s \in Loaded /\ s \in Schedule /\ inactive = <<s>>
    BY <2>1 DEF Loaded
  <2>3. a \in Schedule
    BY <2>2, ActivatedType DEF TypeOK
  <2> HIDE DEF s
  <2>4. ToActivate(inactive) # {} <=> (s.repeating \/ s.end >= curDay)
    BY <2>2 DEF ToActivate
  <2>5. CASE ~(s.repeating \/ s.end >= curDay)
    <3>1. starting = <<>> /\ waiting = inactive
      BY <1>3, <1>4, <1>5, <2>4, <2>5, OneLeft
    <3> HIDE DEF starting, waiting
    <3>2. fresh = <<>>
      BY <3>1
    <3> HIDE DEF fresh
    <3>3. running = <<>>
      BY <2>1, <3>2
    <3> HIDE DEF running
    <3>4. inactive \o <<>> = inactive
      BY <1>5, ConcatEmptySeq
    <3>5. active' = <<>> /\ inactive' = <<s>>
      BY <1>1, <1>7, <2>2, <3>1, <3>3, <3>4
    <3> QED
      BY <2>1, <2>2, <2>5, <3>5
  <2>6. CASE s.repeating \/ s.end >= curDay
    <3>1. starting = inactive /\ waiting = <<>>
      BY <1>3, <1>4, <1>5, <2>4, <2>6, OneLeft
    <3> HIDE DEF starting, waiting
    <3>2. fresh = <<a>>
      <4>1. starting = <<s>>
        BY <2>2, <3>1
      <4> QED
        BY <4>1
    <3> HIDE DEF fresh, a
    <3>3. running = <<a>>
      BY <2>1, <3>2
    <3> HIDE DEF running
    <3>4. IF a.end < curDay THEN active' = <<>> /\ inactive' = <<a>>
          ELSE active' = <<a>> /\ inactive' = <<>>
      BY <1>1, <1>6, <2>3, <3>1, <3>3
    <3> QED
      BY <2>1, <2>2, <2>6, <3>4 DEF a
  <2> QED
    BY <2>5, <2>6
<1> QED
  BY <1>8, <1>9

\* Each schedule stays where it is, moves, or is added; none goes and none is
\* doubled.
LEMMA SingleStep ==
  ASSUME OneTitle, TypeOK, SingleInv, [HandlerNext]_handlerVars
  PROVE  SingleInv' /\ Len(active)' + Len(inactive)' >= Len(active) + Len(inactive)
<1>1. /\ active \in Seq(Loaded) /\ inactive \in Seq(Loaded) /\ pending \in Seq(Loaded)
      /\ Len(active) \in Nat /\ Len(inactive) \in Nat /\ Len(pending) \in Nat
      /\ Len(active) + Len(inactive) + Len(pending) <= 1
      /\ client # "adding" => pending = <<>>
  BY DEF SingleInv
<1>2. ASSUME UNCHANGED <<active, inactive, pending>>, client' # "adding" => client # "adding"
      PROVE  SingleInv' /\ Len(active)' + Len(inactive)' >= Len(active) + Len(inactive)
  BY <1>1, <1>2 DEF SingleInv
<1>3. CASE StartEventHandler \/ StopEventHandler \/ StopReturns
  <2>1. UNCHANGED <<active, inactive, pending>> /\ client # "adding"
    BY <1>3 DEF StartEventHandler, StopEventHandler, StopReturns, listVars
  <2> QED
    BY <1>2, <2>1
<1>4. ASSUME NEW f \in Files, AddScheduleCheck(f)
      PROVE  SingleInv' /\ Len(active)' + Len(inactive)' >= Len(active) + Len(inactive)
  <2>1. f \in Schedule /\ f.title \in Titles
    BY FilesAssumption
  <2>2. Dated(f) \in Loaded
    <3>1. Dated(f) \in Schedule
      BY <2>1, DatedType DEF TypeOK
    <3>2. Dated(f).title = f.title /\ Dated(f).period = f.period
      BY <2>1 DEF Dated, Schedule
    <3> QED
      BY <2>1, <3>1, <3>2 DEF Loaded
  <2>3. UNCHANGED <<active, inactive>> /\ pending' = <<Dated(f)>> /\ client' = "adding" /\ ~Conflicting(f)
    BY <1>4 DEF AddScheduleCheck, listVars
  <2>4. \A s \in Loaded : s.title = f.title
    BY <2>1, FilesAssumption DEF OneTitle, Loaded
  <2>5. ~ \E k \in DOMAIN active : TRUE
    BY <1>1, <2>3, <2>4 DEF Conflicting
  <2>6. ~ \E k \in DOMAIN inactive : TRUE
    BY <1>1, <2>3, <2>4 DEF Conflicting
  <2>7. Len(active) = 0 /\ Len(inactive) = 0
    BY <1>1, <2>5, <2>6
  <2>8. pending' \in Seq(Loaded) /\ Len(pending') = 1
    BY <2>2, <2>3
  <2> QED
    BY <1>1, <2>3, <2>7, <2>8 DEF SingleInv
<1>5. CASE AddScheduleInsert
  <2>1. active' = active /\ inactive' = inactive \o pending /\ pending' = <<>>
    BY <1>5 DEF AddScheduleInsert
  <2>2. inactive' \in Seq(Loaded) /\ Len(inactive') = Len(inactive) + Len(pending)
    BY <1>1, <2>1, ConcatProperties
  <2>3. pending' \in Seq(Loaded) /\ Len(pending') = 0
    BY <2>1
  <2> QED
    BY <1>1, <2>1, <2>2, <2>3 DEF SingleInv
<1>6. CASE LeaveLoop \/ ReadClock \/ ReadClockAtMidnight \/ WakeUp
  <2>1. UNCHANGED <<active, inactive, pending, client>>
    BY <1>6 DEF LeaveLoop, ReadClock, ReadClockAtMidnight, WakeUp, listVars, clientVars
  <2> QED
    BY <1>2, <2>1
<1>7. CASE MoveSchedules
  <2>1. \A s \in Loaded : Activated(s) \in Loaded
    <3> SUFFICES ASSUME NEW s \in Loaded PROVE Activated(s) \in Loaded
      OBVIOUS
    <3>1. s \in Schedule
      BY DEF Loaded
    <3>2. Activated(s) \in Schedule
      BY <3>1, ActivatedType DEF TypeOK
    <3>3. Activated(s).title = s.title /\ Activated(s).period = s.period
      BY <3>1 DEF Activated, Schedule
    <3> QED
      BY <3>1, <3>2, <3>3 DEF Loaded
  <2>2. UNCHANGED <<pending, client>>
    BY <1>7 DEF MoveSchedules, clientVars
  <2>3. \/ Len(active) = 0 /\ Len(inactive) = 0
        \/ Len(active) + Len(inactive) = 1
    BY <1>1
  <2>5. /\ \A s \in Loaded : <<s>> \in Seq(Loaded) /\ Len(<<s>>) = 1
        /\ <<>> \in Seq(Loaded) /\ Len(<<>>) = 0
    OBVIOUS
  <2>4. /\ active' \in Seq(Loaded) /\ inactive' \in Seq(Loaded)
        /\ Len(active') + Len(inactive') = Len(active) + Len(inactive)
    <3>1. CASE active = <<>> /\ inactive = <<>> /\ active' = <<>> /\ inactive' = <<>>
      BY <3>1
    <3>2. CASE \E s \in Loaded :
                 /\ active = <<s>> /\ inactive = <<>>
                 /\ IF s.end < curDay THEN active' = <<>> /\ inactive' = <<s>>
                    ELSE active' = <<s>> /\ inactive' = <<>>
      <4>1. PICK s \in Loaded :
              /\ active = <<s>> /\ inactive = <<>>
              /\ \/ active' = <<>> /\ inactive' = <<s>>
                 \/ active' = <<s>> /\ inactive' = <<>>
        BY <3>2
      <4>2. CASE active' = <<>> /\ inactive' = <<s>>
        BY <4>1, <4>2, <2>5
      <4>3. CASE active' = <<s>> /\ inactive' = <<>>
        BY <4>1, <4>3, <2>5
      <4> QED
        BY <4>1, <4>2, <4>3
    <3>3. CASE \E s \in Loaded :
              /\ active = <<>> /\ inactive = <<s>>
              /\ IF ~(s.repeating \/ s.end >= curDay) THEN active' = <<>> /\ inactive' = <<s>>
                 ELSE IF Activated(s).end < curDay
                 THEN active' = <<>> /\ inactive' = <<Activated(s)>>
                 ELSE active' = <<Activated(s)>> /\ inactive' = <<>>
      <4>1. PICK s \in Loaded :
              /\ active = <<>> /\ inactive = <<s>>
              /\ \/ active' = <<>> /\ inactive' = <<s>>
                 \/ active' = <<>> /\ inactive' = <<Activated(s)>>
                 \/ active' = <<Activated(s)>> /\ inactive' = <<>>
        BY <3>3
      <4> DEFINE a == Activated(s)
      <4>2. a \in Loaded
        BY <2>1
      <4> HIDE DEF a
      <4>3. \/ active' = <<>> /\ inactive' = <<s>>
            \/ active' = <<>> /\ inactive' = <<a>>
            \/ active' = <<a>> /\ inactive' = <<>>
        BY <4>1 DEF a
      <4>4. CASE active' = <<>> /\ inactive' = <<s>>
        BY <4>1, <4>4, <2>5
      <4>5. CASE active' = <<>> /\ inactive' = <<a>>
        BY <4>1, <4>2, <4>5, <2>5
      <4>6. CASE active' = <<a>> /\ inactive' = <<>>
        BY <4>1, <4>2, <4>6, <2>5
      <4> QED
        BY <4>3, <4>4, <4>5, <4>6
    <3> QED
      BY <1>7, <3>1, <3>2, <3>3, MoveCases
  <2> QED
    BY <1>1, <2>2, <2>4 DEF SingleInv
<1>8. CASE ScanMarks
  <2>1. UNCHANGED <<inactive, pending, client>> /\ cursor \in DOMAIN active
    BY <1>8 DEF ScanMarks, clientVars
  <2> DEFINE d == (active[cursor].done \cup Due(active[cursor]))
                    \ FailedEvents(active[cursor].title, Due(active[cursor]))
  <2>2. active' = [active EXCEPT ![cursor] = [active[cursor] EXCEPT !.done = d]]
    BY <1>8 DEF ScanMarks
  <2>3. active[cursor] \in Loaded
    BY <1>1, <2>1
  <2>9. d \in SUBSET Nat
    BY <2>3, DueType DEF Loaded, Schedule
  <2> HIDE DEF d
  <2>4. Len(active') = Len(active) /\ active'[cursor] = [active[cursor] EXCEPT !.done = d]
        /\ \A k \in DOMAIN active : k # cursor => active'[k] = active[k]
    BY <1>1, <2>1, <2>2
  <2>5. active'[cursor] \in Schedule
    BY <2>3, <2>4, <2>9 DEF Loaded, Schedule
  <2>6. active'[cursor].title = active[cursor].title /\ active'[cursor].period = active[cursor].period
    BY <2>3, <2>4 DEF Loaded, Schedule
  <2>7. active'[cursor] \in Loaded
    BY <2>3, <2>5, <2>6 DEF Loaded
  <2>8. active' \in Seq(Loaded)
    BY <1>1, <2>1, <2>2, <2>4, <2>7
  <2> QED
    BY <1>1, <2>1, <2>4, <2>8 DEF SingleInv
<1>9. CASE PassMinute \/ (\E o \in Outputs : Break(o) \/ Repair(o)) \/ UNCHANGED handlerVars
  <2>1. UNCHANGED <<active, inactive, pending, client>>
    BY <1>9 DEF PassMinute, Break, Repair, handlerVars, listVars, clientVars
  <2> QED
    BY <1>2, <2>1
<1> QED
  BY <1>3, <1>4, <1>5, <1>6, <1>7, <1>8, <1>9
     DEF HandlerNext, Interface, ThreadAlone, Environment

\* While one schedule at most is loaded, it is in at most one place: pending,
\* inactive or active.
LEMMA SingleHolds == ASSUME OneTitle PROVE Spec => []SingleInv
<1>1. Init => SingleInv
  BY DEF Init, SingleInv
<1>2. TypeOK /\ SingleInv /\ [Next]_vars => SingleInv'
  BY SingleStep, NextIsHandlerNext
<1> QED
  BY <1>1, <1>2, TypeCorrect, PTL DEF Spec

\* Every schedule of a list has the one title.
LEMMA TitleCount ==
  ASSUME OneTitle, NEW t \in Titles, NEW list \in Seq(Loaded)
  PROVE  Cardinality({k \in DOMAIN list : list[k].title = t}) = Len(list)
<1>1. Len(list) \in Nat /\ DOMAIN list = 1 .. Len(list)
  OBVIOUS
<1>2. \A k \in DOMAIN list : list[k].title = t
  BY FilesAssumption DEF Loaded, OneTitle
<1>3. {k \in DOMAIN list : list[k].title = t} = 1 .. Len(list)
  BY <1>1, <1>2
<1> QED
  BY <1>1, <1>3, UpToSize

\* A title is found as often as there are schedules.
LEMMA ListedCount ==
  ASSUME OneTitle, SingleInv, NEW t \in Titles
  PROVE  Listed(t) = Len(active) + Len(inactive)
<1> QED
  BY TitleCount DEF SingleInv, Listed

\* One schedule in all is one of its title,
LEMMA SingleListed == ASSUME OneTitle, SingleInv PROVE ListedOnce
<1> SUFFICES ASSUME NEW t \in Titles PROVE Listed(t) <= 1
  BY DEF ListedOnce
<1>1. Len(active) \in Nat /\ Len(inactive) \in Nat /\ Len(pending) \in Nat
  BY DEF SingleInv
<1> QED
  BY <1>1, ListedCount DEF SingleInv

\* and the one that is listed is in one list or the other.
LEMMA SingleKept ==
  ASSUME OneTitle, TypeOK, SingleInv, SingleInv', [HandlerNext]_handlerVars,
         NEW t \in Titles, Listed(t) >= 1
  PROVE  Listed(t)' >= 1
<1>1. Listed(t) = Len(active) + Len(inactive)
  BY ListedCount
<1>2. Listed(t)' = Len(active)' + Len(inactive)'
  BY TitleCount DEF SingleInv, Listed
<1>3. /\ Len(active) \in Nat /\ Len(inactive) \in Nat
      /\ Len(active') \in Nat /\ Len(inactive') \in Nat
  BY DEF SingleInv
<1> QED
  BY <1>1, <1>2, <1>3, SingleStep

\* The conflict check of add_schedule is never betrayed by the thread: of one
\* loaded title there is at most one schedule.
THEOREM ListedOnceHolds == ASSUME OneTitle PROVE Spec => []ListedOnce
BY SingleListed, SingleHolds, PTL

\* The schedule is never lost between the two lists.
THEOREM NeverDroppedHolds == ASSUME OneTitle PROVE Spec => NeverDropped
<1>1. TypeOK /\ SingleInv /\ SingleInv' /\ [Next]_vars =>
        [\A t \in Titles : Listed(t) >= 1 => Listed(t)' >= 1]_vars
  BY SingleKept, NextIsHandlerNext
<1> QED
  BY <1>1, TypeCorrect, SingleHolds, PTL DEF Spec, NeverDropped

-----------------------------------------------------------------------------
(* At most once in each run.                                               *)

\* The dates of a schedule are in order, if its period is not empty.
InOrder(s) == s.period >= 1 => s.start <= s.end

\* What has been executed was of the run an active schedule is in, and is
\* marked if no output of it can fail, or of an earlier one; and only what has
\* been executed is marked.
RunOfActive(s, r) ==
  /\ InOrder(s)
  /\ \A i \in s.done : <<s.title, s.start, i>> \in r
  /\ \A e \in r : e[2] <= s.start /\ ((e[2] = s.start /\ Reliable(s.title, e[3])) => e[3] \in s.done)

\* A schedule that waits after its run is past its end: it is begun anew
\* before it becomes active.
RunOfInactive(s, r, day) ==
  /\ InOrder(s)
  /\ \A e \in r : e[2] <= s.start /\ (e[2] = s.start => s.end < day)

\* The inductive invariant.
RunInv ==
  /\ curDay <= today
  /\ \A e \in ran : e[2] <= curDay
  /\ (active = <<>> /\ inactive = <<>>) => ran = {}
  /\ \A k \in DOMAIN active : RunOfActive(active[k], ran)
  /\ \A k \in DOMAIN inactive : RunOfInactive(inactive[k], ran, curDay)
  /\ \A k \in DOMAIN pending : InOrder(pending[k])

\* A schedule that add_schedule accepts has its dates in order.
LEMMA DatedInOrder ==
  ASSUME TypeOK, NEW f \in Files, Valid(f)
  PROVE  InOrder(Dated(f))
<1>1. f \in Schedule /\ f.start >= NoDay /\ f.end >= NoDay
  BY FilesAssumption
<1>2. f.start \in Int /\ f.end \in Int /\ f.period \in Nat /\ today \in Nat
  BY <1>1 DEF Schedule, TypeOK
<1> DEFINE start == IF f.start = NoDay /\ f.end = NoDay THEN today ELSE f.start
           end == IF f.end = NoDay THEN start + f.period - 1 ELSE f.end
<1>3. Dated(f).start = start /\ Dated(f).end = end /\ Dated(f).period = f.period
  BY <1>1 DEF Dated, Schedule
<1>4. start \in Int /\ end \in Int
  BY <1>2
<1>5. f.period >= 1 => start <= end
  <2>1. CASE f.end = NoDay
    BY <1>2, <2>1
  <2>2. CASE f.end # NoDay
    BY <1>2, <2>2 DEF Valid
  <2> QED
    BY <2>1, <2>2
<1> QED
  BY <1>3, <1>5 DEF InOrder

\* With one schedule, a round of the scan is about that one.
LEMMA ScanOnly ==
  ASSUME TypeOK, SingleInv, ScanMarks
  PROVE  /\ active[1] \in Loaded /\ active = <<active[1]>> /\ cursor = 1
         /\ inactive = <<>> /\ pending = <<>>
<1>1. /\ active \in Seq(Loaded) /\ inactive \in Seq(Loaded) /\ pending \in Seq(Loaded)
      /\ Len(active) \in Nat /\ Len(inactive) \in Nat /\ Len(pending) \in Nat
      /\ Len(active) + Len(inactive) + Len(pending) <= 1
  BY DEF SingleInv
<1>2. cursor \in 1 .. Len(active)
  BY <1>1 DEF ScanMarks
<1>3. Len(active) = 1 /\ Len(inactive) = 0 /\ Len(pending) = 0 /\ cursor = 1
  <2>1. \A a, b, c \in Nat : \A k \in 1 .. a : a + b + c <= 1 => a = 1 /\ b = 0 /\ c = 0 /\ k = 1
    OBVIOUS
  <2> QED
    BY <1>1, <1>2, <2>1
<1>4. active # <<>> /\ Len(active) <= 1
  BY <1>3
<1>5. inactive = <<>> /\ pending = <<>>
  BY <1>1, <1>3, EmptySeq
<1> QED
  BY <1>1, <1>3, <1>4, <1>5, OneElement

\* What the round makes of it.
LEMMA ScanResult ==
  ASSUME TypeOK, SingleInv, ScanMarks
  PROVE  LET s == active[1]
         IN  /\ active' = <<[s EXCEPT !.done = (@ \cup Due(s)) \ FailedEvents(s.title, Due(s))]>>
             /\ ran' = ran \cup {<<s.title, s.start, i>> : i \in Due(s)}
             /\ \A i \in FailedEvents(s.title, Due(s)) : i \in Due(s) /\ ~Reliable(s.title, i)
<1>1. active[1] \in Loaded /\ active = <<active[1]>> /\ cursor = 1
  BY ScanOnly
<1> DEFINE s == active[1]
           due == Due(s)
           failed == FailedEvents(s.title, due)
           m == [active[1] EXCEPT !.done = (@ \cup due) \ failed]
<1>2. \A i \in failed : i \in due /\ ~Reliable(s.title, i)
  BY DEF FailedEvents, Reliable, TypeOK
<1>3. active' = [active EXCEPT ![1].done = (@ \cup due) \ failed]
      /\ ran' = ran \cup {<<s.title, s.start, i>> : i \in due}
  BY <1>1 DEF ScanMarks
<1> HIDE DEF due, failed
<1>4. active' = [active EXCEPT ![1] = m]
  BY <1>3
<1> HIDE DEF m
<1>5. active' = <<m>>
  BY <1>1, <1>4
<1> QED
  BY <1>2, <1>3, <1>5 DEF due, failed, m

\* The events a scan finds due are not of a day that lies ahead.
LEMMA DueStarted ==
  ASSUME TypeOK, NEW s \in Schedule, NEW i \in Due(s)
  PROVE  s.start <= curDay /\ i \in DOMAIN Events[s.title]
<1>1. s.title \in Titles \cup {NoTitle} /\ s.start \in Int /\ curDay \in Nat
  BY DEF Schedule, TypeOK
<1>2. i \in DOMAIN Events[s.title] /\ Events[s.title][i].day <= curDay - s.start
  BY DEF Due
<1>3. Events[s.title][i].day \in Nat
  BY <1>1, <1>2, EventType
<1> QED
  BY <1>1, <1>2, <1>3

\* A schedule on its way to the active list, and what it is then.
LEMMA ActivatedFields ==
  ASSUME NEW s \in Schedule
  PROVE  /\ Activated(s).title = s.title /\ Activated(s).done = {}
         /\ Activated(s).period = s.period /\ Activated(s).repeating = s.repeating
         /\ IF s.end < curDay /\ s.repeating
            THEN Activated(s).start = curDay /\ Activated(s).end = curDay + s.period - 1
            ELSE Activated(s).start = s.start /\ Activated(s).end = s.end
BY DEF Activated, Schedule

\* A schedule that is activated and not at once past its end begins a run of
\* which nothing has been executed.
LEMMA FreshLater ==
  ASSUME TypeOK, NEW s \in Schedule, RunOfInactive(s, ran, curDay),
         s.repeating \/ s.end >= curDay, ~(Activated(s).end < curDay)
  PROVE  \A e \in ran : e[2] < Activated(s).start
<1> DEFINE a == Activated(s)
<1> SUFFICES ASSUME NEW e \in ran PROVE e[2] < a.start
  OBVIOUS
<1>1. /\ IF s.end < curDay /\ s.repeating
         THEN a.start = curDay /\ a.end = curDay + s.period - 1
         ELSE a.start = s.start /\ a.end = s.end
      /\ ~(a.end < curDay)
  BY ActivatedFields
<1>2. s.start \in Int /\ s.end \in Int /\ s.period \in Nat /\ curDay \in Nat
  BY DEF Schedule, TypeOK
<1> HIDE DEF a
<1>3. e[2] \in Int /\ e[2] <= s.start /\ (e[2] = s.start => s.end < curDay)
  BY DEF TypeOK, RunOfInactive
<1>4. CASE s.end < curDay /\ s.repeating
  <2>1. a.start = curDay /\ a.end = curDay + s.period - 1
    BY <1>1, <1>4
  <2>2. s.period >= 1
    BY <1>1, <1>2, <2>1
  <2>3. s.start <= s.end
    BY <2>2 DEF RunOfInactive, InOrder
  <2> QED
    BY <1>2, <1>3, <1>4, <2>1, <2>3
<1>5. CASE ~(s.end < curDay /\ s.repeating)
  <2>1. a.start = s.start /\ ~(s.end < curDay)
    BY <1>1, <1>2, <1>5
  <2> QED
    BY <1>2, <1>3, <2>1
<1> QED
  BY <1>4, <1>5

\* Every step keeps what was executed in its run.
LEMMA RunStep ==
  ASSUME OneTitle, TypeOK, TypeOK', SingleInv, RunInv, [HandlerNext]_handlerVars
  PROVE  RunInv'
<1>1. /\ curDay \in Nat /\ today \in Nat /\ curDay' \in Nat /\ today' \in Nat
      /\ \A e \in ran : e[2] \in Int
  BY DEF TypeOK
<1>2. ASSUME UNCHANGED <<active, inactive, pending, ran>>, curDay' >= curDay, curDay' <= today'
      PROVE  RunInv'
  <2>1. \A s \in Schedule : RunOfInactive(s, ran, curDay) => RunOfInactive(s, ran', curDay')
    BY <1>1, <1>2 DEF RunOfInactive, InOrder, Schedule
  <2>2. \A s : RunOfActive(s, ran) => RunOfActive(s, ran')
    BY <1>2 DEF RunOfActive, InOrder
  <2>3. \A k \in DOMAIN inactive : inactive[k] \in Schedule
    <3>1. inactive \in Seq(Schedule)
      BY DEF TypeOK
    <3> QED
      BY <3>1, LenProperties, ElementOfSeq
  <2>4. \A e \in ran' : e[2] <= curDay'
    BY <1>1, <1>2 DEF RunInv
  <2> QED
    BY <1>1, <1>2, <2>1, <2>2, <2>3, <2>4 DEF RunInv, InOrder
<1>3. CASE StartEventHandler \/ StopEventHandler \/ StopReturns \/ LeaveLoop \/ WakeUp
  <2>1. UNCHANGED <<active, inactive, pending, ran, curDay, today>>
    BY <1>3 DEF StartEventHandler, StopEventHandler, StopReturns, LeaveLoop, WakeUp, listVars,
                clockVars, threadVars, clientVars
  <2> QED
    BY <1>1, <1>2, <2>1 DEF RunInv
<1>4. ASSUME NEW f \in Files, AddScheduleCheck(f) PROVE RunInv'
  <2>1. UNCHANGED <<active, inactive, ran, curDay, today>> /\ pending' = <<Dated(f)>> /\ Valid(f)
    BY <1>4 DEF AddScheduleCheck, listVars, clockVars, threadVars
  <2>2. InOrder(Dated(f))
    BY <2>1, DatedInOrder
  <2>3. \A k \in DOMAIN pending' : InOrder(pending'[k])
    BY <2>1, <2>2
  <2> QED
    BY <2>1, <2>3 DEF RunInv, RunOfActive, RunOfInactive, InOrder
<1>5. CASE AddScheduleInsert
  <2>1. UNCHANGED <<active, ran, curDay, today>> /\ inactive' = inactive \o pending /\ pending' = <<>>
    BY <1>5 DEF AddScheduleInsert, threadVars
  <2>2. /\ active \in Seq(Loaded) /\ inactive \in Seq(Loaded) /\ pending \in Seq(Loaded)
        /\ Len(active) \in Nat /\ Len(inactive) \in Nat /\ Len(pending) \in Nat
        /\ Len(active) + Len(inactive) + Len(pending) <= 1
    BY DEF SingleInv
  <2>3. CASE pending = <<>>
    <3>1. inactive' = inactive
      BY <2>1, <2>2, <2>3, ConcatEmptySeq
    <3> QED
      BY <1>1, <1>2, <2>1, <2>3, <3>1 DEF RunInv
  <2>4. CASE pending # <<>>
    <3>1. Len(pending) \in Nat \ {0}
      BY <2>2, <2>4, EmptySeq
    <3>2. Len(active) = 0 /\ Len(inactive) = 0
      BY <2>2, <3>1
    <3>3. active = <<>> /\ inactive = <<>>
      BY <2>2, <3>2, EmptySeq
    <3>4. ran = {} /\ inactive' = pending
      BY <2>1, <2>2, <3>3, ConcatEmptySeq DEF RunInv
    <3> QED
      BY <2>1, <3>3, <3>4 DEF RunInv, RunOfInactive
  <2> QED
    BY <2>3, <2>4
<1>6. CASE ReadClock \/ ReadClockAtMidnight
  <2>1. UNCHANGED <<active, inactive, pending, ran>> /\ curDay' = today' /\ today' >= today
    BY <1>1, <1>6 DEF ReadClock, ReadClockAtMidnight, listVars, clockVars, clientVars
  <2> QED
    BY <1>1, <1>2, <2>1 DEF RunInv
<1>7. CASE ScanMarks
  <2> DEFINE s == active[1]
             due == Due(s)
             failed == FailedEvents(s.title, due)
             m == [s EXCEPT !.done = (@ \cup due) \ failed]
  <2>1. s \in Loaded /\ s \in Schedule /\ active = <<s>> /\ inactive = <<>> /\ pending = <<>>
    BY <1>7, ScanOnly DEF Loaded
  <2>2. /\ active' = <<m>> /\ (\A i \in failed : i \in due /\ ~Reliable(s.title, i))
        /\ ran' = ran \cup {<<s.title, s.start, i>> : i \in due}
    BY <1>7, ScanResult
  <2>3. UNCHANGED <<inactive, pending, curDay, today>>
    BY <1>7 DEF ScanMarks, clockVars, clientVars
  <2>4. \A i \in due : s.start <= curDay
    BY <2>1, DueStarted
  <2>5. RunOfActive(s, ran)
    BY <2>1 DEF RunInv
  <2> HIDE DEF s, due, failed
  <2>6. m.title = s.title /\ m.start = s.start /\ m.end = s.end /\ m.period = s.period
        /\ m.done = (s.done \cup due) \ failed
    BY <2>1 DEF Schedule
  <2>7. s.start \in Int
    BY <2>1 DEF Schedule
  <2> HIDE DEF m
  <2>8. RunOfActive(m, ran')
    <3>1. \A i \in m.done : <<m.title, m.start, i>> \in ran'
      BY <2>2, <2>5, <2>6 DEF RunOfActive
    <3>2. \A e \in ran' : e[2] <= m.start /\ ((e[2] = m.start /\ Reliable(m.title, e[3])) => e[3] \in m.done)
      <4>1. ASSUME NEW e \in ran
            PROVE  e[2] <= m.start /\ ((e[2] = m.start /\ Reliable(m.title, e[3])) => e[3] \in m.done)
        BY <2>2, <2>5, <2>6 DEF RunOfActive
      <4>2. ASSUME NEW i \in due PROVE s.start <= m.start /\ (Reliable(m.title, i) => i \in m.done)
        BY <2>2, <2>6, <2>7
      <4> QED
        BY <2>2, <4>1, <4>2
    <3> QED
      BY <2>5, <2>6, <3>1, <3>2 DEF RunOfActive, InOrder
  <2>9. \A e \in ran' : e[2] <= curDay'
    BY <2>2, <2>3, <2>4 DEF RunInv
  <2>10. DOMAIN active' = {1} /\ active'[1] = m /\ active' # <<>>
    BY <2>2
  <2>11. DOMAIN inactive' = {} /\ DOMAIN pending' = {}
    BY <2>1, <2>3
  <2> QED
    BY <2>3, <2>8, <2>9, <2>10, <2>11 DEF RunInv
<1>8. CASE MoveSchedules
  <2>1. UNCHANGED <<pending, ran, curDay, today>>
    BY <1>8 DEF MoveSchedules, clockVars, clientVars
  <2>2. ASSUME NEW s \in Schedule, RunOfInactive(s, ran, curDay),
               \/ active' = <<>> /\ inactive' = <<s>>
        PROVE  RunInv'
    BY <2>1, <2>2 DEF RunInv, RunOfInactive, InOrder
  <2>3. ASSUME NEW s \in Schedule, RunOfActive(s, ran), active' = <<s>> /\ inactive' = <<>>
        PROVE  RunInv'
    BY <2>1, <2>3 DEF RunInv, RunOfActive, InOrder
  <2>4. CASE active = <<>> /\ inactive = <<>> /\ active' = <<>> /\ inactive' = <<>>
    BY <2>1, <2>4 DEF RunInv, InOrder
  <2>5. CASE \E s \in Loaded :
               /\ active = <<s>> /\ inactive = <<>>
               /\ IF s.end < curDay THEN active' = <<>> /\ inactive' = <<s>>
                  ELSE active' = <<s>> /\ inactive' = <<>>
    <3>1. PICK s \in Loaded :
               /\ active = <<s>> /\ inactive = <<>>
               /\ \/ s.end < curDay /\ active' = <<>> /\ inactive' = <<s>>
                  \/ active' = <<s>> /\ inactive' = <<>>
      BY <2>5
    <3>2. s \in Schedule
      BY DEF Loaded
    <3>3. RunOfActive(s, ran)
      BY <3>1 DEF RunInv
    <3>4. CASE s.end < curDay /\ active' = <<>> /\ inactive' = <<s>>
      <4>1. RunOfInactive(s, ran, curDay)
        BY <3>3, <3>4 DEF RunOfActive, RunOfInactive
      <4> QED
        BY <2>2, <3>2, <3>4, <4>1
    <3>5. CASE active' = <<s>> /\ inactive' = <<>>
      BY <2>3, <3>2, <3>3, <3>5
    <3> QED
      BY <3>1, <3>4, <3>5
  <2>6. CASE \E s \in Loaded :
              /\ active = <<>> /\ inactive = <<s>>
              /\ IF ~(s.repeating \/ s.end >= curDay) THEN active' = <<>> /\ inactive' = <<s>>
                 ELSE IF Activated(s).end < curDay
                 THEN active' = <<>> /\ inactive' = <<Activated(s)>>
                 ELSE active' = <<Activated(s)>> /\ inactive' = <<>>
    <3>1. PICK s \in Loaded :
              /\ active = <<>> /\ inactive = <<s>>
              /\ IF ~(s.repeating \/ s.end >= curDay) THEN active' = <<>> /\ inactive' = <<s>>
                 ELSE IF Activated(s).end < curDay
                 THEN active' = <<>> /\ inactive' = <<Activated(s)>>
                 ELSE active' = <<Activated(s)>> /\ inactive' = <<>>
      BY <2>6
    <3> DEFINE a == Activated(s)
    <3>2. s \in Schedule /\ a \in Schedule
      BY <1>1, ActivatedType DEF Loaded
    <3>3. RunOfInactive(s, ran, curDay)
      BY <3>1 DEF RunInv
    <3>4. /\ a.title = s.title /\ a.done = {} /\ a.period = s.period
          /\ IF s.end < curDay /\ s.repeating
             THEN a.start = curDay /\ a.end = curDay + s.period - 1
             ELSE a.start = s.start /\ a.end = s.end
      BY <3>2, ActivatedFields
    <3>5. s.start \in Int /\ s.end \in Int /\ s.period \in Nat /\ a.start \in Int /\ a.end \in Int
      BY <3>2 DEF Schedule
    <3>6. /\ \/ ~(s.repeating \/ s.end >= curDay) /\ active' = <<>> /\ inactive' = <<s>>
             \/ a.end < curDay /\ active' = <<>> /\ inactive' = <<a>>
             \/ /\ s.repeating \/ s.end >= curDay
                /\ ~(a.end < curDay) /\ active' = <<a>> /\ inactive' = <<>>
      BY <3>1
    <3> HIDE DEF a
    <3>7. InOrder(a)
      BY <3>3, <3>4, <3>5, <1>1 DEF RunOfInactive, InOrder
    <3>8. CASE ~(s.repeating \/ s.end >= curDay) /\ active' = <<>> /\ inactive' = <<s>>
      BY <2>2, <3>2, <3>3, <3>8
    <3>9. CASE a.end < curDay /\ active' = <<>> /\ inactive' = <<a>>
      <4>1. \A e \in ran : e[2] <= a.start
        BY <1>1, <3>3, <3>4, <3>5 DEF RunInv, RunOfInactive
      <4>2. RunOfInactive(a, ran, curDay)
        BY <3>7, <3>9, <4>1 DEF RunOfInactive
      <4> QED
        BY <2>2, <3>2, <3>9, <4>2
    <3>10. CASE /\ s.repeating \/ s.end >= curDay
                /\ ~(a.end < curDay) /\ active' = <<a>> /\ inactive' = <<>>
      <4>1. \A e \in ran : e[2] < a.start
        BY <3>2, <3>3, <3>10, FreshLater DEF a
      <4>2. RunOfActive(a, ran)
        BY <1>1, <3>4, <3>5, <3>7, <4>1 DEF RunOfActive
      <4> QED
        BY <2>3, <3>2, <3>10, <4>2
    <3> QED
      BY <3>6, <3>8, <3>9, <3>10
  <2> QED
    BY <1>8, <2>4, <2>5, <2>6, MoveCases
<1>9. CASE PassMinute
  <2>1. UNCHANGED <<active, inactive, pending, ran, curDay>> /\ today' >= today
    BY <1>1, <1>9 DEF PassMinute, listVars, threadVars, clientVars
  <2> QED
    BY <1>1, <1>2, <2>1 DEF RunInv
<1>10. CASE (\E o \in Outputs : Break(o) \/ Repair(o)) \/ UNCHANGED handlerVars
  <2>1. UNCHANGED <<active, inactive, pending, ran, curDay, today>>
    BY <1>10 DEF Break, Repair, handlerVars, listVars, clockVars, threadVars, clientVars
  <2> QED
    BY <1>1, <1>2, <2>1 DEF RunInv
<1> QED
  BY <1>3, <1>4, <1>5, <1>6, <1>7, <1>8, <1>9, <1>10
     DEF HandlerNext, Interface, ThreadAlone, Environment

\* So it is in every behaviour.
LEMMA RunHolds == ASSUME OneTitle PROVE Spec => []RunInv
<1>1. Init => RunInv
  BY DEF Init, RunInv
<1>2. TypeOK /\ TypeOK' /\ SingleInv /\ RunInv /\ [Next]_vars => RunInv'
  BY RunStep, NextIsHandlerNext
<1> QED
  BY <1>1, <1>2, TypeCorrect, SingleHolds, PTL DEF Spec

\* What the thread executes again in a run has failed on one of its outputs.
LEMMA OnceStep ==
  ASSUME TypeOK, SingleInv, RunInv, [HandlerNext]_handlerVars, thread = "scan", cursor' # cursor,
         NEW i \in Due(active[cursor]), Reliable(active[cursor].title, i)
  PROVE  <<active[cursor].title, active[cursor].start, i>> \notin ran
<1> SUFFICES ASSUME <<active[cursor].title, active[cursor].start, i>> \in ran PROVE FALSE
  OBVIOUS
<1>1. ScanMarks
  BY DEF HandlerNext, Interface, ThreadAlone, Environment, StartEventHandler, StopEventHandler,
         StopReturns, AddScheduleCheck, AddScheduleInsert, LeaveLoop, ReadClock, ReadClockAtMidnight,
         MoveSchedules, WakeUp, PassMinute, Break, Repair, handlerVars, threadVars
<1>2. RunOfActive(active[cursor], ran)
  BY <1>1 DEF RunInv, ScanMarks
<1> DEFINE e == <<active[cursor].title, active[cursor].start, i>>
<1>3. e \in ran /\ e[2] = active[cursor].start /\ e[3] = i
  OBVIOUS
<1> HIDE DEF e
<1>4. i \in active[cursor].done
  BY <1>2, <1>3 DEF RunOfActive
<1> QED
  BY <1>4 DEF Due

\* No event whose outputs always answer is executed twice in one run of the
\* schedule, for any dates, repeated or not, and any clock.
THEOREM AtMostOncePerRunHolds == ASSUME OneTitle PROVE Spec => AtMostOncePerRun
<1>1. TypeOK /\ SingleInv /\ RunInv /\ [Next]_vars =>
        [(thread = "scan" /\ cursor' # cursor) =>
           \A i \in Due(active[cursor]) :
             Reliable(active[cursor].title, i) => <<active[cursor].title, active[cursor].start, i>> \notin ran]_vars
  BY OnceStep, NextIsHandlerNext
<1> QED
  BY <1>1, TypeCorrect, SingleHolds, RunHolds, PTL DEF Spec, AtMostOncePerRun

-----------------------------------------------------------------------------
(* Nothing is missed.                                                      *)

\* The ticks since the clock moved, the one that is over but for its sleep
\* included.
Ticked == IF thread = "sleep" THEN ticks + 1 ELSE ticks

\* The thread runs and was not told to end.
Underway == isStarted /\ ~shouldExit

\* An event is marked, or it was executed and an output of it may have failed.
Handled(s, i) == i \in s.done \/ (~Reliable(s.title, i) /\ <<s.title, s.start, i>> \in ran)

\* The events of today whose moment has come have been handled.
Processed(s) ==
  s.start # NoDay =>
    \A i \in DOMAIN Events[s.title] : (EventDay(s, i) = today /\ HasCome(s, i)) => Handled(s, i)

\* Where the thread is, and that it has not ticked before it was started.
RunningInv ==
  /\ ~isStarted => thread = "none" /\ (shouldExit \/ ticks = 0)
  /\ Underway => thread \in {"loop", "scan", "sleep"}

\* What the ticks since the clock moved have done.  The first may have read
\* the clock before; the second ends with no active schedule past its end,
\* the third with none waiting that should not, and the fourth has gone
\* through the schedule it became active with.
TickedInv ==
  /\ (thread = "scan" /\ Ticked >= 1) => curDay = today /\ curMin = minute
  /\ Ticked >= 2 => /\ \A k \in DOMAIN active : active[k].end >= today
                    /\ \A k \in DOMAIN inactive : inactive[k].end < today
  /\ Ticked >= 3 => \A k \in DOMAIN inactive : ~inactive[k].repeating
  /\ (Ticked >= 3 /\ thread = "scan") => \A k \in DOMAIN active : k < cursor => Processed(active[k])
  /\ Ticked >= 4 => \A k \in DOMAIN active : Processed(active[k])

\* The inductive invariant.
TickInv == RunningInv /\ (Underway => TickedInv)

\* A scan whose reading is current leaves no event of today out.
LEMMA ScanReaches ==
  ASSUME TypeOK, curDay = today, curMin = minute, NEW s \in Schedule, s.start # NoDay,
         NEW i \in DOMAIN Events[s.title], EventDay(s, i) = today, HasCome(s, i)
  PROVE  i \in s.done \cup Due(s)
<1>1. s.title \in Titles \cup {NoTitle} /\ s.start \in Int /\ today \in Nat
  BY DEF Schedule, TypeOK
<1>2. Events[s.title][i].day \in Nat /\ Events[s.title][i].time \in Nat
  BY <1>1, EventType
<1>3. s.start + Events[s.title][i].day = today /\ Events[s.title][i].time <= minute
  BY <1>1, <1>2 DEF EventDay, HasCome
<1>4. Events[s.title][i].day <= curDay - s.start /\ Events[s.title][i].time <= curMin
  BY <1>1, <1>2, <1>3
<1> QED
  BY <1>4 DEF Due

\* Every step keeps up with the ticks of the minute.
LEMMA TickStep ==
  ASSUME OneTitle, \A f \in Files : f.period >= 1,
         TypeOK, TypeOK', SingleInv, TickInv, [HandlerNext]_handlerVars
  PROVE  TickInv'
<1>1. /\ ticks \in Nat /\ ticks' \in Nat /\ today \in Nat /\ curDay \in Nat
      /\ cursor \in Nat \ {0} /\ TicksPerMinute \in Nat
  BY ClockAssumption DEF TypeOK
<1>2. RunningInv /\ (Underway => TickedInv)
  BY DEF TickInv
\* The clock has just moved, or the thread is at work again.
<1>3. ASSUME ticks' = 0, thread' = "scan" => thread' # "sleep" PROVE TickedInv'
  <2>1. Ticked' \in {0, 1} /\ (thread' = "scan" => Ticked' = 0)
    BY <1>3 DEF Ticked
  <2> QED
    BY <2>1 DEF TickedInv
<1>4. ASSUME UNCHANGED <<today, minute, active, inactive, isStarted, shouldExit, ran>>,
             Underway => Ticked' <= Ticked, Underway => thread' # "scan", RunningInv'
      PROVE  TickInv'
  <2> SUFFICES ASSUME Underway, TickedInv PROVE TickedInv'
    BY <1>2, <1>4 DEF TickInv, Underway
  <2>1. Ticked' <= Ticked /\ Ticked \in Nat /\ Ticked' \in Nat
    <3>1. Ticked \in Nat
      BY <1>1 DEF Ticked
    <3>2. Ticked' \in Nat
      <4>1. Ticked' = ticks' \/ Ticked' = ticks' + 1
        BY DEF Ticked
      <4> QED
        BY <1>1, <4>1
    <3>3. Ticked' <= Ticked
      BY <1>4
    <3> QED
      BY <3>1, <3>2, <3>3
  <2>2. \A k \in DOMAIN active : Processed(active[k]) => Processed(active[k])'
    BY <1>4 DEF Processed, Handled, EventDay, HasCome
  <2> QED
    BY <1>4, <2>1, <2>2 DEF TickedInv
<1>5. CASE StartEventHandler
  <2>1. isStarted' /\ thread' = "loop" /\ ticks' = ticks /\ shouldExit' = shouldExit /\ ~isStarted
    BY <1>5 DEF StartEventHandler, clockVars
  <2>2. RunningInv' /\ (Underway' => ticks' = 0)
    BY <1>2, <2>1 DEF RunningInv, Underway
  <2> QED
    BY <1>3, <2>1, <2>2 DEF TickInv
<1>6. CASE StopEventHandler \/ LeaveLoop
  <2>1. shouldExit' /\ isStarted' = isStarted /\ ticks' = ticks
        /\ (thread' = thread \/ thread = "loop")
    BY <1>6 DEF StopEventHandler, LeaveLoop, clockVars, threadVars, clientVars
  <2> QED
    BY <1>2, <2>1 DEF TickInv, RunningInv, Underway
<1>7. CASE StopReturns
  <2>1. thread = "exited" /\ thread' = "none" /\ ~isStarted' /\ shouldExit' = shouldExit
    BY <1>7 DEF StopReturns
  <2> QED
    BY <1>2, <2>1 DEF TickInv, RunningInv, Underway
<1>8. ASSUME NEW f \in Files, AddScheduleCheck(f) PROVE TickInv'
  <2>1. UNCHANGED <<today, minute, ticks, active, inactive, thread, curDay, curMin, cursor, shouldExit, isStarted, ran>>
    BY <1>8 DEF AddScheduleCheck, clockVars, listVars, threadVars
  <2> QED
    BY <1>2, <2>1 DEF TickInv, RunningInv, Underway, TickedInv, Ticked, Processed, Handled, EventDay, HasCome
<1>9. CASE AddScheduleInsert
  <2>1. ticks' = 0 /\ UNCHANGED <<thread, isStarted, shouldExit>>
    BY <1>9 DEF AddScheduleInsert, threadVars
  <2> QED
    BY <1>2, <1>3, <2>1 DEF TickInv, RunningInv, Underway
<1>10. CASE ReadClock
  <2>1. /\ thread = "loop" /\ thread' = "scan" /\ cursor' = 1 /\ curDay' = today /\ curMin' = minute
        /\ UNCHANGED <<today, minute, ticks, active, inactive, isStarted, shouldExit, ran>>
    BY <1>10 DEF ReadClock, clockVars, listVars, clientVars
  <2>2. RunningInv'
    BY <1>2, <2>1 DEF RunningInv, Underway
  <2>3. \A k \in DOMAIN active : k >= 1 /\ k \in Nat
    <3>1. Len(active) \in Nat /\ DOMAIN active = 1 .. Len(active)
      <4>1. active \in Seq(Schedule)
        BY DEF TypeOK
      <4> QED
        BY <4>1, LenProperties
    <3> QED
      BY <3>1
  <2>4. Ticked' = Ticked
    BY <2>1 DEF Ticked
  <2>5. \A k \in DOMAIN active : Processed(active[k]) => Processed(active[k])'
    BY <2>1 DEF Processed, Handled, EventDay, HasCome
  <2>6. TickedInv => TickedInv'
    BY <2>1, <2>3, <2>4, <2>5 DEF TickedInv
  <2> QED
    BY <1>2, <2>1, <2>2, <2>6 DEF TickInv, Underway
<1>11. CASE ReadClockAtMidnight
  <2>1. thread = "loop" /\ thread' = "scan" /\ ticks' = 0 /\ UNCHANGED <<isStarted, shouldExit>>
    BY <1>11 DEF ReadClockAtMidnight, clientVars
  <2> QED
    BY <1>2, <1>3, <2>1 DEF TickInv, RunningInv, Underway
<1>12. CASE ScanMarks
  <2>1. active[1] \in Schedule /\ active = <<active[1]>> /\ cursor = 1 /\ inactive = <<>>
    BY <1>12, ScanOnly DEF Loaded
  <2>2. /\ thread = "scan" /\ thread' = "scan" /\ cursor' = 2
        /\ UNCHANGED <<today, minute, ticks, inactive, curDay, curMin, isStarted, shouldExit>>
    BY <1>12, <2>1 DEF ScanMarks, clockVars, clientVars
  <2>3. PICK s \in Schedule :
          /\ active = <<s>>
          /\ active' = <<[s EXCEPT !.done = (@ \cup Due(s)) \ FailedEvents(s.title, Due(s))]>>
          /\ ran' = ran \cup {<<s.title, s.start, i>> : i \in Due(s)}
          /\ \A i \in FailedEvents(s.title, Due(s)) : i \in Due(s) /\ ~Reliable(s.title, i)
    BY <1>12, <2>1, ScanResult
  <2>4. PICK m : m = [s EXCEPT !.done = (@ \cup Due(s)) \ FailedEvents(s.title, Due(s))]
    OBVIOUS
  <2>5. /\ m.title = s.title /\ m.start = s.start /\ m.end = s.end
        /\ m.done = (s.done \cup Due(s)) \ FailedEvents(s.title, Due(s))
    BY <2>4 DEF Schedule
  <2>6. active' = <<m>>
    BY <2>3, <2>4
  <2>7. active' \in Seq(Schedule)
    BY DEF TypeOK
  <2>8. m \in Schedule
    <3>1. active'[1] = m /\ 1 \in 1 .. Len(active')
      BY <2>6
    <3> QED
      BY <2>7, <3>1, ElementOfSeq
  <2>9. Ticked = ticks /\ Ticked' = ticks
    BY <2>2 DEF Ticked
  <2>10. ASSUME Underway, Ticked >= 1 PROVE Processed(m)'
    <3>1. curDay = today /\ curMin = minute
      BY <1>2, <2>2, <2>10 DEF TickedInv
    <3> SUFFICES ASSUME m.start # NoDay, NEW i \in DOMAIN Events[m.title],
                        EventDay(m, i) = today, HasCome(m, i)
                 PROVE  i \in m.done \/ (~Reliable(m.title, i) /\ <<m.title, m.start, i>> \in ran')
      BY <2>2 DEF Processed, Handled, EventDay, HasCome
    <3>2. i \in s.done \cup Due(s)
      BY <2>5, <3>1, ScanReaches DEF EventDay, HasCome
    <3>3. CASE i \in FailedEvents(s.title, Due(s))
      <4>1. ~Reliable(s.title, i) /\ <<s.title, s.start, i>> \in ran'
        BY <2>3, <3>3
      <4> QED
        BY <2>5, <4>1
    <3>4. CASE i \notin FailedEvents(s.title, Due(s))
      BY <2>5, <3>2, <3>4
    <3> QED
      BY <3>3, <3>4
  <2>11. ASSUME Underway PROVE TickedInv'
    <3>1. TickedInv
      BY <1>2, <2>11
    <3>2. DOMAIN active' = {1} /\ active'[1] = m /\ DOMAIN inactive' = {} /\ DOMAIN active = {1} /\ active[1] = s
      BY <2>1, <2>2, <2>3, <2>6
    <3>3. Ticked' >= 1 => (\A k \in DOMAIN active : Processed(active[k]))'
      BY <2>9, <2>10, <2>11, <3>2 DEF Processed, Handled, EventDay, HasCome
    <3>4. Ticked' >= 2 => m.end >= today
      BY <1>1, <2>5, <2>9, <3>1, <3>2 DEF TickedInv
    <3>5. (thread' = "scan" /\ Ticked' >= 1) => curDay' = today' /\ curMin' = minute'
      BY <2>2, <2>9, <3>1 DEF TickedInv
    <3> QED
      BY <1>1, <2>2, <2>9, <3>2, <3>3, <3>4, <3>5 DEF TickedInv, Processed, Handled, EventDay, HasCome
  <2> QED
    BY <1>2, <2>2, <2>11 DEF TickInv, RunningInv, Underway
<1>13. CASE MoveSchedules
  <2>1. /\ thread = "scan" /\ thread' = "sleep" /\ cursor \notin DOMAIN active
        /\ UNCHANGED <<today, minute, ticks, isStarted, shouldExit, ran>>
    BY <1>13 DEF MoveSchedules, clockVars, clientVars
  <2>2. Ticked = ticks /\ Ticked' = ticks + 1
    BY <2>1 DEF Ticked
  <2>3. SUFFICES ASSUME Underway, TickedInv PROVE TickedInv'
    BY <1>2, <2>1 DEF TickInv, RunningInv, Underway
  <2>4. ticks >= 1 => curDay = today
    BY <2>1, <2>2, <2>3 DEF TickedInv
  <2>5. ASSUME NEW s \in Schedule, active' = <<s>>, inactive' = <<>>,
               ticks >= 1 => s.end >= today, ticks >= 3 => Processed(s)
        PROVE  TickedInv'
    <3>1. ticks >= 3 => Processed(s)'
      BY <2>1, <2>5 DEF Processed, Handled, EventDay, HasCome
    <3>2. DOMAIN active' = {1} /\ active'[1] = s /\ DOMAIN inactive' = {}
      BY <2>5
    <3>3. ticks >= 3 => (\A k \in DOMAIN active : Processed(active[k]))'
      BY <3>1, <3>2 DEF Processed, Handled, EventDay, HasCome
    <3>4. (Ticked' >= 2 => ticks >= 1) /\ (Ticked' >= 4 => ticks >= 3)
      BY <1>1, <2>2
    <3> QED
      BY <2>1, <2>5, <3>2, <3>3, <3>4 DEF TickedInv, Processed, Handled, EventDay, HasCome
  <2>6. ASSUME NEW s \in Schedule, active' = <<>>, inactive' = <<s>>,
               ticks >= 1 => s.end < today, ticks >= 2 => ~s.repeating
        PROVE  TickedInv'
    <3>1. DOMAIN inactive' = {1} /\ inactive'[1] = s /\ DOMAIN active' = {}
      BY <2>6
    <3>2. (Ticked' >= 2 => ticks >= 1) /\ (Ticked' >= 3 => ticks >= 2)
      BY <1>1, <2>2
    <3> QED
      BY <2>1, <2>6, <3>1, <3>2 DEF TickedInv
  <2>7. CASE active = <<>> /\ inactive = <<>> /\ active' = <<>> /\ inactive' = <<>>
    <3>1. DOMAIN inactive' = {} /\ DOMAIN active' = {}
      BY <2>7
    <3> QED
      BY <2>1, <3>1 DEF TickedInv
  <2>8. CASE \E s \in Loaded :
               /\ active = <<s>> /\ inactive = <<>>
               /\ IF s.end < curDay THEN active' = <<>> /\ inactive' = <<s>>
                  ELSE active' = <<s>> /\ inactive' = <<>>
    <3>1. PICK s \in Loaded :
               /\ active = <<s>>
               /\ IF s.end < curDay THEN active' = <<>> /\ inactive' = <<s>>
                  ELSE active' = <<s>> /\ inactive' = <<>>
      BY <2>8
    <3>2. s \in Schedule /\ s.end \in Int
      BY DEF Loaded, Schedule
    <3>3. DOMAIN active = {1} /\ active[1] = s
      BY <3>1
    <3>4. CASE s.end < curDay
      <4>1. ~(ticks >= 2)
        BY <1>1, <2>2, <2>3, <2>4, <3>2, <3>3, <3>4 DEF TickedInv
      <4> QED
        BY <2>4, <2>6, <3>1, <3>2, <3>4, <4>1
    <3>5. CASE ~(s.end < curDay)
      <4>1. cursor > 1
        BY <1>1, <2>1, <3>3
      <4>2. ticks >= 3 => Processed(s)
        BY <2>1, <2>2, <2>3, <3>3, <4>1 DEF TickedInv
      <4>3. ticks >= 1 => s.end >= today
        BY <1>1, <2>4, <3>2, <3>5
      <4> QED
        BY <2>5, <3>1, <3>2, <3>5, <4>2, <4>3
    <3> QED
      BY <3>4, <3>5
  <2>9. CASE \E s \in Loaded :
              /\ active = <<>> /\ inactive = <<s>>
              /\ IF ~(s.repeating \/ s.end >= curDay) THEN active' = <<>> /\ inactive' = <<s>>
                 ELSE IF Activated(s).end < curDay
                 THEN active' = <<>> /\ inactive' = <<Activated(s)>>
                 ELSE active' = <<Activated(s)>> /\ inactive' = <<>>
    <3>1. PICK s \in Loaded :
              /\ inactive = <<s>>
              /\ IF ~(s.repeating \/ s.end >= curDay) THEN active' = <<>> /\ inactive' = <<s>>
                 ELSE IF Activated(s).end < curDay
                 THEN active' = <<>> /\ inactive' = <<Activated(s)>>
                 ELSE active' = <<Activated(s)>> /\ inactive' = <<>>
      BY <2>9
    <3>2. PICK a : a = Activated(s)
      OBVIOUS
    <3>3. s \in Schedule /\ a \in Schedule /\ s.period >= 1
      BY <3>2, ActivatedType DEF Loaded, TypeOK
    <3>4. s.end \in Int /\ s.period \in Nat /\ a.end \in Int
      BY <3>3 DEF Schedule
    <3>5. a.end = IF s.end < curDay /\ s.repeating THEN curDay + s.period - 1 ELSE s.end
      BY <3>2, <3>3, ActivatedFields
    <3>6. DOMAIN inactive = {1} /\ inactive[1] = s
      BY <3>1
    <3>7. CASE ~(s.repeating \/ s.end >= curDay)
      <4>1. active' = <<>> /\ inactive' = <<s>> /\ s.end < curDay /\ ~s.repeating
        BY <1>1, <3>1, <3>4, <3>7
      <4> QED
        BY <2>4, <2>6, <3>3, <4>1
    <3>8. CASE s.repeating \/ s.end >= curDay
      <4>1. a.end >= curDay
        BY <1>1, <3>3, <3>4, <3>5, <3>8
      <4>2. active' = <<a>> /\ inactive' = <<>>
        BY <1>1, <3>1, <3>2, <3>4, <3>8, <4>1
      <4>3. ~(ticks >= 3)
        BY <1>1, <2>2, <2>3, <2>4, <3>4, <3>6, <3>8 DEF TickedInv
      <4> QED
        BY <2>4, <2>5, <3>3, <4>1, <4>2, <4>3
    <3> QED
      BY <3>7, <3>8
  <2> QED
    BY <1>13, <2>7, <2>8, <2>9, MoveCases
<1>14. CASE WakeUp
  <2>1. /\ thread = "sleep" /\ thread' = "loop" /\ ticks' \in {ticks, ticks + 1}
        /\ UNCHANGED <<today, minute, active, inactive, isStarted, shouldExit, ran>>
    BY <1>14 DEF WakeUp, listVars, clientVars
  <2>2. RunningInv'
    BY <1>2, <2>1 DEF RunningInv, Underway
  <2>3. Ticked' <= Ticked
    BY <1>1, <2>1 DEF Ticked
  <2> QED
    BY <1>4, <2>1, <2>2, <2>3
<1>15. CASE PassMinute
  <2>1. ticks' = 0 /\ UNCHANGED <<thread, isStarted, shouldExit>>
    BY <1>15 DEF PassMinute, threadVars, clientVars
  <2> QED
    BY <1>2, <1>3, <2>1 DEF TickInv, RunningInv, Underway
<1>16. CASE (\E o \in Outputs : Break(o) \/ Repair(o)) \/ UNCHANGED handlerVars
  <2>1. UNCHANGED <<today, minute, ticks, active, inactive, thread, curDay, curMin, cursor, shouldExit, isStarted, ran>>
    BY <1>16 DEF Break, Repair, handlerVars, clockVars, listVars, threadVars, clientVars
  <2> QED
    BY <1>2, <2>1 DEF TickInv, RunningInv, Underway, TickedInv, Ticked, Processed, Handled, EventDay, HasCome
<1> QED
  BY <1>5, <1>6, <1>7, <1>8, <1>9, <1>10, <1>11, <1>12, <1>13, <1>14, <1>15, <1>16
     DEF HandlerNext, Interface, ThreadAlone, Environment

\* At the beginning no tick was made.
LEMMA TickInit == Init => TickInv
BY DEF Init, TickInv, RunningInv, Underway

\* What NoMissedEvent says of the state the clock leaves behind.
NothingMissed ==
  /\ \A k \in DOMAIN active : active[k].start # NoDay =>
       \A i \in DOMAIN Events[active[k].title] :
         (EventDay(active[k], i) = today /\ HasCome(active[k], i)) =>
           /\ <<active[k].title, active[k].start, i>> \in ran
           /\ Reliable(active[k].title, i) => i \in active[k].done
  /\ \A k \in DOMAIN inactive : ~inactive[k].repeating /\ inactive[k].end < today

\* The clock moves on after four ticks, and these have handled everything.
LEMMA MinuteStep ==
  ASSUME TicksPerMinute >= 4, TypeOK, RunInv, TickInv, [HandlerNext]_handlerVars,
         minute' # minute, Underway
  PROVE  NothingMissed
<1>1. RunningInv /\ TickedInv
  BY DEF TickInv
<1>2. PassMinute \/ ReadClockAtMidnight
  BY DEF HandlerNext, Interface, ThreadAlone, Environment, StartEventHandler, StopEventHandler,
         StopReturns, AddScheduleCheck, AddScheduleInsert, LeaveLoop, ReadClock,
         ScanMarks, MoveSchedules, WakeUp, Break, Repair, clockVars, handlerVars
<1>3. ticks = TicksPerMinute
  BY <1>1, <1>2 DEF PassMinute, ReadClockAtMidnight, RunningInv
<1>4. ticks \in Nat /\ TicksPerMinute \in Nat
  BY ClockAssumption DEF TypeOK
<1>5. Ticked >= 4 /\ Ticked \in Nat
  BY <1>3, <1>4 DEF Ticked
<1>6. Ticked >= 2 /\ Ticked >= 3
  BY <1>5
<1>7. \A k \in DOMAIN active : Processed(active[k])
  BY <1>1, <1>5 DEF TickedInv
<1>8. \A k \in DOMAIN inactive : ~inactive[k].repeating /\ inactive[k].end < today
  BY <1>1, <1>6 DEF TickedInv
<1>9. \A k \in DOMAIN active : \A i \in active[k].done : <<active[k].title, active[k].start, i>> \in ran
  BY DEF RunInv, RunOfActive
<1> QED
  BY <1>7, <1>8, <1>9 DEF NothingMissed, Processed, Handled

\* With four ticks between two moves of the clock a running thread misses no
\* event, for any schedule of at least one day and whatever fails: across
\* midnights, expiry, and the new beginning of a repeating schedule.
THEOREM NoMissedEventHolds ==
  ASSUME OneTitle, TicksPerMinute >= 4, \A f \in Files : f.period >= 1
  PROVE  Spec => NoMissedEvent
<1>1. TypeOK /\ TypeOK' /\ SingleInv /\ TickInv /\ [Next]_vars => TickInv'
  BY TickStep, NextIsHandlerNext
<1>2. TypeOK /\ RunInv /\ TickInv /\ [Next]_vars =>
        [(minute' # minute /\ isStarted /\ ~shouldExit) => NothingMissed]_vars
  BY MinuteStep, NextIsHandlerNext DEF Underway
<1> QED
  BY <1>1, <1>2, TickInit, TypeCorrect, SingleHolds, RunHolds, PTL
     DEF Spec, NoMissedEvent, NothingMissed

-----------------------------------------------------------------------------
(* The outputs on their panels.                                            *)

\* Each event controls one output.
OneOutputEach ==
  \A t \in Titles : \A i \in DOMAIN Events[t] : \A o, p \in EventOutputs(t, i) : o = p

\* Of the events of an output none is later in the schedule and due earlier:
\* on one day this is the order of the loaded file.
InTurnOnOutputs ==
  \A t \in Titles : \A i, j \in DOMAIN Events[t] :
    (j < i /\ EventOutputs(t, i) \cap EventOutputs(t, j) # {}) =>
      Events[t][j].day <= Events[t][i].day /\ Events[t][j].time <= Events[t][i].time

\* No event toggles an output.
NoToggles ==
  \A t \in Titles : \A i \in DOMAIN Events[t] : \A c \in DOMAIN Events[t][i].controls :
    Events[t][i].controls[c].value \in Levels

\* The variables of the panels keep to their types.
PanelTypeOK ==
  /\ TypeOK
  /\ asked \in [Outputs -> SwitchValues]
  /\ held \in [Outputs -> Levels \cup {"none"}]
  /\ answered \in [Outputs -> BOOLEAN]

\* The marks of an output's events have no gap, and when none of those that
\* were executed has to be repeated, the output was asked for the last one.
PanelOfActive(s) ==
  \A o \in Outputs :
    /\ \A i, j \in DOMAIN Events[s.title] :
         (j < i /\ o \in EventOutputs(s.title, i) /\ o \in EventOutputs(s.title, j) /\ i \in s.done)
           => j \in s.done
    /\ (Executed(s, o) # {} /\ Executed(s, o) \subseteq s.done)
         => asked[o] = BatchValue(s.title, Executed(s, o), o)

\* The inductive invariant.
PanelInv ==
  /\ \A o \in Outputs : asked[o] \in Levels
  /\ \A o \in Outputs : (answered[o] /\ held[o] = "none") => level[o] = asked[o]
  /\ \A k \in DOMAIN active : PanelOfActive(active[k])

\* Update of some outputs.
LEMMA UpdateType ==
  ASSUME PanelTypeOK, NEW outs, Update(outs),
         asked' \in [Outputs -> SwitchValues], held' \in [Outputs -> Levels \cup {"none"}]
  PROVE  level' \in [Outputs -> Levels] /\ answered' \in [Outputs -> BOOLEAN]
<1>1. level' \in [Outputs -> Levels]
  <2> SUFFICES ASSUME NEW o \in Outputs
               PROVE  Applied(IF held'[o] # "none" THEN held'[o] ELSE asked'[o], level[o]) \in Levels
    BY DEF Update, PanelTypeOK, TypeOK
  <2>1. level[o] \in Levels
    BY DEF PanelTypeOK, TypeOK
  <2>2. (IF held'[o] # "none" THEN held'[o] ELSE asked'[o]) \in SwitchValues
    BY DEF SwitchValues
  <2> QED
    BY <2>1, <2>2, AppliedType
<1>2. answered' \in [Outputs -> BOOLEAN]
  <2>1. answered' = [o \in Outputs |-> IF o \in outs THEN o \notin broken ELSE answered[o]]
    BY DEF Update
  <2>2. \A o \in Outputs : (IF o \in outs THEN o \notin broken ELSE answered[o]) \in BOOLEAN
    BY DEF PanelTypeOK
  <2> QED
    BY <2>1, <2>2
<1> QED
  BY <1>1, <1>2

\* Every step of the handler or of the user keeps the types.
LEMMA PanelTypeStep == PanelTypeOK /\ [PanelNext]_allVars => PanelTypeOK'
<1> SUFFICES ASSUME PanelTypeOK, [PanelNext]_allVars PROVE PanelTypeOK'
  OBVIOUS
<1> DEFINE Own ==
      /\ level \in [Outputs -> Levels]
      /\ asked \in [Outputs -> SwitchValues]
      /\ held \in [Outputs -> Levels \cup {"none"}]
      /\ answered \in [Outputs -> BOOLEAN]
<1>1. Own /\ TypeOK
  BY DEF PanelTypeOK, TypeOK
<1>2. ASSUME UNCHANGED <<level, panelVars>> PROVE Own'
  BY <1>1, <1>2 DEF panelVars
<1>3. ASSUME UNCHANGED panelVars, Interface \/ PassMinute \/ ThreadAlone \/ (\E o \in Outputs : Break(o) \/ Repair(o))
      PROVE  Own'
  <2>1. UNCHANGED level
    BY <1>3 DEF Interface, ThreadAlone, StartEventHandler, StopEventHandler, StopReturns, AddScheduleCheck,
                AddScheduleInsert, LeaveLoop, ReadClock, ReadClockAtMidnight, MoveSchedules, WakeUp,
                PassMinute, Break, Repair, outputVars
  <2> QED
    BY <1>2, <1>3, <2>1
<1>4. ASSUME ScanControls PROVE Own'
  <2> DEFINE t == active[cursor].title
             due == Due(active[cursor])
  <2>1. active[cursor] \in Schedule
    BY <1>1, <1>4 DEF TypeOK, ScanControls, ScanMarks
  <2>2. t \in Titles \cup {NoTitle} /\ due \in SUBSET DOMAIN Events[t]
    BY <2>1, DueType DEF Schedule
  <2>3. asked' = AskedFor(t, due) /\ held' = held /\ Update(BatchOutputs(t, due))
    BY <1>4 DEF ScanControls
  <2> HIDE DEF t, due
  <2>4. asked' \in [Outputs -> SwitchValues]
    BY <1>1, <2>2, <2>3, BatchValueType DEF AskedFor
  <2> QED
    BY <1>1, <2>3, <2>4, UpdateType
<1>5. ASSUME User PROVE Own'
  <2>1. PICK o \in Operated : RestoreControl(o) \/ \E v \in Levels : OverrideWith(o, v)
    BY <1>5 DEF User
  <2>2. asked' = asked /\ Update({o}) /\ held' \in [Outputs -> Levels \cup {"none"}]
    BY <1>1, <2>1 DEF RestoreControl, OverrideWith
  <2> QED
    BY <1>1, <2>2, UpdateType
<1>6. ASSUME UNCHANGED allVars PROVE Own'
  BY <1>2, <1>6 DEF allVars, vars, outputVars
<1>7. Own'
  BY <1>3, <1>4, <1>5, <1>6 DEF PanelNext, PanelThread
<1>8. TypeOK'
  BY <1>1, <1>7, PanelNextIsHandlerNext, TypeStep
<1> QED
  BY <1>7, <1>8 DEF PanelTypeOK

\* The handler with the panels keeps its types.
THEOREM PanelTypeCorrect == PanelSpec => []PanelTypeOK
<1>1. PanelInit => PanelTypeOK
  <2> SUFFICES ASSUME PanelInit PROVE PanelTypeOK
    OBVIOUS
  <2>1. TypeOK
    BY InitType DEF PanelInit
  <2>2. asked \in [Outputs -> SwitchValues]
    BY <2>1 DEF PanelInit, TypeOK, SwitchValues
  <2> QED
    BY <2>1, <2>2 DEF PanelInit, PanelTypeOK
<1> QED
  BY <1>1, PanelTypeStep, PTL DEF PanelSpec

\* There is one schedule here too, and its runs are told apart.
LEMMA PanelRunHolds == ASSUME OneTitle PROVE PanelSpec => [](SingleInv /\ RunInv)
<1>1. PanelInit => SingleInv /\ RunInv
  BY DEF PanelInit, Init, SingleInv, RunInv
<1>2. /\ PanelTypeOK /\ PanelTypeOK' /\ [PanelNext]_allVars
      => (SingleInv /\ RunInv => (SingleInv /\ RunInv)')
  BY SingleStep, RunStep, PanelNextIsHandlerNext DEF PanelTypeOK
<1> QED
  BY <1>1, <1>2, PanelTypeCorrect, PTL DEF PanelSpec

\* Beside a user at the panels and with outputs that fail the handler keeps
\* its promises: no event is early,
THEOREM PanelNoEarlyEventHolds == PanelSpec => []NoEarlyEvent
<1>1. PanelInit => EarlyInv
  BY EarlyInit DEF PanelInit
<1>2. PanelTypeOK /\ PanelTypeOK' /\ EarlyInv /\ [PanelNext]_allVars => EarlyInv'
  BY EarlyStep, PanelNextIsHandlerNext DEF PanelTypeOK
<1> QED
  BY <1>1, <1>2, EarlyHolds, PanelTypeCorrect, PTL DEF PanelSpec

\* the schedule is listed once
THEOREM PanelListedOnceHolds == ASSUME OneTitle PROVE PanelSpec => []ListedOnce
BY SingleListed, PanelRunHolds, PTL

\* and never lost,
THEOREM PanelNeverDroppedHolds == ASSUME OneTitle PROVE PanelSpec => NeverDropped
<1>1. PanelTypeOK /\ SingleInv /\ SingleInv' /\ [PanelNext]_allVars =>
        [\A t \in Titles : Listed(t) >= 1 => Listed(t)' >= 1]_vars
  BY SingleKept, PanelNextIsHandlerNext DEF PanelTypeOK
<1> QED
  BY <1>1, PanelTypeCorrect, PanelRunHolds, PTL DEF PanelSpec, NeverDropped

\* its events are executed once in each run unless they failed,
THEOREM PanelAtMostOncePerRunHolds == ASSUME OneTitle PROVE PanelSpec => AtMostOncePerRun
<1>1. PanelTypeOK /\ SingleInv /\ RunInv /\ [PanelNext]_allVars =>
        [(thread = "scan" /\ cursor' # cursor) =>
           \A i \in Due(active[cursor]) :
             Reliable(active[cursor].title, i) => <<active[cursor].title, active[cursor].start, i>> \notin ran]_vars
  BY OnceStep, PanelNextIsHandlerNext DEF PanelTypeOK
<1> QED
  BY <1>1, PanelTypeCorrect, PanelRunHolds, PTL DEF PanelSpec, AtMostOncePerRun

\* and none is missed by a thread that gets its ticks.
THEOREM PanelNoMissedEventHolds ==
  ASSUME OneTitle, TicksPerMinute >= 4, \A f \in Files : f.period >= 1
  PROVE  PanelSpec => NoMissedEvent
<1>1. PanelInit => TickInv
  BY TickInit DEF PanelInit
<1>2. PanelTypeOK /\ PanelTypeOK' /\ SingleInv /\ TickInv /\ [PanelNext]_allVars => TickInv'
  BY TickStep, PanelNextIsHandlerNext DEF PanelTypeOK
<1>3. PanelTypeOK /\ RunInv /\ TickInv /\ [PanelNext]_allVars =>
        [(minute' # minute /\ isStarted /\ ~shouldExit) => NothingMissed]_vars
  BY MinuteStep, PanelNextIsHandlerNext DEF PanelTypeOK, Underway
<1> QED
  BY <1>1, <1>2, <1>3, PanelTypeCorrect, PanelRunHolds, PTL
     DEF PanelSpec, NoMissedEvent, NothingMissed

\* The deciding event of a batch is the last one that names the output.
LEMMA DeciderIs ==
  ASSUME NEW t, NEW events \in SUBSET Nat, NEW o, NEW d \in events, o \in EventOutputs(t, d),
         \A j \in events : o \in EventOutputs(t, j) => j <= d
  PROVE  Decider(t, events, o) = d
<1> DEFINE Last(i) == o \in EventOutputs(t, i) /\ \A j \in events : o \in EventOutputs(t, j) => j <= i
<1>1. d \in events /\ Last(d)
  OBVIOUS
<1>2. \A i \in events : Last(i) => i = d
  <2> SUFFICES ASSUME NEW i \in events, Last(i) PROVE i = d
    OBVIOUS
  <2>1. i <= d /\ d <= i /\ i \in Nat /\ d \in Nat
    OBVIOUS
  <2> QED
    BY <2>1
<1>3. Decider(t, events, o) = CHOOSE i \in events : Last(i)
  BY DEF Decider
<1> HIDE DEF Last
<1> QED
  BY <1>1, <1>2, <1>3

\* Without toggles a batch gives an output a level.
LEMMA PlainValue ==
  ASSUME NoToggles, NEW t \in Titles, NEW events \in SUBSET DOMAIN Events[t],
         NEW o \in BatchOutputs(t, events)
  PROVE  BatchValue(t, events, o) \in Levels
<1>1. PICK d \in events :
        /\ o \in EventOutputs(t, d)
        /\ BatchValue(t, events, o) = LastValue(Events[t][d].controls, o)
  BY DeciderExists
<1>2. d \in DOMAIN Events[t] /\ o \in Touched(Events[t][d].controls)
  BY <1>1 DEF EventOutputs
<1> DEFINE cs == Events[t][d].controls
<1>3. cs \in Seq([output : Outputs, value : SwitchValues])
  BY <1>2, EventType
<1>4. \A c \in DOMAIN cs : cs[c].value \in Levels
  BY <1>2 DEF NoToggles
<1> HIDE DEF cs
<1> DEFINE Plain == [output : Outputs, value : Levels]
<1>5. \A c \in 1 .. Len(cs) : cs[c] \in Plain
  <2> SUFFICES ASSUME NEW c \in 1 .. Len(cs) PROVE cs[c] \in Plain
    OBVIOUS
  <2>1. cs[c] \in [output : Outputs, value : SwitchValues] /\ c \in DOMAIN cs
    BY <1>3, ElementOfSeq, LenProperties
  <2>2. cs[c].value \in Levels
    BY <1>4, <2>1
  <2> QED
    BY <2>1, <2>2
<1> HIDE DEF Plain
<1>6. cs \in Seq([output : Outputs, value : Levels])
  <2>1. Len(cs) \in Nat /\ cs = [c \in 1 .. Len(cs) |-> cs[c]]
    BY <1>3
  <2>2. cs \in Seq(Plain)
    BY <1>5, <2>1
  <2> QED
    BY <2>2 DEF Plain
<1>7. LastValue(cs, o) \in Levels
  BY <1>2, <1>6, LastValueType DEF cs
<1> QED
  BY <1>1, <1>7 DEF cs

\* An output that is updated shows what is in force, if it answers.
LEMMA UpdateShows ==
  ASSUME PanelTypeOK, PanelInv, NEW outs, Update(outs),
         \A o \in Outputs : asked'[o] \in Levels,
         \A o \in Outputs \ outs : asked'[o] = asked[o] /\ held'[o] = held[o]
  PROVE  \A o \in Outputs : (answered'[o] /\ held'[o] = "none") => level'[o] = asked'[o]
<1> SUFFICES ASSUME NEW o \in Outputs, answered'[o], held'[o] = "none"
             PROVE  level'[o] = asked'[o]
  OBVIOUS
<1>1. CASE o \in outs
  <2>1. o \notin broken
    BY <1>1 DEF Update
  <2>2. level'[o] = Applied(asked'[o], level[o])
    BY <1>1, <2>1 DEF Update
  <2>3. asked'[o] \in Levels
    OBVIOUS
  <2> QED
    BY <2>2, <2>3 DEF Applied, Levels
<1>2. CASE o \notin outs
  <2>1. answered[o] /\ level'[o] = level[o] /\ asked'[o] = asked[o] /\ held[o] = "none"
    BY <1>2 DEF Update
  <2> QED
    BY <2>1 DEF PanelInv
<1> QED
  BY <1>1, <1>2

\* What is active after a tick was active before it, or has not run yet.
LEMMA MoveActive ==
  ASSUME TypeOK, SingleInv, RunInv, MoveSchedules
  PROVE  \/ active' = <<>>
         \/ \E s \in Schedule : active = <<s>> /\ active' = <<s>>
         \/ \E a \in Schedule : active' = <<a>> /\ a.done = {} /\ \A e \in ran : e[2] < a.start
<1>1. CASE active' = <<>> \/ \E s \in Loaded : active = <<s>> /\ active' = <<s>>
  BY <1>1 DEF Loaded
<1>2. CASE \E s \in Loaded :
              /\ inactive = <<s>> /\ (s.repeating \/ s.end >= curDay)
              /\ ~(Activated(s).end < curDay) /\ active' = <<Activated(s)>>
  <2>1. PICK s \in Loaded :
              /\ inactive = <<s>> /\ (s.repeating \/ s.end >= curDay)
              /\ ~(Activated(s).end < curDay) /\ active' = <<Activated(s)>>
    BY <1>2
  <2>2. s \in Schedule
    BY DEF Loaded
  <2>3. RunOfInactive(s, ran, curDay)
    <3>1. 1 \in DOMAIN inactive /\ inactive[1] = s
      BY <2>1
    <3>2. \A k \in DOMAIN inactive : RunOfInactive(inactive[k], ran, curDay)
      BY DEF RunInv
    <3> QED
      BY <3>1, <3>2
  <2>4. Activated(s) \in Schedule /\ Activated(s).done = {}
    BY <2>2, ActivatedType, ActivatedFields DEF TypeOK
  <2>5. \A e \in ran : e[2] < Activated(s).start
    BY <2>1, <2>2, <2>3, FreshLater
  <2> QED
    BY <2>1, <2>4, <2>5
<1> QED
  BY <1>1, <1>2, MoveCases

\* A round of the scan with the panels.
LEMMA ScanPanel ==
  ASSUME OneTitle, OneOutputEach, InTurnOnOutputs, PanelTypeOK, SingleInv, PanelInv, ScanControls,
         NEW s, active = <<s>>, s \in Schedule, s.title \in Titles,
         NEW m, m = [s EXCEPT !.done = (@ \cup Due(s)) \ FailedEvents(s.title, Due(s))],
         ran' = ran \cup {<<s.title, s.start, i>> : i \in Due(s)},
         asked' = AskedFor(s.title, Due(s))
  PROVE  PanelOfActive(m)'
<1> DEFINE t == s.title
           due == Due(s)
           failed == FailedEvents(t, due)
<1>1. m.title = t /\ m.start = s.start /\ m.done = (s.done \cup due) \ failed
  BY DEF Schedule
<1>2. due \in SUBSET DOMAIN Events[t] /\ due \in SUBSET Nat /\ t \in Titles
  BY DueType
<1>3. due \cap s.done = {} /\ failed \subseteq due
  BY DEF Due, FailedEvents
<1>4. Events[t] \in Seq(Event) /\ DOMAIN Events[t] \subseteq Nat
  BY EventsAssumption
<1>5. \A i, j \in DOMAIN Events[t] :
        (j < i /\ i \in due /\ Events[t][j].day <= Events[t][i].day /\ Events[t][j].time <= Events[t][i].time)
          => j \in due \cup s.done
  <2> SUFFICES ASSUME NEW i \in DOMAIN Events[t], NEW j \in DOMAIN Events[t], i \in due,
                      Events[t][j].day <= Events[t][i].day, Events[t][j].time <= Events[t][i].time,
                      j \notin s.done
               PROVE  j \in due
    OBVIOUS
  <2>1. /\ Events[t][i].day \in Nat /\ Events[t][i].time \in Nat
        /\ Events[t][j].day \in Nat /\ Events[t][j].time \in Nat
    BY <1>2, EventType
  <2>2. s.start # NoDay /\ Events[t][i].day <= curDay - s.start /\ Events[t][i].time <= curMin
    BY DEF Due
  <2>3. curDay \in Int /\ s.start \in Int /\ curMin \in Int
    BY ClockAssumption DEF PanelTypeOK, TypeOK, Schedule
  <2>4. Events[t][j].day <= curDay - s.start /\ Events[t][j].time <= curMin
    BY <2>1, <2>2, <2>3
  <2> QED
    BY <2>2, <2>4 DEF Due
<1>6. PanelOfActive(s)
  BY DEF PanelInv
<1> SUFFICES ASSUME NEW o \in Outputs
             PROVE  /\ \A i, j \in DOMAIN Events[m.title] :
                         (j < i /\ o \in EventOutputs(m.title, i) /\ o \in EventOutputs(m.title, j) /\ i \in m.done)
                           => j \in m.done
                    /\ (Executed(m, o)' # {} /\ Executed(m, o)' \subseteq m.done)
                         => asked'[o] = BatchValue(m.title, Executed(m, o)', o)
  BY DEF PanelOfActive
<1> DEFINE D == {i \in due : o \in EventOutputs(t, i)}
           E == Executed(s, o)
<1>7. \A i, j \in DOMAIN Events[t] :
         (j < i /\ o \in EventOutputs(t, i) /\ o \in EventOutputs(t, j) /\ i \in s.done) => j \in s.done
  BY <1>6 DEF PanelOfActive
<1>8. (E # {} /\ E \subseteq s.done) => asked[o] = BatchValue(t, E, o)
  BY <1>6 DEF PanelOfActive
<1>9. Executed(m, o)' = E \cup D
  BY <1>1, <1>2 DEF Executed
<1>10. asked'[o] = IF o \in BatchOutputs(t, due) THEN BatchValue(t, due, o) ELSE asked[o]
  BY DEF AskedFor
<1>11. D # {} <=> o \in BatchOutputs(t, due)
  BY DEF BatchOutputs
<1>12. \A i \in E : i \in DOMAIN Events[t] /\ o \in EventOutputs(t, i)
  BY DEF Executed
<1> HIDE DEF due, failed, t, E
<1>13. CASE D = {}
  <2>1. \A i \in DOMAIN Events[t] : o \in EventOutputs(t, i) => (i \in m.done <=> i \in s.done)
    BY <1>1, <1>3, <1>13
  <2>2. E \cup D = E /\ (E \subseteq m.done => E \subseteq s.done)
    BY <1>12, <1>13, <2>1
  <2>3. asked'[o] = asked[o]
    BY <1>10, <1>11, <1>13
  <2> QED
    BY <1>1, <1>7, <1>8, <1>9, <2>1, <2>2, <2>3
<1>14. CASE D # {} /\ o \in broken
  <2>1. \A i \in D : i \in failed
    BY <1>11, <1>14 DEF failed, FailedEvents
  <2>2. ~(E \cup D \subseteq m.done)
    BY <1>1, <1>14, <2>1
  <2>3. \A i \in DOMAIN Events[t] : (o \in EventOutputs(t, i) /\ i \in m.done) => i \in s.done
    BY <1>1, <2>1
  <2>4. \A j \in s.done : j \in m.done
    BY <1>1, <1>3
  <2> QED
    BY <1>1, <1>7, <1>9, <2>2, <2>3, <2>4
<1>15. CASE D # {} /\ o \notin broken
  <2>1. \A i \in due : o \in EventOutputs(t, i) => i \notin failed
    <3> SUFFICES ASSUME NEW i \in due, o \in EventOutputs(t, i), i \in failed PROVE FALSE
      OBVIOUS
    <3>1. PICK p \in EventOutputs(t, i) : p \in broken
      BY DEF failed, FailedEvents
    <3>2. p = o
      BY <1>2, <3>1 DEF OneOutputEach
    <3> QED
      BY <1>15, <3>1, <3>2
  <2>2. \A i \in DOMAIN Events[t] : o \in EventOutputs(t, i) => (i \in m.done <=> i \in s.done \cup due)
    BY <1>1, <1>3, <2>1
  <2>3. ASSUME NEW i \in DOMAIN Events[t], NEW j \in DOMAIN Events[t], j < i,
               o \in EventOutputs(t, i), o \in EventOutputs(t, j), i \in m.done
        PROVE  j \in m.done
    <3>1. CASE i \in s.done
      BY <1>7, <2>2, <2>3, <3>1
    <3>2. CASE i \in due
      <4>1. Events[t][j].day <= Events[t][i].day /\ Events[t][j].time <= Events[t][i].time
        BY <1>2, <2>3 DEF InTurnOnOutputs
      <4> QED
        BY <1>5, <2>2, <2>3, <3>2, <4>1
    <3> QED
      BY <2>2, <2>3, <3>1, <3>2
  <2>4. PICK d \in due :
          /\ o \in EventOutputs(t, d)
          /\ \A j \in due : o \in EventOutputs(t, j) => j <= d
          /\ Decider(t, due, o) = d
    BY <1>2, <1>11, <1>15, DeciderExists
  <2>5. ASSUME E \cup D \subseteq m.done PROVE BatchValue(t, E \cup D, o) = BatchValue(t, due, o)
    <3>1. d \in E \cup D
      BY <2>4
    <3>2. \A e \in E \cup D : e <= d
      <4> SUFFICES ASSUME NEW e \in E \cup D, ~(e <= d) PROVE FALSE
        OBVIOUS
      <4>1. e \in DOMAIN Events[t] /\ o \in EventOutputs(t, e) /\ e \in m.done
        BY <1>2, <1>12, <2>5
      <4>2. e \notin due
        BY <2>4, <4>1
      <4>3. e \in s.done
        BY <2>2, <4>1, <4>2
      <4>4. e \in Nat /\ d \in Nat /\ d < e
        BY <1>2, <1>4, <4>1
      <4>5. d \in s.done
        BY <1>2, <1>7, <2>4, <4>1, <4>3, <4>4
      <4> QED
        BY <1>3, <4>5
    <3>3. E \cup D \in SUBSET Nat
      BY <1>2, <1>4, <1>12
    <3>4. Decider(t, E \cup D, o) = d
      <4> DEFINE F == E \cup D
      <4>1. F \in SUBSET Nat /\ d \in F /\ \A e \in F : e <= d
        BY <3>1, <3>2, <3>3
      <4> HIDE DEF F
      <4>2. Decider(t, F, o) = d
        BY <2>4, <4>1, DeciderIs
      <4> QED
        BY <4>2 DEF F
    <3> QED
      BY <2>4, <3>4 DEF BatchValue
  <2> QED
    BY <1>1, <1>9, <1>10, <1>11, <1>15, <2>3, <2>5
<1> QED
  BY <1>13, <1>14, <1>15

\* Every step of the handler or of the user keeps what the outputs were asked for.
LEMMA PanelStep ==
  ASSUME OneTitle, OneOutputEach, InTurnOnOutputs, NoToggles,
         PanelTypeOK, SingleInv, RunInv, PanelInv, [PanelNext]_allVars
  PROVE  PanelInv'
<1>1. TypeOK
  BY DEF PanelTypeOK
<1>2. ASSUME UNCHANGED <<active, ran, level, panelVars>> PROVE PanelInv'
  <2>1. UNCHANGED <<active, ran, level, asked, held, answered>>
    BY <1>2 DEF panelVars
  <2>2. \A s : PanelOfActive(s) => PanelOfActive(s)'
    BY <2>1 DEF PanelOfActive, Executed
  <2> QED
    BY <2>1, <2>2 DEF PanelInv
<1>3. ASSUME UNCHANGED panelVars, Interface \/ PassMinute \/ (\E o \in Outputs : Break(o) \/ Repair(o))
      PROVE  PanelInv'
  <2>1. UNCHANGED <<active, ran, level>>
    BY <1>3 DEF Interface, StartEventHandler, StopEventHandler, StopReturns, AddScheduleCheck,
                AddScheduleInsert, PassMinute, Break, Repair, listVars, outputVars
  <2> QED
    BY <1>2, <1>3, <2>1
<1>4. ASSUME UNCHANGED panelVars, LeaveLoop \/ ReadClock \/ ReadClockAtMidnight \/ WakeUp
      PROVE  PanelInv'
  <2>1. UNCHANGED <<active, ran, level>>
    BY <1>4 DEF LeaveLoop, ReadClock, ReadClockAtMidnight, WakeUp, listVars, outputVars
  <2> QED
    BY <1>2, <1>4, <2>1
<1>5. ASSUME UNCHANGED panelVars, MoveSchedules PROVE PanelInv'
  <2>1. UNCHANGED <<ran, level, asked, held, answered>>
    BY <1>5 DEF MoveSchedules, outputVars, panelVars
  <2>2. ASSUME NEW k \in DOMAIN active' PROVE PanelOfActive(active[k])'
    <3>1. CASE active' = <<>>
      BY <2>2, <3>1
    <3>2. CASE \E s \in Schedule : active = <<s>> /\ active' = <<s>>
      BY <2>1, <2>2, <3>2 DEF PanelInv, PanelOfActive, Executed
    <3>3. CASE \E a \in Schedule : active' = <<a>> /\ a.done = {} /\ \A e \in ran : e[2] < a.start
      <4>1. PICK a \in Schedule : active' = <<a>> /\ a.done = {} /\ \A e \in ran : e[2] < a.start
        BY <3>3
      <4>2. a.start \in Int
        BY DEF Schedule
      <4>3. \A i : <<a.title, a.start, i>> \notin ran
        <5> SUFFICES ASSUME NEW i, <<a.title, a.start, i>> \in ran PROVE FALSE
          OBVIOUS
        <5>1. <<a.title, a.start, i>>[2] < a.start
          BY <4>1
        <5> QED
          BY <4>2, <5>1
      <4>4. k = 1 /\ active'[k] = a
        BY <2>2, <4>1
      <4>5. \A o : Executed(a, o)' = {}
        BY <2>1, <4>3 DEF Executed
      <4> QED
        BY <4>1, <4>4, <4>5 DEF PanelOfActive, Executed
    <3> QED
      BY <1>1, <1>5, <3>1, <3>2, <3>3, MoveActive
  <2> QED
    BY <2>1, <2>2 DEF PanelInv
<1>6. ASSUME ScanControls PROVE PanelInv'
  <2>1. active[1] \in Loaded /\ active = <<active[1]>> /\ cursor = 1
    BY <1>1, <1>6, ScanOnly DEF ScanControls
  <2>2. PICK s \in Loaded : s = active[1]
    BY <2>1
  <2>3. active = <<s>> /\ s \in Schedule /\ s.title \in Titles
    BY <2>1, <2>2, FilesAssumption DEF Loaded
  <2>4. PICK m : m = [s EXCEPT !.done = (@ \cup Due(s)) \ FailedEvents(s.title, Due(s))]
    OBVIOUS
  <2>5. active' = <<m>> /\ ran' = ran \cup {<<s.title, s.start, i>> : i \in Due(s)}
    BY <1>1, <1>6, <2>2, <2>4, ScanResult DEF ScanControls
  <2>6. /\ asked' = AskedFor(s.title, Due(s)) /\ held' = held
        /\ Update(BatchOutputs(s.title, Due(s)))
    BY <1>6, <2>1, <2>2 DEF ScanControls
  <2>7. PanelOfActive(m)'
    BY <1>6, <2>3, <2>4, <2>5, <2>6, ScanPanel
  <2>8. \A o \in Outputs : asked'[o] \in Levels
    <3>1. Due(s) \in SUBSET DOMAIN Events[s.title]
      BY <2>3, DueType
    <3> QED
      BY <2>3, <2>6, <3>1, PlainValue DEF AskedFor, PanelInv
  <2>9. \A o \in Outputs \ BatchOutputs(s.title, Due(s)) : asked'[o] = asked[o] /\ held'[o] = held[o]
    BY <2>6 DEF AskedFor
  <2>10. \A o \in Outputs : (answered'[o] /\ held'[o] = "none") => level'[o] = asked'[o]
    BY <2>6, <2>8, <2>9, UpdateShows
  <2>11. \A k \in DOMAIN active' : active'[k] = m
    BY <2>5
  <2>12. ASSUME NEW k \in DOMAIN active' PROVE PanelOfActive(active[k])'
    <3>1. active'[k] = m
      BY <2>11
    <3> QED
      BY <2>7, <3>1 DEF PanelOfActive, Executed
  <2> QED
    BY <2>8, <2>10, <2>12 DEF PanelInv
<1>7. ASSUME User PROVE PanelInv'
  <2>1. PICK o \in Operated : RestoreControl(o) \/ \E v \in Levels : OverrideWith(o, v)
    BY <1>7 DEF User
  <2>2. /\ UNCHANGED <<asked, active, ran>> /\ Update({o})
        /\ \A p \in Outputs \ {o} : held'[p] = held[p]
    BY <2>1 DEF RestoreControl, OverrideWith, listVars, PanelTypeOK
  <2>3. \A p \in Outputs : (answered'[p] /\ held'[p] = "none") => level'[p] = asked'[p]
    BY <2>2, UpdateShows DEF PanelInv
  <2>4. \A p \in Outputs : asked'[p] \in Levels
    BY <2>2 DEF PanelInv
  <2>5. ASSUME NEW k \in DOMAIN active' PROVE PanelOfActive(active[k])'
    BY <2>2, <2>5 DEF PanelInv, PanelOfActive, Executed
  <2> QED
    BY <2>3, <2>4, <2>5 DEF PanelInv
<1>8. ASSUME UNCHANGED allVars PROVE PanelInv'
  BY <1>2, <1>8 DEF allVars, vars, listVars, outputVars
<1> QED
  BY <1>3, <1>4, <1>5, <1>6, <1>7, <1>8 DEF PanelNext, PanelThread, ThreadAlone

\* Whatever the user and the devices do, an output that was given back shows
\* what the schedule wants of it, for any schedule whose events control one
\* output each, in the order of their times, and toggle none.
THEOREM ReleasedFollowsScheduleHolds ==
  ASSUME OneTitle, OneOutputEach, InTurnOnOutputs, NoToggles
  PROVE  PanelSpec => []ReleasedFollowsSchedule
<1>1. PanelInit => PanelInv
  BY DEF PanelInit, Init, PanelInv, Levels
<1>2. /\ PanelTypeOK /\ SingleInv /\ RunInv /\ [PanelNext]_allVars => (PanelInv => PanelInv')
  BY PanelStep
<1>3. PanelInv => ReleasedFollowsSchedule
  BY DEF PanelInv, PanelOfActive, ReleasedFollowsSchedule
<1> QED
  BY <1>1, <1>2, <1>3, PanelTypeCorrect, PanelRunHolds, PTL DEF PanelSpec

=============================================================================
