----------------------------- MODULE GuiProofs ------------------------------
(***************************************************************************)
(* What holds of the GUI: of the history behind its main view, for a ring  *)
(* buffer of any capacity, and of the panel of a gpio pin between the user *)
(* and the schedule, whatever values the events of the schedule give it.   *)
(***************************************************************************)
EXTENDS MainView, GpioOutput, SequenceTheorems, TLAPS

-----------------------------------------------------------------------------
(* The main view: the page on the screen is the last one of the history,   *)
(* and the history is a bounded history.                                   *)

\* Positions run past the end of the array at most once.
LEMMA ModWrap ==
  ASSUME NEW x \in Nat, x < 2 * Capacity
  PROVE  x % Capacity = IF x < Capacity THEN x ELSE x - Capacity
<1>1. CASE x < Capacity
  BY <1>1, CapacityAssumption
<1>2. CASE x >= Capacity
  BY <1>2, CapacityAssumption
<1> QED
  BY <1>1, <1>2, CapacityAssumption

\* A position counted from a cell.
Wrap(x) == IF x < Capacity THEN x ELSE x - Capacity

\* Where the buffer keeps the element of a position.
LEMMA CellOf ==
  ASSUME NEW b \in Buffers, NEW pos \in 0 .. Capacity
  PROVE  ElementAt(b, pos) = b.cells[Wrap(b.start + pos)]
<1>1. b.start \in Cells
  BY DEF Buffers
<1>2. b.start + pos \in Nat /\ b.start + pos < 2 * Capacity
  BY <1>1, CapacityAssumption DEF Cells
<1>3. (b.start + pos) % Capacity = Wrap(b.start + pos)
  BY <1>2, ModWrap DEF Wrap
<1> QED
  BY <1>3 DEF ElementAt

\* A buffer of which the end is where its start and its number say, with an
\* element or as it was constructed.
Consistent(b) ==
  /\ b \in Buffers
  /\ IF b.number = 0 THEN b.end = b.start ELSE b.end = Wrap(b.start + (b.number - 1))

\* What put makes of the positions of such a buffer.
LEMMA PutPositions ==
  ASSUME NEW b, Consistent(b), NEW v \in Values
  PROVE  /\ Put(b, v) \in Buffers
         /\ Put(b, v).number = IF b.number < Capacity THEN b.number + 1 ELSE Capacity
         /\ Put(b, v).start = IF b.number = Capacity /\ Capacity # 1
                              THEN Wrap(b.start + 1) ELSE b.start
         /\ Put(b, v).end = IF b.number = Capacity THEN b.start ELSE Wrap(b.start + b.number)
         /\ Put(b, v).cells = [b.cells EXCEPT ![Put(b, v).end] = v]
<1> DEFINE number == IF b.number < Capacity THEN b.number + 1 ELSE Capacity
           end == IF number # 1 THEN (b.end + 1) % Capacity ELSE b.end
           full == end = b.start /\ number # 1
           start == IF full THEN (b.start + 1) % Capacity ELSE b.start
           cells == [b.cells EXCEPT ![end] = v]
<1>1. /\ b.cells \in [Cells -> Values] /\ b.start \in 0 .. Capacity - 1
      /\ b.end \in 0 .. Capacity - 1 /\ b.number \in 0 .. Capacity
  BY DEF Consistent, Buffers, Cells
<1>2. Put(b, v) = [cells |-> cells, start |-> start, end |-> end, number |-> number]
  BY DEF Put
<1>3. (b.end + 1) % Capacity = Wrap(b.end + 1)
  BY <1>1, ModWrap, CapacityAssumption DEF Wrap
<1>4. (b.start + 1) % Capacity = Wrap(b.start + 1)
  BY <1>1, ModWrap, CapacityAssumption DEF Wrap
<1>5. end = IF b.number = Capacity THEN b.start ELSE Wrap(b.start + b.number)
  BY <1>1, <1>3, CapacityAssumption DEF Consistent, Wrap
<1>6. full <=> b.number = Capacity /\ Capacity # 1
  BY <1>1, <1>5, CapacityAssumption DEF Wrap
<1>7. start = IF b.number = Capacity /\ Capacity # 1 THEN Wrap(b.start + 1) ELSE b.start
  BY <1>4, <1>6
<1>8. end \in Cells /\ start \in Cells /\ number \in 0 .. Capacity
  <2>1. end \in 0 .. Capacity - 1
    BY <1>1, <1>5, CapacityAssumption DEF Wrap
  <2>2. start \in 0 .. Capacity - 1
    BY <1>1, <1>7, CapacityAssumption DEF Wrap
  <2>3. number \in 0 .. Capacity
    BY <1>1, CapacityAssumption
  <2> QED
    BY <2>1, <2>2, <2>3 DEF Cells
<1> HIDE DEF number, end, full, start
<1>9. cells \in [Cells -> Values]
  BY <1>1, <1>8
<1>10. Put(b, v) \in Buffers
  BY <1>2, <1>8, <1>9 DEF Buffers
<1> QED
  BY <1>2, <1>5, <1>7, <1>10 DEF number

\* put keeps a buffer consistent, and what is put is the last element.
LEMMA PutConsistent ==
  ASSUME NEW b, Consistent(b), NEW v \in Values
  PROVE  /\ Consistent(Put(b, v)) /\ Put(b, v).number > 0
         /\ LastElement(Put(b, v)) = v
<1> DEFINE p == Put(b, v)
<1>1. /\ b.cells \in [Cells -> Values] /\ b.start \in 0 .. Capacity - 1
      /\ b.end \in 0 .. Capacity - 1 /\ b.number \in 0 .. Capacity
  BY DEF Consistent, Buffers, Cells
<1>2. /\ p \in Buffers
      /\ p.number = IF b.number < Capacity THEN b.number + 1 ELSE Capacity
      /\ p.start = IF b.number = Capacity /\ Capacity # 1 THEN Wrap(b.start + 1) ELSE b.start
      /\ p.end = IF b.number = Capacity THEN b.start ELSE Wrap(b.start + b.number)
      /\ p.cells = [b.cells EXCEPT ![p.end] = v]
  BY PutPositions
<1> HIDE DEF p
<1>3. p.number \in 1 .. Capacity /\ p.end \in Cells /\ p.start \in 0 .. Capacity - 1
  BY <1>1, <1>2, CapacityAssumption DEF Buffers, Cells
<1>4. p.end = Wrap(p.start + (p.number - 1))
  BY <1>1, <1>2, CapacityAssumption DEF Wrap
<1>5. LastElement(p) = p.cells[Wrap(p.start + (p.number - 1))]
  <2>1. p.number - 1 \in 0 .. Capacity
    BY <1>3, CapacityAssumption
  <2> QED
    BY <1>2, <2>1, CellOf DEF LastElement
<1>6. p.cells[p.end] = v
  BY <1>1, <1>2, <1>3
<1> QED
  BY <1>2, <1>3, <1>4, <1>5, <1>6 DEF Consistent, p

\* A buffer with two elements or more stays consistent when one is removed.
LEMMA RemoveConsistent ==
  ASSUME NEW b, Consistent(b), b.number > 1
  PROVE  /\ Consistent(RemoveLastElement(b))
         /\ RemoveLastElement(b).number = b.number - 1
         /\ RemoveLastElement(b).start = b.start
         /\ RemoveLastElement(b).cells = b.cells
<1> DEFINE end == IF b.end > 0 THEN b.end - 1 ELSE Capacity - 1
<1>1. /\ b \in Buffers /\ b.cells \in [Cells -> Values] /\ b.start \in 0 .. Capacity - 1
      /\ b.end \in 0 .. Capacity - 1 /\ b.number \in 0 .. Capacity
  BY DEF Consistent, Buffers, Cells
<1>2. end = Wrap(b.start + (b.number - 2)) /\ end \in Cells
  <2>1. b.end = Wrap(b.start + (b.number - 1))
    BY <1>1 DEF Consistent
  <2>2. end = Wrap(b.start + (b.number - 2))
    BY <1>1, <2>1, CapacityAssumption DEF Wrap
  <2>3. end \in 0 .. Capacity - 1
    BY <1>1, CapacityAssumption
  <2> QED
    BY <2>2, <2>3 DEF Cells
<1> HIDE DEF end
<1>3. RemoveLastElement(b) = [b EXCEPT !.end = end, !.number = b.number - 1]
  BY <1>1 DEF RemoveLastElement, end
<1>4. b = [cells |-> b.cells, start |-> b.start, end |-> b.end, number |-> b.number]
  BY <1>1 DEF Buffers
<1>5. RemoveLastElement(b) =
        [cells |-> b.cells, start |-> b.start, end |-> end, number |-> b.number - 1]
  BY <1>3, <1>4
<1>6. RemoveLastElement(b) \in Buffers
  <2>1. b.number - 1 \in 0 .. Capacity
    BY <1>1, CapacityAssumption
  <2> QED
    BY <1>1, <1>2, <1>5, <2>1 DEF Buffers, Cells
<1> QED
  <2>1. b.number - 1 # 0 /\ b.number - 2 = (b.number - 1) - 1
    BY <1>1
  <2> QED
    BY <1>2, <1>5, <1>6, <2>1 DEF Consistent

-----------------------------------------------------------------------------

\* The inductive invariant: the types, a consistent history that is never
\* empty, its last element on the screen, and nothing else on it.
ViewInv ==
  /\ current \in Pages /\ visible = {current}
  /\ Consistent(visited) /\ visited.number > 0
  /\ LastElement(visited) = current

\* The view starts on the front page, with a history of one.
LEMMA ViewInvInit == Init => ViewInv
<1> SUFFICES ASSUME Init PROVE ViewInv
  OBVIOUS
<1> PICK junk \in [Cells -> Pages] : visited = Put(Constructed(<<>>, junk), "front")
  BY DEF Init
<1> DEFINE b == Constructed(<<>>, junk)
<1>1. "front" \in Values
  BY PagesAssumption DEF Pages
<1>2. b = [cells |-> [c \in Cells |-> junk[c]], start |-> 0, end |-> 0, number |-> 0]
  <2>1. Len(<<>>) = 0
    OBVIOUS
  <2>2. [c \in Cells |-> IF c < Len(<<>>) THEN <<>>[c + 1] ELSE junk[c]] = [c \in Cells |-> junk[c]]
    BY <2>1, CapacityAssumption DEF Cells
  <2> QED
    BY <2>1, <2>2 DEF Constructed
<1>3. b \in Buffers
  BY <1>2, CapacityAssumption, PagesAssumption DEF Buffers, Cells
<1>4. Consistent(b)
  BY <1>2, <1>3 DEF Consistent
<1> QED
  BY <1>1, <1>4, PutConsistent DEF Init, ViewInv, Pages

\* Switching to a page from a consistent history.
LEMMA SwitchPageInv ==
  ASSUME ViewInv, NEW page \in Pages, NEW v, Consistent(v), v.number > 0, SwitchPage(page, v)
  PROVE  ViewInv'
<1>1. CASE LastElement(v) = page
  BY <1>1 DEF SwitchPage, ViewInv
<1>2. CASE LastElement(v) # page
  <2>1. visited' = Put(v, page)
    BY <1>2 DEF SwitchPage
  <2>2. Consistent(visited') /\ visited'.number > 0 /\ LastElement(visited') = page
    BY <2>1, PutConsistent, PagesAssumption
  <2> QED
    BY <2>2 DEF SwitchPage, ViewInv
<1> QED
  BY <1>1, <1>2

\* Every button keeps the invariant.
LEMMA ViewInvStep == ViewInv /\ [Next]_vars => ViewInv'
<1> SUFFICES ASSUME ViewInv, [Next]_vars PROVE ViewInv'
  OBVIOUS
<1>0. Consistent(visited) /\ visited.number > 0 /\ visited.number \in Nat
  BY DEF ViewInv, Consistent, Buffers
<1>1. ASSUME NEW i \in DOMAIN ButtonPage, FrontButton(i) PROVE ViewInv'
  BY <1>0, <1>1, SwitchPageInv DEF FrontButton, ButtonPage, Pages
<1>2. CASE Home
  BY <1>0, <1>2, SwitchPageInv DEF Home, Pages
<1>3. CASE Config
  BY <1>0, <1>3, SwitchPageInv DEF Config, Pages
<1>4. CASE Back
  <2> DEFINE shorter == RemoveLastElement(visited)
  <2>1. Consistent(shorter) /\ shorter.number = visited.number - 1 /\ visited.number > 1
    BY <1>0, <1>4, RemoveConsistent DEF Back
  <2>2. LastElement(shorter) \in Pages
    <3>1. shorter \in Buffers /\ shorter.number \in 1 .. Capacity
      BY <2>1, <1>0 DEF Consistent, Buffers
    <3>2. shorter.start \in 0 .. Capacity - 1 /\ shorter.cells \in [Cells -> Values]
      BY <3>1 DEF Buffers, Cells
    <3> HIDE DEF shorter
    <3>3. shorter.number - 1 \in 0 .. Capacity
      BY <3>1, CapacityAssumption
    <3>4. LastElement(shorter) = shorter.cells[Wrap(shorter.start + (shorter.number - 1))]
      BY <3>1, <3>3, CellOf DEF LastElement
    <3>5. Wrap(shorter.start + (shorter.number - 1)) \in Cells
      BY <3>1, <3>2, CapacityAssumption DEF Wrap, Cells
    <3> QED
      BY <3>2, <3>4, <3>5, PagesAssumption
  <2>3. SwitchPage(LastElement(shorter), shorter)
    BY <1>4 DEF Back
  <2> HIDE DEF shorter
  <2> QED
    BY <1>0, <2>1, <2>2, <2>3, SwitchPageInv
<1>5. CASE UNCHANGED vars
  <2>1. current' = current /\ visited' = visited /\ visible' = visible
    BY <1>5 DEF vars
  <2> QED
    BY <2>1 DEF ViewInv
<1> QED
  BY <1>1, <1>2, <1>3, <1>4, <1>5 DEF Next

\* The invariant holds in every reachable state.
LEMMA ViewInvHolds == Spec => []ViewInv
BY ViewInvInit, ViewInvStep, PTL DEF Spec

\* The variables keep to their types.
THEOREM TypeCorrect == Spec => []TypeOK
<1>1. ViewInv => TypeOK
  BY DEF ViewInv, TypeOK, Consistent
<1> QED
  BY <1>1, ViewInvHolds, PTL

\* The screen shows one page, the one the history ends with.
THEOREM ShownIsRememberedHolds == Spec => []ShownIsRemembered
<1>1. ViewInv => ShownIsRemembered
  BY DEF ViewInv, ShownIsRemembered
<1> QED
  BY <1>1, ViewInvHolds, PTL

-----------------------------------------------------------------------------

\* The contents of a buffer are a sequence of its elements.
LEMMA ContentsType ==
  ASSUME NEW b \in Buffers
  PROVE  /\ Contents(b) \in Seq(Values) /\ Len(Contents(b)) = b.number
         /\ \A i \in 1 .. b.number : Contents(b)[i] = b.cells[Wrap(b.start + (i - 1))]
<1>1. /\ b.cells \in [Cells -> Values] /\ b.start \in 0 .. Capacity - 1
      /\ b.number \in 0 .. Capacity
  BY DEF Buffers, Cells
<1>2. \A i \in 1 .. b.number : ElementAt(b, i - 1) = b.cells[Wrap(b.start + (i - 1))]
  <2> SUFFICES ASSUME NEW i \in 1 .. b.number
               PROVE  ElementAt(b, i - 1) = b.cells[Wrap(b.start + (i - 1))]
    OBVIOUS
  <2>1. i - 1 \in 0 .. Capacity
    BY <1>1, CapacityAssumption
  <2> QED
    BY <2>1, CellOf
<1>3. \A i \in 1 .. b.number : Wrap(b.start + (i - 1)) \in Cells
  BY <1>1, CapacityAssumption DEF Wrap, Cells
<1>4. Contents(b) \in [1 .. b.number -> Values]
  BY <1>1, <1>2, <1>3 DEF Contents
<1>5. Contents(b) \in Seq(Values)
  BY <1>1, <1>4, SeqDef
<1>6. Len(Contents(b)) = b.number
  BY <1>1, <1>4, <1>5, LenProperties
<1> QED
  BY <1>2, <1>5, <1>6 DEF Contents

\* put appends to the contents, and drops the oldest of them when the buffer
\* is full.
LEMMA PutContents ==
  ASSUME NEW b, Consistent(b), NEW v \in Values
  PROVE  Contents(Put(b, v)) = Remembered!Latest(Append(Contents(b), v))
<1> DEFINE p == Put(b, v)
           c == Contents(b)
           d == Contents(p)
           a == Append(c, v)
<1>1. /\ b \in Buffers /\ b.cells \in [Cells -> Values] /\ b.start \in 0 .. Capacity - 1
      /\ b.number \in 0 .. Capacity
  BY DEF Consistent, Buffers, Cells
<1>2. /\ p \in Buffers
      /\ p.number = IF b.number < Capacity THEN b.number + 1 ELSE Capacity
      /\ p.start = IF b.number = Capacity /\ Capacity # 1 THEN Wrap(b.start + 1) ELSE b.start
      /\ p.end = IF b.number = Capacity THEN b.start ELSE Wrap(b.start + b.number)
      /\ p.cells = [b.cells EXCEPT ![p.end] = v]
  BY PutPositions
<1> HIDE DEF p
<1>3. /\ c \in Seq(Values) /\ Len(c) = b.number
      /\ \A i \in 1 .. b.number : c[i] = b.cells[Wrap(b.start + (i - 1))]
  BY <1>1, ContentsType
<1>4. /\ d \in Seq(Values) /\ Len(d) = p.number
      /\ \A i \in 1 .. p.number : d[i] = p.cells[Wrap(p.start + (i - 1))]
  BY <1>2, ContentsType
<1> HIDE DEF c, d
<1>5. /\ a \in Seq(Values) /\ a # <<>> /\ Len(a) = b.number + 1
      /\ \A i \in 1 .. b.number : a[i] = c[i]
      /\ a[b.number + 1] = v
  BY <1>3, AppendProperties
<1> HIDE DEF a
<1>6. /\ p.end \in Cells
      /\ \A k \in Cells : p.cells[k] = IF k = p.end THEN v ELSE b.cells[k]
  BY <1>1, <1>2 DEF Buffers
<1>7. CASE b.number < Capacity
  <2>1. /\ p.number = b.number + 1 /\ p.start = b.start
        /\ p.end = Wrap(b.start + b.number)
    BY <1>1, <1>2, <1>7, CapacityAssumption
  <2>2. \A i \in 1 .. b.number : /\ Wrap(b.start + (i - 1)) \in Cells
                                /\ Wrap(b.start + (i - 1)) # Wrap(b.start + b.number)
    BY <1>1, <1>7, CapacityAssumption DEF Wrap, Cells
  <2>3. \A i \in 1 .. b.number : d[i] = a[i]
    <3> SUFFICES ASSUME NEW i \in 1 .. b.number PROVE d[i] = a[i]
      OBVIOUS
    <3>1. d[i] = p.cells[Wrap(b.start + (i - 1))]
      BY <1>1, <1>4, <2>1
    <3>2. p.cells[Wrap(b.start + (i - 1))] = b.cells[Wrap(b.start + (i - 1))]
      BY <1>6, <2>1, <2>2
    <3> QED
      BY <1>3, <1>5, <3>1, <3>2
  <2>4. d[b.number + 1] = a[b.number + 1]
    BY <1>1, <1>4, <1>5, <1>6, <2>1
  <2>5. d = a
    <3>1. Len(d) = Len(a) /\ \A i \in 1 .. Len(d) : d[i] = a[i]
      BY <1>1, <1>4, <1>5, <2>1, <2>3, <2>4
    <3> QED
      BY <1>4, <1>5, <3>1, SeqEqual
  <2>6. Remembered!Latest(a) = a
    BY <1>1, <1>5, <1>7, CapacityAssumption DEF Remembered!Latest
  <2> QED
    BY <2>5, <2>6 DEF a, c, d, p
<1>8. CASE b.number = Capacity
  <2>1. /\ p.number = Capacity /\ p.end = b.start
        /\ p.start = IF Capacity # 1 THEN Wrap(b.start + 1) ELSE b.start
    BY <1>1, <1>2, <1>8, CapacityAssumption
  <2>2. /\ Tail(a) \in Seq(Values) /\ Len(Tail(a)) = Capacity
        /\ \A i \in 1 .. Capacity : Tail(a)[i] = a[i + 1]
    BY <1>5, <1>8, HeadTailProperties, CapacityAssumption
  <2>3. \A i \in 1 .. Capacity - 1 :
          /\ Wrap(p.start + (i - 1)) = Wrap(b.start + i) /\ Wrap(b.start + i) \in Cells
          /\ Wrap(b.start + i) # b.start
    BY <1>1, <2>1, CapacityAssumption DEF Wrap, Cells
  <2>4. \A i \in 1 .. Capacity - 1 : d[i] = Tail(a)[i]
    <3> SUFFICES ASSUME NEW i \in 1 .. Capacity - 1 PROVE d[i] = Tail(a)[i]
      OBVIOUS
    <3>1. i \in 1 .. Capacity /\ i + 1 \in 1 .. b.number /\ (i + 1) - 1 = i
      BY <1>8, CapacityAssumption
    <3>2. d[i] = b.cells[Wrap(b.start + i)]
      BY <1>4, <1>6, <2>1, <2>3, <3>1
    <3>3. c[i + 1] = b.cells[Wrap(b.start + i)]
      BY <1>3, <3>1
    <3> QED
      BY <1>5, <2>2, <3>1, <3>2, <3>3
  <2>5. d[Capacity] = Tail(a)[Capacity]
    <3>1. Wrap(p.start + (Capacity - 1)) = b.start
      BY <1>1, <2>1, CapacityAssumption DEF Wrap
    <3>2. d[Capacity] = v
      BY <1>4, <1>6, <2>1, <3>1, CapacityAssumption
    <3> QED
      BY <1>5, <1>8, <2>2, <3>2, CapacityAssumption
  <2>6. d = Tail(a)
    <3>1. Len(d) = Len(Tail(a)) /\ \A i \in 1 .. Len(d) : d[i] = Tail(a)[i]
      BY <1>4, <2>1, <2>2, <2>4, <2>5, CapacityAssumption
    <3> QED
      BY <1>4, <2>2, <3>1, SeqEqual
  <2>7. Remembered!Latest(a) = Tail(a)
    BY <1>5, <1>8, CapacityAssumption DEF Remembered!Latest
  <2> QED
    BY <2>6, <2>7 DEF a, c, d, p
<1> QED
  BY <1>1, <1>7, <1>8, CapacityAssumption

\* Removing the last element shortens the contents by it.
LEMMA RemoveContents ==
  ASSUME NEW b, Consistent(b), b.number > 1
  PROVE  Contents(RemoveLastElement(b)) = SubSeq(Contents(b), 1, Len(Contents(b)) - 1)
<1> DEFINE r == RemoveLastElement(b)
           c == Contents(b)
           d == Contents(r)
<1>1. b \in Buffers /\ b.number \in 0 .. Capacity
  BY DEF Consistent, Buffers
<1>2. /\ r \in Buffers /\ r.number = b.number - 1 /\ r.start = b.start /\ r.cells = b.cells
  BY RemoveConsistent DEF Consistent
<1> HIDE DEF r
<1>3. /\ c \in Seq(Values) /\ Len(c) = b.number
      /\ \A i \in 1 .. b.number : c[i] = b.cells[Wrap(b.start + (i - 1))]
  BY <1>1, ContentsType
<1>4. /\ d \in Seq(Values) /\ Len(d) = b.number - 1
      /\ \A i \in 1 .. b.number - 1 : d[i] = b.cells[Wrap(b.start + (i - 1))]
  BY <1>2, ContentsType
<1> HIDE DEF c, d
<1> DEFINE e == SubSeq(c, 1, Len(c) - 1)
<1>5. \A i \in 1 .. Len(c) - 1 : c[i] \in Values
  BY <1>1, <1>3, ElementOfSeq
<1>6. /\ e \in Seq(Values) /\ Len(e) = b.number - 1
      /\ \A i \in 1 .. b.number - 1 : e[i] = c[i]
  BY <1>1, <1>3, <1>5, SubSeqProperties
<1> HIDE DEF e
<1>7. \A i \in 1 .. Len(d) : d[i] = e[i]
  BY <1>1, <1>3, <1>4, <1>6
<1> QED
  BY <1>4, <1>6, <1>7, SeqEqual DEF c, d, e, r

\* Every button is a step of the bounded history: it remembers a page,
\* forgets the latest, or leaves the history as it is.
LEMMA HistoryStep ==
  ASSUME ViewInv, [Next]_vars
  PROVE  [Remembered!Next]_(Contents(visited))
<1> DEFINE c == Contents(visited)
<1>1. Consistent(visited) /\ visited.number > 0 /\ visited \in Buffers
  BY DEF ViewInv, Consistent
<1>2. ASSUME NEW page \in Pages, SwitchPage(page, visited)
      PROVE  [Remembered!Next]_c
  <2>1. CASE LastElement(visited) = page
    BY <1>1, <1>2, <2>1 DEF SwitchPage
  <2>2. CASE LastElement(visited) # page
    <3>1. visited' = Put(visited, page)
      BY <1>2, <2>2 DEF SwitchPage
    <3>2. Contents(Put(visited, page)) = Remembered!Latest(Append(Contents(visited), page))
      BY <1>1, PutContents, PagesAssumption
    <3>3. c' = Contents(visited')
      OBVIOUS
    <3>4. Remembered!Remember(page)
      BY <3>1, <3>2, <3>3 DEF Remembered!Remember
    <3> QED
      BY <3>4, PagesAssumption DEF Remembered!Next
  <2> QED
    BY <2>1, <2>2
<1>3. ASSUME NEW i \in DOMAIN ButtonPage, FrontButton(i) PROVE [Remembered!Next]_c
  BY <1>2, <1>3 DEF FrontButton, ButtonPage, Pages
<1>4. CASE Home
  BY <1>2, <1>4 DEF Home, Pages
<1>5. CASE Config
  BY <1>2, <1>5 DEF Config, Pages
<1>6. CASE Back
  <2> DEFINE shorter == RemoveLastElement(visited)
  <2>1. visited.number > 1 /\ shorter.number > 0
    BY <1>1, <1>6, RemoveConsistent DEF Back, Buffers
  <2>2. visited' = shorter
    BY <1>6, <2>1 DEF Back, SwitchPage
  <2>3. Contents(shorter) = SubSeq(c, 1, Len(c) - 1)
    BY <1>1, <2>1, RemoveContents
  <2>4. c # <<>>
    BY <1>1, <2>1, ContentsType
  <2>5. Remembered!Forget
    BY <2>2, <2>3, <2>4 DEF Remembered!Forget
  <2> QED
    BY <2>5 DEF Remembered!Next
<1>7. CASE UNCHANGED vars
  BY <1>7 DEF vars
<1> QED
  BY <1>3, <1>4, <1>5, <1>6, <1>7 DEF Next

\* The first history is the front page.
LEMMA HistoryInit == Init => Remembered!Init
<1> SUFFICES ASSUME Init PROVE Remembered!Init
  OBVIOUS
<1> PICK junk \in [Cells -> Pages] : visited = Put(Constructed(<<>>, junk), "front")
  BY DEF Init
<1>1. ViewInv /\ "front" \in Values
  BY ViewInvInit, PagesAssumption DEF Pages
<1>2. visited \in Buffers /\ Consistent(visited) /\ LastElement(visited) = "front"
  BY <1>1 DEF ViewInv, Consistent, Init
<1>3. visited.number = 1
  BY CapacityAssumption DEF Put, Constructed
<1>4. /\ Contents(visited) \in Seq(Values) /\ Len(Contents(visited)) = 1
  BY <1>2, <1>3, ContentsType
<1>5. Contents(visited)[1] = "front"
  BY <1>2, <1>3 DEF Contents, LastElement
<1>6. Contents(visited) = <<"front">>
  BY <1>4, <1>5
<1> QED
  BY <1>1, <1>6 DEF Remembered!Init

\* The ring buffer of visited pages implements a bounded history.
THEOREM KeepsHistoryHolds == Spec => KeepsHistory
BY HistoryInit, HistoryStep, ViewInvHolds, PTL DEF Spec, KeepsHistory, Remembered!Spec

-----------------------------------------------------------------------------

\* A history in which no page follows itself.
Alternating(c) == \A i \in 1 .. Len(c) - 1 : c[i] # c[i + 1]

\* The last element is where the contents end.
LEMMA LastOfContents ==
  ASSUME NEW b \in Buffers, b.number > 0
  PROVE  LastElement(b) = Contents(b)[b.number]
<1>1. b.number \in 1 .. b.number
  BY DEF Buffers
<1> QED
  BY <1>1 DEF LastElement, Contents

\* Another element than the last one can be put.
LEMMA PutAlternating ==
  ASSUME NEW b, Consistent(b), b.number > 0, Alternating(Contents(b)),
         NEW v \in Values, LastElement(b) # v
  PROVE  Alternating(Contents(Put(b, v)))
<1> DEFINE c == Contents(b)
           a == Append(c, v)
<1>1. b \in Buffers /\ b.number \in Nat
  BY DEF Consistent, Buffers
<1>2. c \in Seq(Values) /\ Len(c) = b.number /\ c[b.number] # v
  BY <1>1, ContentsType, LastOfContents
<1>3. Contents(Put(b, v)) = Remembered!Latest(a)
  BY PutContents
<1>4. \A i \in 1 .. b.number - 1 : c[i] # c[i + 1]
  BY <1>2 DEF Alternating
<1> HIDE DEF c
<1>5. /\ a \in Seq(Values) /\ a # <<>> /\ Len(a) = b.number + 1
      /\ \A i \in 1 .. b.number : a[i] = c[i]
      /\ a[b.number + 1] = v
  BY <1>2, AppendProperties
<1> HIDE DEF a
<1>6. \A i \in 1 .. b.number : a[i] # a[i + 1]
  <2> SUFFICES ASSUME NEW i \in 1 .. b.number PROVE a[i] # a[i + 1]
    OBVIOUS
  <2>1. CASE i = b.number
    BY <1>1, <1>2, <1>5, <2>1
  <2>2. CASE i # b.number
    <3>1. i \in 1 .. b.number - 1 /\ i + 1 \in 1 .. b.number
      BY <1>1, <2>2
    <3> QED
      BY <1>4, <1>5, <3>1
  <2> QED
    BY <2>1, <2>2
<1>7. Alternating(a)
  BY <1>1, <1>5, <1>6 DEF Alternating
<1>8. Alternating(Tail(a))
  <2>1. /\ Len(Tail(a)) = b.number
        /\ \A i \in 1 .. b.number : Tail(a)[i] = a[i + 1]
    <3>1. /\ Len(Tail(a)) = Len(a) - 1
          /\ \A i \in 1 .. Len(Tail(a)) : Tail(a)[i] = a[i + 1]
      BY <1>5, HeadTailProperties
    <3>2. Len(Tail(a)) = b.number
      BY <1>1, <1>5, <3>1
    <3> QED
      BY <3>1, <3>2
  <2> SUFFICES ASSUME NEW i \in 1 .. b.number - 1 PROVE Tail(a)[i] # Tail(a)[i + 1]
    BY <2>1 DEF Alternating
  <2>2. i \in 1 .. b.number /\ i + 1 \in 1 .. b.number
    BY <1>1
  <2> QED
    BY <1>6, <2>1, <2>2
<1> QED
  BY <1>3, <1>7, <1>8 DEF Remembered!Latest

\* Without its last element such a history stays one.
LEMMA RemoveAlternating ==
  ASSUME NEW b, Consistent(b), b.number > 1, Alternating(Contents(b))
  PROVE  Alternating(Contents(RemoveLastElement(b)))
<1> DEFINE c == Contents(b)
           r == RemoveLastElement(b)
<1>1. b \in Buffers /\ r \in Buffers /\ b.number \in Nat /\ r.number = b.number - 1
  BY RemoveConsistent DEF Consistent, Buffers
<1>2. Len(c) = b.number /\ Len(Contents(r)) = b.number - 1
  BY <1>1, ContentsType
<1>3. \A i \in 1 .. b.number - 1 : Contents(r)[i] = c[i]
  <2>1. r.start = b.start /\ r.cells = b.cells
    BY RemoveConsistent
  <2> HIDE DEF r
  <2> SUFFICES ASSUME NEW i \in 1 .. b.number - 1 PROVE Contents(r)[i] = c[i]
    OBVIOUS
  <2>2. i \in 1 .. b.number /\ i \in 1 .. r.number
    BY <1>1
  <2> QED
    BY <1>1, <2>1, <2>2, ContentsType
<1>4. \A i \in 1 .. b.number - 1 : c[i] # c[i + 1]
  BY <1>2 DEF Alternating
<1> HIDE DEF c, r
<1> SUFFICES ASSUME NEW i \in 1 .. b.number - 2 PROVE Contents(r)[i] # Contents(r)[i + 1]
  BY <1>1, <1>2 DEF Alternating, r
<1>5. i \in 1 .. b.number - 1 /\ i + 1 \in 1 .. b.number - 1
  BY <1>1
<1> QED
  BY <1>3, <1>4, <1>5

\* Switching to a page keeps the history one in which no page follows itself.
LEMMA SwitchAlternating ==
  ASSUME NEW page \in Pages, NEW v, Consistent(v), v.number > 0,
         Alternating(Contents(v)), SwitchPage(page, v)
  PROVE  Alternating(Contents(visited))'
<1>1. CASE LastElement(v) = page
  BY <1>1 DEF SwitchPage
<1>2. CASE LastElement(v) # page
  <2>1. visited' = Put(v, page)
    BY <1>2 DEF SwitchPage
  <2> QED
    BY <1>2, <2>1, PutAlternating, PagesAssumption
<1> QED
  BY <1>1, <1>2

\* Every button does.
LEMMA AlternatingStep ==
  ASSUME ViewInv, ViewInv', Alternating(Contents(visited)), [Next]_vars
  PROVE  Alternating(Contents(visited))'
<1>0. Consistent(visited) /\ visited.number > 0
  BY DEF ViewInv
<1>1. ASSUME NEW i \in DOMAIN ButtonPage, FrontButton(i) PROVE Alternating(Contents(visited))'
  BY <1>0, <1>1, SwitchAlternating DEF FrontButton, ButtonPage, Pages
<1>2. ASSUME Home PROVE Alternating(Contents(visited))'
  BY <1>0, <1>2, SwitchAlternating DEF Home, Pages
<1>3. ASSUME Config PROVE Alternating(Contents(visited))'
  BY <1>0, <1>3, SwitchAlternating DEF Config, Pages
<1>4. ASSUME Back PROVE Alternating(Contents(visited))'
  <2> DEFINE shorter == RemoveLastElement(visited)
  <2>1. visited.number > 1 /\ visited.number \in Nat
    BY <1>0, <1>4 DEF Back, Consistent, Buffers
  <2>2. Consistent(shorter) /\ shorter.number > 0 /\ Alternating(Contents(shorter))
    BY <1>0, <2>1, RemoveConsistent, RemoveAlternating
  <2>3. SwitchPage(LastElement(shorter), shorter) /\ LastElement(shorter) \in Pages
    BY <1>4 DEF Back, SwitchPage, ViewInv
  <2> HIDE DEF shorter
  <2> QED
    BY <2>2, <2>3, SwitchAlternating
<1>5. CASE UNCHANGED vars
  BY <1>5 DEF vars
<1> QED
  BY <1>1, <1>2, <1>3, <1>4, <1>5 DEF Next

\* Back always leads to another page, whatever was pressed before and however
\* often the ring has wrapped.
THEOREM BackMovesHolds == Spec => []BackMoves
<1> DEFINE Alternates == ViewInv /\ Alternating(Contents(visited))
<1>1. Init => Alternates
  <2> SUFFICES ASSUME Init PROVE Alternating(Contents(visited))
    BY ViewInvInit
  <2>1. PICK v \in Values : Contents(visited) = <<v>>
    BY HistoryInit DEF Remembered!Init
  <2> QED
    BY <2>1 DEF Alternating
<1>2. Alternates /\ [Next]_vars => Alternates'
  BY ViewInvStep, AlternatingStep
<1>3. Alternates => BackMoves
  <2> SUFFICES ASSUME Alternates, visited.number > 1
               PROVE  LastElement(RemoveLastElement(visited)) # current
    BY DEF BackMoves
  <2> DEFINE shorter == RemoveLastElement(visited)
             n == visited.number
  <2>1. /\ Consistent(visited) /\ visited \in Buffers /\ n \in Nat
        /\ LastElement(visited) = current
    BY DEF ViewInv, Consistent, Buffers
  <2>2. shorter \in Buffers /\ shorter.number = n - 1
    BY <2>1, RemoveConsistent DEF Consistent
  <2>3. LastElement(shorter) = Contents(shorter)[n - 1]
    BY <2>1, <2>2, LastOfContents
  <2>4. current = Contents(visited)[n]
    BY <2>1, LastOfContents
  <2>5. Contents(shorter)[n - 1] = Contents(visited)[n - 1]
    <3>1. shorter.start = visited.start /\ shorter.cells = visited.cells
      BY <2>1, RemoveConsistent
    <3>2. n - 1 \in 1 .. n /\ n - 1 \in 1 .. shorter.number
      BY <2>1, <2>2
    <3> HIDE DEF shorter
    <3> QED
      BY <2>1, <2>2, <3>1, <3>2, ContentsType
  <2>6. Contents(visited)[n - 1] # Contents(visited)[n]
    <3>1. Len(Contents(visited)) = n
      BY <2>1, ContentsType
    <3>2. n - 1 \in 1 .. n - 1 /\ (n - 1) + 1 = n
      BY <2>1
    <3> QED
      BY <3>1, <3>2 DEF Alternating
  <2> QED
    BY <2>3, <2>4, <2>5, <2>6
<1> QED
  BY <1>1, <1>2, <1>3, PTL DEF Spec

-----------------------------------------------------------------------------
(* The pin and its panel.                                                  *)

\* The variables keep to their types in every reachable state.
THEOREM PinTypeCorrect == PinSpec => []PinTypeOK
<1> USE RequestsAssumption DEF PinTypeOK, SwitchValues, Levels, OtherType, Applied
<1>1. PinInit => PinTypeOK
  BY DEF PinInit
<1>2. PinTypeOK /\ [PinNext]_allVars => PinTypeOK'
  <2> SUFFICES ASSUME PinTypeOK, [PinNext]_allVars PROVE PinTypeOK'
    OBVIOUS
  <2>1. ASSUME NEW v \in Requests, ScheduleControls(v) PROVE PinTypeOK'
    <3>1. CASE v = OtherType
      BY <2>1, <3>1 DEF ScheduleControls, ControlOutput, pinVars, panelVars
    <3>2. CASE v \in SwitchValues
      BY <2>1, <3>2 DEF ScheduleControls, ControlOutput, UpdateGpio, panelVars
    <3> QED
      BY <3>1, <3>2
  <2>2. CASE ScheduleRetries
    <3>1. CASE due = OtherType
      BY <2>2, <3>1 DEF ScheduleRetries, ControlOutput, pinVars, panelVars
    <3>2. CASE due \in SwitchValues
      BY <2>2, <3>2 DEF ScheduleRetries, ControlOutput, UpdateGpio, panelVars
    <3> QED
      BY <2>2, <3>1, <3>2 DEF ScheduleRetries
  <2>3. CASE CheckBox
    BY <2>3 DEF CheckBox, CurrentState, pinVars
  <2>4. CASE TakeOver
    BY <2>4 DEF TakeOver, OverrideWith, UpdateGpio, Position
  <2>5. CASE UncheckBox
    BY <2>5 DEF UncheckBox, RestoreControl, UpdateGpio
  <2>6. CASE FlipSwitch
    BY <2>6 DEF FlipSwitch, OverrideWith, UpdateGpio
  <2>7. CASE BreakOrRepair
    BY <2>7 DEF BreakOrRepair, pinVars, panelVars
  <2>8. CASE UNCHANGED allVars
    BY <2>8 DEF allVars, pinVars, panelVars
  <2> QED
    BY <2>1, <2>2, <2>3, <2>4, <2>5, <2>6, <2>7, <2>8 DEF PinNext
<1> QED
  BY <1>1, <1>2, PTL DEF PinSpec

-----------------------------------------------------------------------------

\* The level or toggle update_gpio writes.
Wanted == IF overridden # "none" THEN overridden ELSE controlled

\* The inductive invariant behind PanelAgrees: what the callback of the check
\* box relies on while it is under way, where the switch stands, and that a
\* line that answered shows the value in force.
PanelInv ==
  /\ PinTypeOK
  /\ panel = "taking" => checked /\ overridden = "none"
  /\ panel = "idle" => (checked <=> overridden # "none")
  /\ (panel = "idle" /\ checked) => overridden \in {"toggle", switch}
  /\ answered => Wanted \in {"toggle", line}

\* Every step keeps the invariant.
LEMMA PanelInvStep == PanelInv /\ PinTypeOK' /\ [PinNext]_allVars => PanelInv'
<1> SUFFICES ASSUME PanelInv, PinTypeOK', [PinNext]_allVars PROVE PanelInv'
  OBVIOUS
<1> USE DEF PanelInv, PinTypeOK, SwitchValues, Levels, OtherType, Applied, Wanted
<1>1. ASSUME NEW v \in Requests, ScheduleControls(v) PROVE PanelInv'
  BY <1>1 DEF ScheduleControls, ControlOutput, UpdateGpio, pinVars, panelVars
<1>2. CASE ScheduleRetries
  BY <1>2 DEF ScheduleRetries, ControlOutput, UpdateGpio, pinVars, panelVars
<1>3. CASE CheckBox
  BY <1>3 DEF CheckBox, CurrentState, pinVars
<1>4. CASE TakeOver
  BY <1>4 DEF TakeOver, OverrideWith, UpdateGpio, Position
<1>5. CASE UncheckBox
  BY <1>5 DEF UncheckBox, RestoreControl, UpdateGpio
<1>6. CASE FlipSwitch
  BY <1>6 DEF FlipSwitch, OverrideWith, UpdateGpio
<1>7. CASE BreakOrRepair
  BY <1>7 DEF BreakOrRepair, pinVars, panelVars
<1>8. CASE UNCHANGED allVars
  BY <1>8 DEF allVars, pinVars, panelVars
<1> QED
  BY <1>1, <1>2, <1>3, <1>4, <1>5, <1>6, <1>7, <1>8 DEF PinNext

\* The check box, the switch and the line agree outside the callback, with
\* toggles in the schedule or without.
THEOREM PanelAgreesHolds == PinSpec => []PanelAgrees
<1>1. PinInit /\ PinTypeOK => PanelInv
  BY DEF PinInit, PanelInv, Wanted, PinTypeOK, Levels
<1>2. PanelInv => PanelAgrees
  BY DEF PanelInv, PanelAgrees, Wanted, PinTypeOK, Levels
<1> QED
  BY <1>1, <1>2, PanelInvStep, PinTypeCorrect, PTL DEF PinSpec

-----------------------------------------------------------------------------

\* A step of the pin or its panel is a step of the abstract output, or leaves
\* it as it is.
LEMMA PromiseStep ==
  ASSUME PinTypeOK, PinTypeOK', [PinNext]_allVars
  PROVE  [Promised!Next]_<<controlled, overridden, line>>
<1> USE RequestsAssumption
    DEF PinTypeOK, SwitchValues, Levels, OtherType, Applied, Promised!Next, Promised!SwitchValues,
        Promised!Levels, Promised!Applied, Promised!Ask, Promised!Hold, Promised!Release,
        Promised!Follow, Promised!InForce
<1>1. ASSUME NEW v \in Requests, ScheduleControls(v)
      PROVE  [Promised!Next]_<<controlled, overridden, line>>
  BY <1>1 DEF ScheduleControls, ControlOutput, UpdateGpio, pinVars, panelVars
<1>2. CASE ScheduleRetries
  BY <1>2 DEF ScheduleRetries, ControlOutput, UpdateGpio, pinVars, panelVars
<1>3. CASE CheckBox
  BY <1>3 DEF CheckBox, pinVars
<1>4. CASE TakeOver
  BY <1>4 DEF TakeOver, OverrideWith, UpdateGpio
<1>5. CASE UncheckBox
  BY <1>5 DEF UncheckBox, RestoreControl, UpdateGpio
<1>6. CASE FlipSwitch
  BY <1>6 DEF FlipSwitch, OverrideWith, UpdateGpio
<1>7. CASE BreakOrRepair
  BY <1>7 DEF BreakOrRepair, pinVars, panelVars
<1>8. CASE UNCHANGED allVars
  BY <1>8 DEF allVars, pinVars
<1> QED
  BY <1>1, <1>2, <1>3, <1>4, <1>5, <1>6, <1>7, <1>8 DEF PinNext

\* A pin implements the overridable output, whatever the schedule gives it.
THEOREM KeepsPromiseHolds == PinSpec => KeepsPromise
<1>1. PinInit /\ PinTypeOK => Promised!Init
  BY DEF PinInit, Promised!Init, PinTypeOK, Levels, Promised!Levels
<1>2. PinTypeOK /\ PinTypeOK' /\ [PinNext]_allVars => [Promised!Next]_<<controlled, overridden, line>>
  BY PromiseStep
<1> QED
  BY <1>1, <1>2, PinTypeCorrect, PTL DEF PinSpec, KeepsPromise, Promised!Spec

=============================================================================
