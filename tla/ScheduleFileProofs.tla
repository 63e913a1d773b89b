------------------------- MODULE ScheduleFileProofs -------------------------
(***************************************************************************)
(* What holds of any schedule file that is loaded, and of the schedule in  *)
(* the hands of the handler: the lines of its outputs, the values of its   *)
(* actions, the order of its events, and dates that fit the events.        *)
(*                                                                         *)
(* The setters of a schedule take the maximum of a set, std::sort leaves   *)
(* one of several orders and deserialize a value or nothing: the first     *)
(* four parts say what they return.                                        *)
(***************************************************************************)
EXTENDS ScheduleFile, WellFoundedInduction, SequenceTheorems, TLAPS

-----------------------------------------------------------------------------
(* The greatest number of a set.                                           *)

\* Max picks the element that no other exceeds.
LEMMA MaxIs ==
  ASSUME NEW S \in SUBSET Int, NEW m \in S, \A x \in S : x <= m
  PROVE  Max(S) = m
<1>1. \A x \in S : (\A y \in S : x >= y) => x = m
  <2> SUFFICES ASSUME NEW x \in S, \A y \in S : x >= y PROVE x = m
    OBVIOUS
  <2>1. x >= m /\ x <= m /\ x \in Int /\ m \in Int
    OBVIOUS
  <2> QED
    BY <2>1
<1>2. \A y \in S : m >= y
  OBVIOUS
<1> QED
  BY <1>1, <1>2 DEF Max

\* A non-empty set of numbers has a least one.
LEMMA LeastNumber ==
  ASSUME NEW S \in SUBSET Nat, S # {}
  PROVE  \E i \in S : \A j \in S : i <= j
<1> DEFINE R == OpToRel(<, Nat)
<1>1. IsWellFoundedOn(R, Nat) /\ S \subseteq Nat
  BY NatLessThanWellFounded
<1>2. \A a, b \in Nat : <<a, b>> \in R <=> a < b
  BY DEF OpToRel
<1> HIDE DEF R
<1>3. PICK i \in S : \A j \in S : ~ (<<j, i>> \in R)
  BY <1>1, WFMin
<1>4. ASSUME NEW j \in S PROVE i <= j
  <2>1. i \in Nat /\ j \in Nat /\ ~ (<<j, i>> \in R)
    BY <1>3
  <2>2. ~(j < i)
    BY <1>2, <2>1
  <2> QED
    BY <2>1, <2>2
<1> QED
  BY <1>4

\* A list of numbers, and one more, has a greatest one: else there would be a
\* least part of the list that has none.
LEMMA GreatestInList ==
  ASSUME NEW n \in Nat, NEW f, \A i \in 1 .. n : f[i] \in Int, NEW p \in Int
  PROVE  \E m \in {p} \cup {f[i] : i \in 1 .. n} : \A x \in {p} \cup {f[i] : i \in 1 .. n} : x <= m
<1> DEFINE Upto(k) == {p} \cup {f[i] : i \in 1 .. k}
           Greatest(k) == \E m \in Upto(k) : \A x \in Upto(k) : x <= m
           B == {k \in 0 .. n : ~Greatest(k)}
<1>1. Greatest(0)
  <2>1. Upto(0) = {p}
    OBVIOUS
  <2> QED
    BY <2>1
<1>2. ASSUME NEW k \in 1 .. n, Greatest(k - 1) PROVE Greatest(k)
  <2>1. \A i \in 1 .. k : i \in 1 .. k - 1 \/ i = k
    OBVIOUS
  <2>2. \A i \in 1 .. k - 1 : i \in 1 .. k /\ i \in 1 .. n
    OBVIOUS
  <2>3. k \in 1 .. k
    OBVIOUS
  <2>4. Upto(k) = Upto(k - 1) \cup {f[k]}
    BY <2>1, <2>2, <2>3
  <2>5. Upto(k - 1) \subseteq Int /\ f[k] \in Int
    BY <2>2
  <2>6. PICK m \in Upto(k - 1) : \A x \in Upto(k - 1) : x <= m
    BY <1>2
  <2> DEFINE g == IF m <= f[k] THEN f[k] ELSE m
  <2> HIDE DEF Upto
  <2>7. g \in Upto(k) /\ \A x \in Upto(k) : x <= g
    BY <2>4, <2>5, <2>6
  <2> QED
    BY <2>7
<1> HIDE DEF Greatest
<1>3. B = {}
  <2> SUFFICES ASSUME B # {} PROVE FALSE
    OBVIOUS
  <2>1. B \in SUBSET Nat
    OBVIOUS
  <2>2. PICK k \in B : \A j \in B : k <= j
    <3> HIDE DEF B
    <3> QED
      BY <2>1, LeastNumber
  <2>3. k \in 1 .. n
    BY <1>1
  <2>4. k - 1 \in 0 .. n /\ k - 1 \notin B
    BY <2>2, <2>3
  <2> QED
    BY <1>2, <2>3, <2>4
<1>4. Greatest(n)
  BY <1>3
<1> QED
  BY <1>4 DEF Greatest

-----------------------------------------------------------------------------
(* The setters.                                                            *)

\* What a number is cut down to is a number.
LEMMA AsIntType == ASSUME NEW n \in Int PROVE AsInt(n) \in Int
<1>1. PICK k \in 1 .. WordSize : WordSize = 2 * k
  BY WordSizeAssumption
<1>2. WordSize \in Nat \ {0} /\ k \in Nat /\ WordSize \div 2 = k
  BY <1>1
<1>3. (n + k) % WordSize \in Int
  BY <1>2
<1> QED
  BY <1>2, <1>3 DEF AsInt

\* The days and times of events are numbers.
LEMMA EventType == ASSUME NEW e \in FileEvents PROVE e.day \in Int /\ e.time \in Int
<1>1. PICK f \in Files : \E d \in Elements(f.events) : d.whole /\ e = Read(d)
  BY DEF FileEvents
<1>2. PICK d \in Elements(f.events) : d.whole /\ e = Read(d)
  BY <1>1
<1>3. d.day \in Int /\ d.time \in Int
  BY <1>2, FilesAssumption
<1> QED
  BY <1>2, <1>3, AsIntType DEF Read

\* So are those of a list of events.
LEMMA ListType ==
  ASSUME NEW list \in Seq(FileEvents)
  PROVE  /\ Len(list) \in Nat /\ DOMAIN list = 1 .. Len(list)
         /\ \A i \in 1 .. Len(list) : list[i] \in FileEvents
         /\ \A i \in 1 .. Len(list) : list[i].day \in Int /\ list[i].time \in Int
<1>1. Len(list) \in Nat /\ DOMAIN list = 1 .. Len(list)
  BY LenProperties
<1>2. \A i \in 1 .. Len(list) : list[i] \in FileEvents
  BY ElementOfSeq
<1> QED
  BY <1>1, <1>2, EventType

\* The days a schedule needs at least.
Run(s) == IF Given(s.start) /\ Given(s.end) THEN {s.end.v - s.start.v} ELSE {}

\* A date that is there is a number.
LEMMA DateType == ASSUME NEW d \in Dates, Given(d) PROVE d.v \in Int /\ d = Some(d.v)
BY DEF Dates, Given, Absent, Some

\* recalculate_period makes the period long enough, and changes nothing if it is.
LEMMA RecalculatedIs ==
  ASSUME NEW s \in Schedules
  PROVE  /\ Recalculated(s) \in Schedules
         /\ Recalculated(s) = [s EXCEPT !.period = Recalculated(s).period]
         /\ Recalculated(s).period >= s.period
         /\ \A i \in DOMAIN s.events : s.events[i].day + 1 <= Recalculated(s).period
         /\ (/\ \A i \in DOMAIN s.events : s.events[i].day + 1 <= s.period
             /\ \A r \in Run(s) : r <= s.period)
              => Recalculated(s) = s
<1> DEFINE n == Len(s.events)
           f == [i \in 1 .. n |-> s.events[i].day + 1]
           T == {s.period} \cup {f[i] : i \in 1 .. n}
           D == {s.period} \cup {s.events[i].day + 1 : i \in DOMAIN s.events} \cup Run(s)
<1>1. s.events \in Seq(FileEvents) /\ s.period \in Nat /\ s.start \in Dates /\ s.end \in Dates
      /\ s = [s EXCEPT !.period = s.period]
  BY DEF Schedules
<1>2. n \in Nat /\ DOMAIN s.events = 1 .. n /\ \A i \in 1 .. n : f[i] \in Int /\ f[i] = s.events[i].day + 1
  BY <1>1, ListType
<1> HIDE DEF n, f
<1>3. PICK m \in T : \A x \in T : x <= m
  <2>1. n \in Nat /\ s.period \in Int /\ \A i \in 1 .. n : f[i] \in Int
    BY <1>1, <1>2
  <2> HIDE DEF n, f
  <2> QED
    BY <2>1, GreatestInList
<1>4. D = T \cup Run(s)
  BY <1>2
<1>5. Run(s) \subseteq Int /\ \A x, y \in Run(s) : x = y
  <2>1. CASE Given(s.start) /\ Given(s.end)
    BY <1>1, <2>1, DateType DEF Run
  <2>2. CASE ~(Given(s.start) /\ Given(s.end))
    BY <2>2 DEF Run
  <2> QED
    BY <2>1, <2>2
<1>6. T \subseteq Int /\ m \in Int
  <2>1. T \subseteq Int
    BY <1>1, <1>2
  <2> HIDE DEF T
  <2> QED
    BY <1>3, <2>1
<1>7. PICK g \in D : \A x \in D : x <= g
  <2> HIDE DEF T, D
  <2>1. CASE \E r \in Run(s) : r > m
    BY <1>3, <1>4, <1>5, <1>6, <2>1
  <2>2. CASE ~ \E r \in Run(s) : r > m
    BY <1>3, <1>4, <1>5, <1>6, <2>2
  <2> QED
    BY <2>1, <2>2
<1>8. D \in SUBSET Int
  BY <1>4, <1>5, <1>6
<1>9. Max(D) = g
  <2> HIDE DEF D
  <2> QED
    BY <1>7, <1>8, MaxIs
<1>10. Recalculated(s) = [s EXCEPT !.period = g]
  BY <1>9 DEF Recalculated, Run
<1>11. g \in Int /\ g >= s.period
  BY <1>7, <1>8
<1>12. \A i \in DOMAIN s.events : s.events[i].day + 1 <= g
  BY <1>7
<1>13. ASSUME \A i \in DOMAIN s.events : s.events[i].day + 1 <= s.period, \A r \in Run(s) : r <= s.period
       PROVE  g = s.period
  BY <1>1, <1>7, <1>11, <1>13
<1> HIDE DEF D, T, f, n
<1>14. [s EXCEPT !.period = g] \in Schedules /\ [s EXCEPT !.period = g].period = g
  BY <1>1, <1>11 DEF Schedules
<1> QED
  BY <1>1, <1>10, <1>11, <1>12, <1>13, <1>14

\* The period is long enough for the events.
Enough(s) == \A i \in DOMAIN s.events : s.events[i].day + 1 <= s.period

\* A setter changes a date and makes the period long enough.
LEMMA StartAtIs ==
  ASSUME NEW s \in Schedules, NEW day \in Int
  PROVE  /\ StartAt(s, day) \in Schedules /\ Enough(StartAt(s, day))
         /\ StartAt(s, day).events = s.events
         /\ (Enough(s) /\ (Given(s.end) => s.end.v - day <= s.period))
              => StartAt(s, day) = [s EXCEPT !.start = Some(day)]
<1> DEFINE t == [s EXCEPT !.start = Some(day)]
<1>1. t \in Schedules /\ t.events = s.events /\ t.period = s.period /\ t.end = s.end /\ t.start = Some(day)
  BY DEF Schedules, Dates, Some
<1>2. StartAt(s, day) = Recalculated(t)
  BY DEF StartAt
<1>3. (Given(s.end) => s.end.v - day <= s.period) => \A r \in Run(t) : r <= t.period
  BY <1>1 DEF Run, Some
<1> HIDE DEF t
<1>4. Recalculated(t).events = t.events
  BY <1>1, RecalculatedIs DEF Schedules
<1>5. Recalculated(t) \in Schedules /\ \A i \in DOMAIN t.events : t.events[i].day + 1 <= Recalculated(t).period
  BY <1>1, RecalculatedIs
<1>6. (Enough(s) /\ (\A r \in Run(t) : r <= t.period)) => Recalculated(t) = t
  BY <1>1, RecalculatedIs DEF Enough
<1> QED
  BY <1>1, <1>2, <1>3, <1>4, <1>5, <1>6 DEF Enough, t

\* So does the setter of the end.
LEMMA EndAtIs ==
  ASSUME NEW s \in Schedules, NEW day \in Int
  PROVE  /\ EndAt(s, day) \in Schedules /\ Enough(EndAt(s, day))
         /\ EndAt(s, day).events = s.events
         /\ (Enough(s) /\ (Given(s.start) => day - s.start.v <= s.period))
              => EndAt(s, day) = [s EXCEPT !.end = Some(day)]
<1> DEFINE t == [s EXCEPT !.end = Some(day)]
<1>1. t \in Schedules /\ t.events = s.events /\ t.period = s.period /\ t.start = s.start /\ t.end = Some(day)
  BY DEF Schedules, Dates, Some
<1>2. EndAt(s, day) = Recalculated(t)
  BY DEF EndAt
<1>3. (Given(s.start) => day - s.start.v <= s.period) => \A r \in Run(t) : r <= t.period
  BY <1>1 DEF Run, Some
<1> HIDE DEF t
<1>4. Recalculated(t).events = t.events
  BY <1>1, RecalculatedIs DEF Schedules
<1>5. Recalculated(t) \in Schedules /\ \A i \in DOMAIN t.events : t.events[i].day + 1 <= Recalculated(t).period
  BY <1>1, RecalculatedIs
<1>6. (Enough(s) /\ (\A r \in Run(t) : r <= t.period)) => Recalculated(t) = t
  BY <1>1, RecalculatedIs DEF Enough
<1> QED
  BY <1>1, <1>2, <1>3, <1>4, <1>5, <1>6 DEF Enough, t

\* A run of the schedule from a given start is as long as its period, and the
\* period stays what it was.
LEMMA EndOfRun ==
  ASSUME NEW s \in Schedules, Enough(s), Given(s.start)
  PROVE  EndAt(s, s.start.v + s.period - 1) = [s EXCEPT !.end = Some(s.start.v + s.period - 1)]
<1> DEFINE day == s.start.v + s.period - 1
<1>1. s.start.v \in Int /\ s.period \in Nat
  BY DateType DEF Schedules
<1>2. day \in Int /\ day - s.start.v <= s.period
  BY <1>1
<1> HIDE DEF day
<1>3. EndAt(s, day) = [s EXCEPT !.end = Some(day)]
  BY <1>2, EndAtIs
<1> QED
  BY <1>3 DEF day

\* The dates of a new run: its start is set while the end is that of the run
\* before.
LEMMA RedatedIs ==
  ASSUME NEW s \in Schedules, Enough(s), NEW day \in Int, Given(s.end) => s.end.v < day
  PROVE  Redated(s, day) = [s EXCEPT !.start = Some(day), !.end = Some(day + s.period - 1)]
<1> DEFINE t == [s EXCEPT !.start = Some(day)]
<1>1. s.period \in Nat
  BY DEF Schedules
<1>2. Given(s.end) => s.end.v - day <= s.period
  BY <1>1, DateType DEF Schedules
<1>3. StartAt(s, day) = t /\ t \in Schedules
  BY <1>2, StartAtIs
<1>4. t.start = Some(day) /\ t.period = s.period /\ t.events = s.events /\ Given(t.start) /\ t.start.v = day
  BY DEF Schedules, Some, Given
<1> HIDE DEF t
<1>5. Enough(t)
  BY <1>4 DEF Enough
<1>6. EndAt(t, day + s.period - 1) = [t EXCEPT !.end = Some(day + s.period - 1)]
  BY <1>3, <1>4, <1>5, EndOfRun
<1> QED
  BY <1>3, <1>6 DEF Redated, t

\* The period of a schedule, set by the file.
LEMMA PeriodIs ==
  ASSUME NEW s \in Schedules, NEW period \in Int
  PROVE  Period(s, period) \in Schedules /\ Enough(Period(s, period)) /\ Period(s, period).events = s.events
<1> DEFINE r == Recalculated(s)
           m == IF period >= r.period THEN period ELSE r.period
<1>1. r \in Schedules /\ r.events = s.events /\ Enough(r)
  BY RecalculatedIs DEF Enough, Schedules
<1> HIDE DEF r
<1>2. r.period \in Nat
  BY <1>1 DEF Schedules
<1>3. {period, r.period} \in SUBSET Int /\ m \in {period, r.period} /\ \A x \in {period, r.period} : x <= m
  BY <1>2
<1>4. Max({period, r.period}) = m
  <2> HIDE DEF m
  <2> QED
    BY <1>3, MaxIs
<1>5. Period(s, period) = [r EXCEPT !.period = m]
  BY <1>4 DEF Period, r
<1>6. m \in Nat /\ m >= r.period
  BY <1>2
<1> HIDE DEF m
<1>7. [r EXCEPT !.period = m] \in Schedules /\ [r EXCEPT !.period = m].events = r.events
      /\ [r EXCEPT !.period = m].period = m
  BY <1>1, <1>6 DEF Schedules
<1>8. \A i \in DOMAIN r.events : r.events[i].day + 1 <= m
  <2>1. r.events \in Seq(FileEvents)
    BY <1>1 DEF Schedules
  <2>2. \A i \in DOMAIN r.events : r.events[i].day \in Int
    BY <2>1, ListType
  <2> QED
    BY <1>1, <1>2, <1>6, <2>2 DEF Enough
<1> QED
  BY <1>1, <1>5, <1>7, <1>8 DEF Enough

-----------------------------------------------------------------------------
(* The order of the events.                                                *)

Sorted(list) == \A i, j \in DOMAIN list : i < j => ~IsEarlier(list[j], list[i])
Members(list) == {list[i] : i \in DOMAIN list}

\* What std::sort makes of a sorted list with one more event behind it.
LEMMA InsertionIs ==
  ASSUME NEW list \in Seq(FileEvents), NEW e \in FileEvents, NEW new \in Insertions(list, e)
  PROVE  /\ new \in Seq(FileEvents) /\ Len(new) = Len(list) + 1
         /\ Sorted(list) => Sorted(new)
         /\ Members(new) = Members(list) \cup {e}
<1> DEFINE n == Len(list)
<1>1. PICK k \in 0 .. n :
        /\ \A i \in 1 .. k : ~IsEarlier(e, list[i])
        /\ \A i \in k + 1 .. n : ~IsEarlier(list[i], e)
        /\ new = SubSeq(list, 1, k) \o <<e>> \o SubSeq(list, k + 1, n)
  BY DEF Insertions
<1>2. n \in Nat /\ DOMAIN list = 1 .. n /\ \A i \in 1 .. n : list[i] \in FileEvents
  BY ListType
<1> HIDE DEF n
<1> DEFINE front == SubSeq(list, 1, k)
           back == SubSeq(list, k + 1, n)
           head == front \o <<e>>
<1>3. k \in Nat /\ k + 1 \in Int /\ n - k \in Nat /\ k <= n
  BY <1>2
<1>4. front \in Seq(FileEvents) /\ Len(front) = k /\ \A i \in 1 .. k : front[i] = list[i]
  <2>1. \A i \in 1 .. k : list[i] \in FileEvents
    BY <1>2
  <2> QED
    BY <1>3, <2>1, SubSeqProperties
<1>5. back \in Seq(FileEvents) /\ Len(back) = n - k /\ \A i \in 1 .. n - k : back[i] = list[k + i]
  <2>1. \A i \in k + 1 .. n : list[i] \in FileEvents
    BY <1>2, <1>3
  <2>2. /\ back \in Seq(FileEvents)
        /\ Len(back) = IF k + 1 <= n THEN n - (k + 1) + 1 ELSE 0
        /\ \A i \in 1 .. n - (k + 1) + 1 : back[i] = list[k + 1 + i - 1]
    BY <1>2, <1>3, <2>1, SubSeqProperties
  <2>3. n - (k + 1) + 1 = n - k /\ \A i \in 1 .. n - k : k + 1 + i - 1 = k + i
    BY <1>2, <1>3
  <2> HIDE DEF back
  <2> QED
    BY <1>2, <1>3, <2>2, <2>3
<1> HIDE DEF front, back
<1>6. <<e>> \in Seq(FileEvents) /\ Len(<<e>>) = 1 /\ <<e>>[1] = e
  OBVIOUS
<1>7. /\ head \in Seq(FileEvents) /\ Len(head) = k + 1
      /\ \A i \in 1 .. k + 1 : head[i] = IF i <= k THEN list[i] ELSE e
  <2>0. front \in Seq(FileEvents) /\ <<e>> \in Seq(FileEvents) /\ Len(front) + Len(<<e>>) = k + 1
    BY <1>4, <1>6
  <2>1. /\ head \in Seq(FileEvents) /\ Len(head) = k + 1
        /\ \A i \in 1 .. k + 1 : head[i] = IF i <= k THEN front[i] ELSE <<e>>[i - k]
    BY <1>4, <2>0, ConcatProperties
  <2> SUFFICES ASSUME NEW i \in 1 .. k + 1
               PROVE  head[i] = IF i <= k THEN list[i] ELSE e
    BY <2>1
  <2>2. head[i] = IF i <= k THEN front[i] ELSE <<e>>[i - k]
    BY <2>1
  <2> HIDE DEF head
  <2>3. CASE i <= k
    <3>1. i \in 1 .. k
      BY <1>3, <2>3
    <3> QED
      BY <1>4, <2>2, <2>3, <3>1
  <2>4. CASE ~(i <= k)
    <3>1. i - k = 1
      BY <1>3, <2>4
    <3> QED
      BY <1>6, <2>2, <2>4, <3>1
  <2> QED
    BY <2>3, <2>4
<1> HIDE DEF head
<1>8. /\ new \in Seq(FileEvents) /\ Len(new) = n + 1
      /\ \A i \in 1 .. n + 1 : new[i] = IF i <= k + 1 THEN head[i] ELSE back[i - (k + 1)]
  <2>1. new = head \o back
    BY <1>1 DEF head, front, back
  <2>2. k + 1 + (n - k) = n + 1
    BY <1>2, <1>3
  <2>3. head \in Seq(FileEvents) /\ back \in Seq(FileEvents)
    BY <1>5, <1>7
  <2>4. /\ head \o back \in Seq(FileEvents) /\ Len(head \o back) = Len(head) + Len(back)
        /\ \A i \in 1 .. Len(head) + Len(back) :
             (head \o back)[i] = IF i <= Len(head) THEN head[i] ELSE back[i - Len(head)]
    BY <2>3, ConcatProperties
  <2>5. Len(head) = k + 1 /\ Len(head) + Len(back) = n + 1
    BY <1>5, <1>7, <2>2
  <2> QED
    BY <2>1, <2>4, <2>5
<1>9. \A i \in 1 .. n + 1 :
        new[i] = IF i <= k THEN list[i] ELSE IF i = k + 1 THEN e ELSE list[i - 1]
  <2> SUFFICES ASSUME NEW i \in 1 .. n + 1
               PROVE  new[i] = IF i <= k THEN list[i] ELSE IF i = k + 1 THEN e ELSE list[i - 1]
    OBVIOUS
  <2>1. CASE i <= k + 1
    <3>1. i \in 1 .. k + 1
      BY <1>3, <2>1
    <3> QED
      BY <1>3, <1>7, <1>8, <2>1, <3>1
  <2>2. CASE i > k + 1
    <3>1. i - (k + 1) \in 1 .. n - k /\ k + (i - (k + 1)) = i - 1
      BY <1>2, <1>3, <2>2
    <3>2. back[i - (k + 1)] = list[i - 1]
      BY <1>5, <3>1
    <3> QED
      BY <1>3, <1>8, <2>2, <3>2
  <2> QED
    BY <1>3, <2>1, <2>2
<1>10. DOMAIN new = 1 .. n + 1
  BY <1>8, LenProperties
<1>11. Members(new) = Members(list) \cup {e}
  <2>1. ASSUME NEW i \in 1 .. n + 1 PROVE new[i] \in Members(list) \cup {e}
    <3>1. i <= k => i \in 1 .. n
      BY <1>2, <1>3
    <3>2. (~(i <= k) /\ i # k + 1) => i - 1 \in 1 .. n
      BY <1>2, <1>3
    <3> QED
      BY <1>2, <1>9, <3>1, <3>2 DEF Members
  <2>2. ASSUME NEW i \in 1 .. n PROVE list[i] \in Members(new)
    <3>1. CASE i <= k
      <4>1. i \in 1 .. n + 1
        BY <1>2
      <4>2. new[i] = list[i]
        BY <1>9, <3>1, <4>1
      <4> QED
        BY <1>10, <4>1, <4>2 DEF Members
    <3>2. CASE ~(i <= k)
      <4>1. i + 1 \in 1 .. n + 1 /\ ~(i + 1 <= k) /\ i + 1 # k + 1 /\ i + 1 - 1 = i
        BY <1>2, <1>3, <3>2
      <4>2. new[i + 1] = list[i]
        BY <1>9, <4>1
      <4> QED
        BY <1>10, <4>1, <4>2 DEF Members
    <3> QED
      BY <3>1, <3>2
  <2>3. k + 1 \in 1 .. n + 1 /\ new[k + 1] = e
    <3>1. k + 1 \in 1 .. n + 1 /\ ~(k + 1 <= k)
      BY <1>2, <1>3
    <3> QED
      BY <1>9, <3>1
  <2> QED
    BY <1>2, <1>10, <2>1, <2>2, <2>3 DEF Members
<1>12. ASSUME Sorted(list) PROVE Sorted(new)
  <2> USE <1>12
  <2> SUFFICES ASSUME NEW i \in 1 .. n + 1, NEW j \in 1 .. n + 1, i < j
               PROVE  ~IsEarlier(new[j], new[i])
    BY <1>10 DEF Sorted
  <2>1. CASE j <= k
    <3>1. i <= k /\ i \in 1 .. n /\ j \in 1 .. n
      BY <1>2, <1>3, <2>1
    <3> QED
      BY <1>2, <1>9, <2>1, <3>1 DEF Sorted
  <2>2. CASE j = k + 1
    <3>1. i \in 1 .. k /\ i <= k /\ ~(j <= k)
      BY <1>3, <2>2
    <3> QED
      BY <1>1, <1>9, <2>2, <3>1
  <2>3. CASE j > k + 1 /\ i <= k
    <3>1. i \in 1 .. n /\ j - 1 \in 1 .. n /\ i < j - 1 /\ ~(j <= k) /\ j # k + 1
      BY <1>2, <1>3, <2>3
    <3>2. new[i] = list[i] /\ new[j] = list[j - 1]
      BY <1>9, <2>3, <3>1
    <3> QED
      BY <1>2, <3>1, <3>2 DEF Sorted
  <2>4. CASE j > k + 1 /\ i = k + 1
    <3>1. j - 1 \in k + 1 .. n /\ ~(j <= k) /\ j # k + 1 /\ ~(i <= k)
      BY <1>2, <1>3, <2>4
    <3>2. new[i] = e /\ new[j] = list[j - 1]
      BY <1>9, <2>4, <3>1
    <3> QED
      BY <1>1, <3>1, <3>2
  <2>5. CASE i > k + 1
    <3>1. i - 1 \in 1 .. n /\ j - 1 \in 1 .. n /\ i - 1 < j - 1 /\ ~(j <= k) /\ j # k + 1
          /\ ~(i <= k) /\ i # k + 1
      BY <1>2, <1>3, <2>5
    <3>2. new[i] = list[i - 1] /\ new[j] = list[j - 1]
      BY <1>9, <3>1
    <3> QED
      BY <1>2, <3>1, <3>2 DEF Sorted
  <2> QED
    BY <1>3, <2>1, <2>2, <2>3, <2>4, <2>5
<1> QED
  BY <1>8, <1>11, <1>12 DEF n

-----------------------------------------------------------------------------
(* The values of the file.                                                 *)

\* Min picks the element that exceeds no other.
LEMMA MinIs ==
  ASSUME NEW S \in SUBSET Int, NEW m \in S, \A x \in S : m <= x
  PROVE  Min(S) = m
<1>1. \A x \in S : (\A y \in S : x <= y) => x = m
  <2> SUFFICES ASSUME NEW x \in S, \A y \in S : x <= y PROVE x = m
    OBVIOUS
  <2>1. x >= m /\ x <= m /\ x \in Int /\ m \in Int
    OBVIOUS
  <2> QED
    BY <2>1
<1>2. \A y \in S : m <= y
  OBVIOUS
<1> QED
  BY <1>1, <1>2 DEF Min

\* The ends of a range are numbers.
LEMMA EndsType == ASSUME NEW a \in Int, NEW b \in Int PROVE Min({a, b}) \in Int /\ Max({a, b}) \in Int
<1>1. {a, b} \in SUBSET Int
  OBVIOUS
<1>2. CASE a <= b
  <2>1. a \in {a, b} /\ b \in {a, b} /\ (\A x \in {a, b} : a <= x) /\ (\A x \in {a, b} : x <= b)
    BY <1>2
  <2> QED
    BY <1>1, <2>1, MinIs, MaxIs
<1>3. CASE ~(a <= b)
  <2>1. a \in {a, b} /\ b \in {a, b} /\ (\A x \in {a, b} : b <= x) /\ (\A x \in {a, b} : x <= a)
    BY <1>3
  <2> QED
    BY <1>1, <2>1, MinIs, MaxIs
<1> QED
  BY <1>2, <1>3

\* What a number is cut down to as an unsigned one is not negative.
LEMMA AsUnsignedType == ASSUME NEW n \in Int PROVE AsUnsigned(n) \in Nat
<1>1. WordSize \in Nat \ {0}
  BY WordSizeAssumption
<1> QED
  BY <1>1 DEF AsUnsigned

\* A value of a known type is one.
LEMMA ValueType ==
  ASSUME NEW type \in Types, NEW n \in Int, NEW word \in Words \cup {""}
  PROVE  Value(type, n, word) \in OutputValues /\ Value(type, n, word).type = type
<1>1. <<>> \in Seq(Int)
  BY EmptySeq
<1> QED
  BY <1>1 DEF Value, OutputValues

\* The types and words that are named.
LEMMA Named ==
  /\ "number" \in Types /\ "number_unsigned" \in Types /\ "switch_output" \in Types
  /\ "tasmota_power_command" \in Types /\ "string" \in Types
  /\ "" \in Words \cup {""} /\ "on" \in Words \cup {""} /\ "off" \in Words \cup {""} /\ 0 \in Int
BY DEF Types, Words

\* So is the value of a string,
LEMMA TextType == Text \in OutputValues /\ Text.type = "string"
<1>1. Value("string", 0, "") \in OutputValues /\ Value("string", 0, "").type = "string"
  BY Named, ValueType, Zenon
<1> QED
  BY <1>1 DEF Text

\* and the value each named type starts with.
LEMMA InitialType == ASSUME NEW type \in DOMAIN Initial PROVE Initial[type] \in OutputValues
<1>1. /\ Value("number", 0, "") \in OutputValues /\ Value("number_unsigned", 0, "") \in OutputValues
      /\ Value("switch_output", 0, "off") \in OutputValues
      /\ Value("tasmota_power_command", 0, "off") \in OutputValues /\ Text \in OutputValues
  BY Named, ValueType, TextType, Zenon
<1>2. type \in {"int", "unsigned_int", "switch_output", "tasmota_power_command", "string"}
  BY DEF Initial
<1>3. /\ Initial["int"] = Value("number", 0, "") /\ Initial["unsigned_int"] = Value("number_unsigned", 0, "")
      /\ Initial["switch_output"] = Value("switch_output", 0, "off")
      /\ Initial["tasmota_power_command"] = Value("tasmota_power_command", 0, "off")
      /\ Initial["string"] = Text
  BY DEF Initial
<1> QED
  BY <1>1, <1>2, <1>3

\* The default of a description is a value, whatever the entry is.
LEMMA DefaultType ==
  ASSUME NEW d, IsSingle(d), NEW type \in DOMAIN Initial
  PROVE  Default(d, type) \in OutputValues
<1>1. CASE d.json = "unsigned"
  <2>1. AsUnsigned(d.n) \in Int
    BY <1>1, AsUnsignedType DEF IsSingle, IsNumber
  <2>2. Value("number_unsigned", AsUnsigned(d.n), "") \in OutputValues
    BY <2>1, ValueType DEF Types
  <2> QED
    BY <1>1, <2>2 DEF Default
<1>2. CASE d.json = "integer"
  <2>1. AsInt(d.n) \in Int
    BY <1>2, AsIntType DEF IsSingle, IsNumber
  <2>2. Value("number", AsInt(d.n), "") \in OutputValues
    BY <2>1, ValueType DEF Types
  <2> QED
    BY <1>2, <2>2 DEF Default
<1>3. CASE d.json = "string" /\ d.word \in Words
  <2>1. Value("switch_output", 0, d.word) \in OutputValues
    BY <1>3, Named, ValueType
  <2> QED
    BY <1>3, <2>1 DEF Default
<1>4. CASE d.json \notin {"unsigned", "integer"} /\ ~(d.json = "string" /\ d.word \in Words)
  BY <1>4, InitialType DEF Default
<1> QED
  BY <1>1, <1>2, <1>3, <1>4

\* A value with a range is one.
LEMMA RangedType ==
  ASSUME NEW value \in OutputValues, NEW type, NEW a, NEW b, IsSingle(a), IsSingle(b),
         IsNumber(a) = IsNumber(b)
  PROVE  Ranged(value, type, a, b) \in OutputValues
<1>1. ASSUME IsNumber(a) PROVE a.n \in Int /\ b.n \in Int
  BY <1>1 DEF IsSingle
<1>2. ASSUME NEW x \in Int, NEW y \in Int
      PROVE  /\ [value EXCEPT !.min = <<x>>, !.max = <<y>>] \in OutputValues
             /\ [value EXCEPT !.min = <<x>>] \in OutputValues
  <2>1. <<x>> \in Seq(Int) /\ <<y>> \in Seq(Int)
    OBVIOUS
  <2> QED
    BY <2>1 DEF OutputValues
<1>3. CASE type = "int" /\ IsNumber(a)
  <2>1. AsInt(a.n) \in Int /\ AsInt(b.n) \in Int
    BY <1>1, <1>3, AsIntType
  <2>2. Min({AsInt(a.n), AsInt(b.n)}) \in Int /\ Max({AsInt(a.n), AsInt(b.n)}) \in Int
    BY <2>1, EndsType
  <2> QED
    BY <1>2, <1>3, <2>2 DEF Ranged
<1>4. CASE type = "unsigned_int" /\ IsNumber(a)
  <2>1. AsUnsigned(a.n) \in Int /\ AsUnsigned(b.n) \in Int
    BY <1>1, <1>4, AsUnsignedType
  <2>2. Min({AsUnsigned(a.n), AsUnsigned(b.n)}) \in Int
    BY <2>1, EndsType
  <2> QED
    BY <1>2, <1>4, <2>2 DEF Ranged
<1>5. CASE ~(type \in {"int", "unsigned_int"} /\ IsNumber(a))
  BY <1>5 DEF Ranged
<1> QED
  BY <1>3, <1>4, <1>5

\* What is made of an object is a value, or nothing.
LEMMA DescribedType ==
  ASSUME NEW d, IsDescription(d), d.json = "object"
  PROVE  Described(d) \in Optional(OutputValues)
<1> DEFINE value == Default(d.default, d.type)
<1>1. CASE d.type \notin DOMAIN Initial \/ d.default.json \notin {"null", "unsigned", "integer", "string"}
  BY <1>1 DEF Described, Optional
<1>2. CASE ~(d.type \notin DOMAIN Initial \/ d.default.json \notin {"null", "unsigned", "integer", "string"})
  <2>1. value \in OutputValues
    BY <1>2, DefaultType DEF IsDescription
  <2> HIDE DEF value
  <2>2. CASE d.range = Null
    BY <1>2, <2>1, <2>2 DEF Described, Optional, value
  <2>3. CASE d.range # Null /\ (d.range.json # "pair" \/ IsNumber(d.range.first) # IsNumber(d.range.second))
    BY <1>2, <2>3 DEF Described, Optional
  <2>4. CASE d.range # Null /\ d.range.json = "pair" /\ IsNumber(d.range.first) = IsNumber(d.range.second)
    <3>1. IsSingle(d.range.first) /\ IsSingle(d.range.second)
      BY <2>4 DEF IsDescription
    <3>2. Ranged(value, d.type, d.range.first, d.range.second) \in OutputValues
      BY <2>1, <2>4, <3>1, RangedType
    <3>3. Described(d) = <<Ranged(value, d.type, d.range.first, d.range.second)>>
      BY <1>2, <2>4 DEF Described, value
    <3> QED
      BY <3>2, <3>3 DEF Optional
  <2> QED
    BY <2>2, <2>3, <2>4
<1> QED
  BY <1>1, <1>2

\* A single value has the type it is read with, or is kept as a string.
LEMMA SingleType ==
  ASSUME NEW d, IsSingle(d), NEW type
  PROVE  /\ Single(d, type) \in Optional(OutputValues)
         /\ Single(d, type) # <<>> => Single(d, type)[1].type \in {type, "string"}
<1> DEFINE Fits(result) == /\ result \in Optional(OutputValues)
                           /\ result # <<>> => result[1].type \in {type, "string"}
<1>1. ASSUME NEW v \in OutputValues, v.type \in {type, "string"} PROVE Fits(<<v>>)
  BY <1>1 DEF Optional
<1>2. Fits(<<>>)
  BY DEF Optional
<1>3. Fits(<<Text>>)
  BY <1>1, TextType
<1>4. ASSUME type \in Types, NEW n \in Int, NEW word \in Words \cup {""}
      PROVE  Fits(<<Value(type, n, word)>>)
  <2>1. Value(type, n, word) \in OutputValues /\ Value(type, n, word).type = type
    BY <1>4, ValueType
  <2> QED
    BY <1>1, <2>1
<1> HIDE DEF Fits
<1>5. ASSUME type \in Types, d.json = "string", NEW limit PROVE Fits(Spelt(d, type, limit))
  <2>1. CASE d.digits = <<>>
    BY <1>2, <2>1 DEF Spelt
  <2>2. CASE d.digits # <<>>
    <3>1. d.digits[1] \in Int
      BY <1>5, <2>2 DEF IsSingle
    <3>2. Fits(<<Value(type, d.digits[1], "")>>)
      BY <1>4, <1>5, <3>1
    <3> QED
      BY <1>2, <3>2 DEF Spelt
  <2> QED
    BY <2>1, <2>2
<1>6. ASSUME type \in Types, d.json = "unsigned" PROVE Fits(<<Value(type, AsUnsigned(d.n), "")>>)
  <2>1. AsUnsigned(d.n) \in Int
    BY <1>6, AsUnsignedType DEF IsSingle, IsNumber
  <2> QED
    BY <1>4, <1>6, <2>1
<1>7. ASSUME type \in Types, IsNumber(d) PROVE Fits(<<Value(type, AsInt(d.n), "")>>)
  <2>1. AsInt(d.n) \in Int
    BY <1>7, AsIntType DEF IsSingle
  <2> QED
    BY <1>4, <1>7, <2>1
<1>8. ASSUME type \in Types, d.word \in Words PROVE Fits(<<Value(type, 0, d.word)>>)
  <2>1. 0 \in Int /\ d.word \in Words \cup {""}
    BY <1>8, Named, Zenon
  <2> QED
    BY <1>4, <1>8, <2>1
<1>9. ASSUME type = "number_unsigned" PROVE Fits(Single(d, type))
  <2>1. type \in Types
    BY <1>9, Named
  <2>2. CASE d.json = "unsigned"
    BY <1>6, <1>9, <2>1, <2>2 DEF Single
  <2>3. CASE d.json = "string"
    BY <1>5, <1>9, <2>1, <2>3 DEF Single
  <2>4. CASE d.json \notin {"unsigned", "string"}
    BY <1>2, <1>9, <2>4 DEF Single
  <2> QED
    BY <2>2, <2>3, <2>4
<1>10. ASSUME type = "number" PROVE Fits(Single(d, type))
  <2>1. type \in Types
    BY <1>10, Named
  <2>2. CASE IsNumber(d)
    <3>1. Single(d, type) = <<Value(type, AsInt(d.n), "")>>
      BY <1>10, <2>2 DEF Single, IsNumber
    <3> QED
      BY <1>7, <2>1, <2>2, <3>1
  <2>3. CASE ~IsNumber(d) /\ d.json = "string"
    BY <1>5, <1>10, <2>1, <2>3 DEF Single
  <2>4. CASE ~IsNumber(d) /\ d.json # "string"
    BY <1>2, <1>10, <2>4 DEF Single
  <2> QED
    BY <2>2, <2>3, <2>4
<1>11. ASSUME type \notin {"number_unsigned", "number"} PROVE Fits(Single(d, type))
  <2>1. CASE type = "string"
    BY <1>3, <2>1 DEF Single
  <2>2. CASE type \in {"switch_output", "tasmota_power_command"} /\ d.json = "string" /\ d.word \in Words
    <3>1. type \in Types
      BY <2>2, Named
    <3> QED
      BY <1>8, <1>11, <2>2, <3>1 DEF Single
  <2>3. CASE /\ type # "string"
             /\ ~(/\ type \in {"switch_output", "tasmota_power_command"}
                  /\ d.json = "string" /\ d.word \in Words)
    BY <1>2, <1>3, <1>11, <2>3 DEF Single
  <2> QED
    BY <2>1, <2>2, <2>3
<1>12. Fits(Single(d, type))
  BY <1>9, <1>10, <1>11
<1> QED
  BY <1>12 DEF Fits

\* So does every value that is not described by an object.
LEMMA DeserializeType ==
  ASSUME NEW d, IsDescription(d), NEW type
  PROVE  /\ Deserialize(d, type) \in Optional(OutputValues)
         /\ Deserialize(d, type) # <<>> =>
              Deserialize(d, type)[1].type \in {type, "string"} \/ d.json = "object"
<1>1. CASE d = Null
  BY <1>1 DEF Deserialize, Optional
<1>2. CASE d # Null /\ d.json = "object"
  BY <1>2, DescribedType DEF Deserialize
<1>3. CASE d # Null /\ d.json # "object"
  BY <1>3, SingleType DEF Deserialize, IsDescription
<1> QED
  BY <1>1, <1>2, <1>3

-----------------------------------------------------------------------------
(* The walk through the arrays of the file.                                *)

Inside(array) == next = 1 \/ (Given(array) /\ next \in 1 .. Len(array.v))

\* next is a position of the array the stage walks through.
Walking ==
  /\ stage \in {"open", "schedule", "dates"} => next = 1
  /\ stage = "outputs" => Inside(file.outputs)
  /\ stage = "actions" => Inside(file.actions)
  /\ stage = "events" => Inside(file.events)
  /\ stage = "insert" => next \in 1 .. Len(events)

\* The element the walk is at.
LEMMA ElementAt ==
  ASSUME NEW array, Given(array), IsArray(array.v), array.v # <<>>, Inside(array)
  PROVE  Len(array.v) \in Nat /\ next \in 1 .. Len(array.v) /\ array.v[next] \in Elements(array)
<1> DEFINE S == {array.v[i] : i \in DOMAIN array.v}
<1>1. array.v \in Seq(S)
  BY DEF IsArray
<1>2. S = Elements(array)
  BY DEF Elements
<1> HIDE DEF S
<1>3. Len(array.v) \in Nat \ {0}
  BY <1>1, EmptySeq
<1>4. next \in 1 .. Len(array.v)
  BY <1>3 DEF Inside
<1>5. array.v[next] \in S
  BY <1>1, <1>4, ElementOfSeq
<1> QED
  BY <1>2, <1>3, <1>4, <1>5

\* On to the next element, or to the next stage.
LEMMA AdvanceIs ==
  ASSUME NEW array, NEW from, NEW to, Len(array) \in Nat, next \in 1 .. Len(array), Advance(array, from, to)
  PROVE  \/ next = Len(array) /\ stage' = to /\ next' = 1
         \/ next # Len(array) /\ stage' = from /\ next' = next + 1 /\ next' \in 1 .. Len(array)
BY DEF Advance

\* The arrays of the file are arrays.
LEMMA ArraysOfFile ==
  ASSUME file \in Files
  PROVE  /\ Given(file.outputs) => IsArray(file.outputs.v)
         /\ Given(file.actions) => IsArray(file.actions.v)
         /\ Given(file.events) => IsArray(file.events.v)
BY FilesAssumption

\* The output a step is about.
LEMMA OutputAt ==
  ASSUME TypeOK, Walking, NEW d \in NextOutput
  PROVE  /\ stage = "outputs" /\ Given(file.outputs)
         /\ Len(file.outputs.v) \in Nat /\ next \in 1 .. Len(file.outputs.v)
         /\ d.id \in OutputIds /\ (d.whole => IsDescription(d.value))
<1>1. stage = "outputs" /\ Given(file.outputs) /\ file.outputs.v # <<>> /\ d = file.outputs.v[next]
  BY DEF NextOutput
<1>2. IsArray(file.outputs.v) /\ Inside(file.outputs)
  BY <1>1, ArraysOfFile DEF TypeOK, Walking
<1>3. Len(file.outputs.v) \in Nat /\ next \in 1 .. Len(file.outputs.v) /\ d \in Elements(file.outputs)
  BY <1>1, <1>2, ElementAt
<1>4. d.id \in OutputIds /\ (d.whole => IsDescription(d.value))
  BY <1>3, FilesAssumption DEF TypeOK
<1> QED
  BY <1>1, <1>3, <1>4

\* The factory makes a value of an output, or nothing.
LEMMA MadeType ==
  ASSUME NEW d, d.whole => IsDescription(d.value)
  PROVE  Made(d) \in Optional(OutputValues)
<1>1. <<>> \in Optional(OutputValues) /\ \A v \in OutputValues : <<v>> \in Optional(OutputValues)
  BY DEF Optional
<1>2. Value("switch_output", 0, "on") \in OutputValues /\ Value("switch_output", 0, "off") \in OutputValues
  BY Named, ValueType, Zenon
<1>3. Initial["unsigned_int"] \in OutputValues /\ Initial["string"] \in OutputValues
  BY InitialType DEF Initial
<1>4. CASE ~d.whole
  BY <1>1, <1>4 DEF Made
<1>5. CASE d.whole /\ d.type = "gpio"
  BY <1>1, <1>2, <1>5 DEF Made
<1>6. CASE d.whole /\ d.type = "can"
  BY <1>1, <1>3, <1>6 DEF Made
<1>7. CASE d.whole /\ d.type = "mqtt"
  BY <1>1, <1>3, <1>7 DEF Made
<1>8. CASE d.whole /\ d.type = "remote_function"
  BY <1>8, DeserializeType DEF Made
<1>9. CASE d.whole /\ d.type \notin {"gpio", "can", "mqtt", "remote_function"}
  BY <1>1, <1>9 DEF Made
<1> QED
  BY <1>4, <1>5, <1>6, <1>7, <1>8, <1>9

Controls == [output : OutputIds, value : OutputValues]

\* The values an action is added with.
LEMMA AttachedIs ==
  ASSUME TypeOK, NEW d \in Elements(file.actions), Acceptable(d)
  PROVE  /\ d.id \in ActionIds
         /\ Attached(d).controls \in Seq(Controls)
         /\ Attached(d).ok => \A j \in DOMAIN Attached(d).controls :
              LET c == Attached(d).controls[j]
              IN  \/ c.value.type \in {registry[c.output][1].type, "string"}
                  \/ d.values[j].json = "object"
<1> DEFINE n == Len(d.outputs)
           bad == {i \in DOMAIN d.outputs : Results(d)[i] = <<>>}
           val(i) == IF \E j \in bad : j <= i THEN Value("number", 0, "") ELSE Results(d)[i][1]
<1>1. /\ d.id \in ActionIds /\ d.outputs \in Seq(OutputIds)
      /\ IsArray(d.values) /\ \A i \in DOMAIN d.values : IsDescription(d.values[i])
  BY FilesAssumption DEF TypeOK, Acceptable
<1>2. n \in Nat /\ DOMAIN d.outputs = 1 .. n /\ \A i \in 1 .. n : d.outputs[i] \in OutputIds
  BY <1>1, LenProperties, ElementOfSeq
<1>3. DOMAIN d.values = 1 .. n
  <2>1. DOMAIN d.values = 1 .. Len(d.values)
    BY <1>1, LenProperties DEF IsArray
  <2> QED
    BY <2>1 DEF Acceptable
<1>4. ASSUME NEW i \in 1 .. n
      PROVE  /\ Results(d)[i] \in Optional(OutputValues)
             /\ Results(d)[i] # <<>> =>
                  \/ Results(d)[i][1].type \in {registry[d.outputs[i]][1].type, "string"}
                  \/ d.values[i].json = "object"
  <2>1. Results(d)[i] = Deserialize(d.values[i], registry[d.outputs[i]][1].type)
    BY <1>2 DEF Results
  <2>2. IsDescription(d.values[i])
    BY <1>1, <1>3
  <2> QED
    BY <2>1, <2>2, DeserializeType
<1>5. /\ Attached(d).controls = [i \in 1 .. n |-> [output |-> d.outputs[i], value |-> val(i)]]
      /\ Attached(d).ok = (bad = {})
  BY <1>2 DEF Attached
<1>6. \A i \in 1 .. n : i \in bad <=> Results(d)[i] = <<>>
  BY <1>2
<1> HIDE DEF bad, n
<1>7. ASSUME NEW i \in 1 .. n PROVE val(i) \in OutputValues
  <2>1. CASE \E j \in bad : j <= i
    <3>1. Value("number", 0, "") \in OutputValues
      BY Named, ValueType, Zenon
    <3> QED
      BY <2>1, <3>1
  <2>2. CASE ~ \E j \in bad : j <= i
    <3>1. i \notin bad
      BY <1>2, <2>2
    <3>2. Results(d)[i] # <<>> /\ Results(d)[i] \in Optional(OutputValues)
      BY <1>4, <1>6, <3>1
    <3>3. Results(d)[i][1] \in OutputValues
      BY <3>2 DEF Optional
    <3> QED
      BY <2>2, <3>3
  <2> QED
    BY <2>1, <2>2
<1>8. ASSUME bad = {}, NEW i \in 1 .. n
      PROVE  \/ val(i).type \in {registry[d.outputs[i]][1].type, "string"}
             \/ d.values[i].json = "object"
  <2>1. Results(d)[i] # <<>>
    BY <1>6, <1>8
  <2>2. val(i) = Results(d)[i][1]
    BY <1>8
  <2> QED
    BY <1>4, <2>1, <2>2
<1> HIDE DEF val
<1>9. \A i \in 1 .. n : [output |-> d.outputs[i], value |-> val(i)] \in Controls
  BY <1>2, <1>7 DEF Controls
<1>10. Attached(d).controls \in Seq(Controls)
  BY <1>2, <1>5, <1>9
<1>11. DOMAIN Attached(d).controls = 1 .. n
  BY <1>5
<1>12. \A i \in 1 .. n : Attached(d).controls[i].output = d.outputs[i] /\ Attached(d).controls[i].value = val(i)
  BY <1>5
<1> QED
  BY <1>1, <1>5, <1>8, <1>10, <1>11, <1>12

-----------------------------------------------------------------------------
(* The types.                                                              *)

IInv == TypeOK /\ Walking

\* The schedule that create_from_file starts with.
LEMMA EmptyType == EmptySchedule \in Schedules
<1>1. <<>> \in Seq(FileEvents)
  BY EmptySeq
<1> QED
  BY <1>1 DEF EmptySchedule, Schedules, Dates

\* The types hold at first.
LEMMA TypeInit == Init => IInv
<1> SUFFICES ASSUME Init PROVE IInv
  OBVIOUS
<1>1. <<>> \in Seq(Actions) /\ <<>> \in Seq(FileEvents)
  BY EmptySeq
<1>2. <<>> \in Optional(OutputValues) /\ <<>> \in Optional(Lines)
  BY DEF Optional
<1> QED
  BY <1>1, <1>2, EmptyType DEF Init, IInv, TypeOK, Walking, Stages

\* What AddOutput and AddPin leave of the walk.
LEMMA RegisterIs ==
  ASSUME IInv, NEW d \in NextOutput, Register(d)
  PROVE  /\ registry' \in [OutputIds -> Optional(OutputValues)]
         /\ stage' \in Stages /\ next' \in Nat \ {0}
         /\ \/ stage' = "actions" /\ next' = 1
            \/ stage' = "outputs" /\ Given(file.outputs) /\ next' \in 1 .. Len(file.outputs.v)
<1>1. /\ Given(file.outputs) /\ Len(file.outputs.v) \in Nat /\ next \in 1 .. Len(file.outputs.v)
      /\ d.whole => IsDescription(d.value)
  BY OutputAt DEF IInv
<1>2. Made(d) \in Optional(OutputValues)
  BY <1>1, MadeType
<1>3. registry' \in [OutputIds -> Optional(OutputValues)]
  BY <1>2 DEF Register, IInv, TypeOK
<1>4. Advance(file.outputs.v, "outputs", "actions")
  BY DEF Register
<1>5. \/ stage' = "actions" /\ next' = 1
      \/ stage' = "outputs" /\ next' \in 1 .. Len(file.outputs.v)
  BY <1>1, <1>4, AdvanceIs
<1> QED
  BY <1>1, <1>3, <1>5 DEF Stages

\* Every step at an output keeps the types and the walk.
LEMMA OutputStep ==
  ASSUME IInv, NEW d \in NextOutput, AddOutput(d) \/ AddPin(d) \/ RefuseChip(d) \/ RefusePin(d)
  PROVE  IInv'
<1> USE DEF IInv, TypeOK, gpio, tables
<1>1. stage = "outputs" /\ d.id \in OutputIds
  BY OutputAt
<1>2. ASSUME stage' \in {"refused", "thrown"},
             UNCHANGED <<file, next, registry, actions, dubious, events, sched, today>>,
             pins' = pins, requested' \subseteq Lines
      PROVE  IInv'
  BY <1>2 DEF Walking, Stages
<1>3. ASSUME Register(d), UNCHANGED <<file, actions, dubious, events, sched, today>>,
             pins' \in [OutputIds -> Optional(Lines)], requested' \subseteq Lines
      PROVE  IInv'
  <2>1. /\ registry' \in [OutputIds -> Optional(OutputValues)]
        /\ stage' \in Stages /\ next' \in Nat \ {0}
        /\ \/ stage' = "actions" /\ next' = 1
           \/ stage' = "outputs" /\ Given(file.outputs) /\ next' \in 1 .. Len(file.outputs.v)
    BY <1>3, RegisterIs
  <2>2. TypeOK'
    BY <1>3, <2>1
  <2>3. Walking'
    BY <1>3, <2>1 DEF Walking, Inside
  <2> QED
    BY <2>2, <2>3
<1>4. CASE AddOutput(d)
  <2>1. CASE Stop("refused") \/ Stop("thrown")
    <3>1. UNCHANGED <<file, next, registry, gpio, actions, dubious, events, sched, today>>
      BY <1>4, <2>1 DEF AddOutput, Stop, Register, Advance
    <3> QED
      BY <1>2, <2>1, <3>1 DEF Stop
  <2>2. CASE ~(Stop("refused") \/ Stop("thrown"))
    <3>1. Register(d) /\ UNCHANGED <<file, gpio, actions, dubious, events, sched, today>>
      BY <1>4, <2>2 DEF AddOutput
    <3> QED
      BY <1>3, <3>1
  <2> QED
    BY <2>1, <2>2
<1>5. CASE AddPin(d)
  <2>1. Register(d) /\ UNCHANGED <<file, actions, dubious, events, sched, today>>
    BY <1>5 DEF AddPin
  <2>2. requested' \subseteq Lines /\ d.pin \in Lines
    BY <1>5 DEF AddPin, Request
  <2>3. <<d.pin>> \in Optional(Lines)
    BY <2>2 DEF Optional
  <2>4. pins' \in [OutputIds -> Optional(Lines)]
    BY <1>5, <2>3 DEF AddPin
  <2> QED
    BY <1>3, <2>1, <2>2, <2>4
<1>6. CASE RefuseChip(d)
  BY <1>2, <1>6 DEF RefuseChip, Stop
<1>7. CASE RefusePin(d)
  BY <1>2, <1>7 DEF RefusePin, Stop, Destruct
<1> QED
  BY <1>4, <1>5, <1>6, <1>7

\* The steps that only move on.
LEMMA MoveOnStep ==
  ASSUME IInv, UNCHANGED <<file, next, tables, events, sched>>, today' \in Nat, stage' \in Stages,
         stage' \in {"open", "outputs", "actions", "schedule", "events", "dates"} => next = 1,
         stage' = "insert" => next = 1 /\ events # <<>>
  PROVE  IInv'
<1> USE DEF IInv, TypeOK, tables, gpio
<1>1. TypeOK'
  OBVIOUS
<1>2. events # <<>> => 1 \in 1 .. Len(events)
  <2>1. events # <<>> => Len(events) \in Nat \ {0}
    BY EmptySeq
  <2> QED
    BY <2>1
<1>3. Walking'
  BY <1>2 DEF Walking, Inside
<1> QED
  BY <1>1, <1>3

\* An array without elements leaves the walk where it begins.
LEMMA EmptyArray ==
  ASSUME NEW array, Inside(array), array.v = <<>>
  PROVE  next = 1
BY DEF Inside

\* So does passing over an array without elements,
LEMMA SkipStep ==
  ASSUME IInv,
         \/ SkipEmpty(file.outputs, "outputs", "actions")
         \/ SkipEmpty(file.actions, "actions", "schedule")
         \/ SkipEmpty(file.events, "events", "dates")
  PROVE  IInv'
<1>1. UNCHANGED <<file, next, tables, events, sched, today>>
  BY DEF SkipEmpty
<1>2. \/ stage' = "refused"
      \/ stage = "outputs" /\ file.outputs.v = <<>> /\ stage' = "actions"
      \/ stage = "actions" /\ file.actions.v = <<>> /\ stage' = "schedule"
      \/ stage = "events" /\ file.events.v = <<>> /\ stage' = "dates"
  BY DEF SkipEmpty
<1>3. stage' # "refused" => next = 1
  BY <1>2, EmptyArray DEF IInv, Walking
<1>4. stage' \in Stages \ {"insert"}
  BY <1>2 DEF Stages
<1> QED
  BY <1>1, <1>2, <1>3, <1>4, MoveOnStep DEF IInv, TypeOK

\* adding an action,
LEMMA ActionStep == IInv /\ AddAction => IInv'
<1> SUFFICES ASSUME IInv, AddAction PROVE IInv'
  OBVIOUS
<1> USE DEF IInv, TypeOK, gpio
<1> DEFINE d == file.actions.v[next]
<1>1. stage = "actions" /\ Given(file.actions) /\ file.actions.v # <<>>
      /\ UNCHANGED <<file, registry, gpio, events, sched, today>>
  BY DEF AddAction
<1>2. IsArray(file.actions.v) /\ Inside(file.actions)
  BY <1>1, ArraysOfFile DEF Walking
<1>3. Len(file.actions.v) \in Nat /\ next \in 1 .. Len(file.actions.v) /\ d \in Elements(file.actions)
  BY <1>1, <1>2, ElementAt
<1>4. CASE (Stop("thrown") \/ Stop("refused")) /\ UNCHANGED <<actions, dubious>>
  BY <1>1, <1>4 DEF Stop, Walking, Stages
<1>5. ASSUME Acceptable(d), Advance(file.actions.v, "actions", "schedule"),
             actions' = Append(actions, [id |-> d.id, controls |-> Attached(d).controls]),
             dubious' = IF Attached(d).ok THEN dubious ELSE dubious \cup {d.id}
      PROVE  IInv'
  <2>1. d.id \in ActionIds /\ Attached(d).controls \in Seq(Controls)
    BY <1>3, <1>5, AttachedIs
  <2>2. [id |-> d.id, controls |-> Attached(d).controls] \in Actions
    BY <2>1 DEF Actions, Controls
  <2>3. actions' \in Seq(Actions)
    BY <1>5, <2>2, AppendProperties
  <2>4. dubious' \subseteq ActionIds
    BY <1>5, <2>1
  <2>5. \/ stage' = "schedule" /\ next' = 1
        \/ stage' = "actions" /\ next' \in 1 .. Len(file.actions.v)
    BY <1>3, <1>5, AdvanceIs
  <2>6. TypeOK'
    BY <1>1, <1>3, <2>3, <2>4, <2>5 DEF Stages
  <2>7. Walking'
    BY <1>1, <2>5 DEF Walking, Inside
  <2> QED
    BY <2>6, <2>7
<1> QED
  BY <1>4, <1>5 DEF AddAction

\* reading an event,
LEMMA EventStep == IInv /\ ReadEvent => IInv'
<1> SUFFICES ASSUME IInv, ReadEvent PROVE IInv'
  OBVIOUS
<1> USE DEF IInv, TypeOK, gpio, tables
<1> DEFINE e == file.events.v[next]
<1>1. stage = "events" /\ Given(file.events) /\ file.events.v # <<>>
      /\ UNCHANGED <<file, tables, sched, today>>
  BY DEF ReadEvent
<1>2. IsArray(file.events.v) /\ Inside(file.events)
  BY <1>1, ArraysOfFile DEF Walking
<1>3. Len(file.events.v) \in Nat /\ next \in 1 .. Len(file.events.v) /\ e \in Elements(file.events)
  BY <1>1, <1>2, ElementAt
<1>4. CASE Stop("refused") /\ UNCHANGED events
  BY <1>1, <1>4 DEF Stop, Walking, Stages
<1>5. ASSUME e.whole, events' = Append(events, Read(e)), Advance(file.events.v, "events", "dates")
      PROVE  IInv'
  <2>1. Read(e) \in FileEvents
    BY <1>3, <1>5 DEF FileEvents
  <2>2. events' \in Seq(FileEvents)
    BY <1>5, <2>1, AppendProperties
  <2>3. \/ stage' = "dates" /\ next' = 1
        \/ stage' = "events" /\ next' \in 1 .. Len(file.events.v)
    BY <1>3, <1>5, AdvanceIs
  <2>4. TypeOK'
    BY <1>1, <1>3, <2>2, <2>3 DEF Stages
  <2>5. Walking'
    BY <1>1, <2>3 DEF Walking, Inside
  <2> QED
    BY <2>4, <2>5
<1> QED
  BY <1>4, <1>5 DEF ReadEvent

\* The dates, the mode and the period of the file.
LEMMA DatesAre ==
  ASSUME IInv, ReadDates, stage' # "refused"
  PROVE  sched' \in Schedules /\ Enough(sched') /\ sched'.events = sched.events
<1> DEFINE started == IF Given(file.start) THEN StartAt(sched, file.start.v) ELSE sched
           ended == IF Given(file.end) THEN EndAt(started, file.end.v) ELSE started
           period == IF Given(file.period) THEN AsInt(file.period.v) ELSE 0
           timed == Period(ended, period)
           repeating == IF Given(file.repeating) THEN file.repeating.v ELSE TRUE
<1>1. /\ Given(file.start) => file.start.v \in Int
      /\ Given(file.end) => file.end.v \in Int
      /\ Given(file.period) => file.period.v \in Int
      /\ repeating \in BOOLEAN
  BY FilesAssumption DEF IInv, TypeOK
<1>2. started \in Schedules /\ started.events = sched.events
  BY <1>1, StartAtIs DEF IInv, TypeOK
<1> HIDE DEF started
<1>3. ended \in Schedules /\ ended.events = sched.events
  BY <1>1, <1>2, EndAtIs
<1> HIDE DEF ended
<1>4. period \in Int
  BY <1>1, AsIntType
<1> HIDE DEF period
<1>5. timed \in Schedules /\ timed.events = sched.events /\ Enough(timed)
  BY <1>3, <1>4, PeriodIs
<1>6. sched' = [timed EXCEPT !.repeating = repeating]
  BY DEF ReadDates, timed, ended, started, period
<1> HIDE DEF timed, repeating
<1>7. sched' \in Schedules /\ sched'.events = timed.events /\ sched'.period = timed.period
  BY <1>1, <1>5, <1>6 DEF Schedules
<1> QED
  BY <1>5, <1>7 DEF Enough

\* The dates keep the types and the walk.
LEMMA DatesStep == IInv /\ ReadDates => IInv'
<1> SUFFICES ASSUME IInv, ReadDates PROVE IInv'
  OBVIOUS
<1> USE DEF IInv, TypeOK, gpio, tables
<1>1. stage = "dates" /\ next = 1 /\ UNCHANGED <<file, next, tables, events, today>>
  BY DEF ReadDates, Walking
<1>2. CASE stage' = "refused"
  <2>1. sched' \in Schedules
    <3>1. CASE "wrong" \in {file.start.is, file.end.is, file.repeating.is, file.period.is}
      BY <3>1 DEF ReadDates
    <3>2. CASE "wrong" \notin {file.start.is, file.end.is, file.repeating.is, file.period.is}
      BY <1>2, <3>2 DEF ReadDates
    <3> QED
      BY <3>1, <3>2
  <2> QED
    BY <1>1, <1>2, <2>1 DEF Walking, Stages
<1>3. CASE stage' # "refused"
  <2>1. sched' \in Schedules
    BY <1>3, DatesAre
  <2>2. stage' = IF events = <<>> THEN "check" ELSE "insert"
    BY <1>3 DEF ReadDates
  <2>3. events # <<>> => Len(events) \in Nat \ {0}
    BY EmptySeq
  <2> QED
    BY <1>1, <2>1, <2>2, <2>3 DEF Walking, Stages
<1> QED
  BY <1>2, <1>3

\* One more event is in the schedule.
LEMMA InsertedIs ==
  ASSUME IInv, AddEvent, stage' # "refused"
  PROVE  \E list \in Insertions(sched.events, events[next]) :
           /\ sched' \in Schedules /\ Enough(sched') /\ sched'.events = list
           /\ events[next] \in FileEvents
<1>1. stage = "insert" /\ next \in 1 .. Len(events) /\ events \in Seq(FileEvents)
      /\ sched \in Schedules /\ sched.events \in Seq(FileEvents)
  BY DEF AddEvent, IInv, TypeOK, Walking, Schedules
<1>2. events[next] \in FileEvents
  BY <1>1, ElementOfSeq
<1>3. PICK list \in Insertions(sched.events, events[next]) :
        sched' = Recalculated([sched EXCEPT !.events = list])
  BY DEF AddEvent, Stop
<1> DEFINE t == [sched EXCEPT !.events = list]
<1>4. list \in Seq(FileEvents)
  BY <1>1, <1>2, <1>3, InsertionIs
<1>5. t \in Schedules /\ t.events = list
  BY <1>1, <1>4 DEF Schedules
<1>6. sched' = Recalculated(t)
  BY <1>3
<1> HIDE DEF t
<1>7. sched' \in Schedules /\ sched' = [t EXCEPT !.period = sched'.period]
      /\ \A i \in DOMAIN t.events : t.events[i].day + 1 <= sched'.period
  BY <1>5, <1>6, RecalculatedIs
<1>8. sched'.events = list
  BY <1>5, <1>7 DEF Schedules
<1> QED
  BY <1>2, <1>3, <1>5, <1>7, <1>8 DEF Enough

\* So does an event that is inserted,
LEMMA InsertStep == IInv /\ AddEvent => IInv'
<1> SUFFICES ASSUME IInv, AddEvent PROVE IInv'
  OBVIOUS
<1> USE DEF IInv, TypeOK, gpio, tables
<1>1. stage = "insert" /\ next \in 1 .. Len(events) /\ Len(events) \in Nat
      /\ UNCHANGED <<file, tables, events, today>>
  BY LenProperties DEF AddEvent, Walking
<1>2. CASE Stop("refused") /\ UNCHANGED sched
  BY <1>1, <1>2 DEF Stop, Walking, Stages
<1>3. ASSUME Advance(events, "insert", "check") PROVE IInv'
  <2>1. \/ stage' = "check" /\ next' = 1
        \/ stage' = "insert" /\ next' \in 1 .. Len(events)
    BY <1>1, <1>3, AdvanceIs
  <2>2. sched' \in Schedules
    BY <2>1, InsertedIs
  <2>3. TypeOK'
    BY <1>1, <2>1, <2>2 DEF Stages
  <2>4. Walking'
    BY <1>1, <2>1 DEF Walking
  <2> QED
    BY <2>3, <2>4
<1> QED
  BY <1>2, <1>3 DEF AddEvent

\* The dates of a new run keep the type of a schedule.
LEMMA RedatedType ==
  ASSUME NEW s \in Schedules, NEW day \in Int
  PROVE  Redated(s, day) \in Schedules
<1>1. StartAt(s, day) \in Schedules
  BY StartAtIs
<1>2. day + s.period - 1 \in Int
  BY DEF Schedules
<1> QED
  BY <1>1, <1>2, EndAtIs DEF Redated

\* The steps of the handler keep the types and the walk.
LEMMA HandlerStep == IInv /\ (CheckSchedule \/ AddSchedule \/ Reactivate \/ NextDay) => IInv'
<1> SUFFICES ASSUME IInv, CheckSchedule \/ AddSchedule \/ Reactivate \/ NextDay PROVE IInv'
  OBVIOUS
<1> USE DEF IInv, TypeOK, gpio, tables
<1>1. CASE CheckSchedule
  BY <1>1 DEF CheckSchedule, Walking, Stages
<1>2. ASSUME UNCHANGED <<file, next, tables, events>>, stage' = "handled", sched' \in Schedules, today' \in Nat
      PROVE  IInv'
  BY <1>2 DEF Walking, Stages
<1>3. CASE AddSchedule
  <2>1. ASSUME Given(sched.start) PROVE EndAt(sched, sched.start.v + sched.period - 1) \in Schedules
    <3>1. sched.start \in Dates /\ sched.period \in Nat
      BY DEF Schedules
    <3>2. sched.start.v + sched.period - 1 \in Int
      BY <2>1, <3>1, DateType
    <3> QED
      BY <3>2, EndAtIs
  <2>2. Redated(sched, today) \in Schedules
    BY RedatedType
  <2>3. sched' \in Schedules
    BY <1>3, <2>1, <2>2 DEF AddSchedule
  <2> QED
    BY <1>2, <1>3, <2>3 DEF AddSchedule
<1>4. CASE Reactivate
  <2>1. Redated(sched, today) \in Schedules
    BY RedatedType
  <2> QED
    BY <1>2, <1>4, <2>1 DEF Reactivate
<1>5. CASE NextDay
  BY <1>2, <1>5 DEF NextDay
<1> QED
  BY <1>1, <1>3, <1>4, <1>5

\* Every step does.
LEMMA TypeStep == IInv /\ [Next]_vars => IInv'
<1> SUFFICES ASSUME IInv, [Next]_vars PROVE IInv'
  OBVIOUS
<1>1. CASE Open
  BY <1>1, MoveOnStep DEF Open, Stages, IInv, TypeOK, Walking
<1>2. CASE ReadTitle
  BY <1>2, MoveOnStep DEF ReadTitle, Stages, IInv, TypeOK, Walking
<1>3. CASE UNCHANGED vars
  BY <1>3 DEF vars, gpio, IInv, TypeOK, Walking, Inside
<1>4. CASE Over
  BY <1>3, <1>4 DEF Over
<1> QED
  BY <1>1, <1>2, <1>3, <1>4, SkipStep, OutputStep, ActionStep, EventStep, DatesStep, InsertStep,
     HandlerStep DEF Next

\* The variables of a file that is loaded keep to their types, for any files.
THEOREM TypeCorrect == Spec => []TypeOK
<1>1. IInv => TypeOK
  BY DEF IInv
<1> QED
  BY <1>1, TypeInit, TypeStep, PTL DEF Spec

-----------------------------------------------------------------------------
(* The lines of the chip.                                                  *)

\* Every output that has a line is registered and has requested it, and no two
\* have the same.
Pinned ==
  /\ \A o \in OutputIds : pins[o] # <<>> => registry[o] # <<>> /\ pins[o][1] \in requested
  /\ \A o, p \in OutputIds : pins[o] # <<>> /\ pins[o] = pins[p] => o = p

\* Every step keeps the lines apart: a line is requested only while it is free,
\* and the destructor that releases one ends the loading.
LEMMA PinStep == IInv /\ PinsOwned /\ [Next]_vars => PinsOwned'
<1> SUFFICES ASSUME IInv, PinsOwned, [Next]_vars, stage' # "refused" PROVE Pinned'
  BY DEF PinsOwned, Pinned
<1> USE DEF gpio, tables
<1>1. ASSUME UNCHANGED <<pins, registry, requested>>, stage # "refused" PROVE Pinned'
  BY <1>1 DEF Pinned, PinsOwned
<1>2. ASSUME NEW d \in NextOutput, AddOutput(d) \/ AddPin(d) PROVE Pinned'
  <2>1. stage = "outputs" /\ d.id \in OutputIds
    BY <1>2, OutputAt DEF IInv
  <2>2. Pinned /\ registry \in [OutputIds -> Optional(OutputValues)] /\ pins \in [OutputIds -> Optional(Lines)]
    BY <2>1 DEF PinsOwned, Pinned, IInv, TypeOK
  <2>3. CASE AddOutput(d) /\ UNCHANGED registry
    BY <1>1, <2>1, <2>3 DEF AddOutput
  <2>4. CASE AddOutput(d) /\ Register(d) /\ Made(d) # <<>>
    BY <2>1, <2>2, <2>4 DEF AddOutput, Register, Pinned
  <2>5. CASE AddPin(d)
    <3>1. /\ registry' = [registry EXCEPT ![d.id] = Made(d)] /\ Made(d) # <<>>
          /\ pins' = [pins EXCEPT ![d.id] = <<d.pin>>]
          /\ d.pin \notin requested /\ requested' = requested \cup {d.pin}
      BY <2>5 DEF AddPin, IsPin, Register, Request
    <3>2. \A o \in OutputIds : registry'[o] = (IF o = d.id THEN Made(d) ELSE registry[o])
                               /\ pins'[o] = (IF o = d.id THEN <<d.pin>> ELSE pins[o])
      BY <2>2, <3>1
    <3>3. \A o \in OutputIds : pins'[o] # <<>> => registry'[o] # <<>> /\ pins'[o][1] \in requested'
      BY <2>2, <3>1, <3>2 DEF Pinned
    <3>4. \A o \in OutputIds : o # d.id /\ pins'[o] # <<>> => pins'[o][1] # d.pin
      BY <2>2, <3>1, <3>2 DEF Pinned
    <3>5. \A o, p \in OutputIds : pins'[o] # <<>> /\ pins'[o] = pins'[p] => o = p
      BY <2>2, <3>2, <3>4 DEF Pinned
    <3> QED
      BY <3>3, <3>5 DEF Pinned
  <2>6. AddOutput(d) => UNCHANGED registry \/ (Register(d) /\ Made(d) # <<>>)
    BY DEF AddOutput
  <2> QED
    BY <1>2, <2>3, <2>4, <2>5, <2>6
<1>3. ASSUME NEW d \in NextOutput, RefuseChip(d) \/ RefusePin(d) PROVE FALSE
  BY <1>3 DEF RefuseChip, RefusePin, Stop
<1>4. CASE Open \/ ReadTitle \/ ReadEvent \/ ReadDates \/ AddEvent \/ CheckSchedule
  BY <1>1, <1>4 DEF Open, ReadTitle, ReadEvent, ReadDates, AddEvent, CheckSchedule
<1>5. CASE AddAction \/ AddSchedule \/ Reactivate \/ NextDay
  BY <1>1, <1>5 DEF AddAction, AddSchedule, Reactivate, NextDay
<1>6. CASE \/ SkipEmpty(file.outputs, "outputs", "actions")
           \/ SkipEmpty(file.actions, "actions", "schedule")
           \/ SkipEmpty(file.events, "events", "dates")
  BY <1>1, <1>6 DEF SkipEmpty
<1>7. CASE Over \/ UNCHANGED vars
  BY <1>1, <1>7 DEF Over, vars
<1> QED
  BY <1>2, <1>3, <1>4, <1>5, <1>6, <1>7 DEF Next

\* Each GPIO output of a file that is taken has a line of its own, for any
\* files, outputs and chip.
THEOREM PinsOwnedHolds == Spec => []PinsOwned
<1>1. Init => PinsOwned
  BY DEF Init, PinsOwned
<1> QED
  BY <1>1, TypeInit, TypeStep, PinStep, PTL DEF Spec

-----------------------------------------------------------------------------
(* The values of the actions.                                              *)

\* Each element of the array has become one action.
ActionsAt ==
  /\ stage \in {"open", "outputs"} => actions = <<>>
  /\ stage = "actions" => Len(actions) = next - 1

FitInv == ActionsAt /\ ActionsFit

\* The values of one action, which was made of the i-th element, fit.
Fits(i) ==
  actions[i].id \notin dubious =>
    \A j \in DOMAIN actions[i].controls :
      LET c == actions[i].controls[j]
      IN  \/ c.value.type \in {registry[c.output][1].type, "string"}
          \/ file.actions.v[i].values[j].json = "object"

\* Every step keeps what the actions have: outputs are not replaced once the
\* actions are read.
LEMMA FitStep == IInv /\ FitInv /\ [Next]_vars => FitInv'
<1> SUFFICES ASSUME IInv, FitInv, [Next]_vars PROVE FitInv'
  OBVIOUS
<1> USE DEF gpio, tables
<1>1. ActionsFit <=> \A i \in DOMAIN actions : Fits(i)
  BY DEF ActionsFit, Fits
<1>2. ActionsFit' <=> \A i \in DOMAIN actions' : Fits(i)'
  BY DEF ActionsFit, Fits
<1>3. ASSUME UNCHANGED <<file, registry, actions, dubious>>,
             stage' \in {"open", "outputs"} => stage \in {"open", "outputs"},
             stage' = "actions" => Len(actions) = next' - 1
      PROVE  FitInv'
  BY <1>1, <1>2, <1>3 DEF FitInv, ActionsAt, Fits
<1>4. ASSUME actions = <<>>, actions' = actions, stage' = "actions" => next' = 1
      PROVE  FitInv'
  <2>1. Len(actions') = 0 /\ DOMAIN actions' = {}
    BY <1>4
  <2> QED
    BY <1>2, <1>4, <2>1 DEF FitInv, ActionsAt
<1>5. ASSUME NEW d \in NextOutput, AddOutput(d) \/ AddPin(d) \/ RefuseChip(d) \/ RefusePin(d)
      PROVE  FitInv'
  <2>1. stage = "outputs"
    BY OutputAt DEF IInv
  <2>2. actions = <<>> /\ actions' = actions
    BY <1>5, <2>1 DEF AddOutput, AddPin, RefuseChip, RefusePin, FitInv, ActionsAt
  <2>3. stage' = "actions" => next' = 1
    BY <1>5 DEF AddOutput, AddPin, RefuseChip, RefusePin, Register, Advance, Stop
  <2> QED
    BY <1>4, <2>2, <2>3
<1>6. CASE AddAction
  <2> DEFINE d == file.actions.v[next]
             a == [id |-> d.id, controls |-> Attached(d).controls]
  <2>1. /\ stage = "actions" /\ Given(file.actions) /\ file.actions.v # <<>>
        /\ UNCHANGED <<file, registry>>
    BY <1>6 DEF AddAction
  <2>2. CASE (Stop("thrown") \/ Stop("refused")) /\ UNCHANGED <<actions, dubious>>
    BY <1>3, <2>1, <2>2 DEF Stop
  <2>3. ASSUME Acceptable(d), Advance(file.actions.v, "actions", "schedule"), actions' = Append(actions, a),
               dubious' = IF Attached(d).ok THEN dubious ELSE dubious \cup {d.id}
        PROVE  FitInv'
    <3>1. IsArray(file.actions.v) /\ Inside(file.actions)
      BY <2>1, ArraysOfFile DEF IInv, TypeOK, Walking
    <3>2. Len(file.actions.v) \in Nat /\ next \in 1 .. Len(file.actions.v) /\ d \in Elements(file.actions)
      BY <2>1, <3>1, ElementAt
    <3>3. Len(actions) = next - 1 /\ actions \in Seq(Actions)
      BY <2>1 DEF FitInv, ActionsAt, IInv, TypeOK
    <3>4. /\ Attached(d).controls \in Seq(Controls) /\ d.id \in ActionIds
          /\ Attached(d).ok => \A j \in DOMAIN Attached(d).controls :
               LET c == Attached(d).controls[j]
               IN  \/ c.value.type \in {registry[c.output][1].type, "string"}
                   \/ d.values[j].json = "object"
      BY <2>3, <3>2, AttachedIs DEF IInv
    <3>5. a \in Actions /\ a.id = d.id /\ a.controls = Attached(d).controls
      BY <3>4 DEF Actions, Controls
    <3> HIDE DEF a
    <3>6. /\ DOMAIN actions = 1 .. next - 1 /\ DOMAIN actions' = 1 .. next /\ Len(actions') = next
          /\ \A i \in 1 .. next - 1 : actions'[i] = actions[i]
          /\ actions'[next] = a
      <4>1. Len(actions) \in Nat /\ DOMAIN actions = 1 .. Len(actions)
        BY <3>3, LenProperties
      <4>2. /\ Append(actions, a) \in Seq(Actions) /\ Len(Append(actions, a)) = Len(actions) + 1
            /\ \A i \in 1 .. Len(actions) : Append(actions, a)[i] = actions[i]
            /\ Append(actions, a)[Len(actions) + 1] = a
        BY <3>3, <3>5, AppendProperties
      <4>3. DOMAIN actions' = 1 .. Len(actions) + 1
        BY <2>3, <4>2, LenProperties
      <4> QED
        BY <2>3, <3>2, <3>3, <4>1, <4>2, <4>3
    <3>7. ASSUME NEW i \in 1 .. next - 1 PROVE Fits(i)'
      <4>1. Fits(i)
        BY <1>1, <3>6 DEF FitInv
      <4>2. actions'[i] = actions[i] /\ dubious \subseteq dubious'
        BY <2>3, <3>6
      <4> QED
        BY <2>1, <4>1, <4>2 DEF Fits
    <3>8. ASSUME NEW k \in 1 .. next, k = next PROVE Fits(k)'
      <4>1. actions'[k] = a
        BY <3>6, <3>8
      <4>2. CASE Attached(d).ok
        BY <2>1, <3>4, <3>5, <3>8, <4>1, <4>2 DEF Fits
      <4>3. CASE ~Attached(d).ok
        BY <2>3, <3>5, <4>1, <4>3 DEF Fits
      <4> QED
        BY <4>2, <4>3
    <3>9. \A i \in 1 .. next : i \in 1 .. next - 1 \/ i = next
      BY <3>2
    <3>10. \A i \in 1 .. next : Fits(i)'
      BY <3>7, <3>8, <3>9
    <3>11. ActionsFit'
      BY <1>2, <3>6, <3>10
    <3>12. \/ stage' = "schedule" /\ next' = 1
           \/ stage' = "actions" /\ next' = next + 1
      BY <2>3, <3>2, AdvanceIs
    <3>13. ActionsAt'
      BY <3>2, <3>6, <3>12 DEF ActionsAt
    <3> QED
      BY <3>11, <3>13 DEF FitInv
  <2> QED
    BY <1>6, <2>2, <2>3 DEF AddAction
<1>7. CASE Open
  <2>1. next = 1 /\ stage = "open"
    BY <1>7 DEF Open, IInv, Walking
  <2> QED
    BY <1>3, <1>7, <2>1 DEF Open
<1>8. CASE \/ SkipEmpty(file.outputs, "outputs", "actions")
           \/ SkipEmpty(file.actions, "actions", "schedule")
           \/ SkipEmpty(file.events, "events", "dates")
  <2>1. CASE SkipEmpty(file.outputs, "outputs", "actions")
    <3>1. actions = <<>> /\ actions' = actions /\ next' = next
      BY <2>1 DEF SkipEmpty, FitInv, ActionsAt
    <3>2. stage' = "actions" => next = 1
      BY <2>1, EmptyArray DEF SkipEmpty, IInv, Walking
    <3> QED
      BY <1>4, <3>1, <3>2
  <2>2. CASE SkipEmpty(file.actions, "actions", "schedule") \/ SkipEmpty(file.events, "events", "dates")
    BY <1>3, <2>2 DEF SkipEmpty
  <2> QED
    BY <1>8, <2>1, <2>2
<1>9. CASE ReadTitle \/ ReadDates \/ CheckSchedule \/ AddSchedule \/ Reactivate \/ NextDay
  BY <1>3, <1>9 DEF ReadTitle, ReadDates, CheckSchedule, AddSchedule, Reactivate, NextDay
<1>10. CASE ReadEvent \/ AddEvent
  BY <1>3, <1>10 DEF ReadEvent, AddEvent, Stop, Advance
<1>11. CASE Over \/ UNCHANGED vars
  BY <1>3, <1>11 DEF Over, vars, FitInv, ActionsAt
<1> QED
  BY <1>5, <1>6, <1>7, <1>8, <1>9, <1>10, <1>11 DEF Next

\* The values of the actions fit the outputs they are for, for any files.
THEOREM ActionsFitHolds == Spec => []ActionsFit
<1>1. Init => FitInv
  BY DEF Init, FitInv, ActionsAt, ActionsFit
<1>2. FitInv => ActionsFit
  BY DEF FitInv
<1> QED
  BY <1>1, <1>2, TypeInit, TypeStep, FitStep, PTL DEF Spec

-----------------------------------------------------------------------------
(* The events and the dates.                                               *)

\* Every event is due before the run ends.
Fitting(s) ==
  /\ Given(s.start) /\ Given(s.end)
  /\ \A i \in DOMAIN s.events : s.start.v + s.events[i].day <= s.end.v

Before == {"open", "outputs", "actions", "schedule", "events", "dates"}

\* Which events are in the schedule, and how its period and dates fit them.
EventsAt ==
  /\ stage \in Before => sched.events = <<>>
  /\ stage = "insert" =>
       Len(sched.events) = next - 1 /\ Members(sched.events) = {events[i] : i \in 1 .. next - 1}
  /\ stage \in {"check", "loaded", "handled"} =>
       Len(sched.events) = Len(events) /\ Members(sched.events) = Members(events)
  /\ Sorted(sched.events) /\ Enough(sched)
  /\ stage = "loaded" => Verdict(sched) = "valid"
  /\ stage = "handled" => Fitting(sched)

\* The list without events.
LEMMA EmptyList == Sorted(<<>>) /\ Members(<<>>) = {} /\ Len(<<>>) = 0
BY DEF Sorted, Members

\* operator bool takes no schedule whose run is too short for its events.
LEMMA ValidFits ==
  ASSUME NEW s \in Schedules, Enough(s), Verdict(s) = "valid", Given(s.end)
  PROVE  Fitting(s)
<1>1. ~Missing(s.end)
  BY DEF Missing, Given
<1>2. Given(s.start)
  <2>1. ~Missing(s.start)
    BY <1>1 DEF Verdict
  <2> QED
    BY <2>1 DEF Missing, Given, Schedules, Dates, Absent
<1>3. s.end.v - s.start.v + 1 >= s.period
  BY <1>1, <1>2 DEF Verdict, Missing, Given
<1>4. s.start.v \in Int /\ s.end.v \in Int /\ s.period \in Nat /\ s.events \in Seq(FileEvents)
  BY <1>2, DateType DEF Schedules
<1>5. \A i \in DOMAIN s.events : s.events[i].day \in Int
  BY <1>4, ListType
<1> QED
  BY <1>2, <1>3, <1>4, <1>5 DEF Fitting, Enough

\* A run that is as long as the period is long enough for the events.
LEMMA RunFits ==
  ASSUME NEW s \in Schedules, Enough(s), NEW t \in Schedules, NEW day \in Int,
         t.start = Some(day), t.end = Some(day + s.period - 1), t.events = s.events
  PROVE  Fitting(t)
<1>1. s.period \in Nat /\ s.events \in Seq(FileEvents)
  BY DEF Schedules
<1>2. \A i \in DOMAIN s.events : s.events[i].day \in Int
  BY <1>1, ListType
<1>3. Given(t.start) /\ Given(t.end) /\ t.start.v = day /\ t.end.v = day + s.period - 1
  BY DEF Given, Some
<1> QED
  BY <1>1, <1>2, <1>3 DEF Fitting, Enough

\* What the handler does to the dates leaves the period and the events alone,
\* and makes the run long enough.
LEMMA HandlerIs ==
  ASSUME IInv, EventsAt, AddSchedule \/ Reactivate
  PROVE  sched'.period = sched.period /\ sched'.events = sched.events /\ Fitting(sched')
<1> DEFINE new == [sched EXCEPT !.start = Some(today), !.end = Some(today + sched.period - 1)]
<1>1. sched \in Schedules /\ Enough(sched) /\ sched.period \in Nat /\ today \in Int /\ sched.start \in Dates
      /\ sched' \in Schedules
  <2>1. IInv'
    BY HandlerStep
  <2> QED
    BY <2>1 DEF IInv, TypeOK, EventsAt, Schedules
<1>2. ASSUME sched' = Redated(sched, today), Given(sched.end) => sched.end.v < today
      PROVE  sched'.period = sched.period /\ sched'.events = sched.events /\ Fitting(sched')
  <2>1. sched' = new
    BY <1>1, <1>2, RedatedIs
  <2>2. new.start = Some(today) /\ new.end = Some(today + sched.period - 1) /\ new.events = sched.events
        /\ new.period = sched.period
    BY <1>1 DEF Schedules
  <2> HIDE DEF new
  <2> QED
    BY <1>1, <2>1, <2>2, RunFits
<1>3. CASE AddSchedule /\ Given(sched.end)
  <2>1. sched' = sched /\ Verdict(sched) = "valid"
    BY <1>3 DEF AddSchedule, EventsAt
  <2>2. Fitting(sched)
    BY <1>1, <1>3, <2>1, ValidFits, Zenon
  <2> QED
    BY <2>1, <2>2, Zenon
<1>4. CASE AddSchedule /\ ~Given(sched.end) /\ Given(sched.start)
  <2> DEFINE day == sched.start.v + sched.period - 1
             ended == [sched EXCEPT !.end = Some(day)]
  <2>1. sched' = EndAt(sched, day)
    BY <1>4 DEF AddSchedule
  <2>2. sched' = ended
    BY <1>1, <1>4, <2>1, EndOfRun
  <2>3. sched.start.v \in Int /\ sched.start = Some(sched.start.v)
    BY <1>1, <1>4, DateType
  <2>4. ended.start = Some(sched.start.v) /\ ended.end = Some(day) /\ ended.events = sched.events
        /\ ended.period = sched.period
    BY <1>1, <2>3 DEF Schedules
  <2> HIDE DEF ended
  <2> QED
    BY <1>1, <2>2, <2>3, <2>4, RunFits
<1>5. CASE AddSchedule /\ ~Given(sched.end) /\ ~Given(sched.start)
  <2>1. sched' = Redated(sched, today)
    BY <1>5 DEF AddSchedule
  <2> QED
    BY <1>2, <1>5, <2>1
<1>6. CASE Reactivate
  BY <1>2, <1>6 DEF Reactivate
<1> QED
  BY <1>3, <1>4, <1>5, <1>6

\* Every step keeps the events and the dates as they should be.
LEMMA EventsStep == IInv /\ EventsAt /\ [Next]_vars => EventsAt'
<1> SUFFICES ASSUME IInv, EventsAt, [Next]_vars PROVE EventsAt'
  OBVIOUS
<1> USE DEF gpio, tables
<1>1. ASSUME UNCHANGED sched, stage' \in Before => stage \in Before,
             stage' \notin {"insert", "check", "loaded", "handled"}
      PROVE  EventsAt'
  BY <1>1 DEF EventsAt, Before
<1>2. ASSUME NEW d \in NextOutput, AddOutput(d) \/ AddPin(d) \/ RefuseChip(d) \/ RefusePin(d)
      PROVE  EventsAt'
  <2>1. stage = "outputs" /\ UNCHANGED sched
    BY <1>2, OutputAt DEF AddOutput, AddPin, RefuseChip, RefusePin, IInv
  <2>2. stage' \in {"outputs", "actions", "refused", "thrown"}
    BY <1>2 DEF AddOutput, AddPin, RefuseChip, RefusePin, Register, Advance, Stop
  <2> QED
    BY <1>1, <2>1, <2>2 DEF Before
<1>3. CASE AddAction
  <2>1. stage = "actions" /\ UNCHANGED sched /\ stage' \in {"actions", "schedule", "refused", "thrown"}
    BY <1>3 DEF AddAction, Advance, Stop
  <2> QED
    BY <1>1, <2>1 DEF Before
<1>4. CASE ReadEvent
  <2>1. stage = "events" /\ UNCHANGED sched /\ stage' \in {"events", "dates", "refused"}
    BY <1>4 DEF ReadEvent, Advance, Stop
  <2> QED
    BY <1>1, <2>1 DEF Before
<1>5. CASE Open \/ ReadTitle
  BY <1>1, <1>5 DEF Open, ReadTitle, Before
<1>6. CASE \/ SkipEmpty(file.outputs, "outputs", "actions")
           \/ SkipEmpty(file.actions, "actions", "schedule")
           \/ SkipEmpty(file.events, "events", "dates")
  BY <1>1, <1>6 DEF SkipEmpty, Before
<1>7. CASE ReadDates
  <2>1. stage = "dates" /\ next = 1 /\ sched.events = <<>> /\ UNCHANGED <<next, events>>
    BY <1>7 DEF ReadDates, IInv, Walking, EventsAt, Before
  <2>2. CASE "wrong" \in {file.start.is, file.end.is, file.repeating.is, file.period.is}
    BY <1>1, <1>7, <2>1, <2>2 DEF ReadDates, Before
  <2>3. CASE "wrong" \notin {file.start.is, file.end.is, file.repeating.is, file.period.is}
    <3>1. stage' = IF events = <<>> THEN "check" ELSE "insert"
      BY <1>7, <2>3 DEF ReadDates
    <3>2. sched'.events = <<>> /\ Enough(sched')
      BY <1>7, <2>1, <3>1, DatesAre
    <3>3. {events[i] : i \in 1 .. 0} = {}
      OBVIOUS
    <3>4. CASE events = <<>>
      BY <2>1, <3>1, <3>2, <3>4, EmptyList DEF EventsAt, Before
    <3>5. CASE events # <<>>
      <4>1. Len(sched'.events) = next' - 1 /\ Members(sched'.events) = {events'[i] : i \in 1 .. next' - 1}
        BY <2>1, <3>2, <3>3, EmptyList
      <4>2. Sorted(sched'.events)
        BY <3>2, EmptyList
      <4> QED
        BY <3>1, <3>2, <3>5, <4>1, <4>2 DEF EventsAt, Before
    <3> QED
      BY <3>4, <3>5
  <2> QED
    BY <2>2, <2>3
<1>8. CASE AddEvent
  <2>1. /\ stage = "insert" /\ next \in 1 .. Len(events) /\ Len(events) \in Nat /\ DOMAIN events = 1 .. Len(events)
        /\ UNCHANGED events /\ sched.events \in Seq(FileEvents)
    BY <1>8, LenProperties DEF AddEvent, IInv, TypeOK, Walking, Schedules
  <2>2. Len(sched.events) = next - 1 /\ Members(sched.events) = {events[i] : i \in 1 .. next - 1}
        /\ Sorted(sched.events)
    BY <2>1 DEF EventsAt
  <2>3. CASE Stop("refused") /\ UNCHANGED sched
    BY <1>1, <2>1, <2>3 DEF Stop, Before
  <2>4. ASSUME Advance(events, "insert", "check") PROVE EventsAt'
    <3>1. \/ next = Len(events) /\ stage' = "check" /\ next' = 1
          \/ next # Len(events) /\ stage' = "insert" /\ next' = next + 1
      BY <2>1, <2>4, AdvanceIs
    <3>2. PICK list \in Insertions(sched.events, events[next]) :
            sched' \in Schedules /\ Enough(sched') /\ sched'.events = list /\ events[next] \in FileEvents
      BY <1>8, <3>1, InsertedIs
    <3>3. /\ Len(list) = Len(sched.events) + 1 /\ Sorted(list)
          /\ Members(list) = Members(sched.events) \cup {events[next]}
      BY <2>1, <2>2, <3>2, InsertionIs
    <3>4. \A i \in 1 .. next : i \in 1 .. next - 1 \/ i = next
      BY <2>1
    <3>5. next \in 1 .. next /\ \A i \in 1 .. next - 1 : i \in 1 .. next
      BY <2>1
    <3>6. Members(list) = {events[i] : i \in 1 .. next}
      BY <2>2, <3>3, <3>4, <3>5
    <3>7. Len(list) = next
      BY <2>1, <2>2, <3>3
    <3>8. CASE stage' = "check"
      <4>1. Members(list) = Members(events)
        BY <2>1, <3>1, <3>6, <3>8 DEF Members
      <4> QED
        BY <2>1, <3>1, <3>2, <3>3, <3>7, <3>8, <4>1 DEF EventsAt, Before
    <3>9. CASE stage' = "insert"
      <4>1. next' = next + 1
        BY <3>1, <3>9, Zenon
      <4>2. next' - 1 = next
        BY <2>1, <4>1
      <4>3. Members(list) = {events'[i] : i \in 1 .. next' - 1}
        BY <2>1, <3>6, <4>2
      <4> QED
        BY <3>2, <3>3, <3>7, <3>9, <4>2, <4>3 DEF EventsAt, Before
    <3> QED
      BY <3>1, <3>8, <3>9
  <2> QED
    BY <1>8, <2>3, <2>4 DEF AddEvent
<1>9. CASE CheckSchedule
  BY <1>9 DEF CheckSchedule, EventsAt, Before
<1>10. CASE AddSchedule \/ Reactivate
  <2>1. sched'.period = sched.period /\ sched'.events = sched.events /\ Fitting(sched')
    BY <1>10, HandlerIs
  <2>2. stage \in {"loaded", "handled"} /\ stage' = "handled" /\ UNCHANGED events
    BY <1>10 DEF AddSchedule, Reactivate
  <2>3. Enough(sched')
    BY <2>1 DEF Enough, EventsAt
  <2> QED
    BY <2>1, <2>2, <2>3 DEF EventsAt, Before
<1>11. CASE NextDay
  BY <1>11 DEF NextDay, EventsAt, Before
<1>12. CASE Over \/ UNCHANGED vars
  BY <1>12 DEF Over, vars, EventsAt, Before
<1> QED
  BY <1>2, <1>3, <1>4, <1>5, <1>6, <1>7, <1>8, <1>9, <1>10, <1>11, <1>12 DEF Next

\* The invariant holds in every state.
THEOREM Invariance == Spec => [](IInv /\ EventsAt)
<1>1. Init => EventsAt
  BY EmptyList DEF Init, EmptySchedule, EventsAt, Before, Enough
<1> QED
  BY <1>1, TypeInit, TypeStep, EventsStep, PTL DEF Spec

\* The schedule has the events of the file, each once, in the order of their
\* days and times, for any files and whatever std::sort does with equal ones.
THEOREM EventsInOrderHolds == Spec => []EventsInOrder
<1>1. EventsAt => EventsInOrder
  BY DEF EventsAt, EventsInOrder, Sorted, Members
<1> QED
  BY <1>1, Invariance, PTL

\* Every event of a schedule the handler took is due before the run ends, for
\* any dates, periods and events, and any number of new runs.
THEOREM EventsFitRunHolds == Spec => []EventsFitRun
<1>1. EventsAt => EventsFitRun
  BY DEF EventsAt, EventsFitRun, Fitting
<1> QED
  BY <1>1, Invariance, PTL

\* New dates never change the period, for any files.
THEOREM PeriodKeepsHolds == Spec => PeriodKeeps
<1>1. IInv /\ EventsAt /\ [Next]_vars => [(stage \in {"loaded", "handled"}) => sched'.period = sched.period]_vars
  <2> SUFFICES ASSUME IInv, EventsAt, Next, stage \in {"loaded", "handled"} PROVE sched'.period = sched.period
    OBVIOUS
  <2>1. CASE AddSchedule \/ Reactivate
    BY <2>1, HandlerIs
  <2>2. ~ \E d \in NextOutput : TRUE
    BY DEF NextOutput
  <2>3. ~Open /\ ~AddAction /\ ~ReadTitle /\ ~ReadEvent /\ ~ReadDates /\ ~AddEvent /\ ~CheckSchedule
    BY DEF Open, AddAction, ReadTitle, ReadEvent, ReadDates, AddEvent, CheckSchedule
  <2>4. ~SkipEmpty(file.outputs, "outputs", "actions") /\ ~SkipEmpty(file.actions, "actions", "schedule")
        /\ ~SkipEmpty(file.events, "events", "dates")
    BY DEF SkipEmpty
  <2>5. CASE NextDay \/ Over
    BY <2>5 DEF NextDay, Over, vars
  <2> QED
    BY <2>1, <2>2, <2>3, <2>4, <2>5 DEF Next
<1> QED
  BY <1>1, Invariance, PTL DEF Spec, PeriodKeeps

-----------------------------------------------------------------------------
(* What the schedule handler is given.                                     *)

\* ScheduleHandler sees less of a schedule: a date that is absent is a day
\* before all others, and the events are those of its title, which here is
\* the list itself.  Of its definitions those about one schedule are used.
Handler == INSTANCE ScheduleHandler WITH
  Titles <- Seq(FileEvents), NoTitle <- "", Events <- [title \in Seq(FileEvents) |-> title],
  Files <- {}, Outputs <- {}, Breakable <- {}, MinutesPerDay <- 1, TicksPerMinute <- 0,
  MidnightReads <- FALSE, minute <- 0, ticks <- 0, tornDay <- 0, active <- <<>>, inactive <- <<>>,
  thread <- "none", curDay <- today, curMin <- 0, cursor <- 1, client <- "idle", pending <- <<>>,
  shouldExit <- FALSE, isStarted <- FALSE, broken <- {}, level <- <<>>, ran <- {}

DayOf(date) == IF Given(date) THEN date.v ELSE Handler!NoDay
Handed(s) ==
  [title |-> s.events, repeating |-> s.repeating, start |-> DayOf(s.start), end |-> DayOf(s.end),
   period |-> s.period, done |-> {}]

\* Days are counted from 1970 on, and a number of days fits the word.
FromEpoch ==
  \A f \in Files :
    /\ \A date \in {f.start, f.end} : Given(date) => date.v >= 0
    /\ \A e \in Elements(f.events) : e.whole => AsInt(e.day) >= 0 /\ e.time >= 0

\* What is loaded is what ScheduleHandler takes for granted of its schedules:
\* days that are days or none, events in order with days and times that are
\* natural numbers, and a period of a day or more if there are events.
HandedIsTaken ==
  stage = "loaded" =>
    /\ Handed(sched) \in Handler!Schedule
    /\ Handed(sched).start >= Handler!NoDay /\ Handed(sched).end >= Handler!NoDay
    /\ \A i \in DOMAIN sched.events : sched.events[i].day \in Nat /\ sched.events[i].time \in Nat
    /\ \A i, j \in DOMAIN sched.events : i < j => ~IsEarlier(sched.events[j], sched.events[i])
    /\ sched.events # <<>> => sched.period >= 1

\* The setters of the dates do what ScheduleHandler says of a schedule that is
\* added, and of one that begins anew, although they recalculate the period
\* each time; and add_schedule finds valid what was loaded as valid.
DatesAgree ==
  [][/\ AddSchedule => /\ Handler!Valid(Handed(sched))
                       /\ Handed(sched') = Handler!Dated(Handed(sched))
     /\ Reactivate => Handed(sched') = Handler!Activated(Handed(sched))]_vars

\* The dates of a schedule that is not yet with the handler are the file's.
DatesAt == stage # "handled" => \A date \in {sched.start, sched.end} : Given(date) => date.v >= 0

\* The setters change the date they set.
LEMMA SetDates ==
  ASSUME NEW s \in Schedules, NEW day \in Int
  PROVE  /\ StartAt(s, day) \in Schedules /\ StartAt(s, day).start = Some(day) /\ StartAt(s, day).end = s.end
         /\ EndAt(s, day) \in Schedules /\ EndAt(s, day).start = s.start /\ EndAt(s, day).end = Some(day)
<1> DEFINE t == [s EXCEPT !.start = Some(day)]
           u == [s EXCEPT !.end = Some(day)]
<1>1. /\ t \in Schedules /\ t.start = Some(day) /\ t.end = s.end
      /\ u \in Schedules /\ u.start = s.start /\ u.end = Some(day)
  BY DEF Schedules, Dates, Some
<1> HIDE DEF t, u
<1>2. /\ Recalculated(t) \in Schedules /\ Recalculated(t).start = t.start /\ Recalculated(t).end = t.end
      /\ Recalculated(u) \in Schedules /\ Recalculated(u).start = u.start /\ Recalculated(u).end = u.end
  <2>1. /\ Recalculated(t) \in Schedules /\ Recalculated(t) = [t EXCEPT !.period = Recalculated(t).period]
        /\ Recalculated(u) \in Schedules /\ Recalculated(u) = [u EXCEPT !.period = Recalculated(u).period]
    BY <1>1, RecalculatedIs
  <2> QED
    BY <1>1, <2>1 DEF Schedules
<1> QED
  BY <1>1, <1>2 DEF StartAt, EndAt, t, u

\* Reading the file leaves its dates.
LEMMA ReadDatesStep ==
  ASSUME FromEpoch, IInv, DatesAt, ReadDates
  PROVE  DatesAt'
<1>1. sched \in Schedules /\ stage = "dates" /\ file \in Files
  BY DEF IInv, TypeOK, ReadDates
<1>2. CASE UNCHANGED sched
  BY <1>1, <1>2 DEF DatesAt
<1>3. CASE sched' # sched
  <2> DEFINE started == IF Given(file.start) THEN StartAt(sched, file.start.v) ELSE sched
             ended == IF Given(file.end) THEN EndAt(started, file.end.v) ELSE started
             period == IF Given(file.period) THEN AsInt(file.period.v) ELSE 0
             timed == Period(ended, period)
             Late(s) == \A date \in {s.start, s.end} : Given(date) => date.v >= 0
  <2>1. /\ Given(file.start) => file.start.v \in Int /\ file.start.v >= 0
        /\ Given(file.end) => file.end.v \in Int /\ file.end.v >= 0
        /\ Given(file.period) => file.period.v \in Int
    BY <1>1, FilesAssumption DEF FromEpoch
  <2>2. Late(sched)
    BY <1>1 DEF DatesAt
  <2>3. started \in Schedules /\ Late(started)
    <3>1. CASE Given(file.start)
      <4> DEFINE day == file.start.v
      <4>1. started = StartAt(sched, day) /\ day \in Int /\ day >= 0
        BY <2>1, <3>1
      <4>2. StartAt(sched, day) \in Schedules /\ Late(StartAt(sched, day))
        <5>1. /\ StartAt(sched, day) \in Schedules
              /\ {StartAt(sched, day).start, StartAt(sched, day).end} \subseteq {Some(day), sched.start, sched.end}
          BY <1>1, <2>2, <4>1, SetDates
        <5>2. Some(day).v = day
          BY DEF Some
        <5> HIDE DEF day
        <5> QED
          BY <1>1, <2>2, <4>1, <5>1, <5>2
      <4> QED
        BY <4>1, <4>2
    <3>2. CASE ~Given(file.start)
      BY <1>1, <2>2, <3>2
    <3> QED
      BY <3>1, <3>2
  <2> HIDE DEF started
  <2>4. ended \in Schedules /\ Late(ended)
    <3>1. CASE Given(file.end)
      <4> DEFINE day == file.end.v
      <4>1. ended = EndAt(started, day) /\ day \in Int /\ day >= 0
        BY <2>1, <3>1
      <4>2. EndAt(started, day) \in Schedules /\ Late(EndAt(started, day))
        <5>1. /\ EndAt(started, day) \in Schedules
              /\ {EndAt(started, day).start, EndAt(started, day).end} \subseteq {Some(day), started.start, started.end}
          BY <2>3, <4>1, SetDates
        <5>2. Some(day).v = day
          BY DEF Some
        <5> HIDE DEF day
        <5> QED
          BY <2>3, <4>1, <5>1, <5>2
      <4> QED
        BY <4>1, <4>2
    <3>2. CASE ~Given(file.end)
      BY <2>3, <3>2
    <3> QED
      BY <3>1, <3>2
  <2> HIDE DEF ended
  <2>5. period \in Int
    BY <2>1, AsIntType
  <2> HIDE DEF period
  <2>6. timed.start = ended.start /\ timed.end = ended.end
    <3>1. Recalculated(ended) \in Schedules /\ Recalculated(ended) = [ended EXCEPT !.period = Recalculated(ended).period]
      BY <2>4, RecalculatedIs
    <3> QED
      BY <2>4, <3>1 DEF Period, Schedules
  <2>7. timed \in Schedules
    BY <2>4, <2>5, PeriodIs
  <2>8. \E mode : sched' = [timed EXCEPT !.repeating = mode]
    BY <1>3 DEF ReadDates, timed, ended, started, period
  <2> HIDE DEF timed
  <2>9. sched'.start = timed.start /\ sched'.end = timed.end
    BY <2>7, <2>8 DEF Schedules
  <2> QED
    BY <2>4, <2>6, <2>9 DEF DatesAt
<1> QED
  BY <1>2, <1>3

\* So does adding an event,
LEMMA AddEventDates ==
  ASSUME IInv, AddEvent
  PROVE  stage = "insert" /\ sched'.start = sched.start /\ sched'.end = sched.end
<1>1. stage = "insert" /\ next \in 1 .. Len(events) /\ events \in Seq(FileEvents)
      /\ sched \in Schedules /\ sched.events \in Seq(FileEvents)
  BY DEF AddEvent, IInv, TypeOK, Walking, Schedules
<1>2. CASE UNCHANGED sched
  BY <1>1, <1>2
<1>3. CASE sched' # sched
  <2>1. PICK list \in Insertions(sched.events, events[next]) :
          sched' = Recalculated([sched EXCEPT !.events = list])
    BY <1>3 DEF AddEvent
  <2> DEFINE t == [sched EXCEPT !.events = list]
  <2>2. events[next] \in FileEvents
    BY <1>1, ElementOfSeq
  <2>3. list \in Seq(FileEvents)
    BY <1>1, <2>1, <2>2, InsertionIs
  <2>4. t \in Schedules /\ t.start = sched.start /\ t.end = sched.end
    BY <1>1, <2>3 DEF Schedules
  <2>5. sched' = Recalculated(t)
    BY <2>1
  <2> HIDE DEF t
  <2>6. sched' = [t EXCEPT !.period = sched'.period]
    BY <2>4, <2>5, RecalculatedIs
  <2>7. sched'.start = t.start /\ sched'.end = t.end
    BY <2>4, <2>6 DEF Schedules
  <2> QED
    BY <1>1, <2>4, <2>7
<1> QED
  BY <1>2, <1>3

\* and every other step before the schedule is handed over.
LEMMA DatesAtStep == FromEpoch /\ IInv /\ DatesAt /\ [Next]_vars => DatesAt'
<1> SUFFICES ASSUME FromEpoch, IInv, DatesAt, [Next]_vars PROVE DatesAt'
  OBVIOUS
<1>1. ASSUME UNCHANGED sched, stage # "handled" PROVE DatesAt'
  BY <1>1 DEF DatesAt
<1>2. ASSUME NEW d \in NextOutput, AddOutput(d) \/ AddPin(d) \/ RefuseChip(d) \/ RefusePin(d)
      PROVE  DatesAt'
  <2>1. stage = "outputs" /\ UNCHANGED sched
    BY <1>2, OutputAt DEF AddOutput, AddPin, RefuseChip, RefusePin, IInv
  <2> QED
    BY <1>1, <2>1
<1>3. CASE \/ Open \/ AddAction \/ ReadTitle \/ ReadEvent \/ CheckSchedule
           \/ SkipEmpty(file.outputs, "outputs", "actions")
           \/ SkipEmpty(file.actions, "actions", "schedule")
           \/ SkipEmpty(file.events, "events", "dates")
  <2>1. UNCHANGED sched
    BY <1>3 DEF Open, AddAction, ReadTitle, ReadEvent, CheckSchedule, SkipEmpty
  <2>2. stage # "handled"
    BY <1>3 DEF Open, AddAction, ReadTitle, ReadEvent, CheckSchedule, SkipEmpty
  <2> QED
    BY <1>1, <2>1, <2>2
<1>4. CASE ReadDates
  BY <1>4, ReadDatesStep
<1>5. CASE AddEvent
  BY <1>5, AddEventDates DEF DatesAt
<1>6. CASE AddSchedule \/ Reactivate \/ NextDay
  BY <1>6 DEF AddSchedule, Reactivate, NextDay, DatesAt
<1>7. CASE Over \/ UNCHANGED vars
  BY <1>7 DEF Over, vars, DatesAt
<1> QED
  BY <1>2, <1>3, <1>4, <1>5, <1>6, <1>7 DEF Next

\* So the dates are not before 1970 whatever was read.
LEMMA DatesAtHolds == ASSUME FromEpoch PROVE Spec => []DatesAt
<1>1. Init => DatesAt
  BY DEF Init, DatesAt, EmptySchedule, Absent, Given
<1>2. IInv /\ DatesAt /\ [Next]_vars => DatesAt'
  BY DatesAtStep
<1> QED
  BY <1>1, <1>2, Invariance, PTL DEF Spec

\* What was loaded can be handed over (schedule::deserialize), whatever the
\* file, if its dates are not before 1970 and its days fit the word.
THEOREM HandedIsTakenHolds == ASSUME FromEpoch PROVE Spec => []HandedIsTaken
<1>1. IInv /\ EventsAt /\ DatesAt => HandedIsTaken
  <2> SUFFICES ASSUME IInv, EventsAt, DatesAt, stage = "loaded"
               PROVE  /\ Handed(sched) \in Handler!Schedule
                      /\ Handed(sched).start >= Handler!NoDay /\ Handed(sched).end >= Handler!NoDay
                      /\ \A i \in DOMAIN sched.events : sched.events[i].day \in Nat /\ sched.events[i].time \in Nat
                      /\ \A i, j \in DOMAIN sched.events : i < j => ~IsEarlier(sched.events[j], sched.events[i])
                      /\ sched.events # <<>> => sched.period >= 1
    BY DEF HandedIsTaken
  <2>1. /\ sched \in Schedules /\ sched.events \in Seq(FileEvents) /\ sched.period \in Nat
        /\ sched.repeating \in BOOLEAN /\ sched.start \in Dates /\ sched.end \in Dates
    BY DEF IInv, TypeOK, Schedules
  <2>2. /\ DayOf(sched.start) \in Int /\ DayOf(sched.start) >= -1
        /\ DayOf(sched.end) \in Int /\ DayOf(sched.end) >= -1
    BY <2>1, DateType DEF DayOf, Handler!NoDay, DatesAt
  <2>3. Handed(sched) \in Handler!Schedule
    BY <2>1, <2>2 DEF Handed, Handler!Schedule
  <2>4. ASSUME NEW e \in FileEvents PROVE e.day \in Nat /\ e.time \in Nat
    <3>1. PICK f \in Files : \E d \in Elements(f.events) : d.whole /\ e = Read(d)
      BY DEF FileEvents
    <3>2. PICK d \in Elements(f.events) : d.whole /\ e = Read(d)
      BY <3>1
    <3>3. e.day >= 0 /\ e.time >= 0
      BY <3>2 DEF FromEpoch, Read
    <3> QED
      BY <3>3, EventType
  <2>5. \A i \in DOMAIN sched.events : sched.events[i].day \in Nat /\ sched.events[i].time \in Nat
    BY <2>1, <2>4, ListType
  <2>6. sched.events # <<>> => sched.period >= 1
    <3>1. ASSUME sched.events # <<>> PROVE 1 \in DOMAIN sched.events
      BY <2>1, <3>1, EmptySeq, LenProperties
    <3>2. \A i \in DOMAIN sched.events : sched.events[i].day + 1 <= sched.period
      BY DEF EventsAt, Enough
    <3> QED
      BY <2>1, <2>5, <3>1, <3>2
  <2> QED
    BY <2>2, <2>3, <2>5, <2>6 DEF Handed, Handler!NoDay, EventsAt, Sorted
<1> QED
  BY <1>1, Invariance, DatesAtHolds, PTL

\* A schedule with other dates.
Rerun(s, start, end) ==
  [title |-> s.events, repeating |-> s.repeating, start |-> start, end |-> end,
   period |-> s.period, done |-> {}]

\* What the handler does to the schedule it holds when it dates it, and when it
\* starts it again.
WithDates(h, start, end) == [h EXCEPT !.start = start, !.end = end]
WithRun(h, start, end)   == [h EXCEPT !.done = {}, !.start = start, !.end = end]

\* New dates are all that the handler sees of them, and a schedule it takes
\* over has no marks to lose.
LEMMA HandedAs ==
  ASSUME NEW s, NEW start, NEW end
  PROVE  /\ WithDates(Handed(s), start, end) = Rerun(s, start, end)
         /\ WithRun(Handed(s), start, end) = Rerun(s, start, end)
         /\ Handed(s) = Rerun(s, DayOf(s.start), DayOf(s.end))
<1> DEFINE a == DayOf(s.start)
           b == DayOf(s.end)
           S == {s.events, s.repeating, a, b, s.period, {}, start, end}
           R == [title : S, repeating : S, start : S, end : S, period : S, done : S]
           h == Handed(s)
<1>1. h = Rerun(s, a, b)
  BY Zenon DEF Handed, Rerun
<1> HIDE DEF a, b
<1>2. Rerun(s, a, b) \in R
  BY DEF Rerun
<1>3. start \in S /\ end \in S
  OBVIOUS
<1> HIDE DEF S
<1>4. /\ h \in R /\ h.title = s.events /\ h.repeating = s.repeating /\ h.period = s.period /\ h.done = {}
  BY <1>1, <1>2 DEF Rerun
<1> HIDE DEF h
<1> DEFINE g == Rerun(s, start, end)
           k == [h EXCEPT !.start = start, !.end = end]
           l == [h EXCEPT !.done = {}, !.start = start, !.end = end]
<1>5. g \in R /\ k \in R /\ l \in R
  BY <1>3, <1>4 DEF Rerun
<1>6. /\ k.title = g.title /\ k.repeating = g.repeating /\ k.start = g.start
      /\ k.end = g.end /\ k.period = g.period /\ k.done = g.done
  BY <1>4 DEF Rerun
<1>7. /\ l.title = g.title /\ l.repeating = g.repeating /\ l.start = g.start
      /\ l.end = g.end /\ l.period = g.period /\ l.done = g.done
  BY <1>4 DEF Rerun
<1> HIDE DEF g, k, l
<1>8. k = g
  BY <1>5, <1>6
<1>9. l = g
  BY <1>5, <1>7
<1> QED
  BY <1>1, <1>8, <1>9, Zenon DEF a, b, h, g, k, l, WithDates, WithRun

\* Whatever else becomes of its events, mode and period.
LEMMA RerunAs ==
  ASSUME NEW s, NEW r, r.events = s.events, r.repeating = s.repeating, r.period = s.period
  PROVE  Handed(r) = Rerun(s, DayOf(r.start), DayOf(r.end))
<1>1. Handed(r) = Rerun(r, DayOf(r.start), DayOf(r.end))
  BY Zenon DEF Handed, Rerun
<1> QED
  BY <1>1, Zenon DEF Rerun

\* The handler's own view of add_schedule and of a new run is right about the
\* dates (schedule_handler.cpp), whatever the file.
THEOREM DatesAgreeHolds == ASSUME FromEpoch PROVE Spec => DatesAgree
<1>1. IInv /\ EventsAt /\ DatesAt /\ [Next]_vars =>
        [/\ AddSchedule => /\ Handler!Valid(Handed(sched))
                           /\ Handed(sched') = Handler!Dated(Handed(sched))
         /\ Reactivate => Handed(sched') = Handler!Activated(Handed(sched))]_vars
  <2> SUFFICES ASSUME IInv, EventsAt, DatesAt
               PROVE  /\ AddSchedule => /\ Handler!Valid(Handed(sched))
                                        /\ Handed(sched') = Handler!Dated(Handed(sched))
                      /\ Reactivate => Handed(sched') = Handler!Activated(Handed(sched))
    OBVIOUS
  <2> DEFINE f == Handed(sched)
             redated == [sched EXCEPT !.start = Some(today), !.end = Some(today + sched.period - 1)]
  <2>1. /\ sched \in Schedules /\ sched.events \in Seq(FileEvents) /\ sched.period \in Nat
        /\ sched.repeating \in BOOLEAN /\ sched.start \in Dates /\ sched.end \in Dates
        /\ today \in Nat /\ Enough(sched)
    BY DEF IInv, TypeOK, Schedules, EventsAt
  <2>2. /\ f.title = sched.events /\ f.repeating = sched.repeating /\ f.period = sched.period /\ f.done = {}
        /\ f.start = DayOf(sched.start) /\ f.end = DayOf(sched.end)
    BY DEF Handed
  <2>3. ASSUME stage # "handled"
        PROVE  /\ Given(sched.start) => DayOf(sched.start) = sched.start.v /\ sched.start.v \in Nat
               /\ ~Given(sched.start) => DayOf(sched.start) = -1
               /\ Given(sched.end) => DayOf(sched.end) = sched.end.v /\ sched.end.v \in Nat
               /\ ~Given(sched.end) => DayOf(sched.end) = -1
    BY <2>1, <2>3, DateType DEF DayOf, Handler!NoDay, DatesAt
  <2>4. redated \in Schedules /\ Handed(redated) = Rerun(sched, today, today + sched.period - 1)
    <3> DEFINE first == Some(today)
               last == Some(today + sched.period - 1)
    <3>0. /\ first \in Dates /\ last \in Dates
          /\ DayOf(first) = today /\ DayOf(last) = today + sched.period - 1
      BY <2>1 DEF Some, Dates, DayOf, Given
    <3>1. /\ redated \in Schedules /\ redated.start = first /\ redated.end = last
          /\ redated.events = sched.events /\ redated.repeating = sched.repeating /\ redated.period = sched.period
      <4>1. redated = [sched EXCEPT !.start = first, !.end = last]
        OBVIOUS
      <4> HIDE DEF redated, first, last
      <4> QED
        BY <2>1, <3>0, <4>1 DEF Schedules
    <3> HIDE DEF first, last
    <3>2. DayOf(redated.start) = today /\ DayOf(redated.end) = today + sched.period - 1
      BY <3>0, <3>1
    <3> HIDE DEF redated
    <3> QED
      BY <3>1, <3>2, RerunAs
  <2>5. ASSUME AddSchedule PROVE Handler!Valid(f)
    <3>1. stage = "loaded" /\ Verdict(sched) = "valid"
      BY <2>5 DEF AddSchedule, EventsAt
    <3>2. CASE ~Given(sched.end)
      BY <2>2, <2>3, <3>1, <3>2 DEF Handler!Valid, Handler!NoDay
    <3>3. CASE Given(sched.end)
      <4>1. ~Missing(sched.end) /\ ~Missing(sched.start) /\ Given(sched.start)
        BY <2>1, <3>1, <3>3, ValidFits DEF Fitting, Given, Missing
      <4>2. /\ sched.period # 0 /\ sched.end.v >= sched.start.v
            /\ sched.end.v - sched.start.v + 1 >= sched.period /\ sched.events # <<>>
        BY <3>1, <4>1 DEF Verdict
      <4>3. [title \in Seq(FileEvents) |-> title][f.title] # <<>>
        BY <2>1, <2>2, <4>2
      <4> QED
        BY <2>2, <2>3, <3>1, <3>3, <4>1, <4>2, <4>3 DEF Handler!Valid
    <3> QED
      BY <3>2, <3>3
  <2>6. ASSUME AddSchedule PROVE Handed(sched') = Handler!Dated(f)
    <3> DEFINE start == IF f.start = -1 /\ f.end = -1 THEN today ELSE f.start
               end == IF f.end = -1 THEN start + f.period - 1 ELSE f.end
    <3>1. stage = "loaded" /\ Verdict(sched) = "valid"
      BY <2>6 DEF AddSchedule, EventsAt
    <3>2. Handler!Dated(f) = Rerun(sched, start, end)
      <4>1. Handler!Dated(f) = WithDates(Handed(sched), start, end)
        BY DEF Handler!Dated, Handler!NoDay, WithDates
      <4> HIDE DEF start, end, f
      <4>2. WithDates(Handed(sched), start, end) = Rerun(sched, start, end)
        BY HandedAs
      <4> QED
        BY <4>1, <4>2
    <3>3. /\ sched'.events = sched.events /\ sched'.repeating = sched.repeating /\ sched'.period = sched.period
          /\ DayOf(sched'.start) = start /\ DayOf(sched'.end) = end
      <4>1. CASE Given(sched.end)
        <5>1. Given(sched.start)
          BY <2>1, <3>1, <4>1, ValidFits DEF Fitting
        <5>2. sched' = sched
          BY <2>6, <4>1 DEF AddSchedule
        <5>3. start = f.start /\ end = f.end
          BY <2>2, <2>3, <3>1, <4>1, <5>1
        <5> HIDE DEF start, end
        <5> QED
          BY <2>2, <5>2, <5>3
      <4>2. CASE ~Given(sched.end) /\ Given(sched.start)
        <5> DEFINE day == sched.start.v + sched.period - 1
        <5>1. sched' = [sched EXCEPT !.end = Some(day)]
          <6>1. sched' = EndAt(sched, day)
            BY <2>6, <4>2 DEF AddSchedule
          <6> QED
            BY <2>1, <4>2, <6>1, EndOfRun
        <5>2. start = sched.start.v /\ end = day
          BY <2>2, <2>3, <3>1, <4>2
        <5> HIDE DEF day, start, end
        <5>3. /\ sched'.events = sched.events /\ sched'.repeating = sched.repeating
              /\ sched'.period = sched.period /\ sched'.start = sched.start /\ sched'.end = Some(day)
          BY <2>1, <5>1 DEF Schedules
        <5>4. DayOf(sched'.end) = day
          BY <5>3 DEF DayOf, Some, Given
        <5> QED
          BY <2>3, <3>1, <4>2, <5>2, <5>3, <5>4
      <4>3. CASE ~Given(sched.end) /\ ~Given(sched.start)
        <5>1. sched' = redated
          <6>1. sched' = Redated(sched, today) /\ today \in Int
            BY <2>1, <2>6, <4>3 DEF AddSchedule
          <6> QED
            BY <2>1, <4>3, <6>1, RedatedIs
        <5>2. start = today /\ end = today + sched.period - 1
          BY <2>2, <2>3, <3>1, <4>3
        <5> HIDE DEF start, end
        <5>3. /\ redated.events = sched.events /\ redated.repeating = sched.repeating
              /\ redated.period = sched.period
              /\ redated.start = Some(today) /\ redated.end = Some(today + sched.period - 1)
          BY <2>1 DEF Schedules
        <5>4. DayOf(redated.start) = today /\ DayOf(redated.end) = today + sched.period - 1
          BY <5>3 DEF DayOf, Some, Given
        <5> HIDE DEF redated
        <5> QED
          BY <5>1, <5>2, <5>3, <5>4
      <4> QED
        BY <4>1, <4>2, <4>3
    <3> HIDE DEF start, end
    <3>4. Handed(sched') = Rerun(sched, DayOf(sched'.start), DayOf(sched'.end))
      BY <3>3, RerunAs
    <3> QED
      BY <3>2, <3>3, <3>4
  <2>7. ASSUME Reactivate PROVE Handed(sched') = Handler!Activated(f)
    <3>1. Given(sched.end) /\ sched.end.v < today /\ sched.repeating
      BY <2>7 DEF Reactivate, EventsAt, Fitting
    <3>2. sched' = redated
      <4>1. sched' = Redated(sched, today) /\ today \in Int
        BY <2>1, <2>7 DEF Reactivate
      <4> QED
        BY <2>1, <3>1, <4>1, RedatedIs
    <3>3. f.end < today /\ f.repeating
      BY <2>2, <3>1 DEF DayOf
    <3>4. Handler!Activated(f) = WithRun(f, today, today + sched.period - 1)
      BY <2>2, <3>3 DEF Handler!Activated, WithRun
    <3>5. Handler!Activated(f) = Rerun(sched, today, today + sched.period - 1)
      <4> DEFINE end == today + sched.period - 1
      <4>1. WithRun(Handed(sched), today, end) = Rerun(sched, today, end)
        <5> HIDE DEF end
        <5> QED
          BY HandedAs
      <4> QED
        BY <3>4, <4>1
    <3>6. Handed(sched') = Handed(redated)
      BY <3>2
    <3> QED
      BY <2>4, <3>5, <3>6
  <2> QED
    BY <2>5, <2>6, <2>7
<1> QED
  BY <1>1, Invariance, DatesAtHolds, PTL DEF Spec, DatesAgree

=============================================================================
