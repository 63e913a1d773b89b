--------------------------- MODULE RemoteFunction --------------------------
(***************************************************************************)
(* remote_function: an output that is a HTTP request to another host, with *)
(* its two users - the schedule, which tries again what was refused, and   *)
(* the panel, where the user takes the output over and moves a slider.     *)
(*                                                                         *)
(* A call holds the mutex of the outputs until its request was answered or *)
(* given up, so calls do not overlap; requests do.  One that was given up  *)
(* may still be on its way and take effect later.                          *)
(***************************************************************************)
EXTENDS RemoteUrl, Integers, FiniteSets

CONSTANTS
  Urls,      \* the urls of descriptions
  Defaults,  \* the values of descriptions: [n |-> a number, range |-> <<>> or <<min, max>>]
  Requests,  \* the numbers the events of the schedule give the output
  none,
  MaxInt,    \* the largest int
  Steps,     \* a slider has the positions 0 to Steps: 100 in the program
  Mantissa,  \* the largest mantissa of a float, 2^24 in the program,
  Ulps,      \* what its last bit may be worth, and
  Unit,      \* the number one, counted in the last bits of the smallest float
  MaxLate    \* bound on the requests given up that are still on their way

Number == -MaxInt - 1 .. MaxInt
\* The ends of a range are sorted; the default need not lie between them.
Ranges == {<<>>} \cup {r \in Number \X Number : r[1] <= r[2]}
OutputNumber == [n : Number, range : Ranges]

ASSUME RemoteAssumption ==
  /\ MaxInt \in Nat \ {0} /\ Steps \in Nat \ {0} /\ MaxLate \in Nat
  /\ Mantissa \in Nat \ {0} /\ Ulps \subseteq Nat \ {0} /\ Unit \in Ulps
  /\ Defaults \subseteq OutputNumber /\ Requests \subseteq Number
  /\ none \notin Int

VARIABLES
  url,         \* m_url
  value,       \* m_value
  overridden,  \* m_overriden_value: <<>>, or <<a value>>
  call,        \* "none", or what the call is at: "update", "waiting"
  by,          \* the caller: "none", "schedule" or "panel"
  answered,    \* the result of the latest call
  due,         \* the number of an event that was not acknowledged, or none
  taken,       \* <<the state read by the first of the two calls of the check box>>, else <<>>
  checked,     \* the check box
  up,          \* the network and the host are in order at the moment
  sent,        \* the request the caller waits for while it is on its way: <<>> or <<a number>>
  answer,      \* the answer of the host: "none", "ok", "error"
  late,        \* the requests given up that may still arrive
  remote,      \* the number the host was told last
  overtaken    \* history: a late request has taken effect after the latest other

outputVars == <<url, value, overridden>>
callVars == <<call, by, answered, due>>
panelVars == <<taken, checked>>
networkVars == <<up, sent, answer, late, remote, overtaken>>
vars == <<outputVars, callVars, panelVars, networkVars>>

-----------------------------------------------------------------------------

\* current_state.
CurrentState == IF overridden # <<>> THEN overridden[1] ELSE value

\* What an event of the schedule gives: a number, without the range.
Plain(n) == [n |-> n, range |-> <<>>]

-----------------------------------------------------------------------------
(* The slider, which computes in floats: multiples of the smallest one.     *)

\* std::abs.
Size(n) == IF n >= 0 THEN n ELSE -n

Floats == {m * ulp : m \in -Mantissa .. Mantissa, ulp \in Ulps}

\* How far a float is from n / d, in parts of d.
Off(x, n, d) == Size(x * d - n)

\* The float nearest to n / d, of two the one with the even last bit.
Rounded(n, d) ==
  LET nearest == {x \in Floats : \A y \in Floats : Off(x, n, d) <= Off(y, n, d)}
  IN  {x \in nearest : \A y \in nearest : x = y \/ x % (2 * Size(x - y)) = 0}

\* n / d, cut off towards zero.
Truncated(n, d) == IF n >= 0 THEN n \div d ELSE -((-n) \div d)

\* The conversion to int.  Of a float beyond it the outcome is undefined: the
\* processors give its smallest or its nearest number.
Cast(x) ==
  IF Truncated(x, Unit) \in Number THEN {Truncated(x, Unit)} ELSE {-MaxInt - 1, MaxInt}

\* Mutant of Span: the lower end is not taken off the upper.
SpanBeyond(bounds) == bounds[2]

\* The size of the lower end is taken off the upper one, in an int.
Span(bounds) ==
  LET span == bounds[2] - Size(bounds[1])
  IN  IF span < -MaxInt - 1 THEN span + 2 * MaxInt + 2 ELSE span

\* A product, in parts of Unit: rounded, or not if the compiler contracts it
\* with the sum.
Products(span, scale) == {span * scale} \cup {Unit * x : x \in Rounded(span * scale, Unit)}

Sums(bounds, position) ==
  UNION {UNION {Rounded(product + low * Unit, Unit) : product \in Products(span, scale)} :
           span \in Rounded(Span(bounds) * Unit, 1),
           scale \in Rounded(position * Unit, Steps),
           low \in Rounded(bounds[1] * Unit, 1)}

\* Of a value without a range the bounds are those of an int, one less.
Bounds(range) == IF range = <<>> THEN <<-MaxInt, MaxInt - 1>> ELSE range

\* The values a slider over that range may stand for at that position.
SliderValues(range, position) ==
  {[n |-> n, range |-> Bounds(range)] : n \in UNION {Cast(x) : x \in Sums(Bounds(range), position)}}

\* What a move of the slider may make of a value with that range.
Moves ==
  UNION {{[from |-> range, to |-> v] : v \in SliderValues(range, position)} :
           range \in Ranges, position \in 0 .. Steps}

-----------------------------------------------------------------------------
(* The calls.                                                              *)

ControlOutput(n) ==
  /\ call = "none"
  /\ value' = Plain(n)
  /\ call' = "update" /\ by' = "schedule" /\ due' = n
  /\ UNCHANGED <<url, overridden, answered, panelVars, networkVars>>

\* Mutant of ScheduleRetries: an output that is held is left out.
RetryUnlessHeld == overridden = <<>> /\ due # none /\ ControlOutput(due)

\* An event that was not acknowledged is part of the batch of the next tick;
\* a later event of the same output goes before it.
ScheduleRetries == due # none /\ ControlOutput(due)

\* override_with, or restore_control for <<>>.
Override(override) ==
  /\ call = "none"
  /\ overridden' = override
  /\ call' = "update" /\ by' = "panel"
  /\ UNCHANGED <<url, value, answered, due, networkVars>>

\* The callback of the check box: the first of its two calls, and the second.
CheckBox ==
  /\ call = "none" /\ taken = <<>> /\ ~checked
  /\ checked' = TRUE /\ taken' = <<CurrentState>>
  /\ UNCHANGED <<outputVars, callVars, networkVars>>

TakeOver ==
  /\ taken # <<>>
  /\ Override(taken)
  /\ taken' = <<>>
  /\ UNCHANGED checked

UncheckBox ==
  /\ taken = <<>> /\ checked
  /\ Override(<<>>)
  /\ checked' = FALSE
  /\ UNCHANGED taken

\* The callback of the slider, which is only visible while the box is ticked.
\* It reads the state in a call of its own, but nobody else overrides.
MoveSlider ==
  /\ taken = <<>> /\ checked
  /\ \E move \in Moves : move.from = CurrentState.range /\ Override(<<move.to>>)
  /\ UNCHANGED panelVars

-----------------------------------------------------------------------------
(* update_values.                                                          *)

Return(success) ==
  /\ call' = "none" /\ by' = "none"
  /\ answered' = success
  /\ due' = IF success /\ by = "schedule" THEN none ELSE due
  /\ UNCHANGED <<outputVars, panelVars>>

\* The url is refused, or there is no connection.
Unconnected ==
  /\ call = "update"
  /\ Split(url) = {} \/ ~up
  /\ Return(FALSE)
  /\ UNCHANGED networkVars

\* Mutant of SendRequest: the controlled value is sent.
SendControlled ==
  /\ call = "update" /\ Split(url) # {}
  /\ sent' = <<value.n>> /\ answer' = "none" /\ call' = "waiting"
  /\ UNCHANGED <<outputVars, by, answered, due, panelVars, up, late, remote, overtaken>>

SendRequest ==
  /\ call = "update" /\ Split(url) # {}
  /\ sent' = <<CurrentState.n>> /\ answer' = "none" /\ call' = "waiting"
  /\ UNCHANGED <<outputVars, by, answered, due, panelVars, up, late, remote, overtaken>>

\* The answer arrives; only status 200 is a success.
ReceiveAnswer ==
  /\ call = "waiting" /\ answer # "none"
  /\ Return(answer = "ok")
  /\ answer' = "none"
  /\ UNCHANGED <<up, sent, late, remote, overtaken>>

\* No answer arrives in time: the answer was lost, or the request was, or it
\* is still on its way.
GiveUp ==
  /\ call = "waiting" /\ ~up
  /\ late' \in {late} \cup {late \cup {n} : n \in {sent[i] : i \in DOMAIN sent}}
  /\ Cardinality(late') <= MaxLate
  /\ sent' = <<>>
  /\ Return(FALSE)
  /\ UNCHANGED <<up, answer, remote, overtaken>>

-----------------------------------------------------------------------------
(* The host and the network.                                               *)

HostTakes ==
  /\ sent # <<>>
  /\ remote' = sent[1] /\ sent' = <<>> /\ answer' = "ok" /\ overtaken' = FALSE
  /\ UNCHANGED <<outputVars, callVars, panelVars, up, late>>

HostRejects ==
  /\ sent # <<>> /\ ~up
  /\ sent' = <<>> /\ answer' = "error"
  /\ UNCHANGED <<outputVars, callVars, panelVars, up, late, remote, overtaken>>

\* A late request takes effect after all, or gets lost.
LateTakes(n) ==
  /\ n \in late
  /\ remote' = n /\ late' = late \ {n} /\ overtaken' = TRUE
  /\ UNCHANGED <<outputVars, callVars, panelVars, up, sent, answer>>

LateIsLost(n) ==
  /\ n \in late
  /\ late' = late \ {n}
  /\ UNCHANGED <<outputVars, callVars, panelVars, up, sent, answer, remote, overtaken>>

FailOrRecover ==
  /\ up' = ~up
  /\ UNCHANGED <<outputVars, callVars, panelVars, sent, answer, late, remote, overtaken>>

-----------------------------------------------------------------------------

\* create_for_interface sends nothing: what the host shows is left open.
Init ==
  /\ url \in Urls /\ value \in Defaults /\ overridden = <<>>
  /\ call = "none" /\ by = "none" /\ answered = FALSE /\ due = none
  /\ taken = <<>> /\ checked = FALSE
  /\ up \in BOOLEAN /\ sent = <<>> /\ answer = "none" /\ late = {}
  /\ remote \in Requests /\ overtaken = FALSE

Call ==
  \/ \E n \in Requests : ControlOutput(n)
  \/ ScheduleRetries
  \/ CheckBox
  \/ TakeOver
  \/ UncheckBox
  \/ MoveSlider

UpdateValues ==
  \/ Unconnected
  \/ SendRequest
  \/ ReceiveAnswer
  \/ GiveUp

Network ==
  \/ HostTakes
  \/ HostRejects
  \/ \E n \in late : LateTakes(n) \/ LateIsLost(n)
  \/ FailOrRecover

Next == Call \/ UpdateValues \/ Network

Spec == Init /\ [][Next]_vars

\* A call runs on; a host in order answers; the schedule thread tries again
\* with every tick and gets the mutex between the calls of the panel.
FairSpec == Spec /\ WF_vars(UpdateValues) /\ WF_vars(HostTakes) /\ SF_vars(ScheduleRetries)

-----------------------------------------------------------------------------

\* The variables keep to their types.
TypeOK ==
  /\ url \in Urls /\ value \in OutputNumber
  /\ overridden \in {<<>>} \cup {<<v>> : v \in OutputNumber}
  /\ call \in {"none", "update", "waiting"} /\ by \in {"none", "schedule", "panel"}
  /\ answered \in BOOLEAN /\ due \in Requests \cup {none}
  /\ taken \in {<<>>} \cup {<<v>> : v \in OutputNumber} /\ checked \in BOOLEAN
  /\ up \in BOOLEAN /\ sent \in {<<>>} \cup {<<n>> : n \in Number}
  /\ answer \in {"none", "ok", "error"}
  /\ late \subseteq Number /\ remote \in Number /\ overtaken \in BOOLEAN

\* After a call that reported success the host shows the value in force,
\* whoever called, and whether a control came during an override; unless a
\* request that had been given up took effect after it.
AcknowledgedIsShown ==
  (call = "none" /\ answered /\ ~overtaken) => remote = CurrentState.n

\* The ranges a slider keeps to: their lower end is not larger in size than the
\* upper one, and a float can tell all their numbers apart.
Manageable(range) == range # <<>> /\ -range[1] <= range[2] /\ range[2] <= Mantissa

\* A value that has such a range lies in it, however the floats are rounded and
\* however often the slider is moved and the output taken over, given back and
\* controlled; unless it is the default of the description, which nothing
\* checks.  (Beyond Mantissa rounding may lead over the upper end, a large
\* lower end leads below it.)
InRange ==
  \A v \in {value, CurrentState} :
    (v \notin Defaults /\ Manageable(v.range)) => v.n \in v.range[1] .. v.range[2]

\* Once the host is and stays in order, the control of an event is
\* acknowledged, if the url is not one that is refused each time.
RetryIsTaken == <>[]up => (due # none /\ Split(url) # {} ~> due = none)

=============================================================================
