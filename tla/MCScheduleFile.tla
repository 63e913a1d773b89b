-------------------------- MODULE MCScheduleFile ---------------------------
(***************************************************************************)
(* Schedule files: one set varies the outputs and actions, one the events  *)
(* and dates.  An int has 16 values.                                       *)
(***************************************************************************)
EXTENDS ScheduleFile

CONSTANTS light, heater, turn_on, turn_off, dawn, dusk

MCOutputIds == {light, heater}
MCActionIds == {turn_on, turn_off}

Wrong == [is |-> "wrong"]

Unsigned(n) == [json |-> "unsigned", n |-> n]
Signed(n) == [json |-> "integer", n |-> n]
String(word, digits) == [json |-> "string", word |-> word, digits |-> digits]
Pair(a, b) == [json |-> "pair", first |-> a, second |-> b]
Object(type, default, range) ==
  [json |-> "object", type |-> type, default |-> default, range |-> range]

\* "on", a misspelt word, "-5" and "99 C" of which the digits are kept.
Singles ==
  {Null, Unsigned(9), Signed(-3), [json |-> "float", n |-> 2], [json |-> "boolean"],
   String("on", <<>>), String("onn", <<>>), String("-5", <<5>>), String("99 C", <<99>>)}

\* Defaults of another type than the one named, ranges the wrong way round or
\* below zero, and what is refused.
Objects ==
  {Object("int", Unsigned(2), Pair(Signed(3), Signed(-3))),
   Object("unsigned_int", Null, Pair(Signed(-3), Unsigned(3))),
   Object("unsigned_int", Signed(-1), Null),
   Object("tasmota_power_command", String("on", <<>>), Null),
   Object("string", String("hello", <<>>), Null),
   Object("switch_output", [json |-> "boolean"], Null),
   Object("int", Null, Pair(Signed(3), String("5", <<5>>))),
   Object("switch_output", Null, Pair(Null, Null)),
   Object("int", Null, Unsigned(3)),
   Object("percent", Null, Null)}

MCLines == {4, 5}

\* The pin is that of a GPIO output.
Output(id, type, value) ==
  [id |-> id, type |-> type, value |-> value, pin |-> IF id = light THEN 4 ELSE 5, whole |-> TRUE]
OnPin(d, pin) == [d EXCEPT !.pin = pin]
Malformed(d) == [d EXCEPT !.whole = FALSE]

OutputLists ==
  {Absent, Some(<<>>)} \cup
  {Some(<<Output(light, type, v), Output(heater, "gpio", Null)>>) :
     type \in {"gpio", "mqtt", "pwm"}, v \in {Null}} \cup
  {Some(<<Output(light, "remote_function", v)>>) : v \in Objects \cup Singles} \cup
  {Some(<<Output(heater, "gpio", Null), Output(light, "can", v)>>) : v \in {Null, Unsigned(1)}} \cup
  {Some(<<Output(light, "gpio", v), OnPin(Output(heater, "gpio", Null), pin)>>) :
     v \in {String("on", <<>>), String("onn", <<>>), Unsigned(1)}, pin \in {4, 7}} \cup
  {Some(<<Output(light, "gpio", Null), OnPin(Output(light, "gpio", Null), 5)>>),
   Some(<<Malformed(Output(light, "gpio", Null))>>)}

Action(id, outs, values) == [id |-> id, shape |-> "whole", outputs |-> outs, values |-> values]
Shaped(shape) == [Action(turn_on, <<>>, <<>>) EXCEPT !.shape = shape]

ActionLists ==
  {Absent, Some(<<>>)} \cup
  {Some(<<Action(turn_on, <<light>>, <<v>>)>>) :
     v \in Singles \cup {Object("int", Unsigned(2), Null), Object("percent", Null, Null)}} \cup
  {Some(<<Action(turn_on, <<light, heater>>, <<v, String("on", <<>>)>>),
          Action(turn_off, <<heater, light>>, <<String("off", <<>>), v>>)>>) :
     v \in {Unsigned(1), String("off", <<>>)}} \cup
  {Some(<<Action(turn_on, <<>>, <<>>), Shaped("whole")>>),
   Some(<<Action(turn_on, <<light>>, <<>>)>>),
   Some(<<Shaped("malformed")>>), Some(<<Shaped("id_no_string")>>)}

Event(name, day, time) ==
  [name |-> name, day |-> day, time |-> time, actions |-> {turn_on}, whole |-> TRUE]

EventLists ==
  {Absent, Wrong, Some(<<>>),
   Some(<<[Event(dawn, 0, 0) EXCEPT !.whole = FALSE]>>),
   Some(<<[Event(dawn, 0, 0) EXCEPT !.actions = {turn_off}]>>),
   Some(<<Event(dawn, 0, 1), Event(dawn, 1, 1)>>)} \cup
  {Some(<<Event(dawn, d, t), Event(dusk, 1, 1), Event(turn_off, e, 0)>>) :
     d \in {0, 1, 14}, t \in 0 .. 1, e \in {0, 2}}

File(outs, acts, title, evs, start, end, repeating, period) ==
  [readable |-> TRUE, outputs |-> outs, actions |-> acts, title |-> title, events |-> evs,
   start |-> start, end |-> end, repeating |-> repeating, period |-> period]

OneOutput == Some(<<Output(light, "gpio", Null)>>)
OneAction == Some(<<Action(turn_on, <<light>>, <<String("on", <<>>)>>)>>)
OneEvent == Some(<<Event(dawn, 1, 0)>>)

MCFiles ==
  {File(outs, acts, Absent, OneEvent, Absent, Absent, Absent, Absent) :
     outs \in OutputLists, acts \in ActionLists} \cup
  {File(OneOutput, OneAction, Some("title"), evs, start, end, repeating, period) :
     evs \in EventLists, start \in {Absent, Some(0), Some(1), Wrong},
     end \in {Absent, Some(0), Some(1), Some(3)}, repeating \in {Absent, Some(FALSE)},
     period \in {Absent, Some(1), Some(4), Some(12)}} \cup
  {File(OneOutput, OneAction, title, OneEvent, Absent, end, repeating, period) :
     title \in {Absent, Wrong}, end \in {Absent, Wrong}, repeating \in {Some(TRUE), Wrong},
     period \in {Absent, Wrong}} \cup
  {[File(Absent, Absent, Absent, Absent, Absent, Absent, Absent, Absent) EXCEPT !.readable = FALSE]}

=============================================================================
