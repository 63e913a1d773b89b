------------------------- MODULE MCScheduleHandler -------------------------
(* Instances of ScheduleHandler: a day of three minutes, two outputs.        *)
EXTENDS ScheduleHandler, TLC

CONSTANTS aquarium, light, pump

Set(o, v) == [output |-> o, value |-> v]
At(d, m, cs) == [day |-> d, time |-> m, controls |-> cs]
File(t, rep, s, e, p) ==
  [title |-> t, repeating |-> rep, start |-> s, end |-> e, period |-> p, done |-> {}]

MCTitles == {aquarium}
MCOutputs == {light, pump}

\* A schedule of two days with an event in the first and in the last minute,
\* and an event that sets an output twice.
MCEvents ==
  aquarium :> << At(0, 0, <<Set(light, "on"), Set(pump, "on")>>),
                 At(0, 2, <<Set(light, "off")>>),
                 At(1, 1, <<Set(pump, "on"), Set(light, "on"), Set(pump, "off")>>) >>
  @@ NoTitle :> <<>>

\* Loaded without dates, with a start in the past of the bounded clock, with
\* both dates, and for one iteration that begins later.
MCFiles == {File(aquarium, TRUE, NoDay, NoDay, 2), File(aquarium, TRUE, 0, 1, 2),
            File(aquarium, FALSE, 1, 2, 2)}

\* A schedule of one day: each event controls one output.
OneDayEvents ==
  aquarium :> << At(0, 0, <<Set(light, "on")>>), At(0, 1, <<Set(light, "off")>>),
                 At(0, 1, <<Set(pump, "on")>>) >>
  @@ NoTitle :> <<>>
OneDayFiles == {File(aquarium, TRUE, NoDay, NoDay, 1), File(aquarium, FALSE, NoDay, NoDay, 1)}

\* An event on two outputs, and a later one on the first of them.
SharedEvents ==
  aquarium :> << At(0, 0, <<Set(light, "on"), Set(pump, "on")>>), At(0, 1, <<Set(light, "off")>>) >>
  @@ NoTitle :> <<>>

=============================================================================
