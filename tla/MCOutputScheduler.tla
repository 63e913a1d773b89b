------------------------- MODULE MCOutputScheduler -------------------------
(* Instances of OutputScheduler: three outputs, actions that overlap.        *)
EXTENDS OutputScheduler

CONSTANTS light, filter, heater, lights_on, lights_off, maintenance, unknown

MCOutputs == {light, filter, heater}

MCIds == {lights_on, lights_off, maintenance, unknown}
MCRegistered == {lights_on, lights_off, maintenance}

\* "maintenance" names the light twice, as a file may.
MCControls ==
  lights_on :> <<[output |-> light, value |-> "on"], [output |-> heater, value |-> "on"]>>
  @@ lights_off :> <<[output |-> light, value |-> "off"]>>
  @@ maintenance :> <<[output |-> filter, value |-> "off"], [output |-> light, value |-> "on"],
                      [output |-> heater, value |-> "off"], [output |-> light, value |-> "off"]>>

=============================================================================
