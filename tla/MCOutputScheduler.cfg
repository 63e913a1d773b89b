CONSTANTS
  light = light
  filter = filter
  heater = heater
  lights_on = lights_on
  lights_off = lights_off
  maintenance = maintenance
  unknown = unknown
  Outputs <- MCOutputs
  Ids <- MCIds
  Registered <- MCRegistered
  Controls <- MCControls
  MaxBatch = 3
SPECIFICATION Spec
INVARIANTS OptimizedAsInTurn AcknowledgedTookEffect
PROPERTY AtomicForTheCaller
