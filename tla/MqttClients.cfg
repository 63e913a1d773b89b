CONSTANTS
  Names = {1, 2}
  Ports = {1, 2}
  MaxOutputs = 3
SPECIFICATION FairSpec
INVARIANTS ClientPerBroker RefusedOnlyCrossed OneThread
PROPERTY StopReturns
