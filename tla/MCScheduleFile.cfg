CONSTANTS
  light = light
  heater = heater
  turn_on = turn_on
  turn_off = turn_off
  dawn = dawn
  dusk = dusk
  OutputIds <- MCOutputIds
  ActionIds <- MCActionIds
  Files <- MCFiles
  Lines <- MCLines
  WordSize = 16
  LastDay = 6
SPECIFICATION Spec
INVARIANTS PinsOwned ActionsFit EventsInOrder EventsFitRun
PROPERTY PeriodKeeps
