CONSTANTS
  aquarium = aquarium
  light = light
  pump = pump
  NoTitle = NoTitle
  Titles <- MCTitles
  Events <- MCEvents
  Files <- MCFiles
  Outputs <- MCOutputs
  Breakable = {pump}
  MinutesPerDay = 3
  LastDay = 4
  TicksPerMinute = 4
  MidnightReads = TRUE
SPECIFICATION Spec
INVARIANTS NoEarlyEvent ListedOnce
PROPERTIES NeverDropped NoMissedEvent AtMostOncePerRun
