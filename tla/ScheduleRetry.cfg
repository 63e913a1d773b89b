CONSTANTS
  aquarium = aquarium
  light = light
  pump = pump
  NoTitle = NoTitle
  Titles <- MCTitles
  Events <- SharedEvents
  Files <- OneDayFiles
  Outputs <- MCOutputs
  Breakable = {pump}
  MinutesPerDay = 2
  LastDay = 1
  TicksPerMinute = 4
  MidnightReads = FALSE
SPECIFICATION Spec
INVARIANT OutputsFollowSchedule
