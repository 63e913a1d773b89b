CONSTANTS
  aquarium = aquarium
  light = light
  pump = pump
  NoTitle = NoTitle
  Titles <- MCTitles
  Events <- OneDayEvents
  Files <- OneDayFiles
  Outputs <- MCOutputs
  Breakable = {light}
  Operated = {light}
  MinutesPerDay = 2
  LastDay = 1
  TicksPerMinute = 0
  MidnightReads = FALSE
SPECIFICATION FairPanelSpec
INVARIANT ReleasedFollowsSchedule
PROPERTIES EventuallyProcessed RepeatingComesBack
