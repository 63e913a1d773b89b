CONSTANTS
  Tokens <- MCTokens
  Hosts <- MCHosts
  Paths <- MCPaths
  Urls <- MCUrls
  Defaults <- MCDefaults
  Requests = {0, 2}
  none = none
  MaxInt = 7
  Steps = 3
  Mantissa = 4
  Ulps = {1, 2, 4, 8}
  Unit = 4
  MaxLate = 1
SPECIFICATION FairSpec
INVARIANTS AcknowledgedIsShown InRange SplitsAsWritten
PROPERTIES RetryIsTaken
