SPECIFICATION PassSpec
CONSTANTS
  LayerBegin = 0
  LayerEnd = 5
  NBuffers = 3
  NRoles = 1
  MaxCalls = 13
INVARIANTS
  JobsBounded
  NextIsOnItsWay
  StatsUnshared
PROPERTIES
  NoWastedRead
