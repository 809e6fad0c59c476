SPECIFICATION Spec
CONSTANTS
  c1 = c1
  Channels = {c1}
  Intervals = {1}
  MaxTimers = 3
  MaxTime = 3
INVARIANTS TypeOK MapsAgree SetsFollowChannels
PROPERTIES RunsOnce QuitReturns
CHECK_DEADLOCK FALSE
