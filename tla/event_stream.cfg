SPECIFICATION FairSpec
CONSTANTS
  e1 = e1
  e2 = e2
  Emitters = {e1, e2}
  ReplayLimit = 2
  MaxEvents = 3
  MaxFaults = 1
CHECK_DEADLOCK FALSE
INVARIANTS
  CaughtUp
  TextAtMostTwice
PROPERTY EventuallySeen
