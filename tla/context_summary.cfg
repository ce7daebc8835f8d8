SPECIFICATION Spec
CONSTANTS
  r1 = r1
  r2 = r2
  Runs = {r1, r2}
  MessageLimit = 2
  ContentLimit = 8
  MessageThreshold = 3
  CharThreshold = 24
  Retain = 1
  SummaryMax = 24
  PreviousMax = 8
  PrefixLen = 2
  MarkerLen = 3
  Lengths = {1, 13}
  MaxMessages = 7
SYMMETRY Symmetry
CHECK_DEADLOCK FALSE
INVARIANTS
  SummaryFits
  RecentGiven
PROPERTY ContextsGoForward
