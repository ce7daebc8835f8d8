SPECIFICATION Spec
CONSTANTS
  f1 = f1
  f2 = f2
  u1 = u1
  u2 = u2
  c1 = c1
  c2 = c2
  r1 = r1
  k1 = k1
  k2 = k2
  Flows <- MCFlows
  Subjects <- MCSubjects
  Callbacks <- MCCallbacks
  Requests <- MCRequests
  Conversations <- MCConversations
  StateTTL = 2
  SessionTTL = 2
  TokenTTL = 1
  MaxTime = 4
SYMMETRY Symmetry
INVARIANTS
  OneLoginPerState
  SessionOfItsFlow
  LoggedOutStaysOut
  TokenOpensOnce
CHECK_DEADLOCK FALSE
