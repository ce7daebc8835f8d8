SPECIFICATION Spec
CONSTANTS
  t1 = t1
  w1 = w1
  w2 = w2
  c1 = c1
  conv = conv
  NoTask = NoTask
  Tasks = {t1}
  Workers = {w1, w2}
  Callers = {c1}
  ConvOf <- OneConversation
  MaxRequeue = 1
  MaxCopies = 2
  MaxFaults = 1
SYMMETRY Symmetry
INVARIANTS
  TypeOK
  OneExecutor
  ExecutorOwnsTask
  RunningHasExecutor
  SuccessIsComplete
  QueuedNotCancelRequested
  CancelNotLost
  CancelledWasAsked
  LogMatchesRow
PROPERTY Lifecycle
