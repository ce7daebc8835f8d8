SPECIFICATION Spec
CONSTANTS
  t1 = t1
  t2 = t2
  w1 = w1
  c1 = c1
  conv = conv
  NoTask = NoTask
  Tasks = {t1, t2}
  Workers = {w1}
  Callers = {c1}
  ConvOf <- OneConversation
  MaxRequeue = 1
  MaxCopies = 1
  MaxFaults = 0
INVARIANT OneActiveTask
