SPECIFICATION SessionSpec
CONSTANTS
  t1 = t1
  w1 = w1
  c1 = c1
  conv = conv
  NoTask = NoTask
  NoView = NoView
  Tasks = {t1}
  Workers = {w1}
  Callers = {c1}
  ConvOf <- OneConversation
  MaxRequeue = 1
  MaxCopies = 0
  MaxFaults = 0
PROPERTY StatusTransitions
