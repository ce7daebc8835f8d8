SPECIFICATION Spec
CONSTANTS
  a = a
  b = b
  None = None
  Conversations = {a, b}
  MaxActivations = 4
  MaxFaults = 1
SYMMETRY Symmetry
CHECK_DEADLOCK FALSE
INVARIANTS
  TypeOK
  MessagesAreTheRoutes
  OneSocket
