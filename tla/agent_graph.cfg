SPECIFICATION Spec
CONSTANTS
  Null = Null
  Inf = Inf
  Text = Text
  ItemsPerDimension = 2
  RisksCited = 1
  MetricsCited = 1
  DeclinesNamed = 1
  RisksNamed = 1
  MaxTrouble = 3
  MaxAttempts = 3
  Requests <- MCRequests
  Stressed <- MCStressed
INVARIANTS
  RepairedUnlessEmpty
  ConfirmedIsBacked
  BreakdownAddsUp
  EventsPaired
  AttemptBounded
PROPERTIES
  Contract
  CancelStopsReport
