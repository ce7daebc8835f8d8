SPECIFICATION Spec
CONSTANTS
  Attempts = 2
  Questions <- MCQuestions
  Plans <- MCPlans
  Todays <- MCTodays
INVARIANTS
  OnlySafeExecuted
  AnswerFits
  PeriodsCompared
PROPERTY
  ToolEnds
