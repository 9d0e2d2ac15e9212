SPECIFICATION Spec
CONSTANTS
  Limit = 2
  Backoff <- OneThenTwo
  MarkerCap = 2
  Span = 1
  PassSpan = 1
  Short = 3
  MaxNow = 8
  MaxTries = 3
  MaxDeaths = 1
  MaxManual = 1
  MaxHung = 1
  MaxTriggers = 2
CONSTRAINT Instances
INVARIANTS
  BudgetKept
  EscalationEarned
  NoLongSilence
