SPECIFICATION Spec
CONSTANTS
  Limit <- OnePeriod
  Backoff <- OneThenTwo
  Span = 2
  Short = 3
  PerDay = 0
  MaxNow = 8
  MaxHead = 2
  MaxDeaths = 0
  MaxManual = 0
  MaxVerdicts = 0
  MaxUnblocked = 0
CONSTRAINT Instances
INVARIANT ToolingRetried
