SPECIFICATION Spec
CONSTANTS
  Limit <- OnePeriod
  Backoff <- OneThenTwo
  Span = 2
  Short = 3
  PerDay = 1
  MaxNow = 8
  MaxHead = 2
  MaxDeaths = 1
  MaxManual = 1
  MaxVerdicts = 1
  MaxUnblocked = 1
CONSTRAINT Instances
INVARIANTS
  OncePerTrigger
  
  BackoffKept
  
