\* printTime on eleven parsed entries at local times around month, year and
\* leap-day boundaries.
CONSTANTS
  EOF = EOF
  MAX_TEMPSTR = 100
  MaxCarry = 3
  Entries <- MCEntries
  Starts <- MCStarts
SPECIFICATION Spec
\* printTime returns (done, throw, fail); MonthMiss stops at MaxCarry.
CHECK_DEADLOCK FALSE
PROPERTY NextRunRefinement
