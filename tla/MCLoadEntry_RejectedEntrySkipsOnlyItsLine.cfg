\* load_entry with the macros.h buffer sizes, allocations that may fail.
CONSTANTS
  EOF = EOF
  NIL = NIL
  MAX_TEMPSTR = 100
  MAX_COMMAND = 1000
  MAX_ENVSTR = 1000
  MallocMayFail = TRUE
  CallocMayFail = FALSE
  Files <- MCFiles
  Passwd <- MCPasswd

SPECIFICATION Spec

\* load_entry returns: the state after its return has no successor.
CHECK_DEADLOCK FALSE

INVARIANT
  RejectedEntrySkipsOnlyItsLine
