\* load_entry with the macros.h buffer sizes; every allocation, the
\* entry's unchecked calloc included, may fail.
CONSTANTS
  EOF = EOF
  NIL = NIL
  MAX_TEMPSTR = 100
  MAX_COMMAND = 1000
  MAX_ENVSTR = 1000
  MallocMayFail = TRUE
  CallocMayFail = TRUE
  Files <- MCFiles
  Passwd <- MCPasswd

SPECIFICATION Spec

\* load_entry returns, or the process dies: that state has no successor.
CHECK_DEADLOCK FALSE

INVARIANT
  EntryOwnership
