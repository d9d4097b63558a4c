\* Two crontabs and one free descriptor.
CONSTANTS
  EOF = EOF
  NIL = NIL
  NoDir = NoDir
  MAX_TEMPSTR = 100
  MAX_COMMAND = 1000
  MAX_ENVSTR = 1000
  MallocMayFail = FALSE
  MaxFds = 1
  MaxCarry = 3
  Dirs <- MCDirsLeak
  Starts <- MCStarts
  Passwd <- MCPasswd

SPECIFICATION Spec

\* main returns when the scan ends: that state has no successor.
CHECK_DEADLOCK FALSE

INVARIANT
  ReadableFilesOpened
