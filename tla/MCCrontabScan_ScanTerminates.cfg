\* A crontab whose entry runs in January only.
CONSTANTS
  EOF = EOF
  NIL = NIL
  NoDir = NoDir
  MAX_TEMPSTR = 100
  MAX_COMMAND = 1000
  MAX_ENVSTR = 1000
  MallocMayFail = FALSE
  MaxFds = 2
  MaxCarry = 3
  Dirs <- MCDirsJan
  Starts <- MCStarts
  Passwd <- MCPasswd

SPECIFICATION Spec

\* main returns when the scan ends: that state has no successor.
CHECK_DEADLOCK FALSE

PROPERTY
  ScanTerminates
