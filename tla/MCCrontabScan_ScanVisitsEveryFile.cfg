\* An @daily or a good crontab, then a good one, read at 00:00 or 10:00 on 31 Jan.
CONSTANTS
  EOF = EOF
  NIL = NIL
  NoDir = NoDir
  MAX_TEMPSTR = 100
  MAX_COMMAND = 1000
  MAX_ENVSTR = 1000
  MallocMayFail = FALSE
  MaxFds = 2
  MaxCarry = 3
  Dirs <- MCDirsThrow
  Starts <- MCStartsThrow
  Passwd <- MCPasswd

SPECIFICATION Spec

\* main returns when the scan ends: that state has no successor.
CHECK_DEADLOCK FALSE

INVARIANT
  ScanVisitsEveryFile
