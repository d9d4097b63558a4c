\* The directory scan over directories of up to three entries, with two
\* free descriptors, so that the third file meets EMFILE.
CONSTANTS
  EOF = EOF
  NIL = NIL
  NoDir = NoDir
  MAX_TEMPSTR = 100
  MAX_COMMAND = 1000
  MAX_ENVSTR = 1000
  MallocMayFail = TRUE
  MaxFds = 2
  MaxCarry = 3
  Dirs <- MCDirs
  Starts <- MCStarts
  Passwd <- MCPasswd

SPECIFICATION Spec

\* main returns when the scan ends: that state has no successor.
CHECK_DEADLOCK FALSE

PROPERTY
  LoaderRefinement
