SPECIFICATION Spec
CONSTANTS
  Files <- MCFiles
  Endings <- MCEndings
  Reads = {300}
INVARIANT
  OnlyEndOfFileEndsTheFile
CHECK_DEADLOCK FALSE
