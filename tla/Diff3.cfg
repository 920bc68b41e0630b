SPECIFICATION Spec
CONSTANTS
  Line = {"p", "q"}
  MaxLines = 3
INVARIANTS
  TypeOK
  DiffsAreShortest
  CleanMerges
  EditsAreKept
PROPERTIES
  Terminates
CHECK_DEADLOCK FALSE
