SPECIFICATION Spec
CONSTANTS
  h1 = h1
  h2 = h2
  Handle = {h1, h2}
  Path = {"f"}
  Flags <- MCFlags
  Data <- MCData
  Offsets <- MCOffsets
  Sizes = {0, 1, 3}
  MaxLen = 3
  MaxId = 2
SYMMETRY HandleSymmetry
CONSTRAINT Explored
INVARIANTS
  TypeOK
  StoredAsWanted
PROPERTIES
  OnlyOwnRow
CHECK_DEADLOCK FALSE
