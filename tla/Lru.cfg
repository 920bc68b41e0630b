SPECIFICATION Spec
CONSTANTS
  Item <- MCItem
  Memory = {"m", "n"}
  Key <- MCKey
  ZeroHash = "none"
  HashOf <- MCHashOf
  SizeOf <- MCSizeOf
  Sizes = {0, 1, 2, 3}
  Elem = {e1, e2, e3}
  MaxSize = 2
  MaxDrift = 1
SYMMETRY MCSymmetry
INVARIANTS
  TypeOK
  ListMatchesMap
  NeverExceeded
PROPERTIES
  EvictsOldest
