CONSTANTS
  None = None
  Drives = {d1, d2}
  Files = {f1}
  MaxEvents = 2
  MaxAccess = 2
  MaxFaults = 1
  Oldest = 1
  Threshold = 1
SYMMETRY Symmetry
SPECIFICATION Spec
INVARIANTS Covered NothingLingers
