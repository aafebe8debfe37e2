CONSTANTS
  Val = {a, b}
  MaxPages = 2
  Recs = {r}
  StoreIds = {s1}
  None = None
  MaxCaptures = 3
  OutboxCap = 4
  MaxCrashes = 1
  MaxDamage = 1
  MaxMismatches = 2
  MaxFiles = 9
SPECIFICATION Spec
SYMMETRY Symmetry
CHECK_DEADLOCK FALSE
INVARIANTS RestoreExact OnePointPerSeq InflightMatches JournalBacked CaptureMissesNothing StateBacked NoNeedlessDiscard NoDeleteInUse
PROPERTY NothingDropped
