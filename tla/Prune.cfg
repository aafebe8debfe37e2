CONSTANTS
  Val = {a}
  MaxPages = 3
  Recs = {r}
  StoreIds = {s1}
  None = None
  MaxCaptures = 3
  OutboxCap = 9
  MaxCrashes = 1
  MaxDamage = 1
  MaxMismatches = 2
  MaxFiles = 9
SPECIFICATION PruneSpec
SYMMETRY Symmetry
CONSTRAINT OneFault
CHECK_DEADLOCK FALSE
PROPERTIES NewestPointKept RetentionKeptUncrashed SuccessorRestorable
