CONSTANTS
  Val = {a, b}
  MaxPages = 1
  Recs = {r}
  StoreIds = {s1}
  None = None
  MaxCaptures = 3
  OutboxCap = 3
  MaxCrashes = 1
  MaxDamage = 1
  MaxMismatches = 1
  MaxFiles = 9
SPECIFICATION FairSpec
CHECK_DEADLOCK FALSE
PROPERTIES PublishesSnapshots OutboxDrains
