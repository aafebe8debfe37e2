CONSTANTS
  None = None
  Backoff <- CyclesOfBackoff
  Archive <- ArchiveDays
  InstallDay = 2
  MaxMessages = 4
  LastDay = 3
  Poisons <- PoisonChoices
  PageSize = 1
  Limit = 1
  Cap = 1
  WindowDays = 1
  StopAfter = 2
  MaxDeletes = 1
  MaxFaults = 1
  MaxExpiries = 1
SPECIFICATION FairSpec
INVARIANT NothingForgotten
PROPERTIES NewMailArrives BackfillEnds
