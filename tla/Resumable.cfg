CONSTANTS
  None = None
  Size = 3
  MaxMismatches = 2
  MaxSessions = 5
  MaxFaults = 4
SPECIFICATION FairSpec
CHECK_DEADLOCK FALSE
INVARIANTS OffsetIsDrives SentIsCaptured NoStrayFile
PROPERTY UploadEnds
