CONSTANTS
  Stall = 3
  MaxStreak = 1
  MaxExits = 1
  MaxPauses = 1
  MaxFaults = 1
  MaxSlow = 1
SPECIFICATION FairSpec
PROPERTIES NoNeedlessRestart WedgeEnds GatedPassRuns
