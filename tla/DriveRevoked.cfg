CONSTANTS
  None = None
  Drives = {d1, d2}
  Files = {f1}
  MaxEvents = 1
  MaxAccess = 2
  MaxFaults = 1
  Oldest = 0
  Threshold = 2
SPECIFICATION FairSpec
PROPERTY RevokedGoes
