CONSTANTS
  MaxRestarts = 2
  MaxChanges = 5
  MaxFailures = 2
SPECIFICATION Spec
CHECK_DEADLOCK FALSE
PROPERTIES OutageNeverFills BrokenSurfaces HoldEnds
