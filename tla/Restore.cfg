CONSTANTS
  c1 = c1
  c2 = c2
  Manifested = {c1, c2}
  Legacy = {old}
  Depth <- DepthDef
  Live = Live
  None = None
  MaxFailures = 1
SPECIFICATION Spec
CHECK_DEADLOCK FALSE
INVARIANTS RestoresNewest NoneMeansNone SkipsOnlyBroken
PROPERTY Terminates
