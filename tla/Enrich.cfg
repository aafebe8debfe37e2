CONSTANTS
  None = None
  Chunks = {1, 2, 3}
  Content <- MCContent
  Carried = {1, 2, 3}
  Late = {3}
  Gated = {2}
  ThreadOf <- MCThreadOf
  KeyOf <- MCKeyOf
  Workers = {w1, w2}
  CharBudget = 1
  UnitBudget = 3
  ThreadCap = 2
  Cap = 2
  Window = 2
  MaxEdits = 1
  MaxFaults = 1
SPECIFICATION FairSpec
INVARIANTS MarkedWasRead ColdNotConsumed
PROPERTY AllEnriched
