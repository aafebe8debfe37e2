CONSTANTS
  ann = ann
  bob = bob
  acme = acme
  apex = apex
  worksAt = worksAt
  knows = knows
  Blank = ""
  Ent = {ann, bob, acme, apex}
  Singletons = {worksAt}
  Accumulating = {knows}
  Orgs = {"", "x", "y"}
  Initial <- MCInitial
  Requests <- MCRequests
  Sightings <- MCSightings
  Mergeable <- MCMergeable
  MaxEntries = 3
  MaxOthers = 2
  MaxTogether = 6
  Touched = {apex}
  PendingCap = 1
SPECIFICATION Spec
INVARIANTS AsCorrected FactsAsCorrected AsIfNever
CHECK_DEADLOCK FALSE
