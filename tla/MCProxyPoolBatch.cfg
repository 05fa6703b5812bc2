CONSTANTS
  Proxies = {x1, x2, x3}
  Profiles = {f1}
  MaxConcurrent = 2
  MaxBatches = 2
  None = None
SPECIFICATION FairSpec
INVARIANTS
  TypeOK
  BatchAtWork
PROPERTIES
  OnlyNewestTestCounts
  BatchEnds
