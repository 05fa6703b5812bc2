CONSTANTS
  Profiles = {f1, f2}
  MaxRequests = 2
  Providers = 2
  MaxConcurrent = 1
  MaxBatches = 2
SPECIFICATION FairSpec
INVARIANTS
  TypeOK
  BatchAtWork
PROPERTIES
  OnlyNewestTestCounts
  GeoOfRecordedTest
  BatchEnds
