CONSTANTS
  Profiles = {f1}
  MaxRequests = 3
  Providers = 3
SPECIFICATION GeoFairSpec
INVARIANTS
  GeoTypeOK
  AsksEveryProvider
PROPERTIES
  WritesOnce
  LookupEnds
\* Once every test has had its lookup nothing is left to do.
CHECK_DEADLOCK FALSE
