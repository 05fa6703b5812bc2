CONSTANTS
  Profiles = {f1}
  MaxRequests = 2
  Providers = 3
SPECIFICATION GeoSpec
PROPERTY GeoFollowsNewestTest
CHECK_DEADLOCK FALSE
