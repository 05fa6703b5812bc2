CONSTANTS
  Profiles = {p1}
  HeaderBytes = 1
  BodyBytes = 1
  Tests = {t1}
  Urls = 3
  MaxEvents = 3
SPECIFICATION FairSpec
INVARIANTS
  TypeOK
  OneOpenVpn
  PasswordFiles
  FramesWhole
  ResultToAsker
  RunningIsRunning
PROPERTIES
  KillsOnlyStopped
  CallsSettled
  Reconnects
\* The user may stop asking.
CHECK_DEADLOCK FALSE
