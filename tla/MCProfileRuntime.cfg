CONSTANTS
  Profiles = {p1}
  Procs = {q1, q2}
  FileKinds = {"extension"}
  ObjectKinds = {"mapper"}
  MaxKillTimers = 2
  None = None
SPECIFICATION FairSpec
INVARIANTS
  TypeOK
  OneBrowserPerProfile
  ResourcesTracked
  StoppedMeansGone
  DestroyLeavesNoFile
PROPERTIES
  BrowserKeepsItsResources
  StoppedIsNotRelaunched
  StopEndsBrowser
\* After Destroy, or when the Procs are used up, nothing is left to do.
CHECK_DEADLOCK FALSE
