CONSTANTS
  Profiles = {p1}
  Procs = {q1, q2}
  FileKinds = {"extension"}
  ObjectKinds = {"mapper"}
  MaxKillTimers = 2
  None = None
SPECIFICATION FairSpec
PROPERTY StopIsAnswered
CHECK_DEADLOCK FALSE
