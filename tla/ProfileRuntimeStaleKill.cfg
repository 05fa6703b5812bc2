CONSTANTS
  Profiles = {p1}
  Procs = {q1, q2}
  FileKinds = {"extension"}
  ObjectKinds = {"mapper"}
  MaxKillTimers = 2
  None = None
SPECIFICATION Spec
PROPERTY KilledOnlyIfStopped
CHECK_DEADLOCK FALSE
