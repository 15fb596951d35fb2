SPECIFICATION AppFairSpec
CONSTANTS
  j1 = j1
  j2 = j2
  None = None
  EmptyName = ""
  NilArgs = {}
  Callers = {"main"}
  Deadlines = {"main"}
  Hook = "cancelParent"
  WallSteps = {}
  MaxDuration = 31
  MaxTime = 1
  Jobs = {j1, j2}
  NameOf <- TwoNames
  ScheduleOf <- CleanupAndOnce
  Requests = {"r1"}
  AppEnv = ""
INVARIANTS
  AppTypeOK
  CleanExit
  ExitTellsCause
  JobsBeforeHttp
PROPERTIES
  ShutdownEnds
  FatalEndsProcess
CHECK_DEADLOCK FALSE
