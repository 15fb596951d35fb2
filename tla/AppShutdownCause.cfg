SPECIFICATION AppSpec
CONSTANTS
  j1 = j1
  j2 = j2
  None = None
  EmptyName = ""
  NilArgs = {}
  Callers = {"main"}
  Deadlines = {"main"}
  Hook = "cancelParent"
  WallSteps = {}
  MaxDuration = 31
  MaxTime = 1
  Jobs = {j1}
  NameOf <- OneName
  ScheduleOf <- Cleanup
  Requests = {"r1"}
  AppEnv = "production"
INVARIANT NormalShutdownIsTold
CHECK_DEADLOCK FALSE
