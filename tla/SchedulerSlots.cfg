SPECIFICATION Spec
CONSTANTS
  j1 = j1
  j2 = j2
  j3 = j3
  j4 = j4
  j5 = j5
  None = None
  EmptyName = ""
  NilArgs = {j5}
  MaxDuration = 31
  Jobs = {j1, j2, j3, j4, j5}
  NameOf <- SharedNames
  ScheduleOf <- OneOfEach
  Callers = {}
  Deadlines = {}
  Hook = "unset"
  WallSteps <- StepBothWays
  MaxTime = 3
INVARIANTS
  OneRunPerSlot
  NeverEarly
  OneShotRunsOnce
  RunnersAreRegistered
CHECK_DEADLOCK FALSE
