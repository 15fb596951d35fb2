SPECIFICATION FairSpec
CONSTANTS
  j1 = j1
  j2 = j2
  j3 = j3
  j4 = j4
  j5 = j5
  None = None
  EmptyName = ""
  NilArgs = {}
  MaxDuration = 31
  Jobs = {j1, j2}
  NameOf <- TwoNames
  ScheduleOf <- PeriodicAndOnce
  Callers = {"c1", "c2"}
  Deadlines = {"c1"}
  Hook = "cancelParent"
  WallSteps = {}
  MaxTime = 2
INVARIANTS
  TypeOK
  WaitGroupCounts
  DrainedIsQuiet
  FatalEscalates
  HookBeforeCancel
  KeepsSchedule
PROPERTIES
  KeepsPromise
  CancelledDrains
  ShutdownReturns
  DueJobProceeds
CHECK_DEADLOCK FALSE
