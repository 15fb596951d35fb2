SPECIFICATION FairSpec
CONSTANTS
  p1 = p1
  t1 = t1
  r1 = r1
  r2 = r2
  f1 = f1
  f2 = f2
  None = None
  Persons = {p1}
  Tokens = {t1}
  Requests = {r1, r2}
  Refreshers = {f1, f2}
  SessionDuration = 1
  IdleDuration = 0
  Zone = 0
  MaxTime = 2
INVARIANTS
  TypeOK
  LogoutIsFinal
PROPERTIES
  CeilingHolds
  IdleWindowCloses
  LapsedIsFinal
  CleanupSparesUsable
  ExpiredRowsGo
  KeepsService
CHECK_DEADLOCK FALSE
