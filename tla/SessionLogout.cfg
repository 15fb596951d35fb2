SPECIFICATION Spec
CONSTANTS
  p1 = p1
  t1 = t1
  r1 = r1
  r2 = r2
  f1 = f1
  f2 = f2
  None = None
  Persons = {p1}
  Tokens = {t1}
  Requests = {r1}
  Refreshers = {f1}
  SessionDuration = 3
  IdleDuration = 1
  Zone = 0
  MaxTime = 1
PROPERTIES
  LogoutClearsCookie
CHECK_DEADLOCK FALSE
