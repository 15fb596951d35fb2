SPECIFICATION ClientFairSpec
CONSTANTS
  p1 = p1
  t1 = t1
  t2 = t2
  r1 = r1
  r2 = r2
  b1 = b1
  None = None
  Persons = {p1}
  Tokens = {t1, t2}
  Requests = {r1, r2}
  Tabs = {b1}
  BrowserOf <- OneTab
INVARIANTS
  ClientTypeOK
  SignedOutStaysOut
PROPERTIES
  GuardsDecideOnCurrent
  NavigationSettles
CONSTRAINT DrawnInOrder
CHECK_DEADLOCK FALSE
