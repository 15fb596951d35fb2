SPECIFICATION Spec
CONSTANTS
  MaxDuration = 12
  Universe <- MCUniverse
  Instants <- MCInstants
  MaxCalls = 4
INVARIANTS
  FirstMissedSlotSkipped
  StrictlyAfter
  SteppedBackStaysNear
  
CHECK_DEADLOCK FALSE
