SPECIFICATION FairSpec
CONSTANTS
  Sessions <- MCSessions
  Owner <- MCOwner
  OneShot = {"script"}
  Lifetime = 2
  FreshnessWindow = 2
  Timeout = 1
  Skews <- MCSkews
  MaxClock = 3
  MaxCalls = 2
  NoSession = NoSession
INVARIANTS TypeOK RefusedForCause ExpiredForGood OwnCalls
PROPERTY EveryCallEnds
CHECK_DEADLOCK FALSE
