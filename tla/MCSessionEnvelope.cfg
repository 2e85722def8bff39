\* Two threads, one of which may be a second late in taking the lock.
SPECIFICATION Spec
CONSTANTS
  t1 = t1  t2 = t2
  Threads = {t1, t2}
  Callers <- MCCallers
  Thresholds <- MCThresholds
  Fallback <- MCFallback
  NoCall = NoCall
  Lag = 1
  MaxClock = 3
  MaxCalls = 5
SYMMETRY Interchangeable
INVARIANTS
  TypeOK
  RollingLimit
  WindowLimit
PROPERTIES
  DenialJustified
  ImplementsCallCounter
