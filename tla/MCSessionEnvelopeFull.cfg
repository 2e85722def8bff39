\* The whole window, with a thread that may be a second late.
SPECIFICATION Spec
CONSTANTS
  t1 = t1  t2 = t2
  Threads = {t1, t2}
  Callers <- MCOneCaller
  Thresholds <- MCThresholds
  Fallback <- MCFallback
  NoCall = NoCall
  Lag = 1
  MaxClock = 3
  MaxCalls = 5
SYMMETRY Interchangeable
INVARIANTS
  FullWindowLimit
