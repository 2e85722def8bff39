\* Two threads: two purges of the cache, an exception that invoke does not expect.
SPECIFICATION Spec
CONSTANTS
  j1 = j1  j2 = j2  j3 = j3
  NoJti = NoJti  NoKey = NoKey  NoRequest = NoRequest
  Threads = {"t1", "t2"}
  Jtis = {j1, j2}
  Tokens <- MCThreadTokens
  Proofs <- MCErrorProofs
  FreshnessWindow = 1
  MaxClock = 3
INVARIANTS
  OnlyAllowOrDeny
