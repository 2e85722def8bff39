\* One thread: a request that raises by itself what invoke does not expect.
SPECIFICATION Spec
CONSTANTS
  j1 = j1  j2 = j2  j3 = j3
  NoJti = NoJti  NoKey = NoKey  NoRequest = NoRequest
  Threads = {"t1"}
  Jtis = {j1, j2}
  Tokens <- MCThreadTokens
  Proofs <- MCFaultyProofs
  FreshnessWindow = 1
  MaxClock = 3
INVARIANTS
  OnlyAllowOrDeny
