\* One thread: requests that do not overlap.
SPECIFICATION Spec
CONSTANTS
  j1 = j1  j2 = j2  j3 = j3
  NoJti = NoJti  NoKey = NoKey  NoRequest = NoRequest
  Threads = {"t1"}
  Jtis = {j1, j2, j3}
  Tokens <- MCSerialTokens
  Proofs <- MCSerialProofs
  FreshnessWindow = 2
  MaxClock = 6
INVARIANTS
  TypeOK
  SingleUse
  RaisesForCause
