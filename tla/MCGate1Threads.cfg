\* Two threads share the replay cache; the process may restart.
SPECIFICATION FairSpec
CONSTANTS
  j1 = j1  j2 = j2  j3 = j3
  NoJti = NoJti  NoKey = NoKey  NoRequest = NoRequest
  Threads = {"t1", "t2"}
  Jtis = {j1, j2}
  Tokens <- MCThreadTokens
  Proofs <- MCThreadProofs
  FreshnessWindow = 1
  MaxClock = 3
INVARIANTS
  FreshIsRemembered
PROPERTIES
  ImplementsReplayGuard
  EveryRequestAnswered
