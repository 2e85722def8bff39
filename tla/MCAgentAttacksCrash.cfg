\* A run that crashes leaves a call behind.
SPECIFICATION Spec
CONSTANTS
  Actions = {"readRecord", "updateRecord"}
  Resources = {"rec-001", "rec-002"}
  Requests <- MCUpdateRequests
  Any = Any
  Corpus <- MCAttacks
  Chain <- MCPolicyChain
  Limits <- MCLimits
  MaxCalls <- MCMaxCalls
INVARIANTS
  NotAttemptedIsTrue
\* The script ends, and so do the calls it has made.
CHECK_DEADLOCK FALSE
