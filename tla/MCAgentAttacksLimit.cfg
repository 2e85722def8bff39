\* An attack and the control case, where Gate 3's limit is what denies.
SPECIFICATION FairSpec
CONSTANTS
  Actions = {"readRecord", "updateRecord"}
  Resources = {"rec-001", "rec-002"}
  Requests <- MCRequests
  Any = Any
  Corpus <- MCCorpus
  Chain <- MCLimitChain
  Limits <- MCLimits
  MaxCalls <- MCMaxCalls
INVARIANTS
  TypeOK
  VerdictIsExact
  SafeMeansSafe
  CleanSlate
  AccountsAgree
PROPERTIES
  ScriptEnds
\* The script ends, and so do the calls it has made.
CHECK_DEADLOCK FALSE
