\* Two threads serve three requests; the process may restart.
SPECIFICATION Spec
CONSTANTS
  t1 = t1  t2 = t2
  UserTenant <- MCUserTenant
  RecordTenant <- MCRecordTenant
  AgentActions <- MCAgentActions
  MaxAmount = 1
  Threads = {t1, t2}
  Requests <- MCRequests
  Limits <- MCLimits
  Nothing = Nothing
  MaxRequests = 3
SYMMETRY Interchangeable
INVARIANTS
  TypeOK
  TrailTellsAnswer
  EntriesNameOwner
  AllowedIsAuthorised
  CountsPermittedOnly
PROPERTIES
  ImplementsCallCounter
