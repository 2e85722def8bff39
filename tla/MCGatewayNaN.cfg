\* An amount that is not a number.
SPECIFICATION Spec
CONSTANTS
  t1 = t1  t2 = t2
  UserTenant <- MCUserTenant
  RecordTenant <- MCRecordTenant
  AgentActions <- MCAgentActions
  MaxAmount = 1
  Threads = {t1}
  Requests <- MCNaNRequests
  Limits <- MCLimits
  Nothing = Nothing
  MaxRequests = 2
INVARIANT
  PassedAmountsInBounds
