\* The whole of Tier 1, with and without the envelope; the script ends.
SPECIFICATION Spec
CONSTANTS
  UserTenant <- MCUserTenant
  RecordTenant <- MCRecordTenant
  AgentActions <- MCAgentActions
  MaxAmount = 10000
  Agent = "invoice-agent-v2"
  Limits <- MCLimits
CHECK_DEADLOCK FALSE
INVARIANTS
  TypeOK
  DeniedWhereIntended
  BurstDeniedFromItsCall
  ReportAgrees
