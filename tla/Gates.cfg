SPECIFICATION Spec
CONSTANTS
  SecretClasses <- MCSecretClasses
  Agents <- MCAgents
  Servers <- MCServers
  Policies <- MCPolicies
  MaxTurns = 3
  MaxEvolutions = 1
INVARIANTS
  FlowsTraced
  CorpusVerdicts
  SchemaSound
  
CHECK_DEADLOCK FALSE
