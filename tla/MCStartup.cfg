SPECIFICATION Spec
CONSTANTS
  nodes = nodes
  status_history = status_history
  secrets = secrets
  agent_token = agent_token
  jwt_secret = jwt_secret
  Servers = {s1, s2}
  Tables <- MCTables
  Added <- MCAdded
  Keys <- MCKeys
  SignKey = jwt_secret
  None = None
  Never = Never
  Given = Given
  TTL = 1
  MaxSecret = 3
  MaxStarts = 3
  MaxTime = 2
CHECK_DEADLOCK FALSE
INVARIANTS
  SchemaIsComplete
  OpensAlone
  CredentialsLast
