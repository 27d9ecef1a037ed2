\* Is a plan that has what the policy asks for accepted?
SPECIFICATION Spec
CONSTANTS
  logs = logs
  admin = admin
  None = None
  Name <- Names
  NoValue = None
  Path <- Paths
  Pruned = {"reusable-codeql.yaml"}
  Ignored = {".venv"}
  Text <- Texts
  BadName = {"bad-tag", "bad-other"}
  Absent = None
  MalformedEntry = MalformedEntry
  Setups <- LaterPlans
INVARIANT
  CompliantPlanPasses
CHECK_DEADLOCK FALSE
