\* Does the exit code of verify.py say what its reader takes it to say?
SPECIFICATION Spec
CONSTANTS
  logs = logs
  admin = admin
  None = None
  Name <- Names
  NoValue = None
  Path <- Paths
  Pruned = {"reusable-codeql.yaml"}
  Ignored = {".venv"}
  Text <- Texts
  BadName = {"bad-tag", "bad-other"}
  Absent = None
  MalformedEntry = MalformedEntry
  Setups <- AllSetups
INVARIANTS
  IInv
  ZeroMeansEveryGate
  VerifyMeansClean
  PolicyIsLive
  FailureHasACause
  GatesUseVerifiedTools
  RegisteredRulesAreChecked
  TracebackIsNoRefusal
CHECK_DEADLOCK FALSE
