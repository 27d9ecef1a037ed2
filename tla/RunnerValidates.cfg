\* Is a green validation worth its color, whatever fails, hangs or is re-run?
SPECIFICATION FairSpec
CONSTANTS
  validate = validate
  ruff = ruff
  Name <- Names
  Content <- Contents
  Directory <- Directories
  Allowed <- Repos
  Source <- Sources
  Bad <- BadPaths
  LintJob = {ruff}
  Validate = validate
  Requests <- SomeRequests
  Runners <- SomeRunners
  MaxAttempts = 2
INVARIANTS
  IInv
  GreenMeansValid
  CIRunsOnAssembly
  FrameworkKept
PROPERTIES
  Concludes
CHECK_DEADLOCK FALSE
