\* Does exit code 0 mean clean, whatever the setup?
SPECIFICATION Spec
CONSTANTS
  a = a
  b = b
  c = c
  d = d
  None = None
  Workflow <- Four
  Listing <- ListingOfFour
  Repos <- Chains
INVARIANT CleanExitIsClean
CHECK_DEADLOCK FALSE
