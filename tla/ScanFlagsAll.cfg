\* Does the report name every privileged file that reaches a finding?
SPECIFICATION Spec
CONSTANTS
  a = a
  b = b
  c = c
  d = d
  None = None
  Workflow <- Three
  Listing <- ListingOfThree
  Repos <- Branching
INVARIANT EveryPrivilegedFileIsFlagged
CHECK_DEADLOCK FALSE
