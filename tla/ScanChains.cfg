\* Four files with one call each, unparseable and malformed files included.
SPECIFICATION FairSpec
CONSTANTS
  a = a
  b = b
  c = c
  d = d
  None = None
  Workflow <- Four
  Listing <- ListingOfFour
  Repos <- Chains
INVARIANTS
  IInv
PROPERTIES
  ImplementsReach
CHECK_DEADLOCK FALSE
