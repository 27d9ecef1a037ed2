\* Three files with two calls each: every way two calls of a file can meet.
SPECIFICATION FairSpec
CONSTANTS
  a = a
  b = b
  c = c
  d = d
  None = None
  Workflow <- Three
  Listing <- ListingOfThree
  Repos <- Branching
INVARIANTS
  StackShape
  RouteIsReal
  ScannedIsClosed
  CacheIsExact
PROPERTIES
  CacheOnlyGrows
  Terminates
CHECK_DEADLOCK FALSE
