\* Is drift noticed, and what would requiring the check do?
SPECIFICATION FairSpec
CONSTANTS
  validator = validator
  harness = harness
  Here = Here
  There = There
  File <- Files
  Version = {1, 2}
  SharedFiles <- TwoFiles
  Seed <- AllOne
  MaxPushes = 3
INVARIANTS
  IInv
  DriftIsReported
PROPERTIES
  RequiredFreezes
  DriftGetsReported
CHECK_DEADLOCK FALSE
