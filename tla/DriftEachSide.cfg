\* Does each template see the drift for itself?
SPECIFICATION FairSpec
CONSTANTS
  validator = validator
  harness = harness
  Here = Here
  There = There
  File <- Files
  Version = {1, 2}
  SharedFiles <- TwoFiles
  Seed <- AllOne
  MaxPushes = 2
PROPERTY EachSideReports
CHECK_DEADLOCK FALSE
