\* Do the checkers that look at lines find what a parser would find?
SPECIFICATION Spec
CONSTANTS
  Scans <- AllScans
  Bash <- BashOf
INVARIANTS
  IInv
  ScriptsAreBlocks
  RunVerdict
  
  StripComparesOutside
CHECK_DEADLOCK FALSE
