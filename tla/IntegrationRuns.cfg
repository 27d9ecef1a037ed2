\* Runs after runs in one workspace, each of which may fail or be killed.
SPECIFICATION Spec
CONSTANTS
  main = main
  versions = versions
  tfvars = tfvars
  state = state
  Name <- Names
  Ignored = {state}
  Versions = versions
  Tfvars = tfvars
  Content = {1, 2}
  Made = 3
  NoFile = 0
  Sources <- AllSources
  Leftovers <- OldFiles
INVARIANTS
  IInv
  GatesRunOnAssembly
  ZeroMeansVerified
PROPERTIES
  NothingOutside
