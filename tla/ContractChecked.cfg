\* Does a report name exactly what is wrong, and does a template that passes
\* its gates reach the runners that pass?
SPECIFICATION Spec
CONSTANTS
  NotAList = NotAList
  NoTemplate = NoTemplate
  FileName <- FileNames
  Markdown <- MarkdownNames
  AdrName = {"0001-a.md", "0002 b.md", "0003-c.md"}
  LinkName = {"0001-a.md", "0003-c.md"}
  Yaml = {"ci.yaml", "reusable-x.yaml", "a.yaml", "b.yml"}
  Reusable = {"reusable-x.yaml"}
  Compiled = {"__pycache__"}
  Pattern = {"reference", "how-to", "decision-records"}
  Section = {"Context", "Decision"}
  RepoName = {"one", "two", "bad name"}
  ValidName = {"one", "two"}
  Required <- RequiredSections
  Setups <- AllSetups
  Sorted <- SortedPaths
  Glob <- Globs
INVARIANTS
  IInv
  ReportIsExact
  SyncDriftIsExact
  AdrsReachRunners
  PinChecksAgree
CHECK_DEADLOCK FALSE
