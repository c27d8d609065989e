SPECIFICATION Spec
CONSTANTS
  Argvs <- MCArgvs
  Days = {"7"}
  Inits = {"p", "q"}
  MaxDisturbed = 1
  MaxAncestors = 6
  Names = {"leaked", "local"}
  MaxAround = 4
  MaxScopes = 2
  Patterns <- MCPatterns
  AllowPatterns <- MCAllow
  FileNames <- MCFileNames
  Cwds <- MCCwds
  Importers = {"f"}
  Specifiers = {"s", "t"}
  MaxEdits = 2
  Drives = {"C", "D"}
  Segs = {"a", "..cache"}
  MaxDepth = 3
  MarkerLines = 3
  MaxPreamble = 4
  Browsers = {"a", "b"}
  ProjectIds = {"p", "q"}
  Scripts <- MCScripts
  MaxFaults = 1
  DataFields = {"x", "y"}
  Operations = {"get", "put"}
  SourceFiles = {"s", "t"}
  Worlds <- MCWorlds
  MaxSourceEdits = 2
INVARIANTS CommandsAreHonest RulesAgreeWithTheBuild ExemptionsAreByPlace NamesAreFaithful ReportsAreBacked EveryChangeArrives AnswersAreOwn
PROPERTIES ScaffoldIsSafe ChangedCitationsAreReported
CHECK_DEADLOCK FALSE
