SPECIFICATION Spec
CONSTANTS
  Labs = {"tokens", "references", "hierarchy", "cones", "definitions", "headers"}
  MaxItems = 3
  MaxExpand = 2
  Programs <- MCPrograms
  Fresh = {"n1", "n2"}
  MaxRenames = 2
  Trees <- MCHierarchies
  None = None
  Designs <- MCDesigns
  Edited <- MCEdited
  Modport <- MCModport
  MaxRefresh = 1
  Nil = Nil
  Paths <- MCPaths
  Written <- MCWritten
  Macros = {"M"}
  MaxEdits = 2
  MaxSaves = 2
  Uri <- MCUri
  Content <- MCContent
  Builds <- MCBuilds
  MaxUpdates = 6
CHECK_DEADLOCK FALSE
INVARIANTS ExpansionsOwn LookupsExact ReferencesComplete RenameKeepsMeaning ViewsAgree ConesMatchFlow LocationsCurrent AllDefinitions DiagnosisComplete HeadersCurrent
