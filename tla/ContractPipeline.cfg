SPECIFICATION PipelineSpec
CONSTANTS
  Raw <- MCRaw
  Sources <- MCSources
  MapEdits <- MCMapEdits
  Fields <- MCFields
  Invokers = {"list", "remove", "list_stream"}
  MaxEdits = 1
INVARIANTS
  ServedIsDocumented
  AdminNeverInBrowser
  MacroAndAnalyzerAgree
  ArtefactsCurrent
  RustCallsWork
CHECK_DEADLOCK FALSE
