SPECIFICATION Spec
CONSTANTS
  x = x
  px = px
  v1 = v1
  v2 = v2
  Unset = Unset
  Names <- MCNames
  Values = {v1, v2}
  Prefixed <- MCPrefixed
  ArgLists <- MCArgLists
  ExportLists <- MCExportLists
  MaxDepth = 2
  StepLimit = 3
  ScenarioLimit = 2
PROPERTIES ImplementsScopes FailureEndsScenario
CHECK_DEADLOCK FALSE
SYMMETRY MCSymmetry
