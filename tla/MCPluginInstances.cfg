\* A process that has exited takes no further step.
SPECIFICATION Spec
CONSTANTS
  f1 = f1
  f2 = f2
  S = S
  P = P
  Files <- MCFiles
  Instances <- MCInstances
  Declarations <- MCDeclarations
  MaxConcurrency = 2
  ScenarioLimit <- MCScenarioLimit
  StepLimit = 1
  HandleLimit = 3
INVARIANTS HandleLife NothingOutlives ResetDiscipline
PROPERTIES RunEnds
CHECK_DEADLOCK FALSE
