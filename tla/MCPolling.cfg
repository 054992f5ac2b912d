\* Once every bound is used up nothing is left to do.
SPECIFICATION PollingSpec
CONSTANTS
  Apis <- MCApis
  DefaultApi = "main"
  Options <- MCOptions
  OptionLayers <- MCLayers
  Slow = 2
  Late = 1
  AttemptLimit = 6
  StepLimit = 4
  ScenarioLimit = 2
PROPERTIES JudgesLastRequest WindowKept ModifierReach AssertionEnds
CHECK_DEADLOCK FALSE
