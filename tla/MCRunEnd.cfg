\* A process that has exited takes no further step.
SPECIFICATION HealthySpec
CONSTANTS
  worker = worker
  INT = INT
  TERM = TERM
  Producers <- MCProducers
  Workers <- MCProducers
  Finishers <- MCFinishers
  EmitLimit = 1
  MaxClock = 0
  BatchLimit = 2
  MayFail = TRUE
  Signals <- MCSignals
  CodeOf <- MCCodeOf
  SignalLimit = 3
  HasPlugins = TRUE
INVARIANTS OneEnding EndTold ExitCodeRule
PROPERTIES RunEnds
CHECK_DEADLOCK FALSE
