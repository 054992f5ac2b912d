\* A stream that is closed takes no further step.
SPECIFICATION StreamSpec
CONSTANTS
  p1 = p1
  p2 = p2
  x1 = x1
  x2 = x2
  Producers <- MCProducers
  Workers <- MCWorkers
  Finishers <- MCFinishers
  EmitLimit = 2
  MaxClock = 1
  BatchLimit = 2
  MayFail = TRUE
INVARIANT StreamReads
PROPERTIES ImplementsEventLog FinishReturns
CHECK_DEADLOCK FALSE
