\* A run that has returned takes no further step.
SPECIFICATION SchedulingSpec
CONSTANTS
  suite = suite
  A = A
  B = B
  EmptyName = EmptyName
  NoGroup = NoGroup
  Args <- MCArgs
  Below <- MCBelow
  TagChoices <- MCTagChoices
  Files <- Entries
  ChainQueues <- Queues
  Concurrency = 2
  FailFast = TRUE
INVARIANTS NothingLost TagsHonoured
PROPERTIES ImplementsScheduler NoStartBehindFailure Drains
CHECK_DEADLOCK FALSE
