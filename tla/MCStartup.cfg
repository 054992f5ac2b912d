SPECIFICATION Spec
CONSTANT Suites <- MCSuites
INVARIANTS DoctorPredicts OutcomeKept NothingSentWithoutYes
CHECK_DEADLOCK FALSE
