--------------------------- MODULE MCEventStream ----------------------------
(* A file task and its worker, two events in all, and finish called by   *)
(* two tasks at once.                                                      *)
EXTENDS EventStream
CONSTANTS p1, p2, x1, x2
MCProducers == {p1, p2}
MCWorkers == {p2}
MCFinishers == {x1, x2}
=============================================================================
