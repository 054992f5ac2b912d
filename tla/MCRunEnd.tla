------------------------------ MODULE MCRunEnd ------------------------------
(* One file with its worker's verdict, three signals of two kinds.         *)
EXTENDS RunEnd
CONSTANTS worker, INT, TERM
MCProducers == {worker}
MCFinishers == {Main, Handler}
MCSignals == {INT, TERM}
MCCodeOf == [k \in MCSignals |-> IF k = INT THEN 130 ELSE 143]
=============================================================================
