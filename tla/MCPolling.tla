------------------------------ MODULE MCPolling ------------------------------
(* Two APIs and a database with different windows; every kind of modifier,  *)
(* one of them too short for the first API's interval.                      *)
EXTENDS Polling
MCApis == {"main", "admin"}
Window(timeout, interval) == [timeout |-> timeout, interval |-> interval]
MCOptions ==
  [r \in MCApis \cup {"db", "plugin"} |->
     CASE r = "main" -> Window(3, 2) [] r = "admin" -> Window(2, 2) [] OTHER -> Window(1, 1)]
MCLayers == {Window(0, 0), Window(1, 0), Window(4, 0), Window(3, 1)}
=============================================================================
