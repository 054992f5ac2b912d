---------------------------- MODULE MCScheduling ----------------------------
(* Three feature files, given as one directory; every file may carry a     *)
(* serial name, a priority, both or neither.                               *)
EXTENDS Scheduling
CONSTANTS suite, A, B

MCArgs == <<suite>>
MCBelow == [a \in {suite} |-> {1, 2, 3}]
MCTagChoices ==
  {{}, {<<"serial", A>>}, {<<"priority", -1>>, <<"priority", 1>>},
   {<<"serial", A>>, <<"priority", 1>>},
   {<<"serial", A>>, <<"serial", B>>}, {<<"serial", EmptyName>>}}
=============================================================================
