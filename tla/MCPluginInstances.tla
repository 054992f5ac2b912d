------------------------- MODULE MCPluginInstances --------------------------
(* Two files at once over a shared and a per_worker instance.              *)
EXTENDS PluginInstances
CONSTANTS f1, f2, S, P
MCFiles == {f1, f2}
MCScenarioLimit == [f \in MCFiles |-> IF f = f1 THEN 2 ELSE 1]
MCInstances == {S, P}
MCDeclarations ==
  {[i \in MCInstances |-> IF i = S THEN [mode |-> "shared", resets |-> r]
                                   ELSE [mode |-> "per_worker", resets |-> TRUE]] :
     r \in BOOLEAN}
=============================================================================
