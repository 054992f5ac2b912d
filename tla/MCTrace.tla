------------------------------- MODULE MCTrace -------------------------------
(* One file under each set of sources, then its tree of steps, then two     *)
(* files that run side by side.                                             *)
EXTENDS Trace
CONSTANTS f1, f2, v
MCPathOf == [f \in Files |-> f]
Plan(from, files, values, kinds, scenarios, steps, effects) ==
  [sources |-> from, files |-> files, values |-> values, kinds |-> kinds,
   scenarios |-> scenarios, steps |-> steps, effects |-> effects]
MCPlans ==
  { Plan({"failures"}, {f1}, {v}, {"leaf"}, 2, 1, 2),
    Plan({"marked", "failures"}, {f1}, {v}, {"leaf"}, 1, 2, 2),
    Plan({"marked"}, {f1}, {v}, {"leaf"}, 1, 2, 2),
    Plan({"all"}, {f1}, {v}, {"leaf"}, 1, 1, 2),
    Plan({"failures"}, {f1}, {v}, {"leaf", "macro", "include"}, 1, 3, 1),
    Plan({"failures"}, {f1, f2}, {}, {"leaf"}, 1, 1, 1) }
==============================================================================
