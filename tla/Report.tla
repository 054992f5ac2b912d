-------------------------------- MODULE Report --------------------------------
(***************************************************************************)
(* `bddkit report` folds an event stream into the tree every page renders  *)
(* (report/model.rs: Builder, nest).  An event names its file by path, its *)
(* scenario and its step by number; numbers count from 1 here.  Only what  *)
(* ties an event to its place is kept of it.                               *)
(***************************************************************************)
EXTENDS Naturals, Sequences

CONSTANTS Paths

Empty ==
  [files |-> <<>>, index |-> [p \in Paths |-> 0], incomplete |-> TRUE]

NewFile == [panicked |-> FALSE, scenarios |-> <<>>]
NewScenario ==
  [status |-> "open", coverage |-> "none", items |-> <<>>, parents |-> <<>>,
   byStep |-> <<>>]
Item(kind, status, vars) ==
  [kind |-> kind, status |-> status, vars |-> vars, evidence |-> <<>>, attempts |-> 0]

FileOf(r, e) == r.index[e.file]
File(r, e) == r.files[FileOf(r, e)]
Scenario(r, e) == File(r, e).scenarios[e.scenario]
Step(r, e) == Scenario(r, e).items[Scenario(r, e).byStep[e.step]]

\* An event that names a file or a scenario the stream never started is
\* dropped, one that names an unknown step too.
InFile(r, e, file) ==
  IF FileOf(r, e) = 0 THEN r ELSE [r EXCEPT !.files[FileOf(r, e)] = file]
InScenario(r, e, s) ==
  IF FileOf(r, e) = 0 \/ e.scenario \notin DOMAIN File(r, e).scenarios THEN r
  ELSE InFile(r, e, [File(r, e) EXCEPT !.scenarios[e.scenario] = s])
InStep(r, e, item) ==
  InScenario(r, e,
    IF e.step \notin DOMAIN Scenario(r, e).byStep THEN Scenario(r, e)
    ELSE [Scenario(r, e) EXCEPT !.items[Scenario(r, e).byStep[e.step]] = item])

\* The file's name now means this entry, also when an earlier one had it.
FileStarted(r, e) ==
  [r EXCEPT !.index[e.file] = Len(r.files) + 1, !.files = Append(@, NewFile)]
ScenarioStarted(r, e) ==
  InFile(r, e, [File(r, e) EXCEPT !.scenarios = Append(@, NewScenario)])

\* Slip: an annotation takes a place in the numbering of the steps.
SlipPush(r, e, item, numbered) ==
  LET s == Scenario(r, e)
  IN  InScenario(r, e, [s EXCEPT
        !.items = Append(@, item),
        !.parents = Append(@, IF e.parent \in DOMAIN s.byStep THEN s.byStep[e.parent] ELSE 0),
        !.byStep = Append(@, Len(s.items) + 1)])

\* An item goes under the step `parent` names (0: under the scenario).
Push(r, e, item, numbered) ==
  LET s == Scenario(r, e)
  IN  InScenario(r, e, [s EXCEPT
        !.items = Append(@, item),
        !.parents = Append(@, IF e.parent \in DOMAIN s.byStep THEN s.byStep[e.parent] ELSE 0),
        !.byStep = IF numbered THEN Append(@, Len(s.items) + 1) ELSE @])

\* An event of a type the model does not know changes nothing.
Apply(r, e) ==
  CASE e.type = "file_started" -> FileStarted(r, e)
    [] e.type = "scenario_started" -> ScenarioStarted(r, e)
    [] e.type = "step_started" -> Push(r, e, Item("step", "open", e.vars), TRUE)
    [] e.type = "step_skipped" -> Push(r, e, Item("step", "skipped", {}), TRUE)
    [] e.type = "annotation" -> Push(r, e, Item("annotation", "none", {}), FALSE)
    [] e.type = "step_finished" ->
         InStep(r, e, [Step(r, e) EXCEPT !.status = e.status])
    [] e.type = "vars" -> InStep(r, e, [Step(r, e) EXCEPT !.vars = e.vars])
    [] e.type = "evidence" ->
         InStep(r, e, [Step(r, e) EXCEPT !.evidence = Append(@, e.content)])
    [] e.type = "attempt" ->
         InStep(r, e, [Step(r, e) EXCEPT !.attempts = @ + 1])
    [] e.type = "scenario_finished" ->
         InScenario(r, e,
           [Scenario(r, e) EXCEPT !.status = e.status, !.coverage = e.coverage])
    [] e.type = "file_finished" ->
         InFile(r, e, [File(r, e) EXCEPT !.panicked = e.panicked])
    [] e.type = "run_finished" -> [r EXCEPT !.incomplete = FALSE]
    [] OTHER -> r

\* Nothing follows run_finished.
Fold(r, e) == IF r.incomplete THEN Apply(r, e) ELSE r

\* nest: the items of a list, in their order; the scenario's own under 0.
Children(s, at) == {i \in DOMAIN s.items : s.parents[i] = at}
================================================================================
