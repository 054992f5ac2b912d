-------------------------------- MODULE Trace --------------------------------
(***************************************************************************)
(* A feature file tells its run twice: as events, through the Trace of its *)
(* World (events.rs), and as the FileResult run_file returns.  Evidence is *)
(* written at once, held until the scenario's outcome is known, or not     *)
(* kept; long text goes to files of its own under the artifact root        *)
(* (artifacts.rs).  A text is known by the values it shows: masking takes  *)
(* away those the file's set holds at that moment.                         *)
(***************************************************************************)
EXTENDS Report, FiniteSets

CONSTANTS Files, PathOf,     \* two entries may have one path
          Values,            \* values that may become secrets
          Cap,               \* $BDDKIT_EVIDENCE_BUFFER
          Plans              \* what --evidence may be, each with the bounds it is tried under

\* kinds: what a step may be; files: those of the run; values: those its texts
\* show; scenarios of a file, steps of a scenario, effects of all a file's steps.
ASSUME TraceAssumption ==
  /\ PathOf \in [Files -> Paths] /\ IsFiniteSet(Values) /\ Cap \in Nat
  /\ \A p \in Plans : /\ p.sources \subseteq {"marked", "failures", "all"}
                      /\ p.files \subseteq Files /\ p.values \subseteq Values
                      /\ p.kinds \subseteq {"leaf", "macro", "include"}
                      /\ p.scenarios \in Nat /\ p.steps \in Nat /\ p.effects \in Nat

VARIABLES plan,         \* the run's sources of evidence, and its bounds
          run,          \* per file: where run_file is, with its World and Trace
          result,       \* per file: FileResult
          counter,      \* Artifacts.counter
          artifacts,    \* the files under the artifact root
          lost,         \* history: directories whose held file could not be written
          report,       \* what `bddkit report` makes of the stream so far
          interrupted

vars == <<plan, run, result, counter, artifacts, lost, report, interrupted>>

sources == plan.sources

Mask(shows, f) == shows \ run[f].secrets
\* A value and the mask in its place differ in length.
Size(shows) == 2 + Cardinality(shows)

NoHeld == [events |-> <<>>, files |-> <<>>, bytes |-> 0]
NotRun == [panicked |-> FALSE, scenarios |-> <<>>]

\* open is Trace.open with Trace.modes: the steps in flight, and for a macro
\* or an include the failure of its body.  slotted is history: the steps that
\* resolved a slot; deferred_bytes too: the long text the scenario deferred;
\* and stopped: a signal had come when it ended.
Idle ==
  [at |-> "idle", secrets |-> {}, done |-> <<>>, scenarios |-> 0, steps |-> 0,
   open |-> <<>>, marked |-> FALSE, tagged |-> FALSE, held |-> NoHeld,
   started |-> 0, live |-> 0, deferred |-> 0, failed |-> FALSE, flush |-> FALSE, stopped |-> FALSE,
   told |-> <<>>, shows |-> {}, slotted |-> {}, deferred_bytes |-> 0, effects |-> 0]

Init ==
  /\ plan \in Plans
  /\ run = [f \in Files |-> Idle]
  /\ result = [f \in Files |-> NotRun]
  /\ counter = 0 /\ artifacts = {} /\ lost = {}
  /\ report = Empty /\ interrupted = FALSE

Tell(e) == report' = Fold(report, e)
EventOf(f, type, more) ==
  LET place == [type |-> type, file |-> PathOf[f], scenario |-> run[f].scenarios]
  IN  [x \in DOMAIN place \cup DOMAIN more |-> IF x \in DOMAIN place THEN place[x] ELSE more[x]]

Innermost(f) == run[f].open[Len(run[f].open)]
Parent(f) == IF run[f].open = <<>> THEN 0 ELSE Innermost(f).step
Mode(f) == IF run[f].open = <<>> THEN "off" ELSE Innermost(f).mode

\* Whether a body's earlier step failed: the scenario's or the include's rest
\* is skipped, a macro's never comes.
BodyFailed(f) == IF run[f].open = <<>> THEN run[f].failed ELSE Innermost(f).failed
InBody(f, kinds) ==
  /\ run[f].at = "scenario"
  /\ IF run[f].open = <<>> THEN TRUE ELSE Innermost(f).kind \in kinds

Decide(f) ==
  IF sources = {} THEN "off"
  ELSE IF "all" \in sources \/ ("marked" \in sources /\ (run[f].marked \/ run[f].tagged))
       THEN "live"
  ELSE IF "failures" \in sources THEN "deferred" ELSE "off"

------------------------------------------------------------------------------
\* The file and its scenarios

FileStarts(f) ==
  /\ run[f].at = "idle" /\ ~interrupted
  /\ run' = [run EXCEPT ![f].at = "between"]
  /\ Tell([type |-> "file_started", file |-> PathOf[f]])
  /\ UNCHANGED <<plan, result, counter, artifacts, lost, interrupted>>

\* Every field of the scenario begins anew; the plugins' reset may have failed.
ScenarioStarts(f) ==
  /\ run[f].at = "between" /\ run[f].scenarios < plan.scenarios
  /\ \E tagged, resetFailed \in BOOLEAN :
       /\ tagged => "marked" \in sources
       /\ run' = [run EXCEPT ![f] =
            [Idle EXCEPT !.at = "scenario", !.secrets = @ \cup run[f].secrets,
                         !.done = run[f].done, !.effects = run[f].effects, !.scenarios = run[f].scenarios + 1,
                         !.tagged = tagged, !.failed = resetFailed]]
       /\ Tell(EventOf(f, "scenario_started", <<>>))
  /\ UNCHANGED <<plan, result, counter, artifacts, lost, interrupted>>

\* A section or a disabled step stands in a scenario's or an include's list;
\* it consumes no step number.
Annotation(f) ==
  /\ InBody(f, {"include"}) /\ run[f].effects < plan.effects
  /\ run' = [run EXCEPT ![f].effects = @ + 1]
  /\ Tell(EventOf(f, "annotation", [parent |-> Parent(f)]))
  /\ UNCHANGED <<plan, result, counter, artifacts, lost, interrupted>>

\* execute_step: the step is numbered and its mode decided; a deferred step's
\* resolved values wait with its evidence.
StepStarts(f, kind, slots) ==
  /\ InBody(f, {"macro", "include"}) /\ ~BodyFailed(f) /\ run[f].steps < plan.steps
  /\ LET step == run[f].steps + 1
         mode == Decide(f)
         shown == {Mask(v, f) : v \in slots}
         vars_event == EventOf(f, "vars", [step |-> step, vars |-> shown])
     IN  /\ run' = [run EXCEPT
              ![f].steps = step,
              ![f].started = @ + 1,
              ![f].live = IF mode = "live" THEN @ + 1 ELSE @,
              ![f].deferred = IF mode = "deferred" THEN @ + 1 ELSE @,
              ![f].open = Append(@, [step |-> step, kind |-> kind, mode |-> mode,
                                     failed |-> FALSE]),
              ![f].slotted = IF slots = {} THEN @ ELSE @ \cup {step},
              ![f].held.events = IF mode = "deferred" /\ slots # {}
                                 THEN Append(@, vars_event) ELSE @]
         /\ Tell(EventOf(f, "step_started",
                       [parent |-> Parent(f),
                        vars |-> IF mode = "live" THEN shown ELSE {}]))
  /\ UNCHANGED <<plan, result, counter, artifacts, lost, interrupted>>

\* What comes after a failure is listed, and numbered, but never run.
StepSkipped(f) ==
  /\ InBody(f, {"include"}) /\ BodyFailed(f) /\ run[f].steps < plan.steps
  /\ run' = [run EXCEPT ![f].steps = @ + 1,
                        ![f].told = IF run[f].open = <<>> THEN Append(@, "skipped") ELSE @]
  /\ Tell(EventOf(f, "step_skipped", [parent |-> Parent(f)]))
  /\ UNCHANGED <<plan, result, counter, artifacts, lost, interrupted>>

------------------------------------------------------------------------------
\* What a step in flight does to its trace

InLeaf(f) ==
  run[f].at = "scenario" /\ run[f].open # <<>> /\ Innermost(f).kind = "leaf"
Recording(f) == InLeaf(f) /\ Mode(f) # "off" /\ run[f].effects < plan.effects

\* dir 0: the text stands in the event itself.
Content(f, dir, shows) ==
  [dir |-> dir, size |-> IF dir = 0 THEN 0 ELSE Size(shows), shows |-> shows,
   deferred |-> Mode(f) = "deferred"]

\* record: the event of a live step is written, a deferred step's is held,
\* beside the files held already.
Record(f, type, content, held) ==
  LET e == EventOf(f, type, [step |-> Innermost(f).step, content |-> content])
  IN  IF Mode(f) = "live"
      THEN /\ Tell(e) /\ run' = [run EXCEPT ![f].effects = @ + 1]
      ELSE /\ run' = [run EXCEPT ![f].effects = @ + 1,
                        ![f].held = [held EXCEPT !.events = Append(@, e)],
                        ![f].deferred_bytes =
                          IF content.dir = 0 THEN @ ELSE @ + content.size]
           /\ UNCHANGED report

Stored(f, dir, shows, held) ==
  [dir |-> dir, file |-> f, scenario |-> run[f].scenarios, mode |-> Mode(f),
   held |-> held, shows |-> shows]

\* Short text, or a long one whose file could not be written.
InlineEvidence(f, shows) ==
  /\ Recording(f)
  /\ Record(f, "evidence", Content(f, 0, Mask(shows, f)), run[f].held)
  /\ UNCHANGED <<plan, result, counter, artifacts, lost, interrupted>>

\* One `not_yet` of an assertion that polls.
Attempt(f) ==
  /\ Recording(f)
  /\ Record(f, "attempt", Content(f, 0, {}), run[f].held)
  /\ UNCHANGED <<plan, result, counter, artifacts, lost, interrupted>>

WithinCap(f, shows) ==
  Mode(f) = "deferred" /\ run[f].held.bytes + Size(Mask(shows, f)) <= Cap

\* Long text of a deferred step waits in memory, its directory already named.
HoldLong(f, shows) ==
  /\ Recording(f) /\ WithinCap(f, shows)
  /\ LET masked == Mask(shows, f)
         held == [run[f].held EXCEPT
                    !.files = Append(@, [dir |-> counter + 1, shows |-> masked]),
                    !.bytes = @ + Size(masked)]
     IN  Record(f, "evidence", Content(f, counter + 1, masked), held)
  /\ counter' = counter + 1
  /\ UNCHANGED <<plan, result, artifacts, lost, interrupted>>

\* A live step's long text, and what does not fit, is written before its event.
WriteLong(f, shows) ==
  /\ Recording(f) /\ ~WithinCap(f, shows)
  /\ LET masked == Mask(shows, f)
     IN  /\ Record(f, "evidence", Content(f, counter + 1, masked), run[f].held)
         /\ artifacts' = artifacts \cup {Stored(f, counter + 1, masked, FALSE)}
  /\ counter' = counter + 1
  /\ UNCHANGED <<plan, result, lost, interrupted>>

\* A file a plugin names is referenced as it is, after a copy when it lies
\* outside the root.
PluginFile(f, shows) ==
  /\ Recording(f)
  /\ LET content == [Content(f, counter + 1, shows) EXCEPT !.shows = {}]
     IN  Record(f, "evidence", content, run[f].held)
  /\ artifacts' = artifacts \cup {[Stored(f, counter + 1, shows, FALSE) EXCEPT !.mode = "plugin"]}
  /\ counter' = counter + 1
  /\ UNCHANGED <<plan, result, lost, interrupted>>

\* A value joins the file's set: a sensitive variable, header or field.
Register(f, v) ==
  /\ InLeaf(f) /\ run[f].effects < plan.effects
  /\ run' = [run EXCEPT ![f].effects = @ + 1, ![f].secrets = @ \cup {v}]
  /\ UNCHANGED <<plan, result, counter, artifacts, lost, report, interrupted>>

\* `I am collecting evidence` and its opposite: for the steps after this one.
MarkSteps(f, on) ==
  /\ InLeaf(f) /\ run[f].effects < plan.effects
  /\ run' = [run EXCEPT ![f].effects = @ + 1, ![f].marked = on]
  /\ UNCHANGED <<plan, result, counter, artifacts, lost, report, interrupted>>

\* The step in flight returns.  A failure ends its macro, and what is left of
\* an include's or the scenario's list is skipped; exports may fail a macro
\* or an include whose steps all passed.
StepFinishes(f, ok, said) ==
  /\ run[f].at = "scenario" /\ run[f].open # <<>>
  /\ Innermost(f).failed => ~ok
  /\ LET depth == Len(run[f].open)
         callers == SubSeq(run[f].open, 1, depth - 1)
         status == IF ok THEN "passed" ELSE "failed"
     IN  /\ run' = [run EXCEPT
              ![f].open = IF ok \/ depth = 1 THEN callers
                          ELSE [callers EXCEPT ![depth - 1].failed = TRUE],
              ![f].failed = @ \/ (~ok /\ depth = 1),
              ![f].shows = IF ok THEN @ ELSE @ \cup Mask(said, f),
              ![f].told = IF depth = 1 THEN Append(@, status) ELSE @]
         /\ Tell(EventOf(f, "step_finished",
                       [step |-> Innermost(f).step, status |-> status]))
  /\ UNCHANGED <<plan, result, counter, artifacts, lost, interrupted>>

------------------------------------------------------------------------------
\* The scenario's outcome, the file's and the run's

\* Slip: a scenario a signal stopped counts as failed.
SlipFlushes(f) == run[f].failed

Flushes(f) == run[f].failed /\ ~interrupted

\* scenario_finished takes what is held: to be written, or dropped.
ScenarioCloses(f) ==
  /\ run[f].at = "scenario" /\ run[f].open = <<>>
  /\ run' = [run EXCEPT ![f].at = "closing", ![f].flush = Flushes(f),
                        ![f].stopped = interrupted,
                        ![f].held = IF Flushes(f) THEN @ ELSE NoHeld]
  /\ UNCHANGED <<plan, result, counter, artifacts, lost, report, interrupted>>

\* Slip: a held file is written as it was when it was held.
SlipWriteHeld(f) ==
  /\ run[f].at = "closing" /\ run[f].held.files # <<>>
  /\ LET file == Head(run[f].held.files)
     IN  artifacts' = artifacts \cup {[Stored(f, file.dir, file.shows, TRUE)
                                EXCEPT !.mode = "deferred"]}
  /\ run' = [run EXCEPT ![f].held.files = Tail(@)]
  /\ UNCHANGED <<plan, result, counter, lost, report, interrupted>>

\* Files first.  One that cannot be written leaves its reference dangling.
WriteHeld(f) ==
  /\ run[f].at = "closing" /\ run[f].held.files # <<>>
  /\ LET file == Head(run[f].held.files)
     IN  \/ /\ artifacts' = artifacts \cup {[Stored(f, file.dir, Mask(file.shows, f), TRUE)
                                     EXCEPT !.mode = "deferred"]}
            /\ UNCHANGED lost
         \/ lost' = lost \cup {file.dir} /\ UNCHANGED artifacts
  /\ run' = [run EXCEPT ![f].held.files = Tail(@)]
  /\ UNCHANGED <<plan, result, counter, report, interrupted>>

\* Slip: the events go before the files they point at.
SlipFilesWritten(f) == TRUE

FilesWritten(f) == run[f].held.files = <<>>

\* mask_strings: with the set as it is now.
Remasked(f, e) ==
  IF e.type = "vars" THEN [e EXCEPT !.vars = {Mask(v, f) : v \in @}]
  ELSE [e EXCEPT !.content.shows = Mask(@, f)]

EmitHeld(f) ==
  /\ run[f].at = "closing" /\ FilesWritten(f) /\ run[f].held.events # <<>>
  /\ Tell(Remasked(f, Head(run[f].held.events)))
  /\ run' = [run EXCEPT ![f].held.events = Tail(@)]
  /\ UNCHANGED <<plan, result, counter, artifacts, lost, interrupted>>

Coverage(f) ==
  LET recorded == run[f].live + (IF run[f].flush THEN run[f].deferred ELSE 0)
  IN  IF recorded = 0 THEN "none"
      ELSE IF recorded = run[f].started THEN "full" ELSE "partial"

ScenarioFinishes(f) ==
  /\ run[f].at = "closing"
  /\ run[f].held.files = <<>> /\ run[f].held.events = <<>>
  /\ LET status == IF run[f].failed THEN "failed" ELSE "passed"
     IN  /\ Tell(EventOf(f, "scenario_finished",
                       [status |-> status, coverage |-> Coverage(f)]))
         /\ run' = [run EXCEPT
              ![f].at = "between",
              ![f].done = Append(@, [status |-> status, steps |-> run[f].told,
                                     shows |-> run[f].shows, stopped |-> run[f].stopped,
                                     bytes |-> run[f].deferred_bytes])]
  /\ UNCHANGED <<plan, result, counter, artifacts, lost, interrupted>>

\* The texts are masked once more with the file's final set.
FinalTexts(f) ==
  [k \in DOMAIN run[f].done |-> [run[f].done[k] EXCEPT !.shows = Mask(@, f)]]

Ends(f, panicked, scenarios) ==
  /\ run' = [run EXCEPT ![f] = [Idle EXCEPT !.at = "done", !.secrets = run[f].secrets]]
  /\ result' = [result EXCEPT ![f].panicked = panicked, ![f].scenarios = scenarios]
  /\ Tell([type |-> "file_finished", file |-> PathOf[f], panicked |-> panicked])
  /\ UNCHANGED <<plan, counter, artifacts, lost, interrupted>>

FileEnds(f) == run[f].at = "between" /\ Ends(f, FALSE, FinalTexts(f))

\* The World is gone with everything held; run_all closes the file.
Aborted ==
  [status |-> "failed", steps |-> <<>>, shows |-> {}, stopped |-> FALSE, bytes |-> 0]
Panics(f) == run[f].at = "scenario" /\ Ends(f, TRUE, <<Aborted>>)

Interrupt ==
  /\ ~interrupted /\ interrupted' = TRUE
  /\ UNCHANGED <<plan, run, result, counter, artifacts, lost, report>>

\* The last line: after every file, or at a signal's end, which leaves the
\* files in flight to the exit of the process.
RunFinishes ==
  /\ report.incomplete
  /\ interrupted \/ \A f \in plan.files : run[f].at = "done"
  /\ Tell([type |-> "run_finished"])
  /\ run' = [f \in Files |-> IF run[f].at \in {"idle", "done"} THEN run[f]
                             ELSE [run[f] EXCEPT !.at = "cut"]]
  /\ UNCHANGED <<plan, result, counter, artifacts, lost, interrupted>>

Next ==
  \/ \E f \in plan.files :
       \/ FileStarts(f) \/ ScenarioStarts(f) \/ Annotation(f) \/ StepSkipped(f)
       \/ \E kind \in plan.kinds, slots \in SUBSET {plan.values} : StepStarts(f, kind, slots)
       \/ \E shows \in SUBSET plan.values :
            \/ InlineEvidence(f, shows) \/ HoldLong(f, shows) \/ WriteLong(f, shows)
            \/ \E ok \in BOOLEAN : StepFinishes(f, ok, shows)
       \/ Attempt(f) \/ PluginFile(f, plan.values) \/ \E v \in plan.values : Register(f, v)
       \/ \E on \in BOOLEAN : MarkSteps(f, on)
       \/ ScenarioCloses(f) \/ WriteHeld(f) \/ EmitHeld(f) \/ ScenarioFinishes(f)
       \/ FileEnds(f) \/ Panics(f)
  \/ Interrupt \/ RunFinishes

Spec == Init /\ [][Next]_vars

------------------------------------------------------------------------------
\* Properties

Told(f) == IF run[f].at = "done" THEN result[f].scenarios ELSE run[f].done
InReport(f) == report.files[report.index[PathOf[f]]]
Distinct == \A f, g \in Files : PathOf[f] = PathOf[g] => f = g
Started(f) == run[f].at # "idle" /\ report.index[PathOf[f]] # 0
AllEvidence(s) == UNION {{s.items[i].evidence[k] : k \in DOMAIN s.items[i].evidence}
                           : i \in DOMAIN s.items}

\* The steps a report lists at the top of a scenario are those of its result.
SameSteps(s, told) ==
  LET tops == {i \in Children(s, 0) : s.items[i].kind = "step"}
  IN  /\ Cardinality(tops) = Len(told)
      /\ \A i \in tops : s.items[i].status = told[Cardinality({j \in tops : j <= i})]

\* The page and the FileResult (JUnit, Cucumber, the console) tell the same
\* run: each closed scenario has one status in both and the same steps with
\* the same statuses; a file that ended leaves no scenario open unless it
\* panicked, and both say so (runner.rs run_file, run_all; model.rs).
ReportTellsResults ==
  Distinct => \A f \in Files : Started(f) =>
    LET file == InReport(f) told == Told(f) IN
    /\ ~result[f].panicked => \A k \in DOMAIN file.scenarios :
         file.scenarios[k].status # "open" =>
           /\ file.scenarios[k].status = told[k].status
           /\ SameSteps(file.scenarios[k], told[k].steps)
    /\ run[f].at = "done" =>
         /\ file.panicked = result[f].panicked
         /\ ~file.panicked => /\ Len(file.scenarios) = Len(told)
                              /\ \A k \in DOMAIN told : file.scenarios[k].status # "open"

\* A reader of the page finds why: in a closed scenario a failed nested step
\* makes its caller fail, a failed top step its scenario, and a skipped step
\* follows a failed sibling, or stands in a scenario that failed before its
\* first step (events.rs Trace.open, model.rs push and nest).
FailureShown ==
  Distinct => \A f \in Files : Started(f) =>
    \A k \in DOMAIN InReport(f).scenarios :
      LET s == InReport(f).scenarios[k] IN
      s.status # "open" => \A i \in DOMAIN s.items :
        LET up == s.parents[i] IN
        /\ s.items[i].status = "failed" =>
             IF up = 0 THEN s.status = "failed" ELSE s.items[up].status = "failed"
        /\ s.items[i].status = "skipped" =>
             \/ \E j \in Children(s, up) : j < i /\ s.items[j].status = "failed"
             \/ up = 0 /\ s.status = "failed"
                /\ \A j \in Children(s, 0) : s.items[j].status \notin {"passed", "failed"}
        /\ s.items[i].status # "open"

\* `evidence` of a finished scenario is what the page can show: "none" means
\* nothing of it is there, "full" that every step which resolved a value
\* shows it (events.rs scenario_finished).
CoverageHonest ==
  Distinct => \A f \in Files :
    (run[f].at = "between" /\ run[f].done # <<>>) =>
      LET s == InReport(f).scenarios[run[f].scenarios] IN
      /\ s.coverage = "none" => \A i \in DOMAIN s.items :
           s.items[i].vars = {} /\ s.items[i].evidence = <<>> /\ s.items[i].attempts = 0
      /\ s.coverage = "full" =>
           \A n \in run[f].slotted : s.items[s.byStep[n]].vars # {}

\* A scenario that passed, or that a signal stopped, leaves no deferred text
\* on disk unless it deferred more than the cap (events.rs text, scenario_finished).
PassingLeavesNothing ==
  \A f \in Files : ~result[f].panicked => \A k \in DOMAIN Told(f) :
    ((Told(f)[k].status = "passed" \/ Told(f)[k].stopped) /\ Told(f)[k].bytes <= Cap) =>
      ~\E d \in artifacts : d.file = f /\ d.scenario = k /\ d.mode = "deferred"

\* An event that names a file comes after the file is complete, whatever cuts
\* the stream (a failed write of a held file excepted); no two references,
\* of any two files at work, share a file (events.rs scenario_finished; artifacts.rs next_dir).
References(f) == UNION {AllEvidence(InReport(f).scenarios[k]) : k \in DOMAIN InReport(f).scenarios}
FileBeforeEvent ==
  /\ \A f \in Files : Started(f) => \A e \in References(f) :
       e.dir # 0 => e.dir \in lost \/ \E d \in artifacts : d.dir = e.dir
  /\ \A d, e \in artifacts : d.dir = e.dir => d = e

\* A value that became a secret after a text was recorded is hidden in the
\* FileResult, and in the deferred evidence of a scenario that ends failed,
\* events and files alike (runner.rs run_file, events.rs scenario_finished).
LateSecretHidden ==
  \A f \in Files :
    /\ (run[f].at = "done" /\ ~result[f].panicked) =>
         \A k \in DOMAIN result[f].scenarios :
           result[f].scenarios[k].shows \cap run[f].secrets = {}
    /\ (Distinct /\ run[f].at = "between" /\ run[f].flush) =>
         LET s == InReport(f).scenarios[run[f].scenarios] IN
         /\ \A e \in AllEvidence(s) : e.deferred => e.shows \cap run[f].secrets = {}
         /\ \A d \in artifacts : (d.file = f /\ d.scenario = run[f].scenarios /\ d.held) =>
              d.shows \cap run[f].secrets = {}

\* Evidence on disk is what the stream points at: nothing of a scenario that
\* passed, no event before its file, and no value that was a secret when it
\* was written, however late the value became one.
EvidenceKept == PassingLeavesNothing /\ FileBeforeEvent /\ LateSecretHidden

\* The page tells what happened and claims no more than it shows.
PageTells == ReportTellsResults /\ FailureShown /\ CoverageHonest
==============================================================================
