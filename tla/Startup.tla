-------------------------------- MODULE Startup -------------------------------
(***************************************************************************)
(* What bddkit run does before the first request, stage by stage, what     *)
(* bddkit doctor says of the same suite, and how a run ends once its exit  *)
(* code is settled (main.rs run and run_suite, doctor.rs check,            *)
(* telemetry/end.rs).  A suite is everything both commands read: flags,    *)
(* variables, config keys, plugins, feature files and resources.           *)
(***************************************************************************)
EXTENDS Settings, FiniteSetsExt

CONSTANT Suites   \* records; MCStartup says which fields there are

VARIABLES suite,
          left,      \* left[f]: what stands in each output file
          run,       \* [stage, settled]
          doctor,    \* [stage, rows]
          telemetry  \* [state, answer, sent, exit] of the run's end

vars == <<suite, left, run, doctor, telemetry>>

\* A path is not given, can be created or cannot; the stream's may be a FIFO.
SuitesAssumption ==
  \A s \in Suites : /\ {s.junit, s.cucumber} \subseteq {None, "ok", "bad"}
                    /\ {s.eventsFlag, s.eventsVar} \subseteq {None, "ok", "bad", "fifo"}
ASSUME SuitesAssumption

\* Old: an earlier run's file.
Outputs == {"junit", "cucumber", "events"}
NotSettled == 9

Init ==
  /\ suite \in Suites
  /\ left = [f \in Outputs |-> "old"]
  /\ run = [stage |-> "reports", settled |-> NotSettled]
  /\ doctor = [stage |-> "waiting", rows |-> {}]
  /\ telemetry = [state |-> "none", answer |-> None, sent |-> FALSE, exit |-> NotSettled]

------------------------------------------------------------------------------
\* What both commands read

Reports == {<<"junit", suite.junit>>, <<"cucumber", suite.cucumber>>}

ConfigPath == ResolveConfigPath(suite.configFlag, suite.configVar, suite.yaml, suite.yml)

Expanded == Expand(suite.op, Lookup(suite.process, suite.dotenv, suite.dotenvLocal), "arg")

\* config::load: the .env layers, ${VAR}, the parse, and the defaults and the
\* polling pair as the file alone has them.
FileApi == ResolveDefault(suite.apiKey, suite.apis)
DefaultPair == [timeout |-> 2, interval |-> 1]
GlobalPair(layer) == Layered(DefaultPair, layer)
PairsValid(layer) ==
  ValidPair(GlobalPair(layer)) /\ ValidPair(Layered(GlobalPair(layer), suite.apiPolling))

Readable ==
  /\ suite.text = "good" /\ ~suite.envBroken
  /\ suite.op = None \/ Expanded # Error
  /\ FileApi # Error
  /\ PairsValid(suite.polling)

\* settings::resolve and Config::apply.
Instances == IF suite.declared THEN suite.instances ELSE {}
Api == ResolveDefault(FirstOf(<<suite.apiFlag, suite.apiVar, suite.apiKey>>), suite.apis)
GroupDefault == ResolveDefault(FirstOf(<<suite.groupFlag, suite.groupKey>>), Instances)
Paths == FirstOf(<<suite.varPaths, suite.keyPaths>>)

Applies ==
  /\ ~suite.badVariable /\ ~suite.apiTwice
  /\ suite.groupFlag # None => suite.declared /\ GroupDefault # Error
  /\ Api # Error
  /\ PairsValid(Layered(suite.polling, suite.pollingVar))

\* Privacy::from_sources
PrivacyValid == Error \notin FoldList({"secret"}, suite.words, suite.wordsOnly)

\* load_plugins_collecting.  A group the config does not mention gets the one
\* instance its plugin declares.
ServedInstances ==
  IF suite.declared THEN Instances ELSE IF suite.implicit THEN {"default"} ELSE {}
Refused == ServedInstances \cap suite.refuses
UnreadDefault == suite.typo \/ (suite.groupKey # None /\ ~suite.declared)

PluginsLoad ==
  /\ suite.dir # "missing"
  /\ suite.plugin \notin {"gone", "abi"}
  /\ suite.plugin = "none" => Instances = {}
  /\ suite.plugin = "good" => ~UnreadDefault
  /\ suite.declared => GroupDefault # Error

\* build_registry: a macro may name a plugin's step.
RegistryBuilds(plugins) == suite.macros = "good" \/ (suite.macros = "plugin" /\ plugins)

\* The feature files: what the one step of each is, and whether a tag is on it.
Files == {"f1", "f2"}
Step(f) == suite[f]
SelectedBy(tags) == {f \in Files : tags = None \/ (tags = "one" /\ f = "f1")}
StepUnknown(f, plugins) == Step(f) = "unknown" \/ (Step(f) = "plugin" /\ ~plugins)

ApiValid == suite.apis # {} => suite.url = "good"
SrpValid == suite.srp # "bad"
DsnValid == suite.dsn # "bad"

------------------------------------------------------------------------------
\* run

Running == run.settled = NotSettled /\ telemetry.state = "none"
Advance(stage) == run' = [run EXCEPT !.stage = stage]
Refuse == run' = [run EXCEPT !.settled = 2]

\* Every report path, in order, until one cannot be created.
PrepareReports ==
  /\ run.stage = "reports" /\ Running
  /\ IF suite.junit = "bad"
     THEN Refuse /\ UNCHANGED left
     ELSE /\ left' = [f \in Outputs |-> IF <<f, "ok">> \in Reports THEN "empty" ELSE left[f]]
          /\ IF suite.cucumber = "bad" THEN Refuse ELSE Advance("events")
  /\ UNCHANGED <<suite, doctor, telemetry>>

EventsPath == FirstOf(<<suite.eventsFlag, suite.eventsVar>>)
\* The flag, else $BDDKIT_EVIDENCE; without either, and with a stream, the config.
EvidenceGiven == suite.evidenceFlag \/ suite.evidenceVar # None
EvidenceValid ==
  /\ suite.evidenceFlag \/ suite.evidenceVar # "bad"
  /\ EvidenceGiven => EventsPath # None
EvidenceAny == EvidenceGiven \/ (EventsPath # None /\ suite.evidenceKey)

\* events::open, once and for the whole run: a regular file is truncated.
OpenEvents ==
  /\ run.stage = "events" /\ Running
  /\ IF EventsPath = "bad"
     THEN Refuse /\ UNCHANGED left
     ELSE /\ left' = IF EventsPath = None THEN left
                     ELSE [left EXCEPT !.events = IF EventsPath = "fifo" THEN "open" ELSE "empty"]
          /\ Advance("evidence")
  /\ UNCHANGED <<suite, doctor, telemetry>>

CliPaths == FirstOf(<<suite.cliPaths, Paths>>)
Selected == SelectedBy(FirstOf(<<suite.cliTags, suite.tagsKey>>))
HasPlugins == suite.plugin = "good"

NextStage ==
  [evidence |-> "config", config |-> "settings", settings |-> "buffer", buffer |-> "privacy",
   privacy |-> "plugins", plugins |-> "steps", steps |-> "selection",
   selection |-> "validation", validation |-> "scheduling", scheduling |-> "resources",
   resources |-> "started"]

\* Plugins::ensure_valid, which only a run calls: doctor has a row per refusal.
EnsureValid == Refused = {}

\* discover, and every file found must parse, selected or not.
FeaturesLoad == CliPaths # "gone" /\ \A f \in Files : Step(f) # "unparsable"

Passes(stage) ==
  CASE stage = "evidence"   -> EvidenceValid
    [] stage = "config"     -> ConfigPath \notin {None, Error} /\ Readable
    [] stage = "settings"   -> Applies
    [] stage = "buffer"     -> EvidenceAny => ~suite.bufferBad
    [] stage = "privacy"    -> PrivacyValid
    [] stage = "plugins"    -> PluginsLoad /\ EnsureValid
    [] stage = "steps"      -> RegistryBuilds(HasPlugins)
    [] stage = "selection"  -> FeaturesLoad /\ Selected # {}
    [] stage = "validation" -> \A f \in Selected : ~StepUnknown(f, HasPlugins)
    [] stage = "scheduling" -> \A f \in Selected : Step(f) # "badtag"
    [] stage = "resources"  -> ApiValid /\ SrpValid /\ DsnValid /\ (suite.dsn = "good" => suite.dbUp)

Stage ==
  /\ run.stage \in DOMAIN NextStage /\ Running
  /\ IF Passes(run.stage) THEN Advance(NextStage[run.stage]) ELSE Refuse
  /\ UNCHANGED <<suite, left, doctor, telemetry>>

\* Until Interrupts::install a signal kills the process where it stands.
Killed ==
  /\ run.stage # "started" /\ telemetry.state = "none"
  /\ telemetry' = [telemetry EXCEPT !.state = "killed"]
  /\ UNCHANGED <<suite, left, run, doctor>>

\* The run itself (see RunEnd): its events, its reports and its code, 2 when a
\* report or the stream could not be written.
Runs ==
  /\ run.stage = "started" /\ Running
  /\ \E code \in {0, 1, 2}, lost \in SUBSET Outputs :
       /\ (code = 2) = (\E f \in lost : left[f] = "empty")
       /\ run' = [run EXCEPT !.settled = code]
       /\ left' = [f \in Outputs |-> IF left[f] = "empty" /\ f \notin lost THEN "written" ELSE left[f]]
  /\ UNCHANGED <<suite, doctor, telemetry>>

------------------------------------------------------------------------------
\* RunProbe::finish and telemetry::end

\* note_config comes after the settings: before it nothing has been read.
Read == run.stage \notin {"reports", "events", "evidence", "config", "settings"}
Answers == IF suite.dir = "missing" THEN <<>> ELSE <<suite.userAnswer, suite.projectAnswer>>
Decision == Decide(suite.telFlag, suite.telVar, suite.doNotTrack, suite.telKey, Answers)
\* A finished run with its reports written asks, where a person can answer.
Asks == run.stage = "started" /\ run.settled # 2 /\ suite.terminal

Exits(with) == telemetry' = [telemetry EXCEPT !.state = "exited", !.exit = with]

EndBegins ==
  /\ run.settled # NotSettled /\ telemetry.state = "none"
  /\ IF Read /\ Decision = "yes" THEN telemetry' = [telemetry EXCEPT !.state = "sending"]
     ELSE IF Read /\ Decision = None /\ Asks
     THEN telemetry' = [telemetry EXCEPT !.state = "asking"]
     ELSE Exits(run.settled)
  /\ UNCHANGED <<suite, left, run, doctor>>

\* Esc and the end of input answer nothing, and nothing is stored.
Answered ==
  /\ telemetry.state = "asking"
  /\ \/ telemetry' = [telemetry EXCEPT !.state = "sending", !.answer = "yes"]
     \/ telemetry' = [telemetry EXCEPT !.state = "exited", !.answer = "no", !.exit = run.settled]
     \/ Exits(run.settled)
  /\ UNCHANGED <<suite, left, run, doctor>>

\* The request ends well, fails, or runs into its bound: nobody asks which.
Send ==
  /\ telemetry.state = "sending"
  /\ \E reached \in BOOLEAN :
       telemetry' = [telemetry EXCEPT !.state = "exited", !.sent = reached, !.exit = run.settled]
  /\ UNCHANGED <<suite, left, run, doctor>>

\* Slip: a signal while telemetry waits decides the exit code.
SlipSignal ==
  /\ telemetry.state \in {"asking", "sending"}
  /\ telemetry' = [telemetry EXCEPT !.state = "exited", !.exit = 130]
  /\ UNCHANGED <<suite, left, run, doctor>>

\* A signal ends the question, or the request, and with it the process.
Signal ==
  /\ telemetry.state \in {"asking", "sending"}
  /\ \E reached \in {FALSE, telemetry.state = "sending"} :
       telemetry' = [telemetry EXCEPT !.state = "exited", !.sent = reached, !.exit = run.settled]
  /\ UNCHANGED <<suite, left, run, doctor>>

------------------------------------------------------------------------------
\* doctor, over the same suite: a row for everything that fails

Goes(stage, rows) == doctor' = [stage |-> stage, rows |-> doctor.rows \cup rows]
Row(stage, bad, why) == IF bad THEN {<<stage, why>>} ELSE {}

\* Slip: doctor opens whatever stands at the events path.
SlipLeftAlone == FALSE

\* Opening a FIFO would hand its reader an end of file.
LeftAlone == suite.eventsFlag = "fifo"

\* Every path is tried, whatever became of the one before it.
ReportRows ==
  {<<"reports", r[1]>> : r \in {r \in Reports : r[2] = "bad"}}
  \cup Row("reports", suite.eventsFlag = "bad", "events")

DoctorReports ==
  /\ doctor.stage = "waiting" /\ telemetry.state \in {"exited", "killed"}
  /\ left' = [f \in Outputs |->
       IF <<f, "ok">> \in Reports \/ (f = "events" /\ suite.eventsFlag # None
                                    /\ suite.eventsFlag # "bad" /\ ~LeftAlone)
       THEN "empty" ELSE left[f]]
  /\ Goes("config", ReportRows)
  /\ UNCHANGED <<suite, run, telemetry>>

\* Without a config, or with one the settings do not fit, the report ends.
DoctorConfig ==
  /\ doctor.stage = "config"
  /\ IF Passes("config") /\ Applies THEN Goes("plugins", {}) ELSE Goes("done", {<<"config", "config">>})
  /\ UNCHANGED <<suite, left, run, telemetry>>

\* Slip: the rows of refused instances are forgotten.
SlipRefusedRows == {}
RefusedRows == IF PluginsLoad THEN {<<"instance", i>> : i \in Refused} ELSE {}
DoctorHas == HasPlugins /\ PluginsLoad

\* With --live an instance that was not refused is asked about its resource.
ProbeRows ==
  IF PluginsLoad /\ suite.live
  THEN {<<"probe", i>> : i \in (ServedInstances \ Refused) \cap suite.silent} ELSE {}

PluginRows ==
  Row("directories", suite.dir = "missing", "dir")
  \cup Row("plugin_lock", suite.dir # "missing" /\ suite.plugin = "gone", "path")
  \cup Row("plugins", ~PluginsLoad, "load") \cup RefusedRows \cup ProbeRows
  \cup Row("macros", ~RegistryBuilds(DoctorHas), "macros")

DoctorPlugins ==
  /\ doctor.stage = "plugins"
  /\ Goes("features", PluginRows)
  /\ UNCHANGED <<suite, left, run, telemetry>>

\* Every scenario is checked, whatever the tags select; unknown steps only
\* when every plugin and every macro that could define them is there.
Trusted == PluginsLoad /\ RegistryBuilds(DoctorHas)
Parsed == {f \in Files : Step(f) # "unparsable"}
Unserved(f) ==
  \/ Step(f) = "api" /\ suite.apis = {}
  \/ Step(f) = "plugin" /\ DoctorHas /\ ServedInstances = {}
StepProblems ==
  {<<"steps", f>> : f \in Files \ Parsed}
  \cup (IF Trusted THEN {<<"steps", f>> : f \in {f \in Parsed : StepUnknown(f, DoctorHas)}}
                        \cup {<<"unserved", f>> : f \in {f \in Parsed : Unserved(f)}}
       ELSE {})

\* build_chains ends at the first file, in the order of discover, with a bad tag.
BadTags == {f \in Parsed : Step(f) = "badtag"}
FirstBadTag == {f \in BadTags : f = "f2" => "f1" \notin BadTags}

\* An empty selection is found only where no step is a problem.
FeatureRows ==
  IF Paths = "gone" THEN {<<"steps", "paths">>}
  ELSE (IF StepProblems # {} THEN StepProblems
        ELSE Row("steps", SelectedBy(suite.tagsKey) \cap Parsed = {}, "nothing selected"))
       \cup {<<"scheduling", f>> : f \in FirstBadTag}

DoctorFeatures ==
  /\ doctor.stage = "features"
  /\ Goes("resources", FeatureRows)
  /\ UNCHANGED <<suite, left, run, telemetry>>

\* What a run decides about evidence, but for its --evidence flag.
Stream == suite.eventsFlag # None \/ suite.eventsVar # None
EvidenceFails ==
  IF suite.evidenceVar # None
  THEN suite.evidenceVar = "bad" \/ ~Stream \/ suite.bufferBad
  ELSE Stream /\ suite.evidenceKey /\ suite.bufferBad

\* With --live a GET at the base_url of every API that could be built, which a
\* run never sends before its steps do, and the connection a run makes too.
ResourceRows ==
  Row("privacy", ~PrivacyValid, "privacy") \cup Row("evidence", EvidenceFails, "evidence")
  \cup Row("api", ~ApiValid, "url") \cup Row("srp", ~SrpValid, "params")
  \cup Row("db", ~DsnValid, "dsn")
  \cup Row("live", suite.live /\ suite.apis # {} /\ ApiValid /\ ~suite.apiUp, "api")
  \cup Row("live", suite.live /\ suite.dsn = "good" /\ ~suite.dbUp, "db")

DoctorResources ==
  /\ doctor.stage = "resources"
  /\ Goes("done", ResourceRows)
  /\ UNCHANGED <<suite, left, run, telemetry>>

Next ==
  \/ PrepareReports \/ OpenEvents \/ Stage \/ Killed \/ Runs
  \/ EndBegins \/ Answered \/ Send \/ Signal
  \/ DoctorReports \/ DoctorConfig \/ DoctorPlugins \/ DoctorFeatures \/ DoctorResources

Spec == Init /\ [][Next]_vars
------------------------------------------------------------------------------
\* Properties

DoctorDone == doctor.stage = "done"
RunRefused == run.stage # "started" /\ run.settled = 2
\* What is a run's alone: its --evidence, paths and tags, and $BDDKIT_EVENTS
\* as a path (events-design.md 5.1: read by run only).
RunOnly == \/ suite.evidenceFlag \/ suite.cliPaths # None \/ suite.cliTags # None
           \/ suite.eventsFlag = None /\ suite.eventsVar = "bad"

\* What doctor has to say of what refuses a run at a stage: every problem the
\* stage has, where the run stopped at one of them.  An empty selection behind
\* another problem of the steps has no row of its own, though doctor.rs means it
\* to (its comment in check_features); a bad tag may be an earlier file's.
Reasons(stage) ==
  CASE stage = "reports"    -> {<<"reports", r[1]>> : r \in {r \in Reports : r[2] = "bad"}}
    [] stage = "events"     -> {<<"reports", "events">>}
    [] stage \in {"evidence", "buffer"} -> {<<"evidence", "evidence">>}
    [] stage \in {"config", "settings"} -> {<<"config", "config">>}
    [] stage = "privacy"    -> {<<"privacy", "privacy">>}
    [] stage = "plugins"    -> IF PluginsLoad THEN {<<"instance", i>> : i \in Refused}
                               ELSE {<<"plugins", "load">>}
    [] stage = "steps"      -> {<<"macros", "macros">>}
    [] stage = "selection"  -> IF CliPaths = "gone" THEN {<<"steps", "paths">>}
                               ELSE IF ~FeaturesLoad THEN {<<"steps", f>> : f \in Files \ Parsed}
                               ELSE Row("steps", StepProblems = {}, "nothing selected")
    [] stage = "validation" -> {<<"steps", f>> : f \in {f \in Selected : StepUnknown(f, HasPlugins)}}
    [] stage = "scheduling" -> {<<"scheduling", f>> : f \in FirstBadTag}
    [] stage = "resources"  -> Row("api", ~ApiValid, "url") \cup Row("srp", ~SrpValid, "params")
                               \cup Row("db", ~DsnValid, "dsn")
                               \cup Row("live", suite.live /\ suite.dsn = "good" /\ ~suite.dbUp, "db")
    [] OTHER                -> {}

\* README: doctor does every check a run makes before its first request, and
\* lists every problem instead of stopping at the first: what a run is refused
\* for has its own rows, whatever else is wrong.  A config that failed ends the
\* report before the evidence a run asks about first, and only a socket could
\* tell of a database that is down; else no refused run has a clean report.
RefusalIsARow ==
  (DoctorDone /\ RunRefused /\ ~RunOnly) =>
    /\ \/ Reasons(run.stage) \subseteq doctor.rows
       \/ run.stage = "evidence" /\ <<"config", "config">> \in doctor.rows
    /\ \/ doctor.rows # {}
       \/ run.stage = "resources" /\ ~suite.dbUp /\ ~suite.live

\* README: --live adds one class of check a run does not have.  A run connects
\* to its databases, but sends nothing to an API and probes no instance.
ProbedAlone(row) == suite.live /\ (row = <<"live", "api">> \/ row[1] = "probe")

\* doctor is not stricter than the run it predicts (main.rs, doctor.rs): of a
\* suite that starts it reports only steps no resource serves, what it finds in
\* scenarios the run's tags keep out, and, with --live, what a run never probes.
NotStricter ==
  (DoctorDone /\ run.stage = "started" /\ ~RunOnly) =>
    \A row \in doctor.rows :
      row[1] = "unserved" \/ row[2] \in Files \ Selected \/ ProbedAlone(row)

\* README: every output named is truncated before the config is read, by either
\* command, so that no refused or killed run leaves an earlier run's file, and
\* nothing is written to it before the run starts; doctor leaves a FIFO unopened.
EmptyLeft ==
  run.stage \notin {"reports", "events"} =>
    \A f \in Outputs :
      LET named == IF f = "events" THEN EventsPath ELSE suite[f]
      IN  /\ named # None => left[f] # "old"
          /\ named = None => left[f] = "old"
          /\ named = "ok" /\ run.stage # "started" => left[f] = "empty"
          /\ (f = "events" /\ named = "fifo") => left[f] = "open"

\* telemetry/end.rs: the exit code is the command's, whatever happens to a
\* file, a prompt or the request.
CodeKept == telemetry.state = "exited" => telemetry.exit = run.settled

\* telemetry.rs: off until a person says yes, and a typo, an unreadable answer
\* or a no nearer to the process than any yes never turns counting on.
Opinions == <<suite.telFlag, suite.telVar, IF suite.doNotTrack THEN "no" ELSE None, suite.telKey>>
              \o (IF suite.dir = "missing" THEN <<>> ELSE <<suite.projectAnswer, suite.userAnswer>>)
NothingSentWithoutYes ==
  (telemetry.sent \/ telemetry.state = "sending") =>
    \/ telemetry.answer = "yes" /\ \A i \in DOMAIN Opinions : Opinions[i] = None
    \/ \E i \in DOMAIN Opinions : /\ Opinions[i] = "yes"
                                 /\ \A j \in 1..(i - 1) : Opinions[j] = None

\* Neither what an earlier run left nor how a command ends can pass for the
\* outcome of this run.
OutcomeKept == EmptyLeft /\ CodeKept

\* doctor predicts the run, in both directions.
DoctorPredicts == RefusalIsARow /\ NotStricter
===============================================================================
