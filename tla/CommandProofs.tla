----------------------------- MODULE CommandProofs ----------------------------
(***************************************************************************)
(* Three commands, each on its own.  bddkit run, of any suite: doctor      *)
(* predicts the run, no output tells of another run and no end of the      *)
(* process of another outcome, and nothing is sent without somebody's yes. *)
(* Then the polled assertions of a file, and last what a rollback of an    *)
(* upgrade restores.                                                       *)
(***************************************************************************)
EXTENDS Startup, Polling, Upgrade, SequenceTheorems, TLAPS

(***************************************************************************)
(* What each stage of a run asks of the suite, and which stages are behind *)
(* it: the suite never changes, so a stage once passed stays passed, and   *)
(* what refuses a run keeps refusing it.                                   *)
(***************************************************************************)
Place ==
  [reports |-> 0, events |-> 1, evidence |-> 2, config |-> 3, settings |-> 4, buffer |-> 5,
   privacy |-> 6, plugins |-> 7, steps |-> 8, selection |-> 9, validation |-> 10,
   scheduling |-> 11, resources |-> 12, started |-> 13]
Stages == DOMAIN NextStage
Opens(stage) ==
  IF stage = "reports" THEN suite.junit # "bad" /\ suite.cucumber # "bad"
  ELSE IF stage = "events" THEN EventsPath # "bad" ELSE Passes(stage)

RunInv ==
  /\ run.stage \in DOMAIN Place /\ suite \in Suites
  /\ run = [stage |-> run.stage, settled |-> run.settled]
  /\ \A stage \in DOMAIN Place : Place[stage] < Place[run.stage] => Opens(stage)
  /\ run.settled # NotSettled /\ run.stage # "started" => ~Opens(run.stage)

\* doctor's rows are those of the stages it has been through, until a config
\* that cannot be used ends its report.
ConfigUsable == Passes("config") /\ Applies
ConfigRow == {<<"config", "config">>}
AllRows == ReportRows \cup PluginRows \cup FeatureRows \cup ResourceRows

DoctorInv ==
  /\ doctor.stage \in {"waiting", "config", "plugins", "features", "resources", "done"}
  /\ doctor.stage = "waiting" => doctor.rows = {}
  /\ doctor.stage = "config" => doctor.rows = ReportRows
  /\ doctor.stage \in {"plugins", "features", "resources"} => ConfigUsable
  /\ doctor.stage = "plugins" => doctor.rows = ReportRows
  /\ doctor.stage = "features" => doctor.rows = ReportRows \cup PluginRows
  /\ doctor.stage = "resources" => doctor.rows = ReportRows \cup PluginRows \cup FeatureRows
  /\ doctor.stage = "done" =>
       IF ConfigUsable THEN doctor.rows = AllRows ELSE doctor.rows = ReportRows \cup ConfigRow

PredictInv == RunInv /\ DoctorInv

\* telemetry stays the record it began as.
Telling ==
  telemetry = [state |-> telemetry.state, answer |-> telemetry.answer,
               sent |-> telemetry.sent, exit |-> telemetry.exit]

\* Nothing but a report's preparation and the stream's opening has touched the
\* outputs before the stage that follows them.
LeftInv ==
  /\ run.stage = "reports" /\ Running => left = [f \in Outputs |-> "old"]
  /\ run.stage = "events" /\ Running =>
       left = [f \in Outputs |-> IF <<f, "ok">> \in Reports THEN "empty" ELSE "old"]
  /\ DOMAIN left = Outputs
  /\ doctor.stage # "waiting" => telemetry.state \in {"exited", "killed"}

\* A person is asked only where nobody has decided, and what is sent was
\* decided or answered.
AskInv ==
  /\ telemetry.sent => telemetry.state = "exited"
  /\ telemetry.state = "asking" => Decision = None
  /\ telemetry.sent \/ telemetry.state = "sending" =>
       Decision = "yes" \/ (telemetry.answer = "yes" /\ Decision = None)

------------------------------------------------------------------------------
(***************************************************************************)
(* A suite is read, never written: everything said of it is said again     *)
(* after any step.                                                         *)
(***************************************************************************)
\* The first of two layers that has an opinion.
LEMMA FirstOfTwo ==
  ASSUME NEW a, NEW b
  PROVE  FirstOf(<<a, b>>) = IF a # None THEN a ELSE b
<1> DEFINE said == {i \in {1, 2} : <<a, b>>[i] # None}
<1>0. DOMAIN <<a, b>> = {1, 2}
  OBVIOUS
<1>1. FirstOf(<<a, b>>) =
        IF said = {} THEN None ELSE <<a, b>>[CHOOSE i \in said : \A j \in said : i <= j]
  BY <1>0 DEF FirstOf
<1>2. CASE a # None
  <2>1. 1 \in said /\ \A j \in said : 1 <= j
    BY <1>2
  <2>2. (CHOOSE i \in said : \A j \in said : i <= j) = 1
    BY <2>1
  <2> QED
    BY <1>1, <1>2, <2>1, <2>2
<1>3. CASE a = None /\ b # None
  <2>1. said = {2}
    BY <1>3
  <2>2. (CHOOSE i \in said : \A j \in said : i <= j) = 2
    BY <2>1
  <2> QED
    BY <1>1, <1>3, <2>1, <2>2
<1>4. CASE a = None /\ b = None
  <2>1. said = {}
    BY <1>4
  <2> QED
    BY <1>1, <1>4, <2>1
<1> QED
  BY <1>2, <1>3, <1>4

LEMMA SuiteStands == Next => suite' = suite
BY DEF Next, PrepareReports, OpenEvents, Stage, Killed, Runs, EndBegins, Answered, Send, Signal,
  DoctorReports, DoctorConfig, DoctorPlugins, DoctorFeatures, DoctorResources, Advance, Refuse,
  Exits, Goes

LEMMA SuiteReads ==
  ASSUME suite' = suite
  PROVE  /\ Reports' = Reports /\ ConfigPath' = ConfigPath /\ (Readable' <=> Readable)
         /\ (Applies' <=> Applies) /\ (PrivacyValid' <=> PrivacyValid)
         /\ ServedInstances' = ServedInstances /\ (PluginsLoad' <=> PluginsLoad)
         /\ (EnsureValid' <=> EnsureValid)
         /\ EventsPath' = EventsPath /\ (EvidenceValid' <=> EvidenceValid)
         /\ (EvidenceAny' <=> EvidenceAny) /\ CliPaths' = CliPaths /\ Selected' = Selected
         /\ (FeaturesLoad' <=> FeaturesLoad) /\ (ApiValid' <=> ApiValid) /\ (SrpValid' <=> SrpValid)
         /\ (DsnValid' <=> DsnValid) /\ (HasPlugins' <=> HasPlugins)
<1>1. Reports' = Reports
  BY DEF Reports
<1>2. ConfigPath' = ConfigPath
  BY DEF ConfigPath
<1>3. Expanded' = Expanded /\ FileApi' = FileApi
  BY DEF Expanded, FileApi
<1>4. (Readable' <=> Readable)
  BY <1>3 DEF Readable, PairsValid, GlobalPair
<1>5. Instances' = Instances /\ Api' = Api
  BY DEF Instances, Api
<1>6. GroupDefault' = GroupDefault /\ Paths' = Paths
  BY <1>5 DEF GroupDefault, Paths
<1>7. (Applies' <=> Applies)
  BY <1>5, <1>6 DEF Applies, PairsValid, GlobalPair
<1>8. (PrivacyValid' <=> PrivacyValid)
  BY DEF PrivacyValid
<1>9. ServedInstances' = ServedInstances /\ (UnreadDefault' <=> UnreadDefault)
  BY <1>5 DEF ServedInstances, UnreadDefault
<1>10. (PluginsLoad' <=> PluginsLoad)
  BY <1>5, <1>6, <1>9 DEF PluginsLoad
<1>11. Refused' = Refused /\ (EnsureValid' <=> EnsureValid)
  BY <1>9 DEF Refused, EnsureValid
<1>12. EventsPath' = EventsPath
  BY DEF EventsPath
<1>13. (EvidenceValid' <=> EvidenceValid) /\ (EvidenceAny' <=> EvidenceAny)
  BY <1>12 DEF EvidenceValid, EvidenceAny, EvidenceGiven
<1>14. CliPaths' = CliPaths
  BY <1>6 DEF CliPaths
<1>15. Selected' = Selected
  BY DEF Selected, SelectedBy
<1>16. (FeaturesLoad' <=> FeaturesLoad)
  BY <1>14 DEF FeaturesLoad, Step
<1>17. (ApiValid' <=> ApiValid) /\ (SrpValid' <=> SrpValid) /\ (DsnValid' <=> DsnValid) /\ (HasPlugins' <=> HasPlugins)
  BY DEF ApiValid, SrpValid, DsnValid, HasPlugins
<1> QED
  BY <1>1, <1>2, <1>4, <1>7, <1>8, <1>9, <1>10, <1>11, <1>12, <1>13, <1>14, <1>15, <1>16, <1>17

\* What each stage asks, by name.
LEMMA PassesAre ==
  /\ Passes("evidence") <=> EvidenceValid
  /\ Passes("config") <=> (ConfigPath \notin {None, Error} /\ Readable)
  /\ Passes("settings") <=> Applies
  /\ Passes("buffer") <=> (EvidenceAny => ~suite.bufferBad)
  /\ Passes("privacy") <=> PrivacyValid
  /\ Passes("plugins") <=> (PluginsLoad /\ EnsureValid)
  /\ Passes("steps") <=> RegistryBuilds(HasPlugins)
  /\ Passes("selection") <=> (FeaturesLoad /\ Selected # {})
  /\ Passes("validation") <=> (\A f \in Selected : ~StepUnknown(f, HasPlugins))
  /\ Passes("scheduling") <=> (\A f \in Selected : Step(f) # "badtag")
  /\ Passes("resources") <=>
       (ApiValid /\ SrpValid /\ DsnValid /\ (suite.dsn = "good" => suite.dbUp))
BY DEF Passes

LEMMA OpensStands ==
  ASSUME suite' = suite, NEW stage \in DOMAIN Place, stage # "started"
  PROVE  Opens(stage)' <=> Opens(stage)
<1>1. \A f \in Files : (StepUnknown(f, HasPlugins)' <=> StepUnknown(f, HasPlugins)) /\ Step(f)' = Step(f)
  BY SuiteReads DEF StepUnknown, Step
<1>2. RegistryBuilds(HasPlugins)' <=> RegistryBuilds(HasPlugins)
  BY SuiteReads DEF RegistryBuilds
<1>3. Selected \subseteq Files
  BY DEF Selected, SelectedBy
<1>4. CASE stage \in {"reports", "events"}
  BY <1>4, SuiteReads DEF Opens
<1>9. CASE stage = "evidence"
  BY <1>9, SuiteReads DEF Opens, Passes
<1>10. CASE stage = "config"
  BY <1>10, SuiteReads DEF Opens, Passes
<1>11. CASE stage = "settings"
  BY <1>11, SuiteReads DEF Opens, Passes
<1>12. CASE stage = "buffer"
  BY <1>12, SuiteReads DEF Opens, Passes
<1>13. CASE stage = "privacy"
  BY <1>13, SuiteReads DEF Opens, Passes
<1>14. CASE stage = "plugins"
  BY <1>14, SuiteReads DEF Opens, Passes
<1>6. CASE stage \in {"steps", "selection"}
  BY <1>6, <1>2, SuiteReads DEF Opens, Passes
<1>7. CASE stage \in {"validation", "scheduling"}
  BY <1>7, <1>1, <1>3, SuiteReads DEF Opens, Passes
<1>8. CASE stage = "resources"
  BY <1>8, SuiteReads DEF Opens, Passes
<1> QED
  BY <1>4, <1>6, <1>7, <1>8, <1>9, <1>10, <1>11, <1>12, <1>13, <1>14 DEF Place

\* A run goes one stage on from one it passes, and is refused where it does not.
LEMMA RunSteps ==
  ASSUME RunInv, Next
  PROVE  \/ run' = run
         \/ /\ run.stage \in Stages \cup {"reports", "events"} /\ Opens(run.stage)
            /\ run'.stage \in DOMAIN Place /\ Place[run'.stage] = Place[run.stage] + 1
            /\ run' = [stage |-> run'.stage, settled |-> run.settled] /\ run.settled = NotSettled
         \/ /\ run.stage \in Stages \cup {"reports", "events"} /\ ~Opens(run.stage)
            /\ run' = [stage |-> run.stage, settled |-> 2]
         \/ run.stage = "started" /\ run' = [stage |-> "started", settled |-> run'.settled]
<1>0. run = [stage |-> run.stage, settled |-> run.settled] /\ run.stage \in DOMAIN Place
  BY DEF RunInv
<1>1. CASE PrepareReports
  BY <1>0, <1>1 DEF PrepareReports, Running, Advance, Refuse, Opens, Place
<1>2. CASE OpenEvents
  BY <1>0, <1>2 DEF OpenEvents, Running, Advance, Refuse, Opens, Place
<1>3. CASE Stage
  BY <1>0, <1>3 DEF Stage, Running, Advance, Refuse, Opens, Place, Stages, NextStage
<1>4. CASE Runs
  BY <1>0, <1>4 DEF Runs
<1>5. CASE Killed \/ EndBegins \/ Answered \/ Send \/ Signal
  BY <1>5 DEF Killed, EndBegins, Answered, Send, Signal, Exits
<1>6. CASE DoctorReports \/ DoctorConfig \/ DoctorPlugins \/ DoctorFeatures \/ DoctorResources
  BY <1>6 DEF DoctorReports, DoctorConfig, DoctorPlugins, DoctorFeatures, DoctorResources
<1> QED
  BY <1>1, <1>2, <1>3, <1>4, <1>5, <1>6 DEF Next

LEMMA RunKept ==
  ASSUME RunInv, [Next]_vars
  PROVE  RunInv'
<1>1. CASE UNCHANGED vars
  <2>1. suite' = suite /\ run' = run
    BY <1>1 DEF vars
  <2>2. \A stage \in DOMAIN Place : stage # "started" => (Opens(stage)' <=> Opens(stage))
    BY <2>1, OpensStands
  <2>3. \A stage \in DOMAIN Place : Place[stage] < Place[run.stage] => stage # "started"
    BY DEF RunInv, Place
  <2> QED
    BY <2>1, <2>2, <2>3 DEF RunInv
<1>2. CASE Next
  <2>1. suite' = suite
    BY <1>2, SuiteStands
  <2>2. \A stage \in DOMAIN Place : stage # "started" => (Opens(stage)' <=> Opens(stage))
    BY <2>1, OpensStands
  <2>3. \A stage \in DOMAIN Place : Place[stage] \in 0..13 /\ (Place[stage] = 13 <=> stage = "started")
    BY DEF Place
  <2>4. \A s, t \in DOMAIN Place : Place[s] = Place[t] => s = t
    BY DEF Place
  <2>5. CASE run' = run
    BY <2>1, <2>2, <2>3, <2>5 DEF RunInv
  <2>6. CASE /\ run.stage \in Stages \cup {"reports", "events"} /\ Opens(run.stage)
             /\ run'.stage \in DOMAIN Place /\ Place[run'.stage] = Place[run.stage] + 1
             /\ run' = [stage |-> run'.stage, settled |-> run.settled] /\ run.settled = NotSettled
    <3>1. \A stage \in DOMAIN Place : Place[stage] < Place[run'.stage] => Opens(stage)
      BY <2>3, <2>4, <2>6 DEF RunInv
    <3>2. \A stage \in DOMAIN Place : Place[stage] < Place[run'.stage] => stage # "started"
      BY <2>3, <2>6
    <3>3. \A stage \in DOMAIN Place : Place[stage] < Place[run'.stage] => Opens(stage)'
      BY <2>2, <3>1, <3>2
    <3>4. run'.settled = NotSettled
      BY <2>6
    <3> QED
      BY <2>1, <2>6, <3>3, <3>4 DEF RunInv
  <2>7. CASE /\ run.stage \in Stages \cup {"reports", "events"} /\ ~Opens(run.stage)
             /\ run' = [stage |-> run.stage, settled |-> 2]
    <3>1. run.stage # "started" /\ run'.stage = run.stage /\ run'.settled = 2
      BY <2>7 DEF Stages, NextStage
    <3>2. \A stage \in DOMAIN Place : Place[stage] < Place[run.stage] => Opens(stage)'
      BY <2>2, <2>3 DEF RunInv
    <3>3. ~Opens(run.stage)'
      BY <2>2, <2>7, <3>1 DEF RunInv
    <3> QED
      BY <2>1, <2>7, <3>1, <3>2, <3>3 DEF RunInv
  <2>8. CASE run.stage = "started" /\ run' = [stage |-> "started", settled |-> run'.settled]
    <3>1. \A stage \in DOMAIN Place : Place[stage] < Place[run.stage] => Opens(stage)'
      BY <2>2, <2>3 DEF RunInv
    <3> QED
      BY <2>1, <2>8, <3>1 DEF RunInv
  <2> QED
    BY <1>2, <2>5, <2>6, <2>7, <2>8, RunSteps
<1> QED
  BY <1>1, <1>2

LEMMA RunBegins == Init => RunInv
<1> SUFFICES ASSUME Init PROVE RunInv
  OBVIOUS
<1>1. run = [stage |-> "reports", settled |-> NotSettled] /\ suite \in Suites
  BY DEF Init
<1> QED
  BY <1>1 DEF RunInv, Place

------------------------------------------------------------------------------
(***************************************************************************)
(* The rows of each stage are read off the suite too.                      *)
(***************************************************************************)
LEMMA RowsStand ==
  ASSUME suite' = suite
  PROVE  /\ ReportRows' = ReportRows /\ PluginRows' = PluginRows
         /\ FeatureRows' = FeatureRows /\ ResourceRows' = ResourceRows
         /\ ConfigUsable' <=> ConfigUsable
<1>1. ReportRows' = ReportRows
  BY SuiteReads DEF ReportRows, Row
<1>2. RefusedRows' = RefusedRows /\ ProbeRows' = ProbeRows /\ (DoctorHas' <=> DoctorHas)
  BY SuiteReads DEF RefusedRows, ProbeRows, Refused, DoctorHas
<1>3. RegistryBuilds(DoctorHas)' <=> RegistryBuilds(DoctorHas)
  BY <1>2 DEF RegistryBuilds
<1>4. PluginRows' = PluginRows
  BY <1>2, <1>3, SuiteReads DEF PluginRows, Row
<1>5. \A f : /\ Step(f)' = Step(f) /\ (StepUnknown(f, DoctorHas)' <=> StepUnknown(f, DoctorHas))
             /\ Unserved(f)' <=> Unserved(f)
  BY <1>2, SuiteReads DEF Step, StepUnknown, Unserved
<1>6. Parsed' = Parsed /\ (Trusted' <=> Trusted)
  BY <1>3, <1>5, SuiteReads DEF Parsed, Trusted
<1>7. /\ {f \in Parsed : StepUnknown(f, DoctorHas)}' = {f \in Parsed : StepUnknown(f, DoctorHas)}
      /\ {f \in Parsed : Unserved(f)}' = {f \in Parsed : Unserved(f)}
      /\ FirstBadTag' = FirstBadTag
  BY <1>5, <1>6 DEF FirstBadTag, BadTags
<1>8. StepProblems' = StepProblems
  BY <1>6, <1>7 DEF StepProblems
<1>9. Paths' = Paths /\ SelectedBy(suite.tagsKey)' = SelectedBy(suite.tagsKey)
  BY DEF Paths, SelectedBy
<1>10. FeatureRows' = FeatureRows
  BY <1>6, <1>7, <1>8, <1>9 DEF FeatureRows, Row
<1>11. ResourceRows' = ResourceRows
  <2>1. EvidenceFails' <=> EvidenceFails
    BY DEF EvidenceFails, Stream
  <2> QED
    BY <2>1, SuiteReads DEF ResourceRows, Row
<1>12. ConfigUsable' <=> ConfigUsable
  BY SuiteReads, OpensStands DEF ConfigUsable, Passes
<1> QED
  BY <1>1, <1>4, <1>10, <1>11, <1>12

LEMMA DoctorKept ==
  ASSUME DoctorInv, [Next]_vars
  PROVE  DoctorInv'
<1>0. CASE doctor' = doctor /\ suite' = suite
  BY <1>0, RowsStand DEF DoctorInv, AllRows
<1>1. CASE UNCHANGED vars
  BY <1>0, <1>1 DEF vars
<1>2. CASE Next
  <2>0. suite' = suite
    BY <1>2, SuiteStands
  <2>1. CASE PrepareReports \/ OpenEvents \/ Stage \/ Killed \/ Runs
    BY <1>0, <2>0, <2>1 DEF PrepareReports, OpenEvents, Stage, Killed, Runs
  <2>2. CASE EndBegins \/ Answered \/ Send \/ Signal
    BY <1>0, <2>0, <2>2 DEF EndBegins, Answered, Send, Signal
  <2>3. CASE DoctorReports
    BY <2>0, <2>3, RowsStand DEF DoctorReports, Goes, DoctorInv
  <2>4. CASE DoctorConfig
    BY <2>0, <2>4, RowsStand DEF DoctorConfig, Goes, DoctorInv, ConfigUsable, ConfigRow
  <2>5. CASE DoctorPlugins
    BY <2>0, <2>5, RowsStand DEF DoctorPlugins, Goes, DoctorInv
  <2>6. CASE DoctorFeatures
    BY <2>0, <2>6, RowsStand DEF DoctorFeatures, Goes, DoctorInv
  <2>7. CASE DoctorResources
    BY <2>0, <2>7, RowsStand DEF DoctorResources, Goes, DoctorInv, AllRows
  <2> QED
    BY <1>2, <2>1, <2>2, <2>3, <2>4, <2>5, <2>6, <2>7 DEF Next
<1> QED
  BY <1>1, <1>2

LEMMA DoctorBegins == Init => DoctorInv
BY DEF Init, DoctorInv

------------------------------------------------------------------------------
(***************************************************************************)
(* What refuses a run has its row: the two commands ask the same of the    *)
(* suite, in another order and with doctor going on where a run stops.     *)
(***************************************************************************)
LEMMA RowIs ==
  ASSUME NEW stage, NEW bad, NEW why, bad
  PROVE  <<stage, why>> \in Row(stage, bad, why)
BY DEF Row

\* The refused paths are rows whatever became of the report after them.
LEMMA ReportRefusalRows ==
  /\ {<<"reports", r[1]>> : r \in {r \in Reports : r[2] = "bad"}} \subseteq ReportRows
  /\ suite.eventsFlag = "bad" => <<"reports", "events">> \in ReportRows
  /\ suite.junit = "bad" \/ suite.cucumber = "bad" => ReportRows # {}
<1>1. {<<"reports", r[1]>> : r \in {r \in Reports : r[2] = "bad"}} \subseteq ReportRows
  BY DEF ReportRows
<1>2. suite.eventsFlag = "bad" => <<"reports", "events">> \in ReportRows
  BY DEF ReportRows, Row
<1>3. ASSUME NEW name \in {"junit", "cucumber"}, <<name, "bad">> \in Reports
      PROVE  ReportRows # {}
  <2>1. PICK r : r = <<name, "bad">>
    OBVIOUS
  <2>2. r \in Reports /\ r[2] = "bad"
    BY <1>3, <2>1
  <2>3. <<"reports", r[1]>> \in ReportRows
    BY ONLY <2>2 DEF ReportRows
  <2> QED
    BY <2>3
<1>4. /\ suite.junit = "bad" => <<"junit", "bad">> \in Reports
      /\ suite.cucumber = "bad" => <<"cucumber", "bad">> \in Reports
  BY DEF Reports
<1> QED
  BY <1>1, <1>2, <1>3, <1>4

\* Whether a stream is wanted, and evidence for it, is asked alike.
LEMMA StreamAlike ==
  ASSUME ~RunOnly
  PROVE  /\ EventsPath # None <=> Stream
         /\ ~EvidenceValid \/ ~(EvidenceAny => ~suite.bufferBad) => EvidenceFails
         /\ EvidenceValid /\ (EvidenceAny => ~suite.bufferBad) => ~EvidenceFails
<1>1. EventsPath = IF suite.eventsFlag # None THEN suite.eventsFlag ELSE suite.eventsVar
  BY FirstOfTwo DEF EventsPath
<1>2. EventsPath # None <=> Stream
  BY <1>1 DEF Stream
<1>3. ~suite.evidenceFlag
  BY DEF RunOnly
<1> QED
  BY <1>2, <1>3 DEF EvidenceValid, EvidenceAny, EvidenceGiven, EvidenceFails, None

\* A command line that names no paths and no tags leaves both to the suite.
LEMMA ScopeAlike ==
  ASSUME ~RunOnly
  PROVE  CliPaths = Paths /\ Selected = SelectedBy(suite.tagsKey) /\ Selected \subseteq Files
<1>1. FirstOf(<<suite.cliPaths, Paths>>) = Paths
  BY FirstOfTwo DEF RunOnly
<1>2. FirstOf(<<suite.cliTags, suite.tagsKey>>) = suite.tagsKey
  BY FirstOfTwo DEF RunOnly
<1> QED
  BY <1>1, <1>2 DEF CliPaths, Selected, SelectedBy

LEMMA PluginRefusalRows ==
  /\ ~PluginsLoad => <<"plugins", "load">> \in PluginRows
  /\ PluginsLoad => {<<"instance", i>> : i \in Refused} \subseteq PluginRows
  /\ PluginsLoad /\ ~RegistryBuilds(HasPlugins) => <<"macros", "macros">> \in PluginRows
<1>1. ~PluginsLoad => <<"plugins", "load">> \in PluginRows
  BY DEF PluginRows, Row
<1>2. PluginsLoad => {<<"instance", i>> : i \in Refused} \subseteq PluginRows
  BY DEF PluginRows, RefusedRows
<1>3. ASSUME PluginsLoad, ~RegistryBuilds(HasPlugins)
      PROVE  <<"macros", "macros">> \in PluginRows
  <2>1. ~RegistryBuilds(DoctorHas)
    BY <1>3 DEF DoctorHas, RegistryBuilds
  <2> QED
    BY <2>1 DEF PluginRows, Row
<1> QED
  BY <1>1, <1>2, <1>3

\* One of the badly tagged files is the first.
LEMMA BadTagIsFirst == BadTags # {} => FirstBadTag # {}
<1> SUFFICES ASSUME NEW f \in BadTags PROVE FirstBadTag # {}
  OBVIOUS
<1>1. f \in {"f1", "f2"}
  BY DEF BadTags, Parsed, Files
<1>2. CASE "f1" \in BadTags
  <2>1. "f1" \in FirstBadTag
    BY <1>2 DEF FirstBadTag
  <2> QED
    BY <2>1
<1>3. CASE "f1" \notin BadTags
  <2>1. f \in FirstBadTag
    BY <1>3 DEF FirstBadTag
  <2> QED
    BY <2>1
<1> QED
  BY <1>2, <1>3

LEMMA FeatureRefusalRows ==
  ASSUME ~RunOnly
  PROVE  /\ Paths = "gone" => <<"steps", "paths">> \in FeatureRows
         /\ Paths # "gone" => StepProblems \subseteq FeatureRows
         /\ FeaturesLoad /\ Selected = {} =>
              /\ Row("steps", StepProblems = {}, "nothing selected") \subseteq FeatureRows
              /\ FeatureRows # {}
         /\ FeaturesLoad => /\ {<<"scheduling", f>> : f \in FirstBadTag} \subseteq FeatureRows
                            /\ \A f \in Selected : Step(f) = "badtag" => FirstBadTag # {}
<1>0. CliPaths = Paths /\ Selected = SelectedBy(suite.tagsKey) /\ Selected \subseteq Files
  BY ScopeAlike
<1>1. Paths = "gone" => <<"steps", "paths">> \in FeatureRows
  BY DEF FeatureRows
<1>2. ASSUME Paths # "gone"
      PROVE  /\ StepProblems \subseteq FeatureRows
             /\ StepProblems = {} /\ SelectedBy(suite.tagsKey) \cap Parsed = {} =>
                  <<"steps", "nothing selected">> \in FeatureRows
             /\ {<<"scheduling", f>> : f \in FirstBadTag} \subseteq FeatureRows
  <2>1. StepProblems \subseteq FeatureRows
    BY <1>2 DEF FeatureRows
  <2>2. StepProblems = {} /\ SelectedBy(suite.tagsKey) \cap Parsed = {} =>
          <<"steps", "nothing selected">> \in FeatureRows
    BY <1>2 DEF FeatureRows, Row
  <2>3. {<<"scheduling", f>> : f \in FirstBadTag} \subseteq FeatureRows
    BY <1>2 DEF FeatureRows
  <2> QED
    BY <2>1, <2>2, <2>3
<1>3. FeaturesLoad => Paths # "gone" /\ Parsed = Files
  BY <1>0 DEF FeaturesLoad, Parsed
<1>4. ASSUME FeaturesLoad, Selected = {}
      PROVE  /\ Row("steps", StepProblems = {}, "nothing selected") \subseteq FeatureRows
             /\ FeatureRows # {}
  <2>1. SelectedBy(suite.tagsKey) \cap Parsed = {}
    BY <1>0, <1>4
  <2>2. CASE StepProblems = {}
    BY <1>2, <1>3, <1>4, <2>1, <2>2 DEF Row
  <2>3. CASE StepProblems # {}
    BY <1>2, <1>3, <1>4, <2>3 DEF Row
  <2> QED
    BY <2>2, <2>3
<1>5. ASSUME FeaturesLoad, NEW f \in Selected, Step(f) = "badtag"
      PROVE  FirstBadTag # {}
  <2>1. f \in BadTags
    BY <1>0, <1>3, <1>5 DEF BadTags
  <2> QED
    BY <2>1, BadTagIsFirst
<1> QED
  BY <1>1, <1>2, <1>3, <1>4, <1>5

\* What a run asks of its resources, each with the row doctor gives it.
ResourceReasons ==
  Row("api", ~ApiValid, "url") \cup Row("srp", ~SrpValid, "params")
  \cup Row("db", ~DsnValid, "dsn")
  \cup Row("live", suite.live /\ suite.dsn = "good" /\ ~suite.dbUp, "db")

LEMMA ResourceRefusalRows ==
  /\ ~PrivacyValid => <<"privacy", "privacy">> \in ResourceRows
  /\ EvidenceFails => <<"evidence", "evidence">> \in ResourceRows
  /\ ResourceReasons \subseteq ResourceRows
  /\ ~(ApiValid /\ SrpValid /\ DsnValid /\ (suite.dsn = "good" => suite.dbUp)) =>
       \/ ResourceReasons # {}
       \/ ~suite.dbUp /\ ~suite.live
<1>1. /\ ~PrivacyValid => <<"privacy", "privacy">> \in ResourceRows
      /\ EvidenceFails => <<"evidence", "evidence">> \in ResourceRows
  BY DEF ResourceRows, Row
<1>2. ResourceReasons \subseteq ResourceRows
  BY DEF ResourceReasons, ResourceRows
<1>3. /\ ~ApiValid => <<"api", "url">> \in ResourceReasons
      /\ ~SrpValid => <<"srp", "params">> \in ResourceReasons
      /\ ~DsnValid => <<"db", "dsn">> \in ResourceReasons
      /\ suite.live /\ suite.dsn = "good" /\ ~suite.dbUp => <<"live", "db">> \in ResourceReasons
  BY DEF ResourceReasons, Row
<1> QED
  BY <1>1, <1>2, <1>3

\* A refused run is refused by the stage it stands at, after those before it.
LEMMA RefusedAt ==
  ASSUME RunInv, RunRefused
  PROVE  /\ run.stage \in DOMAIN Place /\ run.stage # "started" /\ ~Opens(run.stage)
         /\ \A stage \in DOMAIN Place : Place[stage] < Place[run.stage] => Opens(stage)
BY DEF RunInv, RunRefused, NotSettled

LEMMA RefusalHasARow == PredictInv => RefusalIsARow
<1> SUFFICES ASSUME PredictInv, DoctorDone, RunRefused, ~RunOnly
             PROVE  /\ \/ Reasons(run.stage) \subseteq doctor.rows
                       \/ run.stage = "evidence" /\ <<"config", "config">> \in doctor.rows
                    /\ \/ doctor.rows # {}
                       \/ run.stage = "resources" /\ ~suite.dbUp /\ ~suite.live
  BY DEF RefusalIsARow
<1>0. RunInv /\ DoctorInv
  BY DEF PredictInv
<1>1. /\ run.stage \in DOMAIN Place /\ run.stage # "started" /\ ~Opens(run.stage)
      /\ \A stage \in DOMAIN Place : Place[stage] < Place[run.stage] => Opens(stage)
  BY <1>0, RefusedAt
<1>2. CASE run.stage \in {"reports", "events"}
  <2>1. ReportRows \subseteq doctor.rows
    BY <1>0 DEF DoctorInv, DoctorDone, AllRows
  <2>2. CASE run.stage = "reports"
    <3>1. Reasons(run.stage) = {<<"reports", r[1]>> : r \in {r \in Reports : r[2] = "bad"}}
      BY <2>2 DEF Reasons
    <3>2. suite.junit = "bad" \/ suite.cucumber = "bad"
      BY <1>1, <2>2 DEF Opens
    <3> QED
      BY <2>1, <3>1, <3>2, ReportRefusalRows
  <2>3. CASE run.stage = "events"
    <3>1. Reasons(run.stage) = {<<"reports", "events">>}
      BY <2>3 DEF Reasons
    <3>2. suite.eventsFlag = "bad"
      BY <1>1, <2>3, FirstOfTwo DEF Opens, EventsPath, RunOnly
    <3> QED
      BY <2>1, <3>1, <3>2, ReportRefusalRows
  <2> QED
    BY <1>2, <2>2, <2>3
<1>3. CASE ~ConfigUsable /\ run.stage \notin {"reports", "events"}
  <2>1. <<"config", "config">> \in doctor.rows
    BY <1>0, <1>3 DEF DoctorInv, DoctorDone, ConfigRow
  <2>2. run.stage \in {"evidence", "config", "settings"}
    BY <1>1, <1>3, PassesAre DEF ConfigUsable, Opens, Place
  <2>3. run.stage \in {"config", "settings"} => Reasons(run.stage) = {<<"config", "config">>}
    BY DEF Reasons
  <2> QED
    BY <2>1, <2>2, <2>3
<1>4. CASE ConfigUsable /\ run.stage \notin {"reports", "events"}
  <2>1. doctor.rows = AllRows
    BY <1>0, <1>4 DEF DoctorInv, DoctorDone
  <2>2. /\ PluginRows \subseteq doctor.rows /\ FeatureRows \subseteq doctor.rows
        /\ ResourceRows \subseteq doctor.rows
    BY ONLY <2>1 DEF AllRows
  <2>3. run.stage \notin {"config", "settings"}
    BY <1>1, <1>4, PassesAre DEF ConfigUsable, Opens
  <2>4. CASE run.stage \in {"evidence", "buffer"}
    <3>1. ~EvidenceValid \/ ~(EvidenceAny => ~suite.bufferBad)
      BY <1>1, <2>4, PassesAre DEF Opens
    <3>2. <<"evidence", "evidence">> \in ResourceRows
      BY <3>1, StreamAlike, ResourceRefusalRows
    <3>3. Reasons(run.stage) = {<<"evidence", "evidence">>}
      BY <2>4 DEF Reasons
    <3> QED
      BY <2>2, <3>2, <3>3
  <2>5. CASE run.stage = "privacy"
    <3>1. <<"privacy", "privacy">> \in ResourceRows
      BY <1>1, <2>5, PassesAre, ResourceRefusalRows DEF Opens
    <3>2. Reasons(run.stage) = {<<"privacy", "privacy">>}
      BY <2>5 DEF Reasons
    <3> QED
      BY <2>2, <3>1, <3>2
  <2>6. CASE run.stage = "plugins"
    <3>1. ~(PluginsLoad /\ EnsureValid)
      BY <1>1, <2>6, PassesAre DEF Opens
    <3>2. Reasons(run.stage) = IF PluginsLoad THEN {<<"instance", i>> : i \in Refused}
                               ELSE {<<"plugins", "load">>}
      BY <2>6 DEF Reasons
    <3>3. Reasons(run.stage) \subseteq PluginRows
      BY <3>2, PluginRefusalRows
    <3>4. Reasons(run.stage) # {}
      BY <3>1, <3>2 DEF EnsureValid
    <3> QED
      BY <2>2, <3>3, <3>4
  <2>7. CASE run.stage = "steps"
    <3>1. Opens("plugins") /\ ~Opens("steps")
      BY <1>1, <2>7 DEF Place
    <3>2. <<"macros", "macros">> \in PluginRows
      BY <3>1, PassesAre, PluginRefusalRows DEF Opens
    <3>3. Reasons(run.stage) = {<<"macros", "macros">>}
      BY <2>7 DEF Reasons
    <3> QED
      BY <2>2, <3>2, <3>3
  <2>8. CASE run.stage = "selection"
    <3>1. ~(FeaturesLoad /\ Selected # {}) /\ CliPaths = Paths
      BY <1>1, <2>8, PassesAre, ScopeAlike DEF Opens
    <3>2. Reasons(run.stage) =
            IF CliPaths = "gone" THEN {<<"steps", "paths">>}
            ELSE IF ~FeaturesLoad THEN {<<"steps", f>> : f \in Files \ Parsed}
            ELSE Row("steps", StepProblems = {}, "nothing selected")
      BY <2>8 DEF Reasons
    <3>3. CASE CliPaths = "gone"
      <4>1. <<"steps", "paths">> \in FeatureRows
        BY <3>1, <3>3, FeatureRefusalRows
      <4>2. Reasons(run.stage) = {<<"steps", "paths">>}
        BY <3>2, <3>3
      <4> QED
        BY <2>2, <4>1, <4>2
    <3>4. CASE CliPaths # "gone" /\ ~FeaturesLoad
      <4>1. {<<"steps", f>> : f \in Files \ Parsed} \subseteq StepProblems
        BY DEF StepProblems
      <4>2. Files \ Parsed # {}
        BY <3>4 DEF FeaturesLoad, Parsed
      <4> QED
        BY <2>2, <3>1, <3>2, <3>4, <4>1, <4>2, FeatureRefusalRows
    <3>5. CASE CliPaths # "gone" /\ FeaturesLoad
      BY <2>2, <3>1, <3>2, <3>5, FeatureRefusalRows
    <3> QED
      BY <3>3, <3>4, <3>5
  <2>9. CASE run.stage = "validation"
    <3>1. Opens("plugins") /\ Opens("steps") /\ Opens("selection") /\ ~Opens("validation")
      BY <1>1, <2>9 DEF Place
    <3>2. PluginsLoad /\ RegistryBuilds(HasPlugins) /\ FeaturesLoad
      BY <3>1, PassesAre DEF Opens
    <3>3. CliPaths = Paths /\ Selected \subseteq Files
      BY ScopeAlike
    <3>4. Paths # "gone" /\ Parsed = Files
      BY <3>2, <3>3 DEF FeaturesLoad, Parsed
    <3>5. Trusted /\ (DoctorHas <=> HasPlugins)
      BY <3>2 DEF Trusted, DoctorHas, RegistryBuilds
    <3>6. \A f \in Selected : StepUnknown(f, HasPlugins) => <<"steps", f>> \in StepProblems
      BY <3>3, <3>4, <3>5 DEF StepProblems, StepUnknown
    <3>7. Reasons(run.stage) = {<<"steps", f>> : f \in {f \in Selected : StepUnknown(f, HasPlugins)}}
      BY <2>9 DEF Reasons
    <3>8. Reasons(run.stage) \subseteq StepProblems
      BY <3>6, <3>7
    <3>9. Reasons(run.stage) # {}
      BY <3>1, <3>7, PassesAre DEF Opens
    <3> QED
      BY <2>2, <3>4, <3>8, <3>9, FeatureRefusalRows
  <2>10. CASE run.stage = "scheduling"
    <3>1. Opens("selection") /\ ~Opens("scheduling")
      BY <1>1, <2>10 DEF Place
    <3>2. FeaturesLoad /\ \E f \in Selected : Step(f) = "badtag"
      BY <3>1, PassesAre DEF Opens
    <3>3. Reasons(run.stage) = {<<"scheduling", f>> : f \in FirstBadTag}
      BY <2>10 DEF Reasons
    <3> QED
      BY <2>2, <3>2, <3>3, FeatureRefusalRows
  <2>11. CASE run.stage = "resources"
    <3>1. ~(ApiValid /\ SrpValid /\ DsnValid /\ (suite.dsn = "good" => suite.dbUp))
      BY <1>1, <2>11, PassesAre DEF Opens
    <3>2. Reasons(run.stage) = ResourceReasons
      BY <2>11 DEF Reasons, ResourceReasons
    <3> QED
      BY <2>2, <2>11, <3>1, <3>2, ResourceRefusalRows
  <2> QED
    BY <1>1, <1>4, <2>3, <2>4, <2>5, <2>6, <2>7, <2>8, <2>9, <2>10, <2>11 DEF Place
<1> QED
  BY <1>2, <1>3, <1>4

LEMMA StartedIsClean == PredictInv => NotStricter
<1> SUFFICES ASSUME PredictInv, DoctorDone, run.stage = "started", ~RunOnly, NEW row \in doctor.rows
             PROVE  row[1] = "unserved" \/ row[2] \in Files \ Selected \/ ProbedAlone(row)
  BY DEF NotStricter
<1>0. RunInv /\ DoctorInv
  BY DEF PredictInv
<1>1. \A stage \in DOMAIN Place : stage # "started" => Opens(stage)
  BY <1>0 DEF RunInv, Place
<1>2. /\ suite.junit # "bad" /\ suite.cucumber # "bad" /\ EventsPath # "bad"
      /\ EvidenceValid /\ (EvidenceAny => ~suite.bufferBad)
      /\ ConfigPath \notin {None, Error} /\ Readable /\ Applies /\ PrivacyValid
  BY <1>1, PassesAre DEF Opens, Place
<1>3. PluginsLoad /\ EnsureValid /\ RegistryBuilds(HasPlugins)
  BY <1>1, PassesAre DEF Opens, Place
<1>4. /\ FeaturesLoad /\ Selected # {} /\ (\A f \in Selected : ~StepUnknown(f, HasPlugins))
      /\ \A f \in Selected : Step(f) # "badtag"
  BY <1>1, PassesAre DEF Opens, Place
<1>5. ApiValid /\ SrpValid /\ DsnValid /\ (suite.dsn = "good" => suite.dbUp)
  BY <1>1, PassesAre DEF Opens, Place
<1>6. doctor.rows = AllRows
  BY <1>0, <1>2, PassesAre DEF DoctorInv, DoctorDone, ConfigUsable
<1>7. ReportRows = {}
  <2>1. suite.eventsFlag # "bad"
    BY <1>2, FirstOfTwo DEF EventsPath, None
  <2>2. \A r \in Reports : r[2] # "bad"
    BY <1>2 DEF Reports
  <2> QED
    BY <2>1, <2>2 DEF ReportRows, Row
<1>8. PluginRows = ProbeRows
  <2>1. RefusedRows = {} /\ (DoctorHas <=> HasPlugins)
    BY <1>3 DEF RefusedRows, EnsureValid, DoctorHas
  <2>2. RegistryBuilds(DoctorHas)
    BY <1>3, <2>1 DEF RegistryBuilds
  <2> QED
    BY <1>3, <2>1, <2>2 DEF PluginRows, Row, PluginsLoad
<1>9. ResourceRows = Row("live", suite.live /\ suite.apis # {} /\ ApiValid /\ ~suite.apiUp, "api")
  BY <1>2, <1>5, StreamAlike DEF ResourceRows, Row
<1>10. row \in FeatureRows \/ ProbedAlone(row)
  <2>1. row \in ProbeRows => ProbedAlone(row)
    BY DEF ProbeRows, ProbedAlone
  <2>2. row \in ResourceRows => ProbedAlone(row)
    BY <1>9 DEF Row, ProbedAlone
  <2> QED
    BY <1>6, <1>7, <1>8, <2>1, <2>2 DEF AllRows
<1>11. CliPaths = Paths /\ Selected = SelectedBy(suite.tagsKey) /\ Selected \subseteq Files
  BY ScopeAlike
<1>12. Paths # "gone" /\ Parsed = Files
  BY <1>4, <1>11 DEF FeaturesLoad, Parsed
<1>13. \A f \in Files : StepUnknown(f, DoctorHas) => f \notin Selected
  BY <1>3, <1>4 DEF DoctorHas, StepUnknown
<1>14. \A r \in StepProblems : r[1] = "unserved" \/ r[2] \in Files \ Selected
  <2>1. StepProblems \subseteq {<<"steps", f>> : f \in {f \in Parsed : StepUnknown(f, DoctorHas)}}
                               \cup {<<"unserved", f>> : f \in {f \in Parsed : Unserved(f)}}
    BY <1>12 DEF StepProblems
  <2> QED
    BY <1>12, <1>13, <2>1
<1>15. SelectedBy(suite.tagsKey) \cap Parsed # {}
  BY <1>4, <1>11, <1>12
<1>16. row \in FeatureRows =>
         row \in StepProblems \/ row \in {<<"scheduling", f>> : f \in FirstBadTag}
  BY <1>12, <1>15 DEF FeatureRows, Row
<1>17. \A f \in FirstBadTag : f \in Files \ Selected
  BY <1>4, <1>12 DEF FirstBadTag, BadTags
<1> QED
  BY <1>10, <1>14, <1>16, <1>17

(***************************************************************************)
(* doctor does every check a run makes, goes on past the first problem,    *)
(* and is no stricter: of any suite, every problem of the stage that       *)
(* refuses a run has its row in the doctor's report, and a run that starts *)
(* finds a report without rows but for steps no resource serves, scenarios *)
(* its tags keep out, and the two probes of --live that a run never makes. *)
(***************************************************************************)
THEOREM DoctorForetells == Spec => []DoctorPredicts
<1>1. Init => PredictInv
  BY RunBegins, DoctorBegins DEF PredictInv
<1>2. PredictInv /\ [Next]_vars => PredictInv'
  BY RunKept, DoctorKept DEF PredictInv
<1>3. PredictInv => DoctorPredicts
  BY RefusalHasARow, StartedIsClean DEF DoctorPredicts
<1> QED
  BY <1>1, <1>2, <1>3, PTL DEF Spec

------------------------------------------------------------------------------
(***************************************************************************)
(* The outputs: a run reaches the config only when every output it was     *)
(* given could be created, so what EmptyLeft says of a named output follows*)
(* from where it was emptied.                                              *)
(***************************************************************************)
\* What is named, and what the stages behind the run say of it.
PathOf(f) == IF f = "events" THEN EventsPath ELSE suite[f]

LEMMA PathsAre ==
  ASSUME suite \in Suites
  PROVE  /\ EventsPath \in {None, "ok", "bad", "fifo"}
         /\ EventsPath = IF suite.eventsFlag # None THEN suite.eventsFlag ELSE suite.eventsVar
         /\ \A f \in Outputs : f # "events" =>
              PathOf(f) \in {None, "ok", "bad"} /\ (<<f, "ok">> \in Reports <=> PathOf(f) = "ok")
         /\ \A f \in Outputs : <<f, "ok">> \in Reports => f # "events"
         /\ PathOf("junit") = suite.junit /\ PathOf("cucumber") = suite.cucumber
<1>1. /\ {suite.junit, suite.cucumber} \subseteq {None, "ok", "bad"}
      /\ {suite.eventsFlag, suite.eventsVar} \subseteq {None, "ok", "bad", "fifo"}
  BY SuitesAssumption DEF SuitesAssumption
<1>2. EventsPath = IF suite.eventsFlag # None THEN suite.eventsFlag ELSE suite.eventsVar
  BY FirstOfTwo DEF EventsPath
<1>3. EventsPath \in {None, "ok", "bad", "fifo"}
  BY <1>1, <1>2
<1>4. PathOf("junit") = suite.junit /\ PathOf("cucumber") = suite.cucumber
  BY DEF PathOf
<1>5. \A f : <<f, "ok">> \in Reports <=>
               (f = "junit" /\ suite.junit = "ok") \/ (f = "cucumber" /\ suite.cucumber = "ok")
  BY DEF Reports
<1> QED
  BY <1>1, <1>2, <1>3, <1>4, <1>5 DEF Outputs

\* Of one output, after the stream's stage.
Stands(f) ==
  /\ PathOf(f) # None => left[f] # "old"
  /\ PathOf(f) = None => left[f] = "old"
  /\ PathOf(f) = "ok" /\ run.stage # "started" => left[f] = "empty"
  /\ f = "events" /\ PathOf(f) = "fifo" => left[f] = "open"

LEMMA EmptyLeftIs ==
  EmptyLeft <=> (run.stage \notin {"reports", "events"} => \A f \in Outputs : Stands(f))
BY DEF EmptyLeft, Stands, PathOf

OutputsInv == RunInv /\ Telling /\ LeftInv /\ EmptyLeft

LEMMA TellingKept == Telling /\ [Next]_vars => Telling'
<1> SUFFICES ASSUME Telling, [Next]_vars PROVE Telling'
  OBVIOUS
<1>1. CASE UNCHANGED vars
  BY <1>1 DEF vars, Telling
<1>2. CASE PrepareReports \/ OpenEvents \/ Stage \/ Runs
  BY <1>2 DEF PrepareReports, OpenEvents, Stage, Runs, Telling
<1>3. CASE DoctorReports \/ DoctorConfig \/ DoctorPlugins \/ DoctorFeatures \/ DoctorResources
  BY <1>3 DEF DoctorReports, DoctorConfig, DoctorPlugins, DoctorFeatures, DoctorResources, Telling
<1>4. CASE Killed \/ EndBegins \/ Answered \/ Send \/ Signal
  BY <1>4 DEF Killed, EndBegins, Answered, Send, Signal, Exits, Telling
<1> QED
  BY <1>1, <1>2, <1>3, <1>4 DEF Next

LEMMA OutputsKept ==
  ASSUME OutputsInv, [Next]_vars
  PROVE  OutputsInv'
<1>0. RunInv /\ Telling /\ LeftInv /\ suite \in Suites /\ DOMAIN left = Outputs
  BY DEF OutputsInv, RunInv, LeftInv
<1>1. RunInv' /\ Telling'
  BY <1>0, RunKept, TellingKept
<1>2. run.stage \notin {"reports", "events"} => \A f \in Outputs : Stands(f)
  BY EmptyLeftIs DEF OutputsInv
<1>3. suite' = suite
  BY SuiteStands DEF vars
<1>4. EventsPath' = EventsPath /\ Reports' = Reports /\ \A f : PathOf(f)' = PathOf(f)
  BY <1>3, SuiteReads DEF PathOf
<1>5. SUFFICES LeftInv' /\ (run'.stage \notin {"reports", "events"} => \A f \in Outputs : Stands(f)')
  <2>1. EmptyLeft' <=> (run'.stage \notin {"reports", "events"} => \A f \in Outputs : Stands(f)')
    BY DEF EmptyLeft, Stands, PathOf
  <2> QED
    BY <1>1, <2>1 DEF OutputsInv
<1>6. CASE run' = run /\ left' = left /\ doctor' = doctor
           /\ (telemetry.state \in {"exited", "killed"} => telemetry'.state \in {"exited", "killed"})
           /\ (telemetry'.state = "none" => telemetry.state = "none")
  <2>1. LeftInv'
    BY <1>0, <1>4, <1>6 DEF LeftInv, Running
  <2>2. \A f \in Outputs : Stands(f) => Stands(f)'
    BY <1>4, <1>6 DEF Stands
  <2> QED
    BY <1>2, <1>6, <2>1, <2>2
<1>7. CASE UNCHANGED vars
  BY <1>6, <1>7 DEF vars
<1>8. CASE PrepareReports
  <2>0. run.stage = "reports" /\ Running /\ telemetry' = telemetry /\ doctor' = doctor
    BY <1>8 DEF PrepareReports
  <2>1. left = [f \in Outputs |-> "old"] /\ telemetry.state = "none" /\ doctor.stage = "waiting"
    BY <1>0, <2>0 DEF LeftInv, Running
  <2>2. run'.stage \in {"reports", "events"}
    BY <1>0, <1>8, <2>0 DEF PrepareReports, Advance, Refuse, RunInv
  <2>3. run'.stage = "reports" => run'.settled # NotSettled
    BY <1>0, <1>8, <2>0 DEF PrepareReports, Advance, Refuse, RunInv, NotSettled
  <2>4. run'.stage = "events" =>
          left' = [f \in Outputs |-> IF <<f, "ok">> \in Reports THEN "empty" ELSE "old"]
    <3>1. suite.junit # "bad" => left' = [f \in Outputs |-> IF <<f, "ok">> \in Reports THEN "empty" ELSE left[f]]
      BY <1>8 DEF PrepareReports
    <3>2. run'.stage = "events" => suite.junit # "bad"
      BY <1>0, <1>8, <2>0 DEF PrepareReports, Advance, Refuse, RunInv
    <3>3. \A f \in Outputs : left[f] = "old"
      BY <2>1
    <3> QED
      BY <3>1, <3>2, <3>3
  <2>5. DOMAIN left' = Outputs
    BY <1>0, <1>8 DEF PrepareReports
  <2> QED
    BY <1>4, <2>0, <2>1, <2>2, <2>3, <2>4, <2>5 DEF LeftInv, Running
<1>9. CASE OpenEvents
  <2>0. run.stage = "events" /\ Running /\ telemetry' = telemetry /\ doctor' = doctor
    BY <1>9 DEF OpenEvents
  <2>1. /\ left = [f \in Outputs |-> IF <<f, "ok">> \in Reports THEN "empty" ELSE "old"]
        /\ telemetry.state = "none" /\ doctor.stage = "waiting"
    BY <1>0, <2>0 DEF LeftInv, Running
  <2>2. CASE EventsPath = "bad"
    <3>1. run'.stage = "events" /\ run'.settled # NotSettled /\ left' = left
      BY <1>0, <1>9, <2>0, <2>2 DEF OpenEvents, Refuse, RunInv, NotSettled
    <3> QED
      BY <1>0, <2>0, <2>1, <3>1 DEF LeftInv, Running
  <2>3. CASE EventsPath # "bad"
    <3>1. run'.stage = "evidence"
      BY <1>0, <1>9, <2>0, <2>3 DEF OpenEvents, Advance, RunInv
    <3>2. left' = IF EventsPath = None THEN left
                  ELSE [left EXCEPT !["events"] = IF EventsPath = "fifo" THEN "open" ELSE "empty"]
      BY <1>9, <2>3 DEF OpenEvents
    <3>3. DOMAIN left' = Outputs /\ \A f \in Outputs : f # "events" => left'[f] = left[f]
      BY <1>0, <3>2
    <3>4. LeftInv'
      BY <2>0, <2>1, <3>1, <3>3 DEF LeftInv
    <3>5. Opens("reports")
      BY <1>0, <2>0 DEF RunInv, Place
    <3>6. \A f \in Outputs : f # "events" => Stands(f)'
      <4> SUFFICES ASSUME NEW f \in Outputs, f # "events" PROVE Stands(f)'
        OBVIOUS
      <4>1. left'[f] = IF <<f, "ok">> \in Reports THEN "empty" ELSE "old"
        BY <2>1, <3>3
      <4>2. PathOf(f) \in {None, "ok"} /\ (<<f, "ok">> \in Reports <=> PathOf(f) = "ok")
        BY <1>0, <3>5, PathsAre DEF Opens, Outputs
      <4> QED
        BY <1>4, <4>1, <4>2 DEF Stands, None
    <3>7. Stands("events")'
      <4>1. PathOf("events") = EventsPath /\ EventsPath \in {None, "ok", "fifo"}
        BY <1>0, <2>3, PathsAre DEF PathOf
      <4>2. left["events"] = "old"
        BY <1>0, <2>1, PathsAre DEF Outputs
      <4>3. left'["events"] = IF EventsPath = None THEN "old"
                              ELSE IF EventsPath = "fifo" THEN "open" ELSE "empty"
        BY <1>0, <3>2, <4>2 DEF Outputs
      <4> QED
        BY <1>4, <4>1, <4>3 DEF Stands, None
    <3> QED
      BY <3>4, <3>6, <3>7
  <2> QED
    BY <2>2, <2>3
<1>10. CASE Stage
  <2>0. /\ run.stage \in Stages /\ Running /\ left' = left /\ doctor' = doctor
        /\ telemetry' = telemetry
    BY <1>10 DEF Stage, Stages
  <2>1. run.stage \notin {"reports", "events", "started"} /\ run'.stage \notin {"reports", "events"}
    BY <1>0, <1>10, <2>0 DEF Stage, Stages, NextStage, Advance, Refuse, RunInv
  <2>2. LeftInv'
    BY <1>0, <2>0, <2>1 DEF LeftInv
  <2>3. \A f \in Outputs : Stands(f)'
    BY <1>2, <1>4, <2>0, <2>1 DEF Stands
  <2> QED
    BY <2>2, <2>3
<1>11. CASE Runs
  <2>0. run.stage = "started" /\ run'.stage = "started" /\ doctor' = doctor /\ telemetry' = telemetry
    BY <1>0, <1>11 DEF Runs, RunInv
  <2>1. PICK lost \in SUBSET Outputs :
          left' = [f \in Outputs |-> IF left[f] = "empty" /\ f \notin lost THEN "written" ELSE left[f]]
    BY <1>11 DEF Runs
  <2>2. LeftInv'
    BY <1>0, <2>0, <2>1 DEF LeftInv
  <2>3. \A f \in Outputs : left'[f] = left[f] \/ (left[f] = "empty" /\ left'[f] = "written")
    BY <2>1
  <2>4. \A f \in Outputs : Stands(f)'
    BY <1>2, <1>4, <2>0, <2>3 DEF Stands
  <2> QED
    BY <2>2, <2>4
<1>12. CASE Killed \/ EndBegins \/ Answered \/ Send \/ Signal
  <2>0. run' = run /\ left' = left /\ doctor' = doctor
    BY <1>12 DEF Killed, EndBegins, Answered, Send, Signal
  <2>1. /\ telemetry.state \notin {"exited", "killed"}
        /\ telemetry'.state # "none" \/ telemetry.state = "none"
    BY <1>0, <1>12 DEF Killed, EndBegins, Answered, Send, Signal, Exits, Telling
  <2> QED
    BY <1>6, <2>0, <2>1
<1>13. CASE DoctorReports
  <2>0. /\ telemetry.state \in {"exited", "killed"} /\ telemetry' = telemetry /\ run' = run
        /\ left' = [f \in Outputs |->
             IF <<f, "ok">> \in Reports \/ (f = "events" /\ suite.eventsFlag # None
                                          /\ suite.eventsFlag # "bad" /\ ~LeftAlone)
             THEN "empty" ELSE left[f]]
    BY <1>13 DEF DoctorReports
  <2>1. LeftInv'
    BY <1>0, <2>0 DEF LeftInv, Running
  <2>2. ASSUME NEW f \in Outputs, Stands(f) PROVE Stands(f)'
    <3>1. CASE f # "events"
      <4>1. left'[f] = IF PathOf(f) = "ok" THEN "empty" ELSE left[f]
        BY <1>0, <2>0, <3>1, PathsAre
      <4> QED
        BY <1>4, <2>0, <2>2, <3>1, <4>1 DEF Stands, None
    <3>2. CASE f = "events"
      <4>1. left'[f] = IF suite.eventsFlag # None /\ suite.eventsFlag # "bad" /\ suite.eventsFlag # "fifo"
                       THEN "empty" ELSE left[f]
        BY <1>0, <2>0, <3>2, PathsAre DEF LeftAlone
      <4>2. PathOf(f) = IF suite.eventsFlag # None THEN suite.eventsFlag ELSE suite.eventsVar
        BY <1>0, <3>2, PathsAre DEF PathOf
      <4> QED
        BY <1>4, <2>0, <2>2, <3>2, <4>1, <4>2 DEF Stands, None
    <3> QED
      BY <3>1, <3>2
  <2> QED
    BY <1>2, <2>0, <2>1, <2>2
<1>14. CASE DoctorConfig \/ DoctorPlugins \/ DoctorFeatures \/ DoctorResources
  <2>0. /\ run' = run /\ left' = left /\ telemetry' = telemetry /\ doctor.stage # "waiting"
    BY <1>14 DEF DoctorConfig, DoctorPlugins, DoctorFeatures, DoctorResources
  <2>1. LeftInv'
    BY <1>0, <1>4, <2>0 DEF LeftInv, Running
  <2>2. \A f \in Outputs : Stands(f) => Stands(f)'
    BY <1>4, <2>0 DEF Stands
  <2> QED
    BY <1>2, <2>0, <2>1, <2>2
<1> QED
  BY <1>7, <1>8, <1>9, <1>10, <1>11, <1>12, <1>13, <1>14 DEF Next

LEMMA CodeStays == CodeKept /\ Telling /\ [Next]_vars => CodeKept'
<1> SUFFICES ASSUME CodeKept, Telling, [Next]_vars PROVE CodeKept'
  OBVIOUS
<1>1. CASE UNCHANGED vars
  BY <1>1 DEF vars, CodeKept
<1>2. CASE PrepareReports \/ OpenEvents \/ Stage \/ Runs
  BY <1>2 DEF PrepareReports, OpenEvents, Stage, Runs, Running, CodeKept
<1>3. CASE DoctorReports \/ DoctorConfig \/ DoctorPlugins \/ DoctorFeatures \/ DoctorResources
  <2>1. run' = run /\ telemetry' = telemetry
    BY <1>3 DEF DoctorReports, DoctorConfig, DoctorPlugins, DoctorFeatures, DoctorResources
  <2> QED
    BY <2>1 DEF CodeKept
<1>4. CASE Killed \/ EndBegins \/ Answered \/ Send \/ Signal
  BY <1>4 DEF Killed, EndBegins, Answered, Send, Signal, Exits, Telling, CodeKept
<1> QED
  BY <1>1, <1>2, <1>3, <1>4 DEF Next

(***************************************************************************)
(* Neither a file an earlier run left nor a prompt, a request or a signal  *)
(* at the end can pass for the outcome of this run: every output named is  *)
(* emptied before the config is read and holds nothing until the run       *)
(* starts, and the exit code is the command's own.                         *)
(***************************************************************************)
THEOREM OutcomesAreKept == Spec => []OutcomeKept
<1>1. Init => OutputsInv /\ CodeKept
  <2> SUFFICES ASSUME Init PROVE OutputsInv /\ CodeKept
    OBVIOUS
  <2>1. RunInv
    BY RunBegins
  <2> QED
    BY <2>1 DEF Init, OutputsInv, Telling, LeftInv, EmptyLeft, CodeKept
<1>2. OutputsInv /\ CodeKept /\ [Next]_vars => (OutputsInv /\ CodeKept)'
  BY OutputsKept, CodeStays DEF OutputsInv
<1>3. OutputsInv /\ CodeKept => OutcomeKept
  BY DEF OutputsInv, OutcomeKept
<1> QED
  BY <1>1, <1>2, <1>3, PTL DEF Spec

------------------------------------------------------------------------------
(***************************************************************************)
(* Telemetry.  FirstOf picks the nearest source with an opinion, and the   *)
(* sources decide_here lists are those of Opinions with every opinion it   *)
(* cannot read turned into a no.                                           *)
(***************************************************************************)
LEMMA LeastOf ==
  ASSUME NEW S, S \subseteq 1..6, S # {}
  PROVE  \E i \in S : \A j \in S : i <= j
<1>1. CASE 1 \in S
  BY <1>1
<1>2. CASE 1 \notin S /\ 2 \in S
  BY <1>2
<1>3. CASE 1 \notin S /\ 2 \notin S /\ 3 \in S
  BY <1>3
<1>4. CASE S \subseteq {4, 5, 6} /\ 4 \in S
  BY <1>4
<1>5. CASE S \subseteq {5, 6} /\ 5 \in S
  BY <1>5
<1>6. CASE S = {6}
  BY <1>6
<1>7. CASE S \subseteq {6}
  BY <1>6, <1>7
<1> QED
  BY <1>1, <1>2, <1>3, <1>4, <1>5, <1>7

\* Two more sources behind four.
LEMMA FourAndTwo ==
  ASSUME NEW a, NEW b, NEW c, NEW d, NEW e, NEW f, NEW s, s = <<a, b, c, d>> \o <<e, f>>
  PROVE  /\ DOMAIN s = 1..6 /\ s[1] = a /\ s[2] = b /\ s[3] = c /\ s[4] = d
         /\ s[5] = e /\ s[6] = f
<1>1. PICK near, far : near = <<a, b, c, d>> /\ far = <<e, f>>
  OBVIOUS
<1>2. /\ near \in Seq({a, b, c, d}) /\ Len(near) = 4
      /\ near[1] = a /\ near[2] = b /\ near[3] = c /\ near[4] = d
  BY <1>1
<1>3. far \in Seq({e, f}) /\ Len(far) = 2 /\ far[1] = e /\ far[2] = f
  BY <1>1
<1>4. /\ near \in Seq({a, b, c, d, e, f}) /\ far \in Seq({a, b, c, d, e, f})
  BY <1>2, <1>3
<1>5. s = near \o far
  BY <1>1
<1>6. Len(s) = 6 /\ \A i \in 1..6 : s[i] = IF i <= 4 THEN near[i] ELSE far[i - 4]
  <2>1. PICK S : near \in Seq(S) /\ far \in Seq(S)
    BY <1>4
  <2>2. /\ Len(near \o far) = Len(near) + Len(far)
        /\ \A i \in 1..(Len(near) + Len(far)) : (near \o far)[i] =
             IF i <= Len(near) THEN near[i] ELSE far[i - Len(near)]
    BY ONLY <2>1, ConcatProperties
  <2>3. Len(near) + Len(far) = 6
    BY ONLY <1>2, <1>3
  <2> QED
    BY ONLY <1>2, <1>5, <2>2, <2>3
<1>7. DOMAIN s = 1..6
  BY ONLY <1>4, <1>5, <1>6, ConcatProperties
<1> QED
  BY ONLY <1>2, <1>3, <1>6, <1>7

\* What the first source with an opinion says, and that there is one.
LEMMA FirstOfIs ==
  ASSUME NEW layers, NEW n \in 1..6, DOMAIN layers = 1..n
  PROVE  /\ (\A i \in 1..n : layers[i] = None) => FirstOf(layers) = None
         /\ (\E i \in 1..n : layers[i] # None) =>
              \E i \in 1..n : /\ layers[i] = FirstOf(layers) /\ layers[i] # None
                              /\ \A j \in 1..(i - 1) : layers[j] = None
<1> DEFINE said == {i \in 1..n : layers[i] # None}
<1>1. FirstOf(layers) =
        IF said = {} THEN None ELSE layers[CHOOSE i \in said : \A j \in said : i <= j]
  BY DEF FirstOf
<1>2. CASE said = {}
  BY <1>1, <1>2
<1>3. CASE said # {}
  <2>1. \E i \in said : \A j \in said : i <= j
    <3>1. said \subseteq 1..6
      OBVIOUS
    <3> QED
      BY ONLY <1>3, <3>1, LeastOf
  <2>2. PICK k : k = CHOOSE m \in said : \A j \in said : m <= j
    OBVIOUS
  <2>3. k \in said /\ \A j \in said : k <= j
    BY <2>1, <2>2
  <2>4. FirstOf(layers) = layers[k]
    BY <1>1, <1>3, <2>2
  <2>5. \A j \in 1..(k - 1) : layers[j] = None
    BY <2>3
  <2> QED
    BY <2>3, <2>4, <2>5
<1> QED
  BY <1>2, <1>3

\* What decide_here makes of each opinion.
Heard(i) ==
  CASE i = 2 -> IF suite.telVar = None THEN None ELSE IF suite.telVar = "yes" THEN "yes" ELSE "no"
    [] i \in {4, 5, 6} -> IF Opinions[i] = "broken" THEN "no" ELSE Opinions[i]
    [] OTHER -> Opinions[i]
Sources == IF suite.dir = "missing" THEN 4 ELSE 6

LEMMA OpinionsAre ==
  /\ DOMAIN Opinions = 1..Sources
  /\ Opinions[1] = suite.telFlag /\ Opinions[2] = suite.telVar
  /\ Opinions[3] = IF suite.doNotTrack THEN "no" ELSE None
  /\ Opinions[4] = suite.telKey
  /\ Sources = 6 => Opinions[5] = suite.projectAnswer /\ Opinions[6] = suite.userAnswer
<1>1. CASE suite.dir = "missing"
  <2>1. Opinions = <<suite.telFlag, suite.telVar, IF suite.doNotTrack THEN "no" ELSE None, suite.telKey>>
    BY <1>1 DEF Opinions
  <2> QED
    BY <1>1, <2>1 DEF Sources
<1>2. CASE suite.dir # "missing"
  <2>1. Opinions = <<suite.telFlag, suite.telVar, IF suite.doNotTrack THEN "no" ELSE None, suite.telKey>>
                     \o <<suite.projectAnswer, suite.userAnswer>>
    BY <1>2 DEF Opinions
  <2> QED
    BY <1>2, <2>1, FourAndTwo DEF Sources
<1> QED
  BY <1>1, <1>2

LEMMA DecisionIs ==
  \E layers : /\ DOMAIN layers = 1..Sources /\ Decision = FirstOf(layers)
              /\ \A i \in 1..Sources : layers[i] = Heard(i)
<1> DEFINE near == <<suite.telFlag,
                     IF suite.telVar = None THEN None ELSE IF suite.telVar = "yes" THEN "yes" ELSE "no",
                     IF suite.doNotTrack THEN "no" ELSE None,
                     IF suite.telKey = "broken" THEN "no" ELSE suite.telKey>>
           Trust(answer) == IF answer = "broken" THEN "no" ELSE answer
           far == [i \in DOMAIN Answers |-> Trust(Answers[Len(Answers) + 1 - i])]
<1>1. Decision = FirstOf(near \o far)
  BY DEF Decision, Decide
<1>2. CASE suite.dir = "missing"
  <2>1. Answers = <<>>
    BY <1>2 DEF Answers
  <2>2. far = <<>>
    BY <2>1
  <2>3. near \o far = near
    BY <2>2
  <2>4. DOMAIN near = 1..4 /\ \A i \in 1..4 : near[i] = Heard(i)
    BY OpinionsAre DEF Heard
  <2> QED
    BY <1>1, <1>2, <2>3, <2>4 DEF Sources
<1>3. CASE suite.dir # "missing"
  <2>1. Answers = <<suite.userAnswer, suite.projectAnswer>>
    BY <1>3 DEF Answers
  <2>2. far = <<Trust(suite.projectAnswer), Trust(suite.userAnswer)>>
    BY <2>1
  <2>3. PICK layers : layers = near \o far
    OBVIOUS
  <2>4. Sources = 6
    BY <1>3 DEF Sources
  <2>5. /\ DOMAIN layers = 1..6
        /\ layers[1] = suite.telFlag
        /\ layers[2] = IF suite.telVar = None THEN None ELSE IF suite.telVar = "yes" THEN "yes" ELSE "no"
        /\ layers[3] = IF suite.doNotTrack THEN "no" ELSE None
        /\ layers[4] = Trust(suite.telKey)
        /\ layers[5] = Trust(suite.projectAnswer) /\ layers[6] = Trust(suite.userAnswer)
    BY <2>2, <2>3, FourAndTwo
  <2>6. \A i \in 1..6 : layers[i] = Heard(i)
    <3>1. layers[1] = Heard(1) /\ layers[2] = Heard(2) /\ layers[3] = Heard(3)
      BY <2>5, OpinionsAre DEF Heard
    <3>2. layers[4] = Heard(4) /\ layers[5] = Heard(5) /\ layers[6] = Heard(6)
      BY <2>4, <2>5, OpinionsAre DEF Heard
    <3> QED
      BY ONLY <3>1, <3>2
  <2>7. Decision = FirstOf(layers)
    BY ONLY <1>1, <2>3
  <2>8. DOMAIN layers = 1..Sources /\ \A i \in 1..Sources : layers[i] = Heard(i)
    BY ONLY <2>4, <2>5, <2>6
  <2> QED
    BY ONLY <2>7, <2>8
<1> QED
  BY <1>2, <1>3

LEMMA DecisionTells ==
  /\ Decision = None => \A i \in DOMAIN Opinions : Opinions[i] = None
  /\ Decision = "yes" =>
       \E i \in DOMAIN Opinions : Opinions[i] = "yes" /\ \A j \in 1..(i - 1) : Opinions[j] = None
<1>1. DOMAIN Opinions = 1..Sources /\ Sources \in 1..6
  BY OpinionsAre DEF Sources
<1>2. \A i \in 1..Sources : /\ Heard(i) = None => Opinions[i] = None
                            /\ Heard(i) = "yes" => Opinions[i] = "yes"
  BY <1>1, OpinionsAre DEF Heard, None
<1>3. PICK layers : /\ DOMAIN layers = 1..Sources /\ Decision = FirstOf(layers)
                    /\ \A i \in 1..Sources : layers[i] = Heard(i)
  BY DecisionIs
<1>4. /\ (\A i \in 1..Sources : layers[i] = None) => FirstOf(layers) = None
      /\ (\E i \in 1..Sources : layers[i] # None) =>
           \E i \in 1..Sources : /\ layers[i] = FirstOf(layers) /\ layers[i] # None
                                 /\ \A j \in 1..(i - 1) : layers[j] = None
  BY <1>1, <1>3, FirstOfIs
<1>5. None # "yes"
  BY DEF None
<1>6. ASSUME Decision = None PROVE \A i \in DOMAIN Opinions : Opinions[i] = None
  BY <1>1, <1>2, <1>3, <1>4, <1>6
<1>7. ASSUME Decision = "yes"
      PROVE  \E i \in DOMAIN Opinions : Opinions[i] = "yes" /\ \A j \in 1..(i - 1) : Opinions[j] = None
  <2>1. PICK i \in 1..Sources : layers[i] = "yes" /\ \A j \in 1..(i - 1) : layers[j] = None
    BY <1>3, <1>4, <1>5, <1>7
  <2>2. \A j \in 1..(i - 1) : j \in 1..Sources
    BY <1>1
  <2> QED
    BY <1>1, <1>2, <1>3, <2>1, <2>2
<1> QED
  BY <1>6, <1>7

LEMMA AskKept == AskInv /\ Telling /\ [Next]_vars => AskInv'
<1> SUFFICES ASSUME AskInv, Telling, [Next]_vars PROVE AskInv'
  OBVIOUS
<1>0. suite' = suite
  BY SuiteStands DEF vars
<1>1. Decision' = Decision
  BY <1>0 DEF Decision, Answers
<1>2. CASE telemetry' = telemetry
  BY <1>1, <1>2 DEF AskInv
<1>3. CASE UNCHANGED vars
  BY <1>2, <1>3 DEF vars
<1>4. CASE PrepareReports \/ OpenEvents \/ Stage \/ Runs
  BY <1>2, <1>4 DEF PrepareReports, OpenEvents, Stage, Runs
<1>5. CASE DoctorReports \/ DoctorConfig \/ DoctorPlugins \/ DoctorFeatures \/ DoctorResources
  BY <1>2, <1>5 DEF DoctorReports, DoctorConfig, DoctorPlugins, DoctorFeatures, DoctorResources
<1>6. CASE Killed
  BY <1>1, <1>6 DEF Killed, Telling, AskInv
<1>7. CASE EndBegins
  BY <1>1, <1>7 DEF EndBegins, Exits, Telling, AskInv
<1>8. CASE Answered
  BY <1>1, <1>8 DEF Answered, Exits, Telling, AskInv
<1>9. CASE Send
  BY <1>1, <1>9 DEF Send, Telling, AskInv
<1>10. CASE Signal
  BY <1>1, <1>10 DEF Signal, Telling, AskInv
<1> QED
  BY <1>3, <1>4, <1>5, <1>6, <1>7, <1>8, <1>9, <1>10 DEF Next

(***************************************************************************)
(* Nothing leaves the machine unless the nearest source with an opinion    *)
(* said yes, or nobody had one and a person answered yes: a variable with  *)
(* a typo, a config or an answer file that cannot be read, and a no nearer *)
(* to the process than any yes all keep counting off.                      *)
(***************************************************************************)
THEOREM SendingIsAgreed == Spec => []NothingSentWithoutYes
<1>1. Init => AskInv /\ Telling
  BY DEF Init, AskInv, Telling
<1>2. AskInv /\ Telling /\ [Next]_vars => (AskInv /\ Telling)'
  BY AskKept, TellingKept
<1>3. AskInv /\ Telling => NothingSentWithoutYes
  BY DecisionTells DEF AskInv, NothingSentWithoutYes
<1> QED
  BY <1>1, <1>2, <1>3, PTL DEF Spec

-----------------------------------------------------------------------------
(***************************************************************************)
(* Polled assertions, for any APIs, options, modifiers and bounds: what an *)
(* HTTP assertion judges, the window it is given, and which assertion a    *)
(* modifier reaches.                                                       *)
(***************************************************************************)
\* The recipe is the last request that a step sent, or nothing; what an
\* assertion polls beyond its first attempt is a request that was answered.
Replayable ==
  /\ last # NoExchange => last.request = asked /\ recipe = asked /\ asked # NoRequest
  /\ poll.at = "sleep" \/ (poll.at = "attempt" /\ poll.attempt > 0) =>
       (poll.source = "http" => recipe = asked /\ asked # NoRequest)

\* A sleep ends inside the window.
InWindow ==
  /\ poll.at = "idle" => poll = NoPoll
  /\ poll.at = "sleep" => /\ now < poll.timeout
                          /\ poll.wake <= poll.timeout /\ poll.wake <= now + poll.interval

\* The armed modifier is the one that stands behind the last assertion.
ArmedIn(steps) == \E i \in SinceAssert(steps) : steps[i] = "arm"
Arming == pending # NoLayer <=> ArmedIn(log)

PollInv == PollingTypeOK /\ Replayable /\ InWindow /\ Arming

-----------------------------------------------------------------------------
LEMMA MinOfTwo ==
  ASSUME NEW a \in Int, NEW b \in Int
  PROVE  Min({a, b}) \in {a, b} /\ Min({a, b}) <= a /\ Min({a, b}) <= b
<1>1. \E x \in {a, b} : \A y \in {a, b} : x <= y
  OBVIOUS
<1> QED
  BY <1>1 DEF Min

\* What a step of the scenario adds to the steps since the last assertion.
LEMMA StepLogged ==
  ASSUME NEW s \in Seq({"arm", "assert", "act"}), NEW kind \in {"arm", "assert", "act"}
  PROVE  /\ Append(s, kind) \in Seq({"arm", "assert", "act"})
         /\ kind = "arm" => ArmedIn(Append(s, kind))
         /\ kind = "assert" => ~ArmedIn(Append(s, kind))
         /\ kind = "act" => (ArmedIn(Append(s, kind)) <=> ArmedIn(s))
<1> DEFINE t == Append(s, kind)
<1>1. /\ t \in Seq({"arm", "assert", "act"}) /\ Len(t) = Len(s) + 1 /\ Len(s) \in Nat
      /\ DOMAIN t = 1..(Len(s) + 1) /\ DOMAIN s = 1..Len(s)
      /\ t[Len(s) + 1] = kind /\ \A i \in 1..Len(s) : t[i] = s[i]
  OBVIOUS
<1> HIDE DEF t
<1>2. CASE kind = "arm"
  <2>1. Len(s) + 1 \in SinceAssert(t) /\ t[Len(s) + 1] = "arm"
    BY <1>1, <1>2 DEF SinceAssert
  <2> QED
    BY <1>1, <1>2, <2>1 DEF t, ArmedIn
<1>3. CASE kind = "assert"
  <2>1. \A i \in DOMAIN t : ~(Len(s) + 1 < i) /\ Len(s) + 1 \in DOMAIN t /\ t[Len(s) + 1] = "assert"
    BY <1>1, <1>3
  <2>2. SinceAssert(t) = {}
    BY <2>1 DEF SinceAssert
  <2> QED
    BY <1>1, <1>3, <2>2 DEF t, ArmedIn
<1>4. CASE kind = "act"
  <2>1. ASSUME NEW i \in SinceAssert(t), t[i] = "arm" PROVE i \in SinceAssert(s) /\ s[i] = "arm"
    BY <1>1, <1>4, <2>1 DEF SinceAssert
  <2>2. ASSUME NEW i \in SinceAssert(s), s[i] = "arm" PROVE i \in SinceAssert(t) /\ t[i] = "arm"
    BY <1>1, <1>4, <2>2 DEF SinceAssert
  <2> QED
    BY <1>1, <1>4, <2>1, <2>2 DEF t, ArmedIn
<1> QED
  BY <1>2, <1>3, <1>4

-----------------------------------------------------------------------------
LEMMA PollStart == PollingInit => PollInv
<1> SUFFICES ASSUME PollingInit PROVE PollInv
  OBVIOUS
<1>1. PollingTypeOK
  BY PollingAssumption DEF PollingInit, PollingTypeOK, Fresh, NoRequest, AnyRequest, Polls, NoPoll
<1>2. Replayable /\ InWindow
  BY DEF PollingInit, Replayable, InWindow, NoPoll
<1>3. Arming
  BY DEF PollingInit, Arming, ArmedIn, SinceAssert
<1> QED
  BY <1>1, <1>2, <1>3 DEF PollInv

\* A step that is neither a modifier nor an assertion.
LEMMA ActKeeps ==
  ASSUME PollInv, Steps("act"), UNCHANGED <<pending, poll, now>>,
         builder' \in [api : Apis, edits : Nat, signed : BOOLEAN],
         recipe' \in AnyRequest, asked' \in AnyRequest,
         last' # NoExchange => last'.request = asked' /\ recipe' = asked' /\ asked' # NoRequest
  PROVE  PollInv'
<1>1. PollingTypeOK'
  BY StepLogged DEF PollInv, PollingTypeOK, Steps
<1>2. Replayable' /\ InWindow'
  BY DEF PollInv, Replayable, InWindow, Steps, NoPoll
<1>3. Arming'
  <2>1. log \in Seq({"arm", "assert", "act"}) /\ log' = Append(log, "act")
    BY DEF PollInv, PollingTypeOK, Steps
  <2>2. ArmedIn(log') <=> ArmedIn(log)
    BY <2>1, StepLogged
  <2> QED
    BY <2>2 DEF PollInv, Arming, ArmedIn, SinceAssert
<1> QED
  BY <1>1, <1>2, <1>3 DEF PollInv

\* An attempt that does not hold yet.
LEMMA NotYetKeeps ==
  ASSUME PollingTypeOK, InWindow, poll.at = "attempt", now' \in Nat, NotYet
  PROVE  /\ poll' \in Polls /\ InWindow'
         /\ poll' = NoPoll \/ (poll'.at = "sleep" /\ poll'.source = poll.source)
         /\ ~failed' => poll' # NoPoll
         /\ poll' = NoPoll /\ ended' = "expired" => now' >= poll.timeout
<1>1. CASE /\ poll' = NoPoll /\ failed' = TRUE
           /\ ended' = "expired" => now' >= poll.timeout
  BY <1>1 DEF InWindow, NoPoll, Polls
<1>2. CASE /\ UNCHANGED <<ended, failed>> /\ now' < poll.timeout
           /\ poll' = [poll EXCEPT !.at = "sleep",
                                   !.wake = now' + Min({poll.timeout - now', poll.interval})]
  <2>1. poll.timeout \in Nat /\ poll.interval \in Nat /\ poll \in Polls
    BY DEF PollingTypeOK, Polls
  <2>2. PICK rest \in Nat : /\ rest = Min({poll.timeout - now', poll.interval})
                            /\ rest <= poll.timeout - now' /\ rest <= poll.interval
    <3>1. PICK a \in Nat, b \in Nat : a = poll.timeout - now' /\ b = poll.interval
      BY <1>2, <2>1
    <3>2. Min({a, b}) \in {a, b} /\ Min({a, b}) <= a /\ Min({a, b}) <= b
      BY MinOfTwo
    <3>3. Min({a, b}) \in Nat
      BY <3>2
    <3> QED
      BY <3>1, <3>2, <3>3, Zenon
  <2>3. PICK wake \in Nat : wake = now' + rest
    <3>1. now' + rest \in Nat
      BY <2>2
    <3> QED
      BY <3>1
  <2>4. /\ poll' \in Polls /\ poll'.at = "sleep" /\ poll'.source = poll.source
        /\ poll'.wake = wake /\ poll'.timeout = poll.timeout /\ poll'.interval = poll.interval
    <3>1. poll' = [poll EXCEPT !.at = "sleep", !.wake = wake]
      BY <1>2, <2>2, <2>3
    <3> QED
      BY <2>1, <3>1 DEF Polls
  <2>5. poll' # NoPoll
    BY <2>4 DEF NoPoll
  <2>6. InWindow'
    BY <1>2, <2>1, <2>2, <2>3, <2>4 DEF InWindow
  <2> QED
    BY <2>4, <2>5, <2>6
<1>3. poll.timeout \in Nat
  BY DEF PollingTypeOK, Polls
<1>4. CASE ~poll.armed
  BY <1>1, <1>4 DEF NotYet, Fails
<1>5. CASE poll.armed /\ now' >= poll.timeout
  BY <1>1, <1>5 DEF NotYet, Fails
<1>6. CASE poll.armed /\ ~(now' >= poll.timeout)
  BY <1>2, <1>3, <1>6 DEF NotYet
<1> QED
  BY <1>4, <1>5, <1>6

LEMMA AttemptKeeps ==
  ASSUME PollInv, NEW d \in 0..Slow, Attempt(d)
  PROVE  /\ PollInv'
         /\ poll.source = "http" /\ poll' = NoPoll /\ ~failed' =>
              /\ last'.request = asked /\ asked # NoRequest
              /\ poll.attempt > 0 => last'.attempt = poll.attempt
         /\ poll' = NoPoll /\ ended' = "expired" => now' >= poll.timeout
<1>1. /\ poll.at = "attempt" /\ now' \in Nat /\ poll \in Polls
      /\ UNCHANGED <<builder, recipe, asked, pending, log>>
  BY PollingAssumption DEF Attempt, PollInv, PollingTypeOK
<1>2. \/ poll' = NoPoll /\ ended' # "expired"
      \/ NotYet
  BY DEF Attempt, Holds, Fails
<1>3. /\ poll' \in Polls /\ InWindow'
      /\ poll' = NoPoll \/ (poll'.at = "sleep" /\ poll'.source = poll.source)
      /\ poll' = NoPoll /\ ended' = "expired" => now' >= poll.timeout
  <2>1. CASE NotYet
    BY <1>1, <2>1, NotYetKeeps DEF PollInv
  <2>2. CASE poll' = NoPoll /\ ended' # "expired"
    BY <2>2 DEF InWindow, NoPoll, Polls
  <2> QED
    BY <1>2, <2>1, <2>2
<1>4. PollingTypeOK'
  BY <1>1, <1>3 DEF PollInv, PollingTypeOK
<1>5. Arming'
  BY <1>1 DEF PollInv, Arming
<1>6. /\ last' # NoExchange => last'.request = asked /\ recipe = asked /\ asked # NoRequest
      /\ poll.source = "http" /\ ~(poll' = NoPoll /\ failed') => recipe = asked /\ asked # NoRequest
      /\ poll.source = "http" /\ poll' = NoPoll /\ ~failed' =>
           last'.request = asked /\ (poll.attempt > 0 => last'.attempt = poll.attempt)
  <2>1. CASE Replays
    <3>1. recipe = asked /\ asked # NoRequest /\ poll.source = "http"
      BY <1>1, <2>1 DEF PollInv, Replayable, Replays
    <3>2. CASE last' = [request |-> recipe, attempt |-> poll.attempt]
      BY <3>1, <3>2
    <3>3. CASE last' = NoExchange /\ (NotYet \/ Fails("refused"))
      <4>1. poll' = NoPoll => failed'
        BY <1>1, <3>3, NotYetKeeps DEF Fails, PollInv
      <4> QED
        BY <3>1, <3>3, <4>1
    <3> QED
      BY <2>1, <3>2, <3>3 DEF Attempt
  <2>2. CASE ~Replays
    <3>1. UNCHANGED last
      BY <2>2 DEF Attempt
    <3>2. poll.source = "http" => ~(poll.attempt > 0)
      BY <1>1, <2>2 DEF Replays, Polls
    <3>3. poll.source = "http" /\ last = NoExchange => poll' = NoPoll /\ failed'
      BY <2>2 DEF Attempt, Fails
    <3> QED
      BY <3>1, <3>2, <3>3 DEF PollInv, Replayable
  <2> QED
    BY <2>1, <2>2
<1>7. Replayable'
  BY <1>1, <1>3, <1>6 DEF Replayable, NoPoll
<1> QED
  BY <1>3, <1>4, <1>5, <1>6, <1>7 DEF PollInv

LEMMA WakeKeeps ==
  ASSUME PollInv, NEW late \in 0..Late, Wake(late)
  PROVE  PollInv' /\ poll'.at = "attempt" /\ now' = poll.wake + late
<1>1. poll.attempt + 1 \in Nat /\ poll \in Polls /\ poll.wake + late \in Nat
  <2>1. poll \in Polls /\ poll.attempt \in Nat /\ poll.wake \in Nat
    BY DEF PollInv, PollingTypeOK, Polls
  <2>2. late \in Nat
    BY PollingAssumption
  <2> QED
    BY <2>1, <2>2
<1>2. poll' = [poll EXCEPT !.at = "attempt", !.attempt = poll.attempt + 1, !.wake = 0]
  BY DEF Wake
<1>3. /\ poll' \in Polls /\ poll'.at = "attempt" /\ poll'.source = poll.source
      /\ poll'.attempt = poll.attempt + 1
  BY <1>1, <1>2 DEF Polls
<1>4. PollingTypeOK' /\ Arming'
  BY <1>1, <1>3 DEF PollInv, PollingTypeOK, Arming, Wake, httpVars
<1>5. Replayable' /\ InWindow'
  BY <1>3 DEF PollInv, Replayable, InWindow, Wake, httpVars
<1> QED
  BY <1>3, <1>4, <1>5 DEF PollInv, Wake

LEMMA AssertKeeps ==
  ASSUME PollInv, NEW source \in {"http", "db", "plugin"}, Assert(source)
  PROVE  PollInv' /\ (poll' # NoPoll => (poll'.armed <=> pending # NoLayer))
<1>1. UNCHANGED httpVars /\ now' = 0 /\ pending' = NoLayer /\ log' = Append(log, "assert")
  BY DEF Assert, Steps
<1> DEFINE o == Applied(Options[Resource(source)], pending)
<1>2. \/ poll' = NoPoll
      \/ pending = NoLayer /\ poll' = [NoPoll EXCEPT !.at = "attempt", !.source = source, !.armed = FALSE,
                                                   !.timeout = 0, !.interval = 0]
      \/ /\ pending # NoLayer /\ Resource(source) \in DOMAIN Options
         /\ poll' = [NoPoll EXCEPT !.at = "attempt", !.source = source, !.armed = TRUE,
                                 !.timeout = o.timeout, !.interval = o.interval]
  BY DEF Assert, Fails
<1>3. pending # NoLayer /\ Resource(source) \in DOMAIN Options => o.timeout \in Nat /\ o.interval \in Nat
  <2>1. ASSUME pending # NoLayer, Resource(source) \in DOMAIN Options
        PROVE  o.timeout \in Nat /\ o.interval \in Nat
    <3>1. Options[Resource(source)] \in [timeout : Nat \ {0}, interval : Nat \ {0}]
      BY <2>1, PollingAssumption
    <3>2. pending \in [timeout : Nat, interval : Nat]
      BY <2>1, PollingAssumption DEF PollInv, PollingTypeOK
    <3> QED
      BY <3>1, <3>2 DEF Applied
  <2> QED
    BY <2>1
<1> HIDE DEF o
<1>4. /\ poll' \in Polls
      /\ poll' = NoPoll \/ (poll'.at = "attempt" /\ poll'.attempt = 0 /\ (poll'.armed <=> pending # NoLayer))
  <2>1. CASE poll' = NoPoll
    BY <2>1 DEF NoPoll, Polls
  <2>2. ASSUME NEW armed \in BOOLEAN, NEW timeout \in Nat, NEW interval \in Nat,
               poll' = [NoPoll EXCEPT !.at = "attempt", !.source = source, !.armed = armed,
                                    !.timeout = timeout, !.interval = interval]
        PROVE  poll' \in Polls /\ poll'.at = "attempt" /\ poll'.attempt = 0 /\ poll'.armed = armed
    BY <2>2 DEF NoPoll, Polls
  <2>3. CASE pending = NoLayer /\ poll' = [NoPoll EXCEPT !.at = "attempt", !.source = source,
                                            !.armed = FALSE, !.timeout = 0, !.interval = 0]
    BY <2>2, <2>3
  <2>4. CASE /\ pending # NoLayer /\ Resource(source) \in DOMAIN Options
             /\ poll' = [NoPoll EXCEPT !.at = "attempt", !.source = source, !.armed = TRUE,
                                     !.timeout = o.timeout, !.interval = o.interval]
    BY <1>3, <2>2, <2>4
  <2> QED
    BY <1>2, <2>1, <2>3, <2>4
<1>5. PollingTypeOK'
  BY <1>1, <1>4, StepLogged DEF PollInv, PollingTypeOK, httpVars
<1>6. Replayable' /\ InWindow'
  BY <1>1, <1>4 DEF PollInv, Replayable, InWindow, httpVars, NoPoll
<1>7. Arming'
  <2>1. ~ArmedIn(log')
    BY <1>1, StepLogged DEF PollInv, PollingTypeOK
  <2> QED
    BY <1>1, <2>1 DEF Arming, ArmedIn, SinceAssert
<1> QED
  BY <1>4, <1>5, <1>6, <1>7 DEF PollInv

LEMMA ArmKeeps == ASSUME PollInv, NEW layer \in OptionLayers, Arm(layer) PROVE PollInv'
<1>1. log' = Append(log, "arm") /\ UNCHANGED <<httpVars, poll, now>> /\ pending' = layer
  BY DEF Arm, Steps
<1>2. PollingTypeOK'
  BY <1>1, StepLogged DEF PollInv, PollingTypeOK, httpVars
<1>3. Replayable' /\ InWindow'
  BY <1>1 DEF PollInv, Replayable, InWindow, httpVars
<1>4. layer # NoLayer
  BY PollingAssumption DEF NoLayer
<1>5. ArmedIn(log')
  BY <1>1, StepLogged DEF PollInv, PollingTypeOK
<1>6. Arming'
  BY <1>1, <1>4, <1>5 DEF Arming, ArmedIn, SinceAssert
<1> QED
  BY <1>2, <1>3, <1>6 DEF PollInv

LEMMA NextScenarioKeeps == ASSUME PollInv, NextScenario PROVE PollInv'
<1>1. PollingTypeOK'
  BY PollingAssumption DEF PollInv, NextScenario, PollingTypeOK, Fresh, NoRequest, AnyRequest
<1>2. Replayable' /\ InWindow'
  BY DEF PollInv, NextScenario, Replayable, InWindow, NoPoll
<1>3. Arming'
  BY DEF NextScenario, Arming, ArmedIn, SinceAssert
<1> QED
  BY <1>1, <1>2, <1>3 DEF PollInv

\* The steps that edit, sign, select, send or do anything else.
LEMMA OtherStepsKeep ==
  ASSUME PollInv,
         \/ EditRequest \/ SignNext \/ OtherStep \/ (\E a \in Apis : UseApi(a))
         \/ \E answered \in BOOLEAN : SendRequest(answered)
  PROVE  PollInv'
<1>1. /\ builder \in [api : Apis, edits : Nat, signed : BOOLEAN] /\ recipe \in AnyRequest
      /\ asked \in AnyRequest
      /\ last # NoExchange => last.request = asked /\ recipe = asked /\ asked # NoRequest
  BY DEF PollInv, PollingTypeOK, Replayable
<1>2. builder \in AnyRequest /\ builder # NoRequest
  BY <1>1, PollingAssumption DEF AnyRequest, NoRequest
<1>3. NoRequest \in AnyRequest
  BY DEF AnyRequest, NoRequest
<1>4. ASSUME EditRequest PROVE PollInv'
  <2>1. builder' \in [api : Apis, edits : Nat, signed : BOOLEAN]
    BY <1>1, <1>4 DEF EditRequest
  <2> QED
    BY <1>1, <1>4, <2>1, ActKeeps DEF EditRequest
<1>5. ASSUME SignNext PROVE PollInv'
  <2>1. builder' \in [api : Apis, edits : Nat, signed : BOOLEAN]
    BY <1>1, <1>5 DEF SignNext
  <2> QED
    BY <1>1, <1>5, <2>1, ActKeeps DEF SignNext
<1>6. ASSUME OtherStep PROVE PollInv'
  BY <1>1, <1>6, ActKeeps DEF OtherStep, httpVars
<1>7. ASSUME NEW a \in Apis, UseApi(a) PROVE PollInv'
  <2>1. builder' \in [api : Apis, edits : Nat, signed : BOOLEAN]
    BY <1>7 DEF UseApi, Fresh
  <2> QED
    BY <1>1, <1>7, <2>1, ActKeeps DEF UseApi
<1>8. ASSUME NEW answered \in BOOLEAN, SendRequest(answered) PROVE PollInv'
  <2>1. builder' \in [api : Apis, edits : Nat, signed : BOOLEAN] /\ asked' = builder
    BY <1>1, <1>8 DEF SendRequest
  <2>2. \/ recipe' = builder /\ last' = [request |-> builder, attempt |-> 0]
        \/ recipe' = NoRequest /\ last' = NoExchange
    BY <1>8 DEF SendRequest
  <2>3. recipe' \in AnyRequest
    BY <1>2, <1>3, <2>2
  <2>4. last' # NoExchange => last'.request = asked' /\ recipe' = asked' /\ asked' # NoRequest
    BY <1>2, <2>1, <2>2
  <2> QED
    BY <1>2, <1>8, <2>1, <2>3, <2>4, ActKeeps DEF SendRequest
<1> QED
  BY <1>4, <1>5, <1>6, <1>7, <1>8

LEMMA PollStep == PollInv /\ [PollingNext]_pollingVars => PollInv'
<1> SUFFICES ASSUME PollInv, [PollingNext]_pollingVars PROVE PollInv'
  OBVIOUS
<1>1. CASE UNCHANGED pollingVars
  BY <1>1 DEF pollingVars, httpVars, PollInv, PollingTypeOK, Replayable, InWindow, Arming
<1> QED
  BY <1>1, OtherStepsKeep, ArmKeeps, AssertKeeps, AttemptKeeps, WakeKeeps, NextScenarioKeeps
     DEF PollingNext, Proceeds

LEMMA PollInvariant == PollingSpec => []PollInv
BY PollStart, PollStep, PTL DEF PollingSpec

-----------------------------------------------------------------------------
\* The variables of requests and assertions keep their types, for any bounds.
THEOREM PollingTypeCorrect == PollingSpec => []PollingTypeOK
BY PollInvariant, PTL DEF PollInv

\* An HTTP assertion that holds, held of an answer to the request the last
\* `I request` sent, and a polled one of the answer to its own last attempt
\* (http.rs replay_response, runner.rs poll_assertion).
THEOREM LastRequestJudged == PollingSpec => JudgesLastRequest
<1>1. PollInv /\ [PollingNext]_pollingVars =>
        [(poll.at = "attempt" /\ poll.source = "http" /\ poll' = NoPoll /\ ~failed')
           => /\ last'.request = asked /\ asked # NoRequest
              /\ poll.attempt > 0 => last'.attempt = poll.attempt]_pollingVars
  <2> SUFFICES ASSUME PollInv, PollingNext, poll.at = "attempt", poll.source = "http", poll' = NoPoll, ~failed'
               PROVE  /\ last'.request = asked /\ asked # NoRequest
                      /\ poll.attempt > 0 => last'.attempt = poll.attempt
    OBVIOUS
  <2>1. \E d \in 0..Slow : Attempt(d)
    BY DEF PollingNext, Proceeds, Wake, EditRequest, SignNext, OtherStep, NextScenario, UseApi, SendRequest, Arm,
       Assert, Steps, NoPoll
  <2> QED
    BY <2>1, AttemptKeeps
<1> QED
  BY <1>1, PollInvariant, PTL DEF PollingSpec, JudgesLastRequest

\* A polled assertion sleeps no longer than its interval, begins its attempts
\* inside its window, and gives up for want of time only when the window has
\* closed (polling.rs after_not_yet).
THEOREM WindowIsKept == PollingSpec => WindowKept
<1>1. PollInv /\ [PollingNext]_pollingVars =>
        [/\ poll.at = "sleep" => now' - now <= poll.interval + Late /\ now' <= poll.timeout + Late
         /\ poll.armed /\ poll' = NoPoll /\ ended' = "expired" => now' >= poll.timeout]_pollingVars
  <2> SUFFICES ASSUME PollInv, PollingNext
               PROVE  /\ poll.at = "sleep" => now' - now <= poll.interval + Late /\ now' <= poll.timeout + Late
                      /\ poll.armed /\ poll' = NoPoll /\ ended' = "expired" => now' >= poll.timeout
    OBVIOUS
  <2>1. ASSUME poll.at = "sleep"
        PROVE  now' - now <= poll.interval + Late /\ now' <= poll.timeout + Late /\ poll' # NoPoll
    <3>1. PICK late \in 0..Late : Wake(late)
      BY <2>1 DEF PollingNext, Proceeds, Attempt, EditRequest, SignNext, OtherStep, NextScenario, UseApi,
         SendRequest, Arm, Assert, Steps, NoPoll
    <3>2. poll'.at = "attempt" /\ now' = poll.wake + late /\ late <= Late
      BY <3>1, WakeKeeps
    <3>3. poll.wake <= poll.timeout /\ poll.wake <= now + poll.interval
      BY <2>1 DEF PollInv, InWindow
    <3>4. /\ poll.wake \in Nat /\ poll.timeout \in Nat /\ poll.interval \in Nat /\ now \in Nat
          /\ Late \in Nat /\ late \in Nat
      BY PollingAssumption DEF PollInv, PollingTypeOK, Polls
    <3>5. poll' # NoPoll
      BY <3>2 DEF NoPoll
    <3> QED
      BY <3>2, <3>3, <3>4, <3>5
  <2>2. ASSUME poll.at = "attempt", poll' = NoPoll, ended' = "expired" PROVE now' >= poll.timeout
    <3>1. \E d \in 0..Slow : Attempt(d)
      BY <2>2 DEF PollingNext, Proceeds, Wake, EditRequest, SignNext, OtherStep, NextScenario, UseApi, SendRequest,
         Arm, Assert, Steps, NoPoll
    <3> QED
      BY <2>2, <3>1, AttemptKeeps
  <2>3. poll.armed => poll.at \in {"attempt", "sleep"}
    BY DEF PollInv, InWindow, PollingTypeOK, Polls, NoPoll
  <2> QED
    BY <2>1, <2>2, <2>3
<1> QED
  BY <1>1, PollInvariant, PTL DEF PollingSpec, WindowKept

\* `I expect the next assertion to pass ...` reaches the next assertion of its
\* own scenario and no other, whatever runs between (world.rs take_pending).
THEOREM ModifierReachesNext == PollingSpec => ModifierReach
<1>1. PollInv /\ [PollingNext]_pollingVars =>
        [(poll = NoPoll /\ poll' # NoPoll)
           => (poll'.armed <=> \E i \in SinceAssert(log) : log[i] = "arm")]_pollingVars
  <2> SUFFICES ASSUME PollInv, PollingNext, poll = NoPoll, poll' # NoPoll
               PROVE  poll'.armed <=> ArmedIn(log)
    BY DEF ArmedIn
  <2>1. \E source \in {"http", "db", "plugin"} : Assert(source)
    BY DEF PollingNext, Proceeds, Attempt, Wake, EditRequest, SignNext, OtherStep, NextScenario, UseApi,
       SendRequest, Arm, NoPoll
  <2> QED
    BY <2>1, AssertKeeps DEF PollInv, Arming
<1> QED
  BY <1>1, PollInvariant, PTL DEF PollingSpec, ModifierReach
-----------------------------------------------------------------------------
(***************************************************************************)
(* What a rollback restores, for every set of layers, plugins and releases *)
(* and with any number of crashes and failed file operations.              *)
(*                                                                         *)
(* BackupInv follows the copies from backup through the switch and back:   *)
(* while they are made nothing promises anything (settled is false); once  *)
(* the record is written they equal what was installed, and every later    *)
(* step either leaves a copy alone or moves it to where it belongs.        *)
(* FetchInv follows the version directories a command creates: preflight   *)
(* saw to it that no lock file names one, and until the switch no lock     *)
(* file changes.                                                           *)
(***************************************************************************)

Fetching == {"fetch", "extract", "check", "copy", "keep", "keepLock", "record"}
Switching == {"swap", "lock", "receipt"}
RollingBack == {"unlock", "forget"}

\* The copies of this upgrade, while they replace those of an older one.
KeepInv ==
  cmd.pc \in {"keepLock", "record"} =>
    /\ ~settled
    /\ kept = managed
    /\ \A l \in MovedLayers : backup[l] = lock[l] \/ (At("keepLock") /\ l \in cmd.files)

\* The switch runs under a record that was written for it.
SwitchInv ==
  cmd.pc \in Switching =>
    /\ settled /\ HasRecord
    /\ record.locks = MovedLayers
    /\ At("lock") => cmd.todo \subseteq cmd.moves
    /\ \A l \in record.locks : backup[l] = saved.lock[l]

\* A rollback has put the binary back and works through the lock files.
RollbackInv ==
  cmd.pc \in RollingBack =>
    /\ HasRecord
    /\ kept # 0 /\ managed = kept
    /\ At("unlock") => cmd.files \subseteq record.locks
    /\ \A l \in record.locks : backup[l] = NoFile \/ (At("unlock") /\ l \in cmd.files)

\* A completed backup: every layer is as it was, or backed up as it was, or a
\* plugin command changed it since.
SavedInv ==
  settled /\ HasRecord =>
    /\ saved.binary \in Releases
    /\ kept \in {0, saved.binary}
    /\ \A l \in record.locks \ touched :
         backup[l] = saved.lock[l] \/ (backup[l] = NoFile /\ lock[l] = saved.lock[l])
    /\ \A l \in Layers \ (record.locks \cup touched) : lock[l] = saved.lock[l]

BackupInv == KeepInv /\ SwitchInv /\ RollbackInv /\ SavedInv

\* What this command created or is creating is named by no lock file.
FetchInv ==
  cmd.pc \in Fetching =>
    /\ \A m \in cmd.moves, l \in Layers : lock[l][m[2]] # AbiOf[cmd.to]
    /\ \A p \in cmd.fetches : \E m \in cmd.moves : m[2] = p
    /\ cmd.pc \in {"extract", "check"} =>
         cmd.plugin \notin cmd.fetches /\ \E m \in cmd.moves : m[2] = cmd.plugin
    /\ \A d \in cmd.created : \E m \in cmd.moves : d = DirTo(m[2])

\* Without --force, between two ABIs: what is planned is all that has to move,
\* and what the switch has not moved yet is on its list.
MovesInv ==
  /\ ~cmd.force /\ cmd.pc \in Fetching \cup {"swap"} /\ AbiOf[cmd.to] # AbiOf[managed] =>
       \A l \in Layers, p \in Plugins :
         lock[l][p] \in {0, AbiOf[cmd.to]} \/ <<l, p>> \in cmd.moves
  /\ cmd.pc = "swap" => record.from = managed
  /\ cmd.pc \in {"lock", "receipt"} => managed = cmd.to
  /\ ~cmd.force /\ cmd.pc \in {"lock", "receipt"} /\ AbiOf[record.from] # AbiOf[cmd.to] =>
       \A l \in Layers, p \in Plugins :
         lock[l][p] \in {0, AbiOf[cmd.to]} \/ (cmd.pc = "lock" /\ <<l, p>> \in cmd.todo)

\* A command that changes something knows the release it upgrades to.
TargetInv == cmd.pc \in Fetching \cup Switching => cmd.to \in Releases
-----------------------------------------------------------------------------
\* Every step keeps the type of the command and its target a release.
LEMMA CommandStep ==
  ASSUME StoreTypeOK, cmd \in Commands, record \in {NoRecord, TornRecord} \cup Records, TargetInv, [UpgradeNext]_upgradeVars
  PROVE  cmd' \in Commands /\ TargetInv'
<1> USE StoreAssumption, UpgradeAssumption DEF StoreTypeOK, TargetInv, Fetching, Switching
<1>1. CASE Provision
  BY <1>1 DEF Provision, PluginCommand
<1>2. CASE Remove
  BY <1>2 DEF Remove, PluginCommand
<1>3. CASE Prune
  BY <1>3 DEF Prune, PluginCommand
<1>4. CASE StartUpgrade
  <2>1. PICK to \in Releases \ {managed}, force \in BOOLEAN, needs \in SUBSET Plugins :
          LET moves == Moves(Outdated(to) \cup Missing(needs), to)
          IN  /\ Preflight(moves, to)
              /\ cmd' = [Ended("none") EXCEPT !.pc = IF moves = {} THEN "copy" ELSE "fetch",
                                              !.to = to, !.force = force, !.moves = moves,
                                              !.fetches = {m[2] : m \in moves}]
    BY ONLY <1>4 DEF StartUpgrade
  <2> DEFINE moves == Moves(Outdated(to) \cup Missing(needs), to)
             fetches == {m[2] : m \in moves}
  <2>2. moves \in SUBSET (Layers \X Plugins)
    BY DEF Moves, Outdated, Missing
  <2>3. fetches \in SUBSET Plugins
    BY <2>2
  <2>4. Preflight(moves, to) /\ to \in Releases
    BY <2>1
  <2>5. cmd' = [Ended("none") EXCEPT !.pc = IF moves = {} THEN "copy" ELSE "fetch",
                                    !.to = to, !.force = force, !.moves = moves,
                                    !.fetches = fetches]
    BY <2>1
  <2> HIDE DEF moves, fetches
  <2>6. Ended("none") \in Commands
    BY DEF Ended, Commands, Pcs, Outcomes, NoPlugin
  <2>7. cmd' \in Commands /\ cmd'.to = to
    BY ZenonT(40), <2>2, <2>3, <2>4, <2>5, <2>6 DEF Commands, Pcs
  <2> QED
    BY <2>4, <2>7
<1>5. CASE FetchBegin
  <2>1. PICK p \in cmd.fetches :
          cmd' = [cmd EXCEPT !.pc = "extract", !.fetches = @ \ {p}, !.plugin = p,
                             !.aside = DirTo(p) \in disk]
    BY ONLY <1>5 DEF FetchBegin
  <2> DEFINE aside == DirTo(p) \in disk
  <2>2. aside \in BOOLEAN
    OBVIOUS
  <2>3. cmd' = [cmd EXCEPT !.pc = "extract", !.fetches = @ \ {p}, !.plugin = p, !.aside = aside]
    BY <2>1
  <2> HIDE DEF aside
  <2> QED
    BY <1>5, <2>2, <2>3 DEF FetchBegin, At, Commands, Pcs
<1>6. CASE FetchEnd
  <2>1. CASE cmd' = [cmd EXCEPT !.pc = "check", !.created = @ \cup {DirTo(cmd.plugin)}]
    <3>1. DirTo(cmd.plugin) \in Dirs
      BY <1>6 DEF FetchEnd, At, DirTo, Dirs, Commands
    <3> QED
      BY <1>6, <2>1, <3>1 DEF FetchEnd, At, Commands, Pcs
  <2>2. CASE cmd' = Ended("aborted")
    BY <2>2 DEF Ended, Commands, Pcs, Outcomes, NoPlugin
  <2> QED
    BY ONLY <1>6, <2>1, <2>2 DEF FetchEnd, Abort
<1>7. CASE CheckStaged
  <2>1. CASE cmd' = NextFetch
    BY <1>7, <2>1 DEF CheckStaged, Quiet, NoTrouble, DirTo, Abort, Ended, NextFetch, At,
       Commands, Pcs, Outcomes, Dirs, NoPlugin, NoRecord, TornRecord, Records
  <2>2. CASE cmd' = Ended("aborted")
    BY <1>7, <2>2 DEF Ended, Commands, Pcs, Outcomes, NoPlugin
  <2>3. CASE cmd' = [NextFetch EXCEPT !.moves = {m \in @ : m[2] # cmd.plugin},
                                       !.created = @ \ {DirTo(cmd.plugin)}]
    BY <1>7, <2>3 DEF CheckStaged, Quiet, NoTrouble, DirTo, Abort, Ended, NextFetch, At,
       Commands, Pcs, Outcomes, Dirs, NoPlugin, NoRecord, TornRecord, Records
  <2> QED
    BY ONLY <1>7, <2>1, <2>2, <2>3 DEF CheckStaged, Abort
<1>8. CASE Copy
  <2>1. CASE cmd' = [cmd EXCEPT !.pc = "keep"]
    BY <1>8, <2>1 DEF Copy, At, Commands, Pcs
  <2>2. CASE cmd' = Ended("aborted")
    BY <1>8, <2>2 DEF Ended, Commands, Pcs, Outcomes, NoPlugin
  <2> QED
    BY ONLY <1>8, <2>1, <2>2 DEF Copy, Abort
<1>9. CASE KeepBinary
  <2>1. CASE cmd' = [cmd EXCEPT !.pc = "keepLock", !.files = MovedLayers]
    <3>1. MovedLayers \in SUBSET Layers
      BY DEF MovedLayers, Commands
    <3> QED
      BY <1>9, <2>1, <3>1 DEF KeepBinary, At, Commands, Pcs
  <2>2. CASE cmd' = Ended("aborted")
    BY <2>2 DEF Ended, Commands, Pcs, Outcomes, NoPlugin
  <2> QED
    BY ONLY <1>9, <2>1, <2>2 DEF KeepBinary, Abort
<1>10. CASE KeepLock
  <2>1. CASE \E l \in cmd.files : /\ cmd' = [cmd EXCEPT !.files = @ \ {l}]
                            /\ backup' = [backup EXCEPT ![l] = lock[l]]
    BY <1>10, <2>1 DEF Commands
  <2>2. CASE cmd' = Ended("aborted")
    BY <1>10, <2>2 DEF Ended, Commands, Pcs, Outcomes, NoPlugin
  <2> QED
    BY ONLY <1>10, <2>1, <2>2 DEF KeepLock, Abort
<1>11. CASE DropOld
  BY <1>11 DEF DropOld, At, Commands, Pcs
<1>12. CASE WriteRecord
  <2>1. CASE cmd' = [cmd EXCEPT !.pc = "swap"]
    BY <1>12, <2>1 DEF WriteRecord, At, Commands, Pcs
  <2>2. CASE cmd' = Ended("aborted")
    BY <1>12, <2>2 DEF Ended, Commands, Pcs, Outcomes, NoPlugin
  <2> QED
    BY ONLY <1>12, <2>1, <2>2 DEF WriteRecord, Abort
<1>13. CASE Swap
  <2>1. CASE cmd' = [cmd EXCEPT !.pc = "lock", !.todo = cmd.moves]
    BY <1>13, <2>1 DEF Swap, At, Commands, Pcs
  <2>2. CASE cmd' = Ended("halfway")
    BY <1>13, <2>2 DEF Ended, Commands, Pcs, Outcomes, NoPlugin
  <2> QED
    BY ONLY <1>13, <2>1, <2>2 DEF Swap, Halfway
<1>14. CASE MoveEntries
  <2>1. CASE \E m \in cmd.todo : /\ cmd' = [cmd EXCEPT !.todo = @ \ {m}]
                           /\ lock' = Upsert(lock, m[1], m[2], AbiOf[cmd.to])
    BY <1>14, <2>1 DEF Commands
  <2>2. CASE cmd' = Ended("halfway") /\ UNCHANGED lock
    BY <1>14, <2>2 DEF Ended, Commands, Pcs, Outcomes, NoPlugin
  <2>3. CASE cmd' = [cmd EXCEPT !.pc = "receipt"] /\ UNCHANGED lock
    BY <1>14, <2>3 DEF MoveEntries, At, Commands, Pcs
  <2> QED
    BY ONLY <1>14, <2>1, <2>2, <2>3 DEF MoveEntries, Halfway
<1>15. CASE WriteReceipt
  <2>1. CASE cmd' = Ended("upgraded")
    BY <1>15, <2>1 DEF Ended, Commands, Pcs, Outcomes, NoPlugin
  <2>2. CASE cmd' = Ended("halfway")
    BY <1>15, <2>2 DEF Ended, Commands, Pcs, Outcomes, NoPlugin
  <2> QED
    BY ONLY <1>15, <2>1, <2>2 DEF WriteReceipt, Halfway
<1>16. CASE StartRollback
  <2>1. record.locks \in SUBSET Layers
    BY <1>16 DEF StartRollback, HasRecord, Records
  <2>2. cmd' = [Ended("none") EXCEPT !.pc = "unlock", !.files = record.locks]
    BY <1>16 DEF StartRollback
  <2> QED
    BY <2>1, <2>2 DEF Ended, Commands, Pcs, Outcomes, NoPlugin
<1>17. CASE RestoreLock
  <2>1. CASE cmd' = Ended("unfinished")
    BY <2>1 DEF Ended, Commands, Pcs, Outcomes, NoPlugin
  <2>2. CASE \E l \in cmd.files : cmd' = [cmd EXCEPT !.files = @ \ {l}]
    BY <1>17, <2>2 DEF Commands
  <2> QED
    BY ONLY <1>17, <2>1, <2>2 DEF RestoreLock, Unfinished
<1>18. CASE RestoreReceipt
  <2>1. CASE cmd' = [cmd EXCEPT !.pc = "forget"]
    BY <1>18, <2>1 DEF Commands, Pcs
  <2>2. CASE cmd' = Ended("unfinished")
    BY <1>18, <2>2 DEF Ended, Commands, Pcs, Outcomes, NoPlugin
  <2> QED
    BY ONLY <1>18, <2>1, <2>2 DEF RestoreReceipt, Unfinished
<1>19. CASE Forget
  BY <1>19 DEF Forget, Ended, Commands, Pcs, Outcomes, NoPlugin
<1>20. CASE Crash
  BY <1>20 DEF Crash, Ended, Commands, Pcs, Outcomes, NoPlugin
<1>21. CASE UNCHANGED upgradeVars
  BY <1>21 DEF upgradeVars
<1> QED
  BY <1>1, <1>2, <1>3, <1>4, <1>5, <1>6, <1>7, <1>8, <1>9, <1>10, <1>11, <1>12, <1>13, <1>14,
     <1>15, <1>16, <1>17, <1>18, <1>19, <1>20, <1>21 DEF UpgradeNext, PluginStep, BeforeSwitch, Switch,
     Rollback

\* Every step keeps the types of the variables.
LEMMA TypeStep ==
  ASSUME UpgradeTypeOK, TargetInv, [UpgradeNext]_upgradeVars
  PROVE  UpgradeTypeOK' /\ TargetInv'
<1>1. cmd' \in Commands /\ TargetInv'
  BY CommandStep DEF UpgradeTypeOK
<1>2. ASSUME NEW l \in Layers, NEW p \in Plugins, NEW release \in Abis \cup {0}
      PROVE  Upsert(lock, l, p, release) \in [Layers -> LockFiles]
  BY DEF UpgradeTypeOK, StoreTypeOK, Upsert, LockFiles
<1>3. \A v \in Releases : AbiOf[v] \in Abis
  BY UpgradeAssumption
<1>4. disk' \subseteq Dirs
  <2> USE DEF UpgradeTypeOK, StoreTypeOK
  <2>1. CASE Provision
    BY <2>1, <1>3 DEF Provision, RemoveUnreferenced, Dirs
  <2>2. CASE Remove \/ Prune
    BY <2>2 DEF Remove, Prune, RemoveUnreferenced
  <2>3. CASE FetchBegin
    BY <2>3 DEF FetchBegin
  <2>4. CASE FetchEnd
    <3>1. DirTo(cmd.plugin) \in Dirs
      BY <2>4, <1>3 DEF FetchEnd, At, DirTo, Dirs, Commands, TargetInv, Fetching
    <3> QED
      BY <2>4, <3>1 DEF FetchEnd, Abort
  <2>5. CASE CheckStaged \/ Copy \/ KeepBinary \/ KeepLock \/ WriteRecord
    BY <2>5 DEF CheckStaged, Copy, KeepBinary, KeepLock, WriteRecord, Abort
  <2>6. CASE UNCHANGED disk
    BY <2>6
  <2> QED
    BY <2>1, <2>2, <2>3, <2>4, <2>5, <2>6 DEF UpgradeNext, PluginStep, BeforeSwitch, Switch,
       Rollback,
       StartUpgrade, DropOld, Swap, MoveEntries, WriteReceipt, StartRollback, RestoreLock,
       RestoreReceipt, Forget, Crash, upgradeVars, store
<1>5. lock' \in [Layers -> LockFiles]
  <2> USE DEF UpgradeTypeOK, StoreTypeOK
  <2>1. CASE Provision
    BY <2>1, <1>2, <1>3 DEF Provision
  <2>2. CASE Remove
    BY <2>2, <1>2 DEF Remove
  <2>3. CASE MoveEntries
    <3>1. CASE UNCHANGED lock
      BY <3>1
    <3>2. CASE \E m \in cmd.todo : lock' = Upsert(lock, m[1], m[2], AbiOf[cmd.to])
      <4>1. AbiOf[cmd.to] \in Abis \cup {0}
        BY <2>3, <1>3 DEF MoveEntries, At, TargetInv, Switching
      <4>2. \A m \in cmd.todo : m[1] \in Layers /\ m[2] \in Plugins
        BY DEF Commands
      <4> QED
        BY <3>2, <1>2, <4>1, <4>2
    <3> QED
      BY ONLY <2>3, <3>1, <3>2 DEF MoveEntries
  <2>4. CASE RestoreLock
    <3>1. \A l \in Layers : backup[l] \in LockFiles \cup {NoFile}
      OBVIOUS
    <3> QED
      BY <2>4, <3>1 DEF RestoreLock, Commands
  <2>5. CASE UNCHANGED lock
    BY <2>5
  <2> QED
    BY <2>1, <2>2, <2>3, <2>4, <2>5 DEF UpgradeNext, PluginStep, BeforeSwitch, Switch, Rollback,
       Prune, StartUpgrade, FetchBegin, FetchEnd, CheckStaged, Copy, KeepBinary, KeepLock, Quiet,
       DropOld, WriteRecord, Swap, WriteReceipt, StartRollback, RestoreReceipt, Forget, Crash,
       upgradeVars, store
<1>6. backup' \in [Layers -> LockFiles \cup {NoFile}]
  <2> USE DEF UpgradeTypeOK, StoreTypeOK
  <2>1. CASE KeepLock
    BY <2>1 DEF KeepLock, Commands
  <2>2. CASE DropOld
    BY <2>2 DEF DropOld
  <2>3. CASE RestoreLock
    BY <2>3 DEF RestoreLock, Commands
  <2>4. CASE UNCHANGED backup
    BY <2>4
  <2> QED
    BY <2>1, <2>2, <2>3, <2>4 DEF UpgradeNext, PluginStep, BeforeSwitch, Switch, Rollback,
       PluginCommand,
       Provision, Remove, Prune, StartUpgrade, FetchBegin, FetchEnd, CheckStaged, Copy, KeepBinary,
       Quiet, WriteRecord, Swap, MoveEntries, WriteReceipt, StartRollback, RestoreReceipt, Forget,
       Crash, upgradeVars, store
<1>7. managed' \in Releases /\ receipt' \in Releases \cup {Torn} /\ kept' \in Releases \cup {0}
  <2> USE DEF UpgradeTypeOK
  <2>1. CASE Swap \/ WriteReceipt
    BY <2>1 DEF Swap, WriteReceipt, At, TargetInv, Switching
  <2>2. CASE StartRollback \/ Forget \/ KeepBinary \/ Crash
    BY <2>2 DEF StartRollback, Forget, KeepBinary, Crash
  <2>3. CASE RestoreReceipt
    BY <2>3 DEF RestoreReceipt, NoRecord, TornRecord, Torn, Records
  <2>4. CASE UNCHANGED <<managed, receipt, kept>>
    BY <2>4
  <2> QED
    BY <2>1, <2>2, <2>3, <2>4 DEF UpgradeNext, PluginStep, BeforeSwitch, Switch, Rollback,
       PluginCommand,
       Provision, Remove, Prune, StartUpgrade, FetchBegin, FetchEnd, CheckStaged, Copy, KeepLock,
       Quiet, DropOld, WriteRecord, MoveEntries, RestoreLock, upgradeVars, binaryVars
<1>8. record' \in {NoRecord, TornRecord} \cup Records
  <2> USE DEF UpgradeTypeOK
  <2>1. CASE WriteRecord
    <3>1. cmd.to \in Releases /\ MovedLayers \subseteq Layers
      BY <2>1 DEF WriteRecord, At, TargetInv, Fetching, MovedLayers, Commands
    <3> QED
      BY <2>1, <3>1 DEF WriteRecord, Records
  <2>2. CASE Forget \/ Crash
    BY <2>2 DEF Forget, Crash
  <2>3. CASE UNCHANGED record
    BY <2>3
  <2> QED
    BY <2>1, <2>2, <2>3 DEF UpgradeNext, PluginStep, BeforeSwitch, Switch, Rollback, PluginCommand,
       Provision, Remove, Prune, StartUpgrade, FetchBegin, FetchEnd, CheckStaged, Copy, KeepBinary,
       KeepLock, Quiet, DropOld, Swap, MoveEntries, WriteReceipt, StartRollback, RestoreLock,
       RestoreReceipt, upgradeVars, binaryVars
<1>9. /\ saved' \in [binary : Releases \cup {0}, lock : [Layers -> LockFiles]]
      /\ settled' \in BOOLEAN /\ touched' \subseteq Layers
  <2> USE DEF UpgradeTypeOK, StoreTypeOK
  <2>1. CASE Provision \/ Remove \/ Prune
    BY <2>1 DEF Provision, Remove, Prune, PluginCommand
  <2>2. CASE WriteRecord
    <3>1. CASE UNCHANGED historyVars
      BY <3>1 DEF historyVars
    <3>2. CASE saved' = [binary |-> managed, lock |-> lock] /\ settled' = TRUE /\ touched' = {}
      BY <3>2
    <3> QED
      BY ONLY <2>2, <3>1, <3>2 DEF WriteRecord
  <2>4. CASE KeepBinary
    BY <2>4 DEF KeepBinary
  <2>3. CASE UNCHANGED <<saved, settled, touched>>
    BY <2>3
  <2> QED
    BY <2>1, <2>2, <2>3, <2>4 DEF UpgradeNext, PluginStep, BeforeSwitch, Switch, Rollback,
       StartUpgrade, FetchBegin, FetchEnd, CheckStaged, Copy, KeepLock, Quiet, DropOld, Swap,
       MoveEntries, WriteReceipt, StartRollback, RestoreLock, RestoreReceipt, Forget, Crash,
       upgradeVars, historyVars
<1> QED
  BY <1>1, <1>4, <1>5, <1>6, <1>7, <1>8, <1>9 DEF UpgradeTypeOK, StoreTypeOK

\* The copies are made of what is installed.
LEMMA KeepStep ==
  ASSUME UpgradeTypeOK, KeepInv, [UpgradeNext]_upgradeVars
  PROVE  KeepInv'
<1> USE StoreAssumption, UpgradeAssumption DEF Commands, Fetching, KeepInv, RollingBack,
        StoreTypeOK, Switching, UpgradeTypeOK, store, binaryVars, historyVars, counts
<1>1. CASE Provision
  BY <1>1 DEF Provision, PluginCommand, Idle
<1>2. CASE Remove
  BY <1>2 DEF Remove, PluginCommand, Idle
<1>3. CASE Prune
  BY <1>3 DEF Prune, PluginCommand, Idle
<1>4. CASE StartUpgrade
  BY <1>4 DEF StartUpgrade
<1>5. CASE FetchBegin
  BY <1>5 DEF FetchBegin
<1>6. CASE FetchEnd
  <2>1. CASE cmd' = [cmd EXCEPT !.pc = "check", !.created = @ \cup {DirTo(cmd.plugin)}]
    BY <1>6, <2>1
  <2>2. CASE cmd' = Ended("aborted")
    BY <1>6, <2>2 DEF Ended
  <2> QED
    BY ONLY <1>6, <2>1, <2>2 DEF FetchEnd, Abort
<1>7. CASE CheckStaged
  <2>1. CASE cmd' = NextFetch
    BY <1>7, <2>1 DEF NextFetch
  <2>2. CASE cmd' = Ended("aborted")
    BY <1>7, <2>2 DEF Ended
  <2>3. CASE cmd' = [NextFetch EXCEPT !.moves = {m \in @ : m[2] # cmd.plugin},
                                       !.created = @ \ {DirTo(cmd.plugin)}]
    BY <1>7, <2>3 DEF NextFetch
  <2> QED
    BY ONLY <1>7, <2>1, <2>2, <2>3 DEF CheckStaged, Abort
<1>8. CASE Copy
  BY <1>8 DEF Copy, Abort, Ended
<1>9. CASE KeepBinary
  <2>1. CASE cmd' = [cmd EXCEPT !.pc = "keepLock", !.files = MovedLayers]
    BY <1>9, <2>1 DEF KeepBinary, NoTrouble, Trouble, Abort, Ended, MovedLayers, At,
       MovedLayers
  <2>2. CASE cmd' = Ended("aborted")
    BY <1>9, <2>2 DEF Ended
  <2> QED
    BY ONLY <1>9, <2>1, <2>2 DEF KeepBinary, Abort
<1>10. CASE KeepLock
  BY <1>10 DEF KeepLock, Abort, Ended, At, MovedLayers
<1>11. CASE DropOld
  BY <1>11 DEF DropOld, MovedLayers, At
<1>12. CASE WriteRecord
  <2>1. CASE cmd' = [cmd EXCEPT !.pc = "swap"]
    BY <1>12, <2>1
  <2>2. CASE cmd' = Ended("aborted")
    BY <1>12, <2>2 DEF Ended
  <2> QED
    BY ONLY <1>12, <2>1, <2>2 DEF WriteRecord, Abort
<1>13. CASE Swap
  <2>1. CASE cmd' = [cmd EXCEPT !.pc = "lock", !.todo = cmd.moves]
    BY <1>13, <2>1
  <2>2. CASE cmd' = Ended("halfway")
    BY <1>13, <2>2 DEF Ended
  <2> QED
    BY ONLY <1>13, <2>1, <2>2 DEF Swap, Halfway
<1>14. CASE MoveEntries
  <2>1. CASE \E m \in cmd.todo : /\ cmd' = [cmd EXCEPT !.todo = @ \ {m}]
                           /\ lock' = Upsert(lock, m[1], m[2], AbiOf[cmd.to])
    BY <1>14, <2>1 DEF MoveEntries, At
  <2>2. CASE cmd' = Ended("halfway") /\ UNCHANGED lock
    BY <1>14, <2>2 DEF Ended
  <2>3. CASE cmd' = [cmd EXCEPT !.pc = "receipt"] /\ UNCHANGED lock
    BY <1>14, <2>3
  <2> QED
    BY ONLY <1>14, <2>1, <2>2, <2>3 DEF MoveEntries, Halfway
<1>15. CASE WriteReceipt
  BY <1>15 DEF WriteReceipt, Halfway, Ended
<1>16. CASE StartRollback
  BY <1>16 DEF StartRollback
<1>17. CASE RestoreLock
  BY <1>17 DEF RestoreLock, Unfinished, Ended, At
<1>18. CASE RestoreReceipt
  BY <1>18 DEF RestoreReceipt, Unfinished, Ended
<1>19. CASE Forget
  BY <1>19 DEF Forget, Ended
<1>20. CASE Crash
  BY <1>20 DEF Crash, Ended
<1>21. CASE UNCHANGED upgradeVars
  BY <1>21 DEF upgradeVars, At, MovedLayers
<1> QED
  BY <1>1, <1>2, <1>3, <1>4, <1>5, <1>6, <1>7, <1>8, <1>9, <1>10, <1>11, <1>12, <1>13, <1>14,
     <1>15, <1>16, <1>17, <1>18, <1>19, <1>20, <1>21 DEF UpgradeNext, PluginStep, BeforeSwitch, Switch,
     Rollback

\* The switch moves entries of recorded lock files only.
LEMMA SwitchStep ==
  ASSUME UpgradeTypeOK, KeepInv, SwitchInv, [UpgradeNext]_upgradeVars
  PROVE  SwitchInv'
<1> USE StoreAssumption, UpgradeAssumption DEF Commands, Fetching, KeepInv, RollingBack,
        StoreTypeOK, SwitchInv, Switching, UpgradeTypeOK, store, binaryVars, historyVars,
        counts
<1>1. CASE Provision
  BY <1>1 DEF Provision, PluginCommand, At, MovedLayers, HasRecord
<1>2. CASE Remove
  BY <1>2 DEF Remove, PluginCommand, At, MovedLayers, HasRecord
<1>3. CASE Prune
  BY <1>3 DEF Prune, PluginCommand, Idle
<1>4. CASE StartUpgrade
  <2>1. cmd'.pc \in {"copy", "fetch"}
    BY ONLY <1>4 DEF StartUpgrade, Ended
  <2> QED
    BY ONLY <2>1 DEF SwitchInv, Switching
<1>5. CASE FetchBegin
  BY <1>5 DEF FetchBegin
<1>6. CASE FetchEnd
  <2>1. CASE cmd' = [cmd EXCEPT !.pc = "check", !.created = @ \cup {DirTo(cmd.plugin)}]
    BY <1>6, <2>1
  <2>2. CASE cmd' = Ended("aborted")
    BY <1>6, <2>2 DEF Ended
  <2> QED
    BY ONLY <1>6, <2>1, <2>2 DEF FetchEnd, Abort
<1>7. CASE CheckStaged
  <2>1. CASE cmd' = NextFetch
    BY <1>7, <2>1 DEF NextFetch
  <2>2. CASE cmd' = Ended("aborted")
    BY <1>7, <2>2 DEF Ended
  <2>3. CASE cmd' = [NextFetch EXCEPT !.moves = {m \in @ : m[2] # cmd.plugin},
                                       !.created = @ \ {DirTo(cmd.plugin)}]
    BY <1>7, <2>3 DEF NextFetch
  <2> QED
    BY ONLY <1>7, <2>1, <2>2, <2>3 DEF CheckStaged, Abort
<1>8. CASE Copy
  BY <1>8 DEF Copy, Abort, Ended
<1>9. CASE KeepBinary
  <2>1. CASE cmd' = [cmd EXCEPT !.pc = "keepLock", !.files = MovedLayers]
    BY <1>9, <2>1
  <2>2. CASE cmd' = Ended("aborted")
    BY <1>9, <2>2 DEF Ended
  <2> QED
    BY ONLY <1>9, <2>1, <2>2 DEF KeepBinary, Abort
<1>10. CASE KeepLock
  BY <1>10 DEF KeepLock, Abort, Ended, At
<1>11. CASE DropOld
  BY <1>11 DEF DropOld
<1>12. CASE WriteRecord
  <2>1. CASE cmd' = [cmd EXCEPT !.pc = "swap"]
    <3>1. record' = [from |-> managed, to |-> cmd.to, locks |-> MovedLayers]
          /\ saved' = [binary |-> managed, lock |-> lock]
          /\ settled' = TRUE /\ touched' = {}
          /\ UNCHANGED <<lock, backup, kept>>
      BY <1>12, <2>1 DEF WriteRecord, Abort, Ended
    <3>2. HasRecord'
      BY <3>1 DEF HasRecord, NoRecord, TornRecord
    <3>3. cmd'.pc = "swap" /\ cmd'.moves = cmd.moves /\ MovedLayers' = MovedLayers /\ cmd'.todo = cmd.todo
      BY <2>1 DEF MovedLayers
    <3>4. kept = managed /\ \A l \in MovedLayers : backup[l] = lock[l]
      BY <1>12 DEF WriteRecord, At
    <3>5. record'.locks = MovedLayers /\ saved'.lock = lock /\ saved'.binary = managed
      BY <3>1
    <3> QED
      BY <3>1, <3>2, <3>3, <3>4, <3>5 DEF At
  <2>2. CASE cmd' = Ended("aborted")
    BY <1>12, <2>2 DEF Ended
  <2> QED
    BY ONLY <1>12, <2>1, <2>2 DEF WriteRecord, Abort
<1>13. CASE Swap
  <2>1. CASE cmd' = [cmd EXCEPT !.pc = "lock", !.todo = cmd.moves]
    BY <1>13, <2>1 DEF Swap, At, MovedLayers, HasRecord
  <2>2. CASE cmd' = Ended("halfway")
    BY <1>13, <2>2 DEF Ended
  <2> QED
    BY ONLY <1>13, <2>1, <2>2 DEF Swap, Halfway
<1>14. CASE MoveEntries
  <2>1. CASE \E m \in cmd.todo : /\ cmd' = [cmd EXCEPT !.todo = @ \ {m}]
                           /\ lock' = Upsert(lock, m[1], m[2], AbiOf[cmd.to])
    BY <1>14, <2>1 DEF MoveEntries, MovedLayers, HasRecord
  <2>2. CASE cmd' = Ended("halfway") /\ UNCHANGED lock
    BY <1>14, <2>2 DEF Ended
  <2>3. CASE cmd' = [cmd EXCEPT !.pc = "receipt"] /\ UNCHANGED lock
    BY <1>14, <2>3 DEF MoveEntries, At, MovedLayers, HasRecord
  <2> QED
    BY ONLY <1>14, <2>1, <2>2, <2>3 DEF MoveEntries, Halfway
<1>15. CASE WriteReceipt
  BY <1>15 DEF WriteReceipt, Halfway, Ended
<1>16. CASE StartRollback
  BY <1>16 DEF StartRollback
<1>17. CASE RestoreLock
  BY <1>17 DEF RestoreLock, Unfinished, Ended, At
<1>18. CASE RestoreReceipt
  BY <1>18 DEF RestoreReceipt, Unfinished, Ended
<1>19. CASE Forget
  BY <1>19 DEF Forget, Ended
<1>20. CASE Crash
  BY <1>20 DEF Crash, Ended
<1>21. CASE UNCHANGED upgradeVars
  BY <1>21 DEF upgradeVars, At, MovedLayers, HasRecord
<1> QED
  BY <1>1, <1>2, <1>3, <1>4, <1>5, <1>6, <1>7, <1>8, <1>9, <1>10, <1>11, <1>12, <1>13, <1>14,
     <1>15, <1>16, <1>17, <1>18, <1>19, <1>20, <1>21 DEF UpgradeNext, PluginStep, BeforeSwitch, Switch,
     Rollback

\* A rollback restores one recorded lock file after the other.
LEMMA RollbackStep ==
  ASSUME UpgradeTypeOK, RollbackInv, [UpgradeNext]_upgradeVars
  PROVE  RollbackInv'
<1> USE StoreAssumption, UpgradeAssumption DEF Commands, Fetching, RollbackInv, RollingBack,
        StoreTypeOK, Switching, UpgradeTypeOK, store, binaryVars, historyVars, counts
<1>1. CASE Provision
  BY <1>1 DEF Provision, PluginCommand, At, HasRecord
<1>2. CASE Remove
  BY <1>2 DEF Remove, PluginCommand, At, HasRecord
<1>3. CASE Prune
  BY <1>3 DEF Prune, PluginCommand, Idle
<1>4. CASE StartUpgrade
  BY <1>4 DEF StartUpgrade
<1>5. CASE FetchBegin
  BY <1>5 DEF FetchBegin
<1>6. CASE FetchEnd
  <2>1. CASE cmd' = [cmd EXCEPT !.pc = "check", !.created = @ \cup {DirTo(cmd.plugin)}]
    BY <1>6, <2>1
  <2>2. CASE cmd' = Ended("aborted")
    BY <1>6, <2>2 DEF Ended
  <2> QED
    BY ONLY <1>6, <2>1, <2>2 DEF FetchEnd, Abort
<1>7. CASE CheckStaged
  <2>1. CASE cmd' = NextFetch
    BY <1>7, <2>1 DEF NextFetch
  <2>2. CASE cmd' = Ended("aborted")
    BY <1>7, <2>2 DEF Ended
  <2>3. CASE cmd' = [NextFetch EXCEPT !.moves = {m \in @ : m[2] # cmd.plugin},
                                       !.created = @ \ {DirTo(cmd.plugin)}]
    BY <1>7, <2>3 DEF NextFetch
  <2> QED
    BY ONLY <1>7, <2>1, <2>2, <2>3 DEF CheckStaged, Abort
<1>8. CASE Copy
  BY <1>8 DEF Copy, Abort, Ended
<1>9. CASE KeepBinary
  <2>1. CASE cmd' = [cmd EXCEPT !.pc = "keepLock", !.files = MovedLayers]
    BY <1>9, <2>1
  <2>2. CASE cmd' = Ended("aborted")
    BY <1>9, <2>2 DEF Ended
  <2> QED
    BY ONLY <1>9, <2>1, <2>2 DEF KeepBinary, Abort
<1>10. CASE KeepLock
  BY <1>10 DEF KeepLock, Abort, Ended, At
<1>11. CASE DropOld
  BY <1>11 DEF DropOld
<1>12. CASE WriteRecord
  <2>1. CASE cmd' = [cmd EXCEPT !.pc = "swap"]
    BY <1>12, <2>1
  <2>2. CASE cmd' = Ended("aborted")
    BY <1>12, <2>2 DEF Ended
  <2> QED
    BY ONLY <1>12, <2>1, <2>2 DEF WriteRecord, Abort
<1>13. CASE Swap
  <2>1. CASE cmd' = [cmd EXCEPT !.pc = "lock", !.todo = cmd.moves]
    BY <1>13, <2>1
  <2>2. CASE cmd' = Ended("halfway")
    BY <1>13, <2>2 DEF Ended
  <2> QED
    BY ONLY <1>13, <2>1, <2>2 DEF Swap, Halfway
<1>14. CASE MoveEntries
  <2>1. CASE \E m \in cmd.todo : /\ cmd' = [cmd EXCEPT !.todo = @ \ {m}]
                           /\ lock' = Upsert(lock, m[1], m[2], AbiOf[cmd.to])
    BY <1>14, <2>1 DEF MoveEntries, At
  <2>2. CASE cmd' = Ended("halfway") /\ UNCHANGED lock
    BY <1>14, <2>2 DEF Ended
  <2>3. CASE cmd' = [cmd EXCEPT !.pc = "receipt"] /\ UNCHANGED lock
    BY <1>14, <2>3
  <2> QED
    BY ONLY <1>14, <2>1, <2>2, <2>3 DEF MoveEntries, Halfway
<1>15. CASE WriteReceipt
  BY <1>15 DEF WriteReceipt, Halfway, Ended
<1>16. CASE StartRollback
  BY <1>16 DEF StartRollback, At, HasRecord
<1>17. CASE RestoreLock
  <2>1. CASE cmd' = Ended("unfinished") /\ UNCHANGED <<lock, backup>>
    BY <1>17, <2>1 DEF Ended
  <2>2. CASE ~(cmd' = Ended("unfinished") /\ UNCHANGED <<lock, backup>>)
    <3>1. PICK l \in cmd.files :
            /\ lock' = IF backup[l] = NoFile THEN lock ELSE [lock EXCEPT ![l] = backup[l]]
            /\ backup' = [backup EXCEPT ![l] = NoFile]
            /\ cmd' = [cmd EXCEPT !.files = @ \ {l}]
      BY ONLY <1>17, <2>2 DEF RestoreLock, Unfinished
    <3>2. UNCHANGED <<managed, kept, record, saved, settled, touched>> /\ At("unlock")
      BY <1>17 DEF RestoreLock
    <3>3. cmd'.pc = "unlock" /\ cmd'.files = cmd.files \ {l}
      BY <3>1, <3>2 DEF At
    <3> QED
      BY <3>1, <3>2, <3>3 DEF At, HasRecord
  <2> QED
    BY ONLY <1>17, <2>1, <2>2 DEF RestoreLock, Unfinished
<1>18. CASE RestoreReceipt
  BY <1>18 DEF RestoreReceipt, Unfinished, Ended, At, HasRecord
<1>19. CASE Forget
  BY <1>19 DEF Forget, Ended
<1>20. CASE Crash
  BY <1>20 DEF Crash, Ended
<1>21. CASE UNCHANGED upgradeVars
  BY <1>21 DEF upgradeVars, At, HasRecord
<1> QED
  BY <1>1, <1>2, <1>3, <1>4, <1>5, <1>6, <1>7, <1>8, <1>9, <1>10, <1>11, <1>12, <1>13, <1>14,
     <1>15, <1>16, <1>17, <1>18, <1>19, <1>20, <1>21 DEF UpgradeNext, PluginStep, BeforeSwitch, Switch,
     Rollback

\* What a completed backup holds stays available or restored.
LEMMA SavedStep ==
  ASSUME UpgradeTypeOK, KeepInv, SwitchInv, RollbackInv, SavedInv, [UpgradeNext]_upgradeVars
  PROVE  SavedInv'
<1> USE StoreAssumption, UpgradeAssumption DEF Commands, Fetching, KeepInv, RollbackInv,
        RollingBack, SavedInv, StoreTypeOK, SwitchInv, Switching, UpgradeTypeOK, store,
        binaryVars, historyVars, counts
<1>1. CASE Provision
  BY <1>1 DEF Provision, PluginCommand, Upsert, Undone, HasRecord
<1>2. CASE Remove
  BY <1>2 DEF Remove, PluginCommand, Upsert, Undone, HasRecord
<1>3. CASE Prune
  BY <1>3 DEF Prune, PluginCommand, HasRecord
<1>4. CASE StartUpgrade
  BY <1>4 DEF StartUpgrade, HasRecord
<1>5. CASE FetchBegin
  BY <1>5 DEF FetchBegin, Quiet, HasRecord
<1>6. CASE FetchEnd
  <2>1. CASE cmd' = [cmd EXCEPT !.pc = "check", !.created = @ \cup {DirTo(cmd.plugin)}]
    BY <1>6, <2>1 DEF FetchEnd, Quiet, HasRecord
  <2>2. CASE cmd' = Ended("aborted")
    BY <1>6, <2>2 DEF FetchEnd, Quiet, HasRecord
  <2> QED
    BY ONLY <1>6, <2>1, <2>2 DEF FetchEnd, Abort
<1>7. CASE CheckStaged
  <2>1. CASE cmd' = NextFetch
    BY <1>7, <2>1 DEF CheckStaged, Quiet, HasRecord
  <2>2. CASE cmd' = Ended("aborted")
    BY <1>7, <2>2 DEF CheckStaged, Quiet, HasRecord
  <2>3. CASE cmd' = [NextFetch EXCEPT !.moves = {m \in @ : m[2] # cmd.plugin},
                                       !.created = @ \ {DirTo(cmd.plugin)}]
    BY <1>7, <2>3 DEF CheckStaged, Quiet, HasRecord
  <2> QED
    BY ONLY <1>7, <2>1, <2>2, <2>3 DEF CheckStaged, Abort
<1>8. CASE Copy
  BY <1>8 DEF Copy, Quiet, HasRecord
<1>9. CASE KeepBinary
  <2>1. CASE cmd' = [cmd EXCEPT !.pc = "keepLock", !.files = MovedLayers]
    BY <1>9, <2>1 DEF KeepBinary, HasRecord
  <2>2. CASE cmd' = Ended("aborted")
    BY <1>9, <2>2 DEF KeepBinary, HasRecord
  <2> QED
    BY ONLY <1>9, <2>1, <2>2 DEF KeepBinary, Abort
<1>10. CASE KeepLock
  BY <1>10 DEF KeepLock, At
<1>11. CASE DropOld
  BY <1>11 DEF DropOld, At
<1>12. CASE WriteRecord
  <2>1. CASE cmd' = [cmd EXCEPT !.pc = "swap"]
    <3>1. record' = [from |-> managed, to |-> cmd.to, locks |-> MovedLayers]
          /\ saved' = [binary |-> managed, lock |-> lock]
          /\ settled' = TRUE /\ touched' = {}
          /\ UNCHANGED <<lock, backup, kept>>
      BY <1>12, <2>1 DEF WriteRecord, Abort, Ended
    <3>2. HasRecord'
      BY <3>1 DEF HasRecord, NoRecord, TornRecord
    <3>3. cmd'.pc = "swap" /\ cmd'.moves = cmd.moves /\ MovedLayers' = MovedLayers /\ cmd'.todo = cmd.todo
      BY <2>1 DEF MovedLayers
    <3>4. kept = managed /\ \A l \in MovedLayers : backup[l] = lock[l]
      BY <1>12 DEF WriteRecord, At
    <3>5. record'.locks = MovedLayers /\ saved'.lock = lock /\ saved'.binary = managed
      BY <3>1
    <3> QED
      BY <3>1, <3>2, <3>4, <3>5
  <2>2. CASE cmd' = Ended("aborted")
    BY <1>12, <2>2 DEF WriteRecord, Trouble, Abort, Ended, At, MovedLayers, HasRecord,
       NoRecord, TornRecord
  <2> QED
    BY ONLY <1>12, <2>1, <2>2 DEF WriteRecord, Abort
<1>13. CASE Swap
  <2>1. CASE cmd' = [cmd EXCEPT !.pc = "lock", !.todo = cmd.moves]
    BY <1>13, <2>1 DEF Swap, HasRecord
  <2>2. CASE cmd' = Ended("halfway")
    BY <1>13, <2>2 DEF Swap, HasRecord
  <2> QED
    BY ONLY <1>13, <2>1, <2>2 DEF Swap, Halfway
<1>14. CASE MoveEntries
  <2>1. CASE \E m \in cmd.todo : /\ cmd' = [cmd EXCEPT !.todo = @ \ {m}]
                           /\ lock' = Upsert(lock, m[1], m[2], AbiOf[cmd.to])
    BY <1>14, <2>1 DEF MoveEntries, Upsert, At, MovedLayers
  <2>2. CASE cmd' = Ended("halfway") /\ UNCHANGED lock
    BY <1>14, <2>2 DEF MoveEntries, HasRecord
  <2>3. CASE cmd' = [cmd EXCEPT !.pc = "receipt"] /\ UNCHANGED lock
    BY <1>14, <2>3 DEF MoveEntries, HasRecord
  <2> QED
    BY ONLY <1>14, <2>1, <2>2, <2>3 DEF MoveEntries, Halfway
<1>15. CASE WriteReceipt
  BY <1>15 DEF WriteReceipt, HasRecord
<1>16. CASE StartRollback
  BY <1>16 DEF StartRollback
<1>17. CASE RestoreLock
  <2>1. CASE cmd' = Ended("unfinished") /\ UNCHANGED <<lock, backup>>
    BY <1>17, <2>1 DEF RestoreLock, HasRecord
  <2>2. CASE ~(cmd' = Ended("unfinished") /\ UNCHANGED <<lock, backup>>)
    <3>1. PICK l \in cmd.files :
            /\ lock' = IF backup[l] = NoFile THEN lock ELSE [lock EXCEPT ![l] = backup[l]]
            /\ backup' = [backup EXCEPT ![l] = NoFile]
            /\ cmd' = [cmd EXCEPT !.files = @ \ {l}]
      BY ONLY <1>17, <2>2 DEF RestoreLock, Unfinished
    <3>2. UNCHANGED <<managed, kept, record, saved, settled, touched>> /\ At("unlock")
      BY <1>17 DEF RestoreLock
    <3>3. cmd'.pc = "unlock" /\ cmd'.files = cmd.files \ {l}
      BY <3>1, <3>2 DEF At
    <3>4. l \in Layers /\ NoFile \notin LockFiles
      BY DEF NoFile, LockFiles
    <3>5. ASSUME settled, HasRecord, NEW k \in record.locks \ touched, k \in Layers
          PROVE  backup'[k] = saved.lock[k] \/ (backup'[k] = NoFile /\ lock'[k] = saved.lock[k])
      BY <3>1, <3>4, <3>5
    <3>6. ASSUME settled, HasRecord, NEW k \in Layers \ (record.locks \cup touched)
          PROVE  lock'[k] = saved.lock[k]
      <4>1. k # l
        BY <3>2, <3>6 DEF At
      <4> QED
        BY <3>1, <3>6, <4>1
    <3> QED
      BY <3>2, <3>5, <3>6 DEF HasRecord, Records
  <2> QED
    BY ONLY <1>17, <2>1, <2>2 DEF RestoreLock, Unfinished
<1>18. CASE RestoreReceipt
  BY <1>18 DEF RestoreReceipt, HasRecord
<1>19. CASE Forget
  BY <1>19 DEF Forget, HasRecord
<1>20. CASE Crash
  BY <1>20 DEF Crash, HasRecord
<1>21. CASE UNCHANGED upgradeVars
  BY <1>21 DEF upgradeVars, HasRecord
<1> QED
  BY <1>1, <1>2, <1>3, <1>4, <1>5, <1>6, <1>7, <1>8, <1>9, <1>10, <1>11, <1>12, <1>13, <1>14,
     <1>15, <1>16, <1>17, <1>18, <1>19, <1>20, <1>21 DEF UpgradeNext, PluginStep, BeforeSwitch, Switch,
     Rollback

\* No lock file names what a command fetches.
LEMMA FetchStep ==
  ASSUME UpgradeTypeOK, TargetInv, FetchInv, [UpgradeNext]_upgradeVars
  PROVE  FetchInv'
<1> USE StoreAssumption, UpgradeAssumption DEF UpgradeTypeOK, TargetInv, StoreTypeOK,
        Fetching, Switching, FetchInv, Commands, store, binaryVars, historyVars, counts
<1>1. CASE Provision
  BY <1>1 DEF Provision, PluginCommand, Idle
<1>2. CASE Remove
  BY <1>2 DEF Remove, PluginCommand, Idle
<1>3. CASE Prune
  BY <1>3 DEF Prune, PluginCommand, DirTo
<1>4. CASE StartUpgrade
  <2>1. PICK to \in Releases \ {managed}, force \in BOOLEAN, needs \in SUBSET Plugins :
          LET moves == Moves(Outdated(to) \cup Missing(needs), to)
          IN  /\ Preflight(moves, to)
              /\ cmd' = [Ended("none") EXCEPT !.pc = IF moves = {} THEN "copy" ELSE "fetch",
                                              !.to = to, !.force = force, !.moves = moves,
                                              !.fetches = {m[2] : m \in moves}]
    BY ONLY <1>4 DEF StartUpgrade
  <2> DEFINE moves == Moves(Outdated(to) \cup Missing(needs), to)
             fetches == {m[2] : m \in moves}
  <2>4. \A m \in moves, l \in Layers : lock[l][m[2]] # AbiOf[to]
    BY <2>1 DEF Preflight
  <2>5. cmd' = [Ended("none") EXCEPT !.pc = IF moves = {} THEN "copy" ELSE "fetch",
                                    !.to = to, !.force = force, !.moves = moves,
                                    !.fetches = fetches]
    BY <2>1
  <2>6. \A p \in fetches : \E m \in moves : m[2] = p
    OBVIOUS
  <2> HIDE DEF moves, fetches
  <2>7. /\ cmd'.pc \in {"copy", "fetch"} /\ cmd'.to = to
        /\ cmd'.moves = moves /\ cmd'.fetches = fetches /\ cmd'.created = {}
    BY <2>5 DEF Ended
  <2>8. UNCHANGED lock
    BY <1>4 DEF StartUpgrade
  <2> QED
    BY <2>4, <2>6, <2>7, <2>8
<1>5. CASE FetchBegin
  BY <1>5 DEF FetchBegin, Quiet, DirTo, At
<1>6. CASE FetchEnd
  <2>1. CASE cmd' = [cmd EXCEPT !.pc = "check", !.created = @ \cup {DirTo(cmd.plugin)}]
    BY <1>6, <2>1 DEF FetchEnd, Quiet, DirTo, At
  <2>2. CASE cmd' = Ended("aborted")
    BY <1>6, <2>2 DEF Ended
  <2> QED
    BY ONLY <1>6, <2>1, <2>2 DEF FetchEnd, Abort
<1>7. CASE CheckStaged
  <2>1. CASE cmd' = NextFetch
    BY <1>7, <2>1 DEF CheckStaged, Quiet, DirTo, NextFetch, At
  <2>2. CASE cmd' = Ended("aborted")
    BY <1>7, <2>2 DEF Ended
  <2>3. CASE cmd' = [NextFetch EXCEPT !.moves = {m \in @ : m[2] # cmd.plugin},
                                       !.created = @ \ {DirTo(cmd.plugin)}]
    BY <1>7, <2>3 DEF CheckStaged, Quiet, DirTo, NextFetch, At
  <2> QED
    BY ONLY <1>7, <2>1, <2>2, <2>3 DEF CheckStaged, Abort
<1>8. CASE Copy
  BY <1>8 DEF Copy, Quiet, Abort, Ended, At, DirTo
<1>9. CASE KeepBinary
  <2>1. CASE cmd' = [cmd EXCEPT !.pc = "keepLock", !.files = MovedLayers]
    BY <1>9, <2>1 DEF KeepBinary, At, DirTo
  <2>2. CASE cmd' = Ended("aborted")
    BY <1>9, <2>2 DEF Ended
  <2> QED
    BY ONLY <1>9, <2>1, <2>2 DEF KeepBinary, Abort
<1>10. CASE KeepLock
  BY <1>10 DEF KeepLock, Abort, Ended, DirTo
<1>11. CASE DropOld
  BY <1>11 DEF DropOld, At, DirTo
<1>12. CASE WriteRecord
  BY <1>12 DEF WriteRecord, Abort, Ended
<1>13. CASE Swap
  <2>1. CASE cmd' = [cmd EXCEPT !.pc = "lock", !.todo = cmd.moves]
    BY <1>13, <2>1
  <2>2. CASE cmd' = Ended("halfway")
    BY <1>13, <2>2 DEF Ended
  <2> QED
    BY ONLY <1>13, <2>1, <2>2 DEF Swap, Halfway
<1>14. CASE MoveEntries
  <2>1. CASE \E m \in cmd.todo : /\ cmd' = [cmd EXCEPT !.todo = @ \ {m}]
                           /\ lock' = Upsert(lock, m[1], m[2], AbiOf[cmd.to])
    BY <1>14, <2>1 DEF MoveEntries, At
  <2>2. CASE cmd' = Ended("halfway") /\ UNCHANGED lock
    BY <1>14, <2>2 DEF Ended
  <2>3. CASE cmd' = [cmd EXCEPT !.pc = "receipt"] /\ UNCHANGED lock
    BY <1>14, <2>3
  <2> QED
    BY ONLY <1>14, <2>1, <2>2, <2>3 DEF MoveEntries, Halfway
<1>15. CASE WriteReceipt
  BY <1>15 DEF WriteReceipt, Halfway, Ended
<1>16. CASE StartRollback
  BY <1>16 DEF StartRollback
<1>17. CASE RestoreLock
  BY <1>17 DEF RestoreLock, Unfinished, Ended, At
<1>18. CASE RestoreReceipt
  BY <1>18 DEF RestoreReceipt, Unfinished, Ended
<1>19. CASE Forget
  BY <1>19 DEF Forget, Ended
<1>20. CASE Crash
  BY <1>20 DEF Crash, Ended
<1>21. CASE UNCHANGED upgradeVars
  BY <1>21 DEF upgradeVars, DirTo
<1> QED
  BY <1>1, <1>2, <1>3, <1>4, <1>5, <1>6, <1>7, <1>8, <1>9, <1>10, <1>11, <1>12, <1>13, <1>14,
     <1>15, <1>16, <1>17, <1>18, <1>19, <1>20, <1>21 DEF UpgradeNext, PluginStep, BeforeSwitch, Switch,
     Rollback

\* Nothing changes a lock file between the plan and the switch, and the switch
\* takes an entry off its list when it has moved it.
LEMMA MovesStep ==
  ASSUME UpgradeTypeOK, TargetInv, MovesInv, [UpgradeNext]_upgradeVars
  PROVE  MovesInv'
<1> USE StoreAssumption, UpgradeAssumption DEF UpgradeTypeOK, TargetInv, StoreTypeOK, Fetching, Switching,
        MovesInv, Commands, store, binaryVars, historyVars, counts
<1>1. CASE PluginStep
  <2>1. cmd.pc = "idle" /\ UNCHANGED cmd
    BY <1>1 DEF PluginStep, Provision, Remove, Prune, PluginCommand, Idle
  <2> QED
    BY ONLY <2>1 DEF MovesInv, Fetching
<1>2. CASE StartUpgrade
  <2>1. PICK to \in Releases \ {managed}, force \in BOOLEAN, needs \in SUBSET Plugins :
          LET wanted == Outdated(to) \cup Missing(needs)
              moves == Moves(wanted, to)
          IN  /\ moves = wanted \/ force
              /\ cmd' = [Ended("none") EXCEPT !.pc = IF moves = {} THEN "copy" ELSE "fetch",
                                              !.to = to, !.force = force, !.moves = moves,
                                              !.fetches = {m[2] : m \in moves}]
    BY ONLY <1>2 DEF StartUpgrade
  <2> DEFINE wanted == Outdated(to) \cup Missing(needs)
             moves == Moves(wanted, to)
             fetches == {m[2] : m \in moves}
  <2>2. Outdated(to) \subseteq wanted /\ (moves = wanted \/ force)
    BY <2>1
  <2>3. cmd' = [Ended("none") EXCEPT !.pc = IF moves = {} THEN "copy" ELSE "fetch",
                                    !.to = to, !.force = force, !.moves = moves, !.fetches = fetches]
    BY <2>1
  <2> HIDE DEF wanted, moves, fetches
  <2>4. cmd'.pc \in {"copy", "fetch"} /\ cmd'.to = to /\ cmd'.force = force /\ cmd'.moves = moves
    BY <2>3 DEF Ended
  <2>5. UNCHANGED <<lock, managed>>
    BY <1>2 DEF StartUpgrade
  <2>6. ASSUME ~force, AbiOf[to] # AbiOf[managed], NEW l \in Layers, NEW p \in Plugins
        PROVE  lock[l][p] \in {0, AbiOf[to]} \/ <<l, p>> \in moves
    BY <2>2, <2>6 DEF Outdated
  <2> QED
    BY ONLY <2>4, <2>5, <2>6 DEF MovesInv
<1>3. CASE cmd'.pc \in {"idle", "unlock", "forget"}
  BY ONLY <1>3 DEF MovesInv, Fetching
<1>4. CASE FetchBegin
  BY <1>4 DEF FetchBegin, Quiet, At
<1>5. CASE FetchEnd /\ cmd'.pc # "idle"
  <2>1. cmd' # Ended("aborted")
    BY ONLY <1>5 DEF Ended
  <2>2. cmd.pc = "extract" /\ UNCHANGED <<lock, managed>>
        /\ cmd' = [cmd EXCEPT !.pc = "check", !.created = @ \cup {DirTo(cmd.plugin)}]
    BY ONLY <1>5, <2>1 DEF FetchEnd, Abort, Quiet, At, binaryVars
  <2> QED
    BY <2>2
<1>6. CASE CheckStaged /\ cmd'.pc # "idle"
  <2>1. cmd.pc = "check" /\ UNCHANGED <<lock, managed>>
        /\ \/ cmd' = NextFetch
           \/ cmd.force /\ cmd' = [NextFetch EXCEPT !.moves = {m \in @ : m[2] # cmd.plugin},
                                                    !.created = @ \ {DirTo(cmd.plugin)}]
    BY ONLY <1>6 DEF CheckStaged, Abort, Ended, Quiet, At, binaryVars
  <2>2. cmd'.pc \in {"fetch", "copy"} /\ cmd'.to = cmd.to /\ cmd'.force = cmd.force
        /\ (~cmd.force => cmd'.moves = cmd.moves)
    BY ONLY <2>1, cmd \in Commands DEF NextFetch, Commands
  <2> QED
    BY <2>1, <2>2
<1>7. CASE (Copy \/ KeepBinary \/ KeepLock) /\ cmd'.pc # "idle"
  <2>1. cmd.pc \in {"copy", "keep", "keepLock"} /\ UNCHANGED <<lock, managed>>
        /\ \/ cmd' = [cmd EXCEPT !.pc = "keep"]
           \/ cmd' = [cmd EXCEPT !.pc = "keepLock", !.files = MovedLayers]
           \/ cmd.pc = "keepLock" /\ \E l \in cmd.files : cmd' = [cmd EXCEPT !.files = @ \ {l}]
    BY ONLY <1>7 DEF Copy, KeepBinary, KeepLock, Abort, Ended, Quiet, At, binaryVars
  <2>2. cmd'.pc \in {"keep", "keepLock"} /\ cmd'.to = cmd.to /\ cmd'.force = cmd.force
        /\ cmd'.moves = cmd.moves
    BY ONLY <2>1, cmd \in Commands DEF Commands
  <2> QED
    BY <2>1, <2>2
<1>8. CASE DropOld
  BY <1>8 DEF DropOld, At
<1>9. CASE WriteRecord /\ cmd'.pc # "idle"
  <2>1. /\ cmd.pc = "record" /\ cmd' = [cmd EXCEPT !.pc = "swap"]
        /\ record'.from = managed /\ UNCHANGED <<lock, managed>>
    BY ONLY <1>9 DEF WriteRecord, Abort, Ended, At
  <2> QED
    BY <2>1
<1>10. CASE Swap /\ cmd'.pc # "idle"
  <2>1. /\ cmd.pc = "swap" /\ cmd' = [cmd EXCEPT !.pc = "lock", !.todo = cmd.moves]
        /\ managed' = cmd.to /\ UNCHANGED <<lock, record>>
    BY ONLY <1>10 DEF Swap, Halfway, Ended, At, store
  <2> QED
    BY <2>1
<1>11. CASE MoveEntries /\ cmd'.pc # "idle"
  <2>0. cmd.pc = "lock" /\ managed = cmd.to /\ UNCHANGED <<managed, record>>
    BY <1>11 DEF MoveEntries, At
  <2>1. ASSUME NEW m \in cmd.todo, lock' = Upsert(lock, m[1], m[2], AbiOf[cmd.to]),
               cmd' = [cmd EXCEPT !.todo = @ \ {m}]
        PROVE  MovesInv'
    <3>1. m \in Layers \X Plugins
      BY <2>1
    <3>2. \A l \in Layers, p \in Plugins :
            lock'[l][p] = IF m = <<l, p>> THEN AbiOf[cmd.to] ELSE lock[l][p]
      BY <2>1, <3>1 DEF Upsert, LockFiles
    <3> QED
      BY <2>0, <2>1, <3>2
  <2>2. CASE cmd.todo = {} /\ cmd' = [cmd EXCEPT !.pc = "receipt"] /\ UNCHANGED lock
    BY <2>0, <2>2
  <2> QED
    BY ONLY <1>11, <2>1, <2>2 DEF MoveEntries, Halfway, Ended
<1>12. CASE WriteReceipt \/ StartRollback \/ RestoreLock \/ RestoreReceipt \/ Forget \/ Crash
  <2>1. cmd'.pc \in {"idle", "unlock", "forget"}
    <3>1. CASE WriteReceipt \/ Forget \/ Crash \/ StartRollback
      <4>1. \/ \E how : cmd' = Ended(how)
            \/ cmd' = [Ended("none") EXCEPT !.pc = "unlock", !.files = record.locks]
        BY ONLY <3>1 DEF WriteReceipt, Forget, Crash, StartRollback, Halfway
      <4>2. \A how : Ended(how).pc = "idle"
        BY ONLY TRUE DEF Ended
      <4>3. CASE cmd' = [Ended("none") EXCEPT !.pc = "unlock", !.files = record.locks]
        BY ONLY <4>3 DEF Ended
      <4> QED
        BY ONLY <4>1, <4>2, <4>3
    <3>2. CASE RestoreLock \/ RestoreReceipt
      <4>1. CASE cmd' = Ended("unfinished")
        BY ONLY <4>1 DEF Ended
      <4>2. CASE cmd.pc = "unlock" /\ \E l \in cmd.files : cmd' = [cmd EXCEPT !.files = @ \ {l}]
        BY ONLY <4>2, cmd \in Commands DEF Commands
      <4>3. CASE cmd' = [cmd EXCEPT !.pc = "forget"]
        BY ONLY <4>3, cmd \in Commands DEF Commands
      <4> QED
        BY ONLY <3>2, <4>1, <4>2, <4>3 DEF RestoreLock, RestoreReceipt, Unfinished, At
    <3> QED
      BY ONLY <1>12, <3>1, <3>2
  <2> QED
    BY <1>3, <2>1
<1>13. CASE UNCHANGED upgradeVars
  BY ONLY <1>13, MovesInv DEF upgradeVars, MovesInv, store, binaryVars, historyVars, counts
<1> QED
  BY ONLY [UpgradeNext]_upgradeVars, <1>1, <1>2, <1>3, <1>4, <1>5, <1>6, <1>7, <1>8, <1>9, <1>10, <1>11,
     <1>12, <1>13 DEF UpgradeNext, BeforeSwitch, Switch, Rollback

-----------------------------------------------------------------------------
UpgradeInv == UpgradeTypeOK /\ TargetInv /\ BackupInv /\ FetchInv /\ MovesInv

LEMMA InvInit == UpgradeInit => UpgradeInv
<1> SUFFICES ASSUME UpgradeInit PROVE UpgradeInv
  OBVIOUS
<1> USE StoreAssumption, UpgradeAssumption DEF UpgradeInit
<1>1. AbiOf[1] \in Abis
  OBVIOUS
<1>2. StoreTypeOK
  BY <1>1 DEF StoreTypeOK, Dirs, LockFiles
<1>3. cmd \in Commands /\ cmd.pc = "idle"
  BY DEF Ended, Commands, Pcs, Outcomes, NoPlugin
<1>4. saved \in [binary : Releases \cup {0}, lock : [Layers -> LockFiles]]
  BY <1>2 DEF StoreTypeOK
<1>5. UpgradeTypeOK
  BY <1>2, <1>3, <1>4 DEF UpgradeTypeOK
<1> QED
  BY <1>3, <1>5 DEF UpgradeInv, TargetInv, BackupInv, KeepInv, SwitchInv, RollbackInv,
     SavedInv,
     FetchInv, MovesInv, Fetching, Switching, RollingBack, HasRecord

LEMMA InvStep == UpgradeInv /\ [UpgradeNext]_upgradeVars => UpgradeInv'
  BY TypeStep, KeepStep, SwitchStep, RollbackStep, SavedStep, FetchStep, MovesStep DEF UpgradeInv,
     BackupInv

LEMMA UpgradeInvariant == UpgradeSpec => []UpgradeInv
<1>1. UpgradeInit => UpgradeInv
  BY InvInit
<1>2. UpgradeInv /\ [UpgradeNext]_upgradeVars => UpgradeInv'
  BY InvStep
<1> QED
  BY <1>1, <1>2, PTL DEF UpgradeSpec

\* The variables of an upgrade keep their types: above all, the receipt is a
\* release or torn, and a lock file comes back from its backup as a lock file.
THEOREM UpgradeTypeCorrect == UpgradeSpec => []UpgradeTypeOK
<1>1. UpgradeInv => UpgradeTypeOK
  BY DEF UpgradeInv
<1> QED
  BY <1>1, UpgradeInvariant, PTL

\* Whatever crashed or failed, while the record of a completed backup stands
\* each layer it names is backed up as it was or restored already.
THEOREM RetryAlwaysPossible == UpgradeSpec => []RetryCanFinish
<1>1. UpgradeInv => RetryCanFinish
  BY DEF UpgradeInv, BackupInv, SavedInv, RetryCanFinish
<1> QED
  BY <1>1, UpgradeInvariant, PTL

\* A rollback of a completed backup that returns Ok has restored the binary and
\* every lock file, however often it was interrupted on the way.
THEOREM RollbackIsExact == UpgradeSpec => RollbackRestores
<1>1. ASSUME UpgradeInv, Forget, settled, HasRecord
      PROVE  RestoredAsSaved'
  <2> USE <1>1 DEF UpgradeInv, BackupInv, RollbackInv, SavedInv, UpgradeTypeOK, StoreTypeOK
  <2>1. cmd.pc = "forget"
    BY DEF Forget, At
  <2>2. managed = saved.binary
    BY <2>1 DEF RollingBack
  <2>3. \A l \in record.locks : backup[l] = NoFile
    BY <2>1 DEF RollingBack, At
  <2>4. NoFile \notin LockFiles
    BY StoreAssumption DEF NoFile, LockFiles
  <2>5. ASSUME NEW l \in Layers \ touched
        PROVE  lock[l] = saved.lock[l]
    <3>1. saved.lock[l] \in LockFiles
      OBVIOUS
    <3> QED
      BY <2>3, <2>4, <2>5, <3>1
  <2>6. UNCHANGED <<managed, lock, saved, touched>>
    BY DEF Forget, store, historyVars
  <2> QED
    BY <2>2, <2>5, <2>6 DEF RestoredAsSaved
<1>2. UpgradeInv => [Forget /\ settled /\ HasRecord => RestoredAsSaved']_upgradeVars
  BY <1>1
<1> QED
  BY <1>2, UpgradeInvariant, PTL DEF RollbackRestores

\* No command deletes a version directory that a lock file names.
THEOREM LivePluginsKept == UpgradeSpec => LivePluginsStay
<1> DEFINE Stays == \A l \in Layers, p \in Plugins :
             lock[l][p] # 0 /\ lock'[l][p] = lock[l][p] /\ <<p, lock[l][p]>> \in disk
               => <<p, lock[l][p]>> \in disk'
<1>1. ASSUME UpgradeInv, UpgradeNext, NEW l \in Layers, NEW p \in Plugins,
             lock[l][p] # 0, lock'[l][p] = lock[l][p], <<p, lock[l][p]>> \in disk
      PROVE  <<p, lock[l][p]>> \in disk'
  <2> USE <1>1 DEF UpgradeInv, UpgradeTypeOK, StoreTypeOK
  <2>1. lock' \in [Layers -> LockFiles]
    BY TypeStep
  <2>2. \A backups : \A locks \in [Layers -> LockFiles] :
          locks[l][p] = lock[l][p] => <<p, lock[l][p]>> \in Referenced(locks, backups)
    BY DEF Referenced, Named, LockFiles
  <2>3. CASE PluginStep
    BY <2>1, <2>2, <2>3 DEF PluginStep, Provision, Remove, Prune, RemoveUnreferenced
  <2>4. CASE UNCHANGED disk
    BY <2>4
  <2>5. CASE FetchBegin \/ FetchEnd \/ CheckStaged \/ Copy \/ KeepBinary \/ KeepLock \/ WriteRecord
    <3>1. cmd.pc \in Fetching
      BY <2>5 DEF FetchBegin, FetchEnd, CheckStaged, Copy, KeepBinary, KeepLock, WriteRecord,
         At, Fetching
    <3>2. \A m \in cmd.moves : DirTo(m[2]) # <<p, lock[l][p]>>
      <4>1. \A m \in cmd.moves : lock[l][m[2]] # AbiOf[cmd.to]
        BY <3>1 DEF FetchInv
      <4> QED
        BY <4>1 DEF DirTo
    <3>3. <<p, lock[l][p]>> \notin cmd.created
      BY <3>1, <3>2 DEF FetchInv
    <3>4. CASE FetchBegin
      <4>1. \A q \in cmd.fetches : DirTo(q) # <<p, lock[l][p]>>
        BY <3>1, <3>2 DEF FetchInv
      <4> QED
        BY <3>4, <4>1 DEF FetchBegin
    <3>5. CASE CheckStaged
      <4>1. DirTo(cmd.plugin) # <<p, lock[l][p]>>
        BY <3>1, <3>2, <3>5 DEF FetchInv, CheckStaged, At
      <4> QED
        BY <3>3, <3>5, <4>1 DEF CheckStaged, Abort
    <3>6. CASE FetchEnd \/ Copy \/ KeepBinary \/ KeepLock \/ WriteRecord
      BY <3>3, <3>6 DEF FetchEnd, Copy, KeepBinary, KeepLock, WriteRecord, Abort
    <3> QED
      BY <2>5, <3>4, <3>5, <3>6
  <2> QED
    BY <2>3, <2>4, <2>5 DEF UpgradeNext, BeforeSwitch, Switch, Rollback, StartUpgrade, DropOld, Swap,
       MoveEntries, WriteReceipt, StartRollback, RestoreLock, RestoreReceipt, Forget, Crash, store
<1>2. UpgradeInv /\ [UpgradeNext]_upgradeVars => [Stays]_upgradeVars
  BY <1>1
<1> QED
  BY <1>2, UpgradeInvariant, PTL DEF UpgradeSpec, LivePluginsStay

\* plugin install, update, remove and prune leave every release a rollback
\* would bring back.
THEOREM BackupsKeptByPluginCommands == UpgradeSpec => PluginCommandsKeepBackups
<1>1. ASSUME PluginStep, NEW l \in Layers, NEW d \in Named(backup[l]), d \in disk
      PROVE  d \in disk'
  <2>1. \A locks : d \in Referenced(locks, backup)
    BY <1>1 DEF Referenced
  <2> QED
    BY <1>1, <2>1 DEF PluginStep, Provision, Remove, Prune, RemoveUnreferenced
<1>2. [PluginStep => \A l \in Layers : Named(backup[l]) \cap disk \subseteq disk']_upgradeVars
  BY <1>1
<1> QED
  BY <1>2, PTL DEF PluginCommandsKeepBackups

\* Whatever a lock file or, for the plugin commands, a backup names is left
\* where it is.
THEOREM NeededReleasesKept == UpgradeSpec => NeededReleasesStay
  BY LivePluginsKept, BackupsKeptByPluginCommands DEF NeededReleasesStay

\* An upgrade to another ABI that returns Ok without --force has moved every
\* entry of every lock file, whatever was installed and whoever needs it.
THEOREM UpgradeMovesEveryEntry == UpgradeSpec => UpgradeMovesAll
<1>1. ASSUME UpgradeInv, WriteReceipt, cmd'.outcome = "upgraded", ~cmd.force,
             AbiOf[record.from] # AbiOf[cmd.to], NEW l \in Layers, NEW p \in Plugins
      PROVE  lock[l][p] \in {0, AbiOf[managed]}
  <2>1. cmd.pc = "receipt"
    BY <1>1 DEF WriteReceipt, At
  <2> QED
    BY <1>1, <2>1 DEF UpgradeInv, MovesInv
<1>2. UpgradeInv => [WriteReceipt /\ cmd'.outcome = "upgraded" /\ ~cmd.force /\ HasRecord
                       /\ AbiOf[record.from] # AbiOf[cmd.to]
                     => \A l \in Layers, p \in Plugins : lock[l][p] \in {0, AbiOf[managed]}]_upgradeVars
  BY <1>1
<1> QED
  BY <1>2, UpgradeInvariant, PTL DEF UpgradeMovesAll
=============================================================================
