# A verification development for bddkit

bddkit runs Gherkin feature files against HTTP APIs, databases and plugins.  This
directory models the parts of it that are hard to test, checks the models with TLC
on small instances and proves about most of them, with TLAPS, what holds for every
instance.  Every definition is a translation of the Rust source under `src/`;
`PROJECT.json` names the lines each one stands for.

Operators called `Slip...`, or with a name that says what goes wrong (`ClaimStale`,
`JudgeForgivesPanic`, `RestoreForgiving`), are mutations: a plausible mistake in the
operator below them, kept to show that a property would catch it.  No specification
uses them.

    tlc -workers 2 -config MCScheduling.cfg MCScheduling.tla     # one run
    tlapm RunProofs.tla                                          # one proof module

## 1. The system

| component | its state | its operations | who shares it |
|---|---|---|---|
| scheduling (`feature.rs`, `runner.rs`, `main.rs`) | the queue of chains, an atomic cursor, a relaxed stop flag, the results under a mutex | discover, build_chains, claim, run a file, push a result, --fail-fast, force_stop | N worker tasks, the interrupt handler |
| step execution (`runner.rs`, `vars.rs`, `include.rs`, `macros.rs`) | one VarStack per file, one failure per scenario | run_file, execute_step, run_step, run_include, push/pop of frames | nobody: one file, one World; calls nest |
| polled assertions (`polling.rs`, `options.rs`, `world.rs`, `http.rs`) | the armed modifier, the builder, the last exchange and its recipe, a deadline | arm, take, send, replay_last, after_not_yet, reset_scenario | one file; time passes |
| plugin instances (`plugin/mod.rs`, `plugin/library.rs`) | the map of shared handles, the registry of live handles, each file's own handles | create, register, call, reset, drop, shutdown | files on blocking threads, the main task, the interrupt handler |
| event stream (`events.rs`) | an unbounded channel, the writer's batch and tally, its JoinHandle under a mutex | emit, write_loop, finish | every file, the writer thread, two callers of finish |
| per-file trace and evidence (`events.rs`, `artifacts.rs`) | the stack of open steps, the file's secrets, held text up to a cap; the artifact root | step_started ... scenario_finished, record, text, mark, register | one file; the artifact counter and the stream are shared |
| reports (`report/model.rs`, `report/mod.rs`) | the tree a stream folds into; a FileResult per file | Builder's events, nest; file_result | a reader of the stream; the main task |
| feature validation (`validate.rs`, `steps/mod.rs`, `include.rs`) | the catalog of macros, the stack of open includes, the problems found | validate_macros, check, and the walk of a run | main, doctor |
| configuration and settings (`config.rs`, `settings.rs`, `options.rs`) | layers of one value: flag, variable, key, default | load, resolve, apply | run, doctor |
| start of a run, doctor (`main.rs`, `doctor.rs`) | the stage reached, what stands in the output files, rows | prepare, open, the stages of run; the checks of doctor | the user's shell, signals |
| telemetry (`telemetry.rs`, `telemetry/end.rs`) | who has decided, the settled exit code | decide, ask, send under a bound | signals |
| plugin provisioning (`plugin/manage.rs`, `lock.rs`, `install.rs`) | lock files, version directories | install, update, remove, prune | processes over one data directory |
| upgrade and rollback (`upgrade.rs`) | the binary, `install.json`, `pending.json`, `.before-upgrade` copies | plan, preflight, fetch, backup, switch, rollback, Cleanup | all of the above, crashes |
| database steps (`db/*.rs`, `steps/db.rs`) | the servers' rows; the pools and the cache of schemas; a file's current connection and variables | use, resolve, introspect, insert, update, delete, read, poll | every file; the servers |
| feature files (`feature.rs`, `annotate.rs`) | functions of a file's lines | tags and their filter, outline rows, descriptions, comments, disabled steps | sequential |
| step matching (`steps/expression.rs`, `steps/mod.rs`) | functions of the declarations | one parse to a regex and to token streams, ambiguity, find, display | sequential |
| masking (`privacy.rs`) | a set of values per file | what is secret in a document, the forms it is registered in, the replacement | every text that leaves a file |
| rendering, init, SRP | - | layout and wording; arithmetic; questions | sequential |

How they meet: `run` passes its stages in order - output files, settings, plugins, step
registry, features, validation, resources - and is refused at the first that fails, while
`doctor` goes on and lists them all.  `run_suite` builds the queue and starts the pool; each worker runs a
file in a task of its own, so that a panic becomes a result; a file calls plugin
instances and emits events; `--fail-fast`, an interrupt and a panic meet in the stop
flag; the end of the pool and a signal race for `claim_end`, and the winner sweeps the
plugins, writes the last line of the stream and decides the exit code, which telemetry
may delay and not change.  Afterwards, `bddkit report` folds the stream into a page.
`upgrade` and the plugin commands share lock files and version directories.

What makes each correct, beyond its types:

- scheduling: a file is started once, files of one `@serial` name never overlap, the
  order of priorities holds in time, no result is lost, and a failure seen is a stop;
- steps: a call leaves its caller's variables as they were but for what it exports,
  on every path; a failure at any depth is the scenario's;
- polling: the assertion that is polled is the one the modifier was meant for, it
  judges an answer to the right request, uses its whole window, and ends;
- instances: dropped once, none called after, none left; a reset reaches what the file
  used and nothing another file is using;
- stream: a reader sees a prefix of what was emitted; `finish` does not return early;
- end: one ending, one sweep, a last line and an exit code that tell the truth;
- trace: what the stream says and what the result says is the same run; a text that is
  held stays in memory unless its scenario failed, and a reference follows its file;
- validation: what is refused before the first request is what could not run;
- matching: a text has one meaning in a registry that was built, and what a report shows
  of a step hides its secrets;
- masking: no secret is left whole, and nothing else is touched;
- feature files: a row runs exactly when its tags say so, and a comment has one owner;
- database steps: a statement goes to the table it means and does what it says, and the
  variables name the rows it made;
- start: `doctor` and `run` agree; a refused run leaves no older run's report; nobody is
  counted who has not agreed;
- provisioning: an entry names a library that loads, and a failed command leaves what it
  found, but for a remove that fails behind its lock file, which has unregistered and no more;
- upgrade: a rollback restores what the backup saved, after any interruption, and no
  version in use is deleted.

The behaviours a test hardly reaches are listed line by line under `hazards` in
`PROJECT.json`, each with the properties that answer it.

## 2. The modules

| module | models | run |
|---|---|---|
| `Chains` | discover, serial_of, priority_of, build_chains as operators | scheduling |
| `WorkerPool` | run_all, stopped, force_stop, panicked_file; one action per step of the worker loop | scheduling |
| `Scheduler` | abstract: slots start and finish files, in chain order | scheduling |
| `Scheduling` | composes Chains and WorkerPool over all taggings, as run_suite does | scheduling |
| `EventStream` | Events, write_loop, Tally, finish | event_stream |
| `EventLog` | abstract: an append-only log whose visible part grows by prefixes until its terminator | event_stream |
| `RunEnd` | extends EventStream by run_suite's tail and handle_interrupt | run_end |
| `PluginInstances` | Plugins, PluginState, the parts of run_file and main that use them | plugin_instances |
| `PluginStore` | lock files, version directories, what keeps one alive | upgrade |
| `Upgrade` | composes PluginStore with upgrade.rs, one action per file operation | upgrade, backups_deleted |
| `Shelf` | abstract: libraries that are there, and the entries and backups that name them | provisioning |
| `Provisioning` | install, update, remove, prune: one action per file operation | provisioning |
| `VarStack` | vars.rs as operators; exports and prefixes | steps |
| `Scopes` | abstract: one scope per call, nothing is pushed or swapped | steps |
| `Steps` | run_file's scenario, execute_step, macros, includes over one VarStack | steps |
| `Polling` | HttpState, the armed modifier, both polling loops of run_step | polling |
| `Report` | Builder and nest of report/model.rs as operators on the tree | trace |
| `Trace` | composes Trace, Artifacts and run_file's FileResult with Report | trace |
| `Settings` | how one value is chosen among layers, as operators | startup |
| `Startup` | the stages of run, doctor's checks, telemetry::end; extends Settings | startup |
| `Validation` | validate_macros, check, and the walk of a run over one graph of steps | rules |
| `Matching` | declarations, their regexes and token streams, the registry's find, display_text | rules |
| `Masking` | what is secret in JSON, forms, queries and configs; register, mask | rules |
| `FeatureFile` | TagFilter, effective tags, expand_outlines, descriptions, comments line by line | rules |
| `Tables` | one-line lists and tables to pairs, pairs to statements, answers to variables | rules |
| `Database` | connections, the schema cache, statements of concurrent files, lost connections | rules |
| `Rules` | composes Validation and Database with one answer a case of the four above | rules |
| `RunProofs` | theorems about Scheduling, Chains and WorkerPool, and about RunEnd with its EventStream | - |
| `ValidationProofs` | theorem about Validation, and the lemmas on recursive functions that RulesProofs takes too | - |
| `RulesProofs` | theorems about Rules and through it about Matching, FeatureFile and Tables | - |
| `TraceProofs` | theorems about Trace, and through it about Report | - |
| `WorldProofs` | theorems about Steps, Database and Masking: what the World of a file keeps, and shows | - |
| `CommandProofs` | theorems about Startup, about Polling and about Upgrade, side by side | - |
| `PluginInstancesProofs`, `ProvisioningProofs` | theorems about the module each is named for | - |

`MC*.tla` give the constants; the `.cfg` of the same name, or one that names a question,
binds them.

How state corresponds to code, where it is not by name:

- **WorkerPool.** `pc[w]` is the place in the worker's loop.  The stop flag is
  `Relaxed`: `stop` is what was stored, `seen` what a worker is certain to read because
  it was ordered before it by the results mutex (`lockSeen`); a load outside of it may
  return either value.  A file is a start and a finish, with one of three verdicts.
- **EventStream.** An event is its emitter, its number, its kind and its stamp.  The
  byte limit of a batch is a number of events.  A refused write may leave a part of the
  batch written.
- **RunEnd.** A `tokio::select!` is a choice among its ready arms; a signal is
  delivered to the registrations that exist, and one kind is held once.
- **PluginInstances.** An FFI call is a start and a return.  The locks on `shared` and
  on `registry` are held for one step, as in the code.  Which of two handles is newer
  is not observable, so the plugin returns the least unused one.
- **Upgrade.** A release is a number, a lock file a function from plugin to ABI, a
  backup such a file or none.  A crash may fall between any two steps; a write that is
  not atomic (`install.json`, `pending.json`) may be torn by it.
- **Steps.** Recursion through execute_step is the sequence `calls`; the step that runs
  next is any step a suite could have there, so no suite is fixed.  Text is a literal
  or one slot.  `Renamed` is what `with prefix` does to an export.
- **Trace.** A text is the set of values it shows, and its size grows with what is not
  masked; the artifact cap is a size.  A live step's mode is decided when it starts, so a
  mark takes effect with the next one.  The stream reaches `Report` event by event, so
  every reachable state is also the page of a stream cut at that event.
- **Provisioning.** Each process has its program counter and the document it read;
  nothing but files is shared.  `wounded` remembers a library that a crash, or a copy that
  would not go back, has taken from its place: the code promises nothing of those.  Every
  deletion may fail, and may have taken the library by then (`Sticks`): `restore` goes on
  without asking (`Clear`), install and update end with a warning, prune goes on and fails,
  and a remove fails with its entry gone (the kind "unregistered").
- **Startup.** A suite is a record of everything both commands read; a value that is not
  given is "none".  A stage is one action: within it the code neither waits nor writes.
  doctor's rows are those that fail; with `--live` also those of the probes of APIs,
  databases and plugins' instances.  Two findings stand for others, as in the code: `build_chains`
  names the first file with a bad tag only, and an empty selection is found only where
  no step is a problem.
- **Validation.** A suite is a graph: bodies of macros and scenarios whose steps are
  plain, refused, lost, or a call.  The rows of an outline are scenarios of their own.  The
  calls of a body are the places they stand at; the walks visit the first that is left.
- **Matching, Masking, FeatureFile, Tables.** These are functions, and stay so: an
  operator for each function of the code, over texts as sequences of characters and files
  as sequences of lines, from a small alphabet.  A text that is not looked into (a value of
  a column, a word of a comment) is a model value.  The gherkin parser, the regex crate
  and the servers are external.
- **Database.** The pools and the cache are shared and each lock is held for one step;
  what is awaited between two locks, the introspection and the statement, is a step of
  its own.  A connection may be lost before or after the server did its work.
- **Polling.** Time is a number that an attempt and a sleep advance; options are in the
  same unit.  The content of an answer is left open: an attempt holds, does not hold
  yet, or fails for good.

## 3. The runs

Passing runs check every action and every branch of the next-state relations.

**scheduling** - three files, two workers, six sets of tags each (no tag, `@serial(A)`,
two priorities, both, two names, a blank name: the last two are refused), `--fail-fast`
on, panics and a force_stop at any moment.  Two workers are enough for every race on the
cursor and the flag, since each step touches one worker and the shared state; three files
give a chain of two beside another and a worker that comes back for more.
`ImplementsScheduler` is the refinement; `NoStartBehindFailure` is the claim that a
relaxed flag suffices because the results mutex orders it; `TagsHonoured` states what a
suite's author is promised, in terms of tags and not of the queue; `Drains` is liveness.

**event_stream** - two emitters, two callers of finish, two events, a clock of two
values, batches of two, a target that may refuse.  Two of each are what the races need:
an emitter behind the terminator, a stamp out of order, a second caller without a handle.
`ImplementsEventLog` is the refinement, `StreamReads` what a reader finds in the lines and a
caller of finish may rely on, `FinishReturns` that each caller gets its answer.

**run_end** - one worker, three signals of two kinds, plugins, a stream that may fail.
Three signals: one for the handler, a first and a second for the tail.  The plugin
calls return here (`HealthySpec`).

**plugin_instances** - two files, one after the other or both at once, a `shared` instance with or without
resets and a `per_worker` one, two scenarios in one file and one in the other, one step
in each, three handles; any call may fail, a file may panic, an interrupt may come.
`RunEnds`: nothing of this keeps the run from ending.

**upgrade** - two layers over one data directory, two plugins of which one has no
release for the newer ABI, three bddkit releases (ABIs 1, 2, 2), four commands, one
plugin command, two failures or crashes.  Four commands are an upgrade, a second one
over it, and a rollback that is interrupted and retried.  Two plugin commands were
checked once as well.

**steps** - two names, one of which is the other with its prefix, two values (a symmetry
set: the code never compares them), calls nested two deep, three steps in a scenario, two
scenarios.  Depth two gives each nesting of macro and include in the other; the second
scenario sees the variables the first left.  `ImplementsScopes` is the refinement.

**polling** - two APIs and other resources with windows of one to three units, four
modifiers, four steps in a scenario, two scenarios; an attempt takes up to two units, a
sleep overruns by up to one.  The windows are such that the interval divides the timeout,
does not, and equals it.

**trace** - one file with one value that may become secret, under each setting of
`--evidence`: failures with two scenarios, marked and failures, marked alone, everything;
then the tree of steps, three deep in macros and includes; then two files side by side
without values.  One value is enough, because masking treats each on its own; the cap of
three holds one text and not two.  Panics and a signal come anywhere.  `PageTells` compares
the page of the stream with the results, at every prefix; `EvidenceKept` follows a held
text, to the disk when its scenario fails and nowhere when it passes, and a value that
became secret after the text was held.

**startup** - three suites that start - one of built-in steps, one of plugin steps, one
with a stream, two APIs and a tag - and every suite that differs from one of them in at
most two of the fifty-odd fields, so that every pair of faults meets, and every combination of
telemetry's settings over a suite that runs.  Then `doctor` reads
the same suite.  `DoctorPredicts` asks both ways: each problem of the stage that refused
the run has its own row (`Reasons` lists them stage by stage), and a suite that starts gets no row but for steps
no resource serves, scenarios the tags keep out, and the probes a run does not make: `--live` sends a GET to
each API and asks each instance, while a run only connects to its databases.  And `OutcomeKept` and `NothingSentWithoutYes` ask what a run that ended
before it began has left in the output files and sent.  Pairs are what this code can get wrong: a stage has two inputs, or a
check hides another.

**rules** - what bddkit makes of what it is given, in three parts that share a run.
The suites: two files with three scenarios, Backgrounds of a feature and of a rule,
three macros; every body takes one of a handful of forms that chain, close a cycle or
reach a step that is refused, at most five of them not plain; nesting of two where the code
has sixteen.  Depth two has a chain that fits, one that is one too deep, and cycles of
every length the bodies can make (`ChecksExact`).  The cases, one answer each: pairs of
declarations with every text of up to a few characters (`OneMeaning`, and in
`SecretsMasked` what display hides), trees and texts with values that overlap and nest
(`SecretsMasked`), feature files of a few lines in every order that the grammar has
(`CommentsPlaced`, `SelectionAgrees`), inserts on the three platforms over schemas with
every kind of key, updates with every operator and NULL, and one-line lists
(`StatementsExact`).  The concurrent part: two files with two databases that have a table
of one name, one of which knows sequences, two steps in one file and one in the other,
and one fault (`StatementsLand`): two files are enough for an introspection that overlaps
another and an id that could be another file's.

**provisioning** - one plugin in two releases, two layers over one data directory, with
every initial lock file and backup, three commands one after the other, two failures or
crashes anywhere, a deletion that will not go among them.  Three commands are a reinstall,
another layer's, and a prune.  `CommandsTidy` says what a command leaves: what it found
when it fails (`FailureUndone`), unless a copy would not go or come back; its own entry dropped and
nothing touched that is still named, when a remove fails only at its deletion
(`OnlyUnregistered`); and nothing unnamed when all went well (`NothingLeft`).

**backups_deleted** is the one run that is expected to fail: an upgrade that is refused
after its fetch deletes a version that only an earlier upgrade's backups name, although
README.md says that nothing is deleted.  `findings` quotes both.

**Other disagreements.**  These were met while modelling and have no run of their own.  The
models do what the code does.

- `doctor.rs:602`: an empty selection is reported whatever else there is, because "a finding
  this stage already computed must not be thrown away".  The two are an `if` and its `else`
  (`doctor.rs:605-621`): behind any problem of a step the empty selection is not reported
  until that problem is fixed.  `Reasons` exempts the case by name.
- `README.md:136`: a second signal exits immediately.  The main task sweeps the plugins on
  its own thread; when one hangs in its drop after the handler was aborted, the tail's own
  registration is never polled (`main.rs`, run_suite).
- `README.md:136`: after an interrupt no new scenario starts.  The stop flag is read
  between files only.
- `docs/plugin-authoring.md:317`: instances are dropped on every exit path.  One that is
  registered after the sweep of an interrupted run copied the registry is not
  (`plugin/mod.rs`, shutdown).
- `README.md:72`: `--rollback` can restore it all.  A backup that stops between its renames
  leaves one upgrade's record beside another's copies, and a receipt torn by the last write
  of the switch makes rollback refuse (`upgrade.rs`, backup, write_json).
- `docs/plugin-authoring.md:415`: `plugin remove` keeps a release another lock file points
  into.  Another process may register it between the look and the deletion
  (`plugin/manage.rs`, remove_unreferenced_version), and `lock::upsert` of two processes
  lose one another's entries.
- `feature.rs:115`: a file runs exactly once.  One path named by two arguments is loaded
  twice.
- `docs/events-design.md:384`: an event carries the size of the file it names.  A held text
  is masked again when it is written, so its size may no longer be that
  (`events.rs`, scenario_finished).
- `docs/events-design.md:332`: everything emitted about a run is masked.  A feature's and a
  scenario's name go into the results as they are (`runner.rs`, file_result).
- `README.md:486`, `settings.rs:1`: a flag decides before the config key.  A default or a
  polling pair of the config is resolved when the file is read, so one that is invalid is
  refused even if a flag replaces it (`config.rs`, load_str).
- `README.md:371`, `docs/plugin-authoring.md:177`: includes and their steps are checked
  before the first request.  An include written in a macro's body is not walked, and macros
  and includes that together nest deeper than sixteen are found at run time only
  (`steps/mod.rs`, validate_macros; `runner.rs`, run_include).
- `README.md:397`: the polling options of a connection are for its assertions.  A polled
  assertion that names another connection, as in `billing:table`, takes the options of the
  scenario's current one (`runner.rs`, run_step).
- `docs/plugin-authoring.md:325`: a reset is called for every instance the file has used.  A
  shared instance whose every dispatch by a file failed at the boundary is not recorded as
  used by it, so it is not reset, although the plugin may have acted (`runner.rs`, run_step;
  `plugin/mod.rs`, to_reset).

Where a stronger wish fails only through such a disagreement, the property that is checked
is the weaker one that the code keeps, and says so (`~interrupted`, `~forced`, `settled`).

## 4. Fairness

Safety needs none.  Liveness is stated under weak fairness only:

- a worker's steps, the spawning loop and the join (`WorkerPool`): tokio polls tasks that
  are ready, and a file's task ends, with a result or a panic;
- the writer thread and finish (`EventStream`): a thread that is not blocked runs;
- a file's steps, the sweep and the exit (`PluginInstances`), for plugins whose calls return;
- the main task, the handler and the writer (`RunEnd`), and apart from these
  `PluginsAnswer`, that a plugin returns from its drop: the code cannot enforce that one,
  and a plugin that hangs makes the run hang;
- an attempt and the sleep behind it (`Polling`): requests carry a client timeout, which
  is refused when it is zero, and timers fire.

`Trace`, `Startup`, `Provisioning`, `Steps` and `Rules` are sequential programs, or files side
by side whose waits have an end of their own: their properties are safety, and state no
fairness.

Nothing is assumed of signals, failures, crashes or the user.

## 5. What is proved

Each theorem is about every value of the module's constants that its assumptions admit;
the run of the same module shows it, and the invariant it rests on was checked by TLC first.

`RunProofs` is about a run from its queue to its exit code.  The pool, for any files, tags, concurrency
and either value of `--fail-fast`.
`PoolInv` is the types together with: a chain has at most one worker; a worker that holds
a chain has claimed it, and the files before its position are over; slots beyond
`spawned` have not begun; files of unclaimed chains wait; the file a worker holds has the
status its place in the loop implies.  `ChainExclusive` is not inductive without these: that a
claim gives a chain nobody has rests on the cursor being ahead of every chain held.  From
it follow the types, that a chain has one worker, and `PoolImplementsScheduler` by a
step-or-stutter simulation.  `LossInv` adds what the stop flag, the results and the
stream know of each other (`StopInv`, `CollectedOnce`, `ClosedInv`, `QueueDrained`,
`AllJoined`) and gives `FailFastStops` and `ResultsComplete`.  `ChainsAreAQueue` is about
build_chains alone: whatever the tags, it loses no entry, doubles none and has the most
urgent chains in front.  With it `TagsAreHonoured` reaches back from the pool to the tags
(`TagsInv`: the pool's invariant, the queue is the one of the tags, and behind a started
file of a chain everything is over, `ChainProgress`).  `Chains` ranks what it sorts by the
number of smaller elements: a sort that is a recursive operator is opaque to the prover.

The end of a run (`RunEnd`, in `RunProofs` too), for any workers, clock, batches and any number of signals.  About the stream:
`StreamIsLog`, that channel, batch and file together refine `EventLog`, and `LinesAreCounted`.
`StreamInv` says that the channel is what was accepted and is not encoded yet (`ChannelInv`),
that the tally counts what was encoded (`TallyInv`), that line i tells event i, on the disk and
in the batch that follows it unless a write was refused (`LinesInv`), that the first
terminator encoded is the last event that is (`ClosingInv`), and to whom the handle went
(`JoinInv`).  About the end: `EndingIsOne` and `ExitCodeIsRight` from `EndInv`, which says where
the main task and the handler may stand once the flag of `claim_end` is taken (`Claimed`), that
the sweep and the terminator have the one author (`OneAtIt`), and that a code of 128+N comes
from a signal that was received (`Heard`).  `EndIsTold` puts both together: each event's author
and exit fit what was emitted before it (`Whose`), and the code is settled by then (`Settled`).

`PluginInstancesProofs`, for any files, instances and manifests: `HandlesAreSafe`, that an
instance is dropped once and not called afterwards, and `NoneLeftBehind`.  `LifeInv` is
about who may know a handle: the file that creates it, alone, until it is published
(`FileOK`, `Apart`); everybody afterwards if the instance is shared; nobody else ever if it
is `per_worker`.  A file that loses the race to publish drops a handle that only it
knows, and that is why no one can call it.  `LeakInv` adds that every live handle is
registered or one call away from being registered or dropped (`Accounted`), and that the
sweep's copy of the registry misses nothing (`SweepSees`); both need that the sweep of an
uninterrupted run begins when the files are over.  `ResetsAreKept`: a reset reaches what the
scenario before it touched and nothing another file is in.  `ResetInv` says of each place of a file
which handles it has still to reset and which are clean (`ResetOK`), and that at a
concurrency of one only one file is open (`Alone`), which is what the refusal of a shared
instance with resets at any other is for (`Loadable`).

`WorldProofs` is about the components that keep a file's World.  `Steps`, for any names,
values and depth: `CallsNest` (`StepsInv`), `ScopesImplemented` and `FailuresEndScenarios`.  The
code has one stack of frames that macros push on and includes put aside; the abstract `Scopes` has one
scope per call.  `ScopesOf` finds the scope of each body in progress: the stack it belongs to is the
current one or the one the nearest include above it saved, and its frame is as deep in that stack as there are
macros below it since (`Home`, `StackOf`).  `Nest` and `Fits` say that there is such a frame, and one
for no other body; `CallsOK` that only the innermost body can have failed; `BrokenInv` when it has.
Each step of the code is then shown to be one of `Scopes` or to leave every scope as it
was.  `Database`, for any files, connections, menus of steps and faults: `StatementsDoLand`.  `FileInv`
follows one file (what is sent went where its reference says, `SentInv`; which rows are in the
variables already, `MadeInv`), `CacheInv` says that an entry of the cache is the schema of the table it is
filed under, whoever filed it, and a lemma that a step of one file leaves this of the others.
`Masking`, for any texts and any set of values: `MasksAreExact`.  Whatever values overlap or are part
of one another, none is left whole in the masked text, what no match covers is there in its order, and what a match
covers is not.  Every place of a value lies under a match, though the next match is looked for behind the last
(`MatchesAre`); the sweep over the ranges copies what is outside of all, each run of it behind a
mask (`Swept`, one range more in `SweepGoesOn`); so two characters that stand together in what is shown stood together in the
text (`StoodTogether`), and a value that is whole there would have a match over it.  The mask counts as one character that
no value has.  `DocumentsAreMasked` says it of a JSON document that is first masked by place, for hits
that lie in the text.

`TraceProofs`, for any sources of evidence, files, values, kinds of steps and cap: `EvidenceIsKept`.
None of the three parts of `EvidenceKept` is inductive.  `DirsInv` says that a directory is given out
once, to a file on disk or to a text in some buffer, and `RefersInv` that a held event which cites no
file on disk waits in the buffer of its text: what is flushed finds its file.  `ScenarioInv` numbers
the scenarios of a file and bounds its buffer by what the scenario has deferred, so that deferred text
is on disk before the outcome only when there was more than the cap; `PassingInv` keeps that for the scenarios told
already.  `SecretsInv`, and `OwnPage` for the page the stream folds into, say that before a scenario ends
nothing held was written, and what is written then shows nothing of the set as it is.  That the page of
a file is its own, and its last scenario the one at work, is `PageInv`; lemmas say what each event
does to the tree (`FoldsScene`: to one scenario of one page).

`PageTellsTheRun`, on the same invariant: a stream cut anywhere folds into a page of what was
told.  `TellsInv` draws the scenario at work from the task that runs it: the open items of the
tree are the calls in progress, each inside the one that made it (`Calls`); the failure of an item that failed is
kept with the body around it until the outcome carries it (`Failures`); the items at the top are the steps that
were told, in their order (`TopsTold`); there is evidence only where the task has counted some
(`Counted`).  A scenario that is over is what its task had made of it when it closed
(`ClosedTell`), and no step of another file touches it (`AsideTells`).

`ValidationProofs` and `RulesProofs` are about what bddkit computes before and beside a run.  Most of it is recursive, over
numbers, lines, bodies or characters; the library's induction cannot be used, so a fact about every
number is read off the least one that it would fail at (`SetInduction`), and a recursive function is what
its equation says once a function is shown that meets it (`IterationIs`).  `CasesInv` ties what is
answered to what was asked.

`ChecksAreExact` (`Validation`), for every suite and every depth: what the two
checks let pass, a run can walk to its end.  `BuildInv` is about the walk over the macros: its path is a chain
of calls, and behind what it has visited nothing is left to visit.  It carries a weight for each macro that is done, larger than that of
every macro it calls; the weights are what makes a depth that was computed once agree with a depth that is counted
on the way, and what a cycle cannot have.  `CheckInv` says that each step the check has passed could
run, or leads into the include it has open, and that the problems it has noted are those that break.  `CallsInv`
follows a run: wherever the check has been, the next step of each body in progress could run, and under macros
alone every macro still fits.

`TextsHaveOneMeaning` (`Matching`), for any declarations and texts: a registry that builds gives no text
two meanings.  `patterns_overlap` never sees a text; it searches pairs of token streams.  A text that a regex
matches is one that a stream of the same declaration may match (`ReadByAStream`): what the
parser can have read up to an item, some stream ends its tokens at (`OntoWays`, item by item).  Two
streams that may match one text come to their ends together (`StreamsMeet`): at every place in the text the pair of places
that they stand at is one the search passes, for where both take the same character their classes overlap
(`ClassesMeet`), and a pair that it does not pass would leave the text behind.  It follows (`StepsAreHidden`)
that a report which picks the definition of a step by its text alone hides every secret the step was run
with: in a registry of builtins and macros that builds, no second definition reads the text.

`TagsShownSelect` (`FeatureFile`), for any file and filter: what is read of the lines above a keyword is a
sequence of the names on its tag lines (`TagsAboveAre`, `OwnTagsAre`), so the tags that a report shows, each once,
are as a set those that selected the row (`EffectiveAre`).

`StatementsMeanWhatTheySay` (`Tables`), for any table, platform, values and conditions.  An insert: what it
gives a column is what the row holds there, or what the server made of a NULL (`RowHolds`), so a key
that the plan knows or the server counts is the row's (`ReadsItsRow`), and each refusal has its reason
(`RefusedRightly`).  An update: a bind has the same number as place, behind those of what is set
(`BindsStand`).  A list: what is read of a text goes on over more of it by what that adds to
the last piece (`ReadsOn`, `Adds`), so a pair is read as one piece whatever commas its value has
(`ReadsPair`), a separator begins the next one (`ReadsSeparator`), and column and value are found again on
both sides of its first colon (`PieceParts`).  `LineAssumption` says which lists are meant: a column is not blank and
holds no colon or comma, and a value that a comma follows does not end in a backslash, which would escape it.

`CommandProofs`, for any suites of the fields the commands read: `DoctorForetells`, `OutcomesAreKept` and
`SendingIsAgreed`.  `RunInv` says that a stage is reached only through those before it, and that a run which
settled before it started was refused by the stage it is in; `DoctorInv` which rows doctor has
when it stops at a stage.  `PredictInv`, both, is what makes the two sets of refusals comparable:
`RefusalHasARow` goes through the thirteen stages and finds the `Reasons` of each among the rows,
`StartedIsClean` finds every set of rows empty but the ones `NotStricter` names.  `OutputsInv` adds
what stands in each output file before the stage that opens it; `AskInv` that a person
is asked only where nothing has decided.

`Polling`, in `CommandProofs` too, for any APIs, options and durations: that an assertion judges the last
request asked for, keeps its window, and is polled exactly when a modifier reaches it.
`PollInv` ties the recipe to the exchange (`Replayable`), each sleep to the window it
stands in (`InWindow`) and the armed layer to the log of the scenario (`Arming`).

`ProvisioningProofs`, for any layers, plugins, releases and any number of commands,
failures and crashes, one process at a time (`Commands = {c}` is a hypothesis of the
theorems): `AloneKeepsShelf`, that the file operations refine `Shelf`, and `AloneIsTidy`, that a
failed command leaves what it found, or, a remove, has dropped its entry and no more.  `AloneInv` is the
types, that whatever an entry names is there or was wounded (`NamedStays`), and for each
place of a command what it has put aside, what it has extracted, and that the document it
read is still the one on disk.  That last part is what a second process breaks.  `TidyInv` adds how the
disk differs from the one the command found (`Undo`: by what it put aside and what it
extracted), that without trouble nothing else is on it (`Peaceful`), and that no directory of an
earlier process has the name this one will use (`FreshAsides`).  `Unregisters` says of a remove
behind its lock file that one entry is all that has changed so far.

`Upgrade`, the last of `CommandProofs`, for any layers, plugins, releases and any number of commands, failures
and crashes.  `UpgradeInv` follows the copies: while backup makes them nothing is
promised (`KeepInv`); from the record on, each layer it names is as it was, or backed up
as it was, or changed since by a plugin command (`SwitchInv`, `RollbackInv`, `SavedInv`);
`FetchInv` says that what a command fetched is named by no lock file; `MovesInv` that without `--force`
what stands at another ABI is on the plan, and during the switch on its list.  From it:
`RollbackIsExact`, `RetryAlwaysPossible`, `LivePluginsKept`, `NeededReleasesKept`,
`BackupsKeptByPluginCommands` and `UpgradeMovesEveryEntry`.

The assumptions are those the modules name (`...Assumption`): finite concurrency, queues
without repetition, releases and bounds that are numbers, tags that are finitely many, a menu of steps of the kinds
the code knows, cases of the form their kind has.  TLC evaluates them in the passing runs.

Only model-checked, and why:

- everything under fairness (`Drains`, `FinishReturns`, `RunEnds`, `AssertionEnds`): liveness needs ENABLED, which the prover does not reason about;
- `SecretsMasked` as a whole, and `CommentsPlaced`.  Of the first, `StepsHideSecrets` is proved, and masking for
  whatever is in the set (`MasksAreExact`); that the scan of a JSON text finds just the values which
  are secret in its tree (`SecretsFound`) is not.  The scan and the placing of comments are compared with a
  reference over texts and trees: an induction over data, for which the installed provers cannot use
  the library's theorems.  `RulesProofs` does without, one recursive function at a time; these
  have many, which go ahead by what another one found (`StringEnd`) or down a tree.

## 6. Limits of the models

- Upgrade and Provisioning: one bddkit command at a time.  The code takes no lock, and with
  two processes the entry one of them reads is stale when it writes: with a second member
  in `Commands`, `ShelfSpec` is violated, and `AloneKeepsShelf` assumes one.  Downloads, questions and `--check` are left out.
- Polling: the content of requests and answers; `Options` of a resource are constant.
- PluginInstances: encodings.  RunEnd starts where the signal handlers are installed;
  Startup ends there, and has the run itself as one step.
- Trace: the values a text shows, not the text; `Report`'s pages, not their layout.
- Startup: a section of the config parses or does not; doctor's warnings are left out.  All APIs
  of a suite share one URL, which answers or does not.  `RunOnly` names what doctor
  cannot know.
- Validation: why a step is refused (doc string, table, attached file, plugin) is one kind.
- Matching: the parameter type `float` is left out.  The display of a step looks for
  `<<slot>>` in a plugin's text without asking whether the slot is the whole of it, as find
  does: `StepsHideSecrets` is stated for registries without plugins.
- Masking: a percent sign and its digits are one character, and %22 is the only one there is.
  Occurrences are found as `match_indices` finds them, so of one that overlaps
  itself a tail stays; a JSON value that ends in a quote is trimmed as the code trims it.
- FeatureFile: a disabled step right under a closing fence is the comment of the
  element that follows, and a file whose selected outline has no rows is
  queued and runs nothing; the models do the same.
- Tables: an AUTO_INCREMENT column that is not the primary key is NOT NULL and has no default, so
  build_insert refuses a row without it, although MySQL would count; `StatementsExact` names that
  among the reasons to refuse.
- Database: one row at a time, and of a server its tables, keys and sequences.  An id of 0 for
  an AUTO_INCREMENT key, which MySQL replaces, is not among the inputs.  The evidence of a statement
  names the connection it is sent over in one step, so that part of `OnItsConnection` follows
  from the other.
- FeatureFile: one definition of the tags of a scenario stands for both readers of them, the
  parser's and `scan_tags`; that the two agree on a text is not checked.
- Components without a module are listed in `PROJECT.json` with the reason: layout and
  wording, questions to a person, or one call to a library.

## 7. What is left

In order of what each would add:

1. Two processes over one lock file, once the code takes a lock: `Provisioning` has the
   processes already.
2. The bounds a resource's client puts on requests and responses (`http.rs`, `resource.rs`), and
   the pages `bddkit report` writes.
3. The workspace of a file.

What stays out: layout and wording of reports, SRP's arithmetic, and `init` and the telemetry
commands, which ask and write a file.
