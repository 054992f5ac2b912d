-------------------------- MODULE PluginInstances ---------------------------
(***************************************************************************)
(* The life of plugin instances: plugin::Plugins (shared map, registry,    *)
(* call_step, reset_instances, drop_instances, shutdown), the per-file     *)
(* plugin::PluginState, and runner::run_file, which resets at a scenario   *)
(* boundary and drops at the end of the file.  main sweeps the registry    *)
(* once the pool has drained; an interrupt sweeps it under running files.  *)
(*                                                                         *)
(* A handle is a number the plugin chose; every FFI call is a start and a  *)
(* return, so calls of several threads overlap.  The locks of shared and   *)
(* registry are held for single steps only, as in the code.                *)
(***************************************************************************)
EXTENDS Naturals, FiniteSets

CONSTANTS Files,          \* feature files
          Instances,      \* declared instances, one group each
          Declarations,   \* what the manifests may declare: [mode, resets] per instance
          MaxConcurrency, \* bound: files that run at the same time
          ScenarioLimit,  \* bound: scenarios of each file
          StepLimit,      \* bound: plugin steps of a scenario
          HandleLimit     \* bound: instances created (init_instance fails beyond it)

ASSUME ConcurrencyAssumption == MaxConcurrency \in Nat \ {0} /\ HandleLimit \in Nat
\* The selected files are a list.
ASSUME FilesAssumption == IsFiniteSet(Files)
\* Concurrency of abi.rs has two values; a plugin exports the reset or does not.
ASSUME DeclarationsAssumption ==
  Declarations \subseteq [Instances -> [mode : {"shared", "per_worker"}, resets : BOOLEAN]]

VARIABLES declared,   \* the manifests of this run and its concurrency
          file,       \* each file task: where it is, and its PluginState
          shared,     \* Plugins::shared: the run's handle of an instance, 0 for none
          registry,   \* Plugins::registry: every live handle
          life,       \* the plugin's own view: "none", "live", "dropped"
          owner,      \* the instance a handle was created for
          sweeper,    \* "idle", "copied", "sweeping", "swept"
          sweepTodo,  \* handles the sweep still has to drop
          sweepCall,  \* the handle it is dropping, 0 for none
          interrupted,\* the handler owns the ending and has stopped new files
          forced,     \* a second signal cut the cleanup short
          exited

vars == <<declared, file, shared, registry, life, owner, sweeper, sweepTodo,
          sweepCall, interrupted, forced, exited>>

Handles == 1..HandleLimit

\* Plugins::load: a shared plugin with a per-scenario reset is refused when
\* files run in parallel.
Loadable(decl) ==
  \A i \in Instances :
    decl.plugin[i].mode = "shared" /\ decl.plugin[i].resets => decl.concurrency = 1

PerWorker(i) == declared.plugin[i].mode = "per_worker"
Resets(i) == declared.plugin[i].resets

\* A file without a World: not started, or over.
NoInstance == CHOOSE i \in Instances : TRUE
FileAt(pc) == [pc |-> pc, scenario |-> 0, steps |-> 0, failed |-> FALSE,
               inst |-> NoInstance, handle |-> 0, created |-> FALSE,
               todo |-> {}, call |-> 0, then |-> "none",
               used |-> [i \in Instances |-> 0], owned |-> {},
               touched |-> {}, stale |-> {}]

\* The step is over: back to run_file, what call_step held is gone.
StepOver(t, failed) == [t EXCEPT !.pc = "steps", !.failed = failed, !.inst = NoInstance,
                                 !.handle = 0, !.created = FALSE, !.call = 0]

\* What follows the last handle of a reset_instances or a drop_instances.
Onward(t) ==
  IF t.todo # {} \/ t.call # 0 THEN t
  ELSE IF t.pc = "reset" THEN [t EXCEPT !.pc = "steps"]
  ELSE CASE t.then = "done" -> FileAt("done")
         [] t.then = "steps" -> [StepOver(t, TRUE) EXCEPT !.then = "none"]
         [] t.then = "dispatch" -> [t EXCEPT !.pc = "dispatch", !.then = "none"]

Init ==
  /\ declared \in {d \in [plugin : Declarations, concurrency : 1..MaxConcurrency] : Loadable(d)}
  /\ file = [f \in Files |-> FileAt("waiting")]
  /\ shared = [i \in Instances |-> 0]
  /\ registry = {}
  /\ life = [h \in Handles |-> "none"]
  /\ owner = [h \in Handles |-> NoInstance]
  /\ sweeper = "idle"
  /\ sweepTodo = {}
  /\ sweepCall = 0
  /\ interrupted = FALSE
  /\ forced = FALSE
  /\ exited = FALSE

Ended(f) == file[f].pc \in {"waiting", "done", "panicked"}
Running == {f \in Files : ~Ended(f)}
\* The task of file f is now t.
Becomes(f, t) == file' = [file EXCEPT ![f] = t]

hostVars == <<declared, shared, registry, life, owner>>
endVars == <<sweeper, sweepTodo, sweepCall, interrupted, forced, exited>>

\* The pool starts a file: PluginState::new is empty.  A stopped pool starts
\* none; a worker that is already past its look at the stop flag is a file at
\* its first boundary.  The main task claims the ending after the pool drained.
StartFile(f) ==
  /\ file[f].pc = "waiting"
  /\ Cardinality(Running) < declared.concurrency
  /\ ~interrupted /\ sweeper = "idle"
  /\ Becomes(f, [file[f] EXCEPT !.pc = "boundary"])
  /\ UNCHANGED <<hostVars, endVars>>

\* run_file's loop: reset_scenario, then to_reset to a blocking thread.  The
\* loop does not look at the stop flag.  A plugin that exports no reset has
\* nothing to call.
ToReset(f) == {h \in {file[f].used[i] : i \in Instances} \ {0} : Resets(owner[h])}

\* What the scenario that ends here had an answer from.  A shared instance whose
\* every dispatch by this file failed at the boundary is not among them: it was
\* called, record never saw it, and to_reset does not know of it.
Answered(f) == file[f].touched \cap {file[f].used[i] : i \in Instances}

BeginScenario(f) ==
  /\ file[f].pc = "boundary"
  /\ file[f].scenario < ScenarioLimit[f]
  /\ Becomes(f, Onward([file[f] EXCEPT !.pc = "reset",
                                       !.scenario = file[f].scenario + 1,
                                       !.todo = ToReset(f),
                                       !.stale = file[f].stale \cup Answered(f),
                                       !.touched = {}]))
  /\ UNCHANGED <<hostVars, endVars>>

\* reset_instances: a handle that left the registry is skipped, and every
\* remaining one is attempted after a failure.
ResetNext(f) ==
  /\ file[f].pc = "reset" /\ file[f].call = 0
  /\ \E h \in file[f].todo :
       Becomes(f, Onward([file[f] EXCEPT !.todo = file[f].todo \ {h},
                                         !.call = IF h \in registry THEN h ELSE 0]))
  /\ UNCHANGED <<hostVars, endVars>>

\* What is still to be reset when the call on one handle comes back.
Unreset(f, ok) == IF ok THEN file[f].stale \ {file[f].call} ELSE file[f].stale

\* Slip: a reset that fails is only logged, the scenario runs its steps.
ResetForgives(f) ==
  /\ file[f].pc = "reset" /\ file[f].call # 0
  /\ \E ok \in BOOLEAN :
       Becomes(f, Onward([file[f] EXCEPT !.call = 0, !.stale = Unreset(f, ok)]))
  /\ UNCHANGED <<hostVars, endVars>>

ResetReturns(f) ==
  /\ file[f].pc = "reset" /\ file[f].call # 0
  /\ \E ok \in BOOLEAN :
       Becomes(f, Onward([file[f] EXCEPT !.call = 0,
                                         !.stale = Unreset(f, ok),
                                         !.failed = file[f].failed \/ ~ok]))
  /\ UNCHANGED <<hostVars, endVars>>

\* A plugin step on the selected instance: the handle this file holds, or a
\* new one (per_worker), or the run's (shared).  After a failure the steps are
\* skipped.
PluginStep(f) ==
  /\ file[f].pc = "steps" /\ ~file[f].failed
  /\ file[f].steps < StepLimit
  /\ \E i \in Instances :
       LET cached == file[f].used[i]
       IN  Becomes(f, [file[f] EXCEPT
             !.steps = file[f].steps + 1,
             !.inst = i,
             !.handle = cached,
             !.created = cached = 0 /\ PerWorker(i),
             !.pc = IF cached # 0 THEN "dispatch"
                    ELSE IF PerWorker(i) THEN "init" ELSE "lookup"])
  /\ UNCHANGED <<hostVars, endVars>>

\* shared_handle, first lock: the winner's handle or none yet.
SharedLookup(f) ==
  /\ file[f].pc = "lookup"
  /\ LET h == shared[file[f].inst]
     IN  Becomes(f, [file[f] EXCEPT !.handle = h, !.pc = IF h # 0 THEN "dispatch" ELSE "init"])
  /\ UNCHANGED <<hostVars, endVars>>

\* init_instance, no lock held: it refuses, or the plugin has one more
\* instance, which the host has yet to register.
InitReturns(f) ==
  /\ file[f].pc = "init"
  /\ \/ /\ Becomes(f, StepOver(file[f], TRUE))
        /\ UNCHANGED <<life, owner>>
     \/ \E h \in Handles :
          /\ life[h] = "none" /\ \A g \in 1..(h - 1) : life[g] # "none"
          /\ life' = [life EXCEPT ![h] = "live"]
          /\ owner' = [owner EXCEPT ![h] = file[f].inst]
          /\ Becomes(f, [file[f] EXCEPT !.pc = "register", !.handle = h])
  /\ UNCHANGED <<declared, shared, registry, endVars>>

\* Slip: only the handles of shared instances are registered.
RegisterShared(f) ==
  /\ file[f].pc = "register"
  /\ registry' = IF PerWorker(file[f].inst) THEN registry ELSE registry \cup {file[f].handle}
  /\ Becomes(f, [file[f] EXCEPT !.pc = IF PerWorker(file[f].inst) THEN "dispatch" ELSE "publish"])
  /\ UNCHANGED <<declared, shared, life, owner, endVars>>

Register(f) ==
  /\ file[f].pc = "register"
  /\ registry' = registry \cup {file[f].handle}
  /\ Becomes(f, [file[f] EXCEPT !.pc = IF PerWorker(file[f].inst) THEN "dispatch" ELSE "publish"])
  /\ UNCHANGED <<declared, shared, life, owner, endVars>>

\* shared_handle, second lock: the loser drops its own and takes the winner's.
Publish(f) ==
  /\ file[f].pc = "publish"
  /\ LET winner == shared[file[f].inst]
     IN  IF winner # 0
         THEN /\ Becomes(f, [file[f] EXCEPT !.pc = "drop", !.todo = {file[f].handle},
                                             !.handle = winner, !.then = "dispatch"])
              /\ UNCHANGED shared
         ELSE /\ shared' = [shared EXCEPT ![file[f].inst] = file[f].handle]
              /\ Becomes(f, [file[f] EXCEPT !.pc = "dispatch"])
  /\ UNCHANGED <<declared, registry, life, owner, endVars>>

Dispatch(f) ==
  /\ file[f].pc = "dispatch"
  /\ Becomes(f, [file[f] EXCEPT !.pc = "calling", !.call = file[f].handle])
  /\ UNCHANGED <<hostVars, endVars>>

\* A reply of any status is recorded; a failure at the boundary is not, and
\* undoes the instance this very call created.
DispatchReturns(f) ==
  /\ file[f].pc = "calling"
  /\ LET h == file[f].handle
         i == file[f].inst
         t == [file[f] EXCEPT !.touched = file[f].touched \cup {h}]
         recorded == [t EXCEPT !.used = [t.used EXCEPT ![i] = h],
                               !.owned = IF PerWorker(i) THEN t.owned \cup {h} ELSE t.owned]
         undone == [file[f] EXCEPT !.pc = "drop", !.todo = {h}, !.call = 0, !.then = "steps"]
     IN  \/ \E failed \in BOOLEAN :
              Becomes(f, StepOver(IF t.used[i] = 0 THEN recorded ELSE t, failed))
         \/ Becomes(f, IF file[f].created THEN undone ELSE StepOver(t, TRUE))
  /\ UNCHANGED <<hostVars, endVars>>

EndScenario(f) ==
  /\ file[f].pc = "steps"
  /\ Becomes(f, [file[f] EXCEPT !.pc = "boundary", !.steps = 0, !.failed = FALSE])
  /\ UNCHANGED <<hostVars, endVars>>

\* A panic unwinds the file task: its World, and the list of what it owns, is
\* gone.
PanicFile(f) ==
  /\ file[f].pc = "steps"
  /\ Becomes(f, FileAt("panicked"))
  /\ UNCHANGED <<hostVars, endVars>>

\* The end of run_file: drop_instances over to_drop.
EndFile(f) ==
  /\ file[f].pc = "boundary"
  /\ file[f].scenario > 0
  /\ Becomes(f, Onward([FileAt("drop") EXCEPT !.todo = file[f].owned,
                                              !.owned = file[f].owned,
                                              !.then = "done"]))
  /\ UNCHANGED <<hostVars, endVars>>

\* Slip: the handle is dropped without asking whether the registry had it.
DropUnchecked(f) ==
  /\ file[f].pc = "drop" /\ file[f].call = 0
  /\ \E h \in file[f].todo :
       /\ registry' = registry \ {h}
       /\ Becomes(f, Onward([file[f] EXCEPT !.todo = file[f].todo \ {h}, !.call = h]))
  /\ UNCHANGED <<declared, shared, life, owner, endVars>>

\* drop_instances, per handle: out of the registry, and if it was there the
\* FFI drop; a handle something else swept is skipped.
DropNext(f) ==
  /\ file[f].pc = "drop" /\ file[f].call = 0
  /\ \E h \in file[f].todo :
       /\ registry' = registry \ {h}
       /\ Becomes(f, Onward([file[f] EXCEPT !.todo = file[f].todo \ {h},
                                            !.call = IF h \in registry THEN h ELSE 0]))
  /\ UNCHANGED <<declared, shared, life, owner, endVars>>

DropReturns(f) ==
  /\ file[f].pc = "drop" /\ file[f].call # 0
  /\ life' = [life EXCEPT ![file[f].call] = "dropped"]
  /\ Becomes(f, Onward([file[f] EXCEPT !.call = 0]))
  /\ UNCHANGED <<declared, shared, registry, owner, endVars>>

\* The first signal while the run has not been claimed by the main task.
Interrupt ==
  /\ ~interrupted /\ sweeper = "idle"
  /\ interrupted' = TRUE
  /\ UNCHANGED <<file, hostVars, sweeper, sweepTodo, sweepCall, forced, exited>>

\* Slip: the sweep waits for files that ended by themselves only.
SweepAfterDone ==
  /\ sweeper = "idle"
  /\ interrupted \/ \A f \in Files : file[f].pc = "done"
  /\ sweeper' = "copied"
  /\ sweepTodo' = registry
  /\ UNCHANGED <<file, hostVars, sweepCall, interrupted, forced, exited>>

\* Plugins::shutdown: copy the keys of the registry, clear shared, drop each.
SweepCopy ==
  /\ sweeper = "idle"
  /\ interrupted \/ \A f \in Files : file[f].pc \in {"done", "panicked"}
  /\ sweeper' = "copied"
  /\ sweepTodo' = registry
  /\ UNCHANGED <<file, hostVars, sweepCall, interrupted, forced, exited>>

SweepClear ==
  /\ sweeper = "copied"
  /\ sweeper' = "sweeping"
  /\ shared' = [i \in Instances |-> 0]
  /\ UNCHANGED <<file, declared, registry, life, owner, sweepTodo, sweepCall,
                 interrupted, forced, exited>>

SweepNext ==
  /\ sweeper = "sweeping" /\ sweepCall = 0
  /\ \E h \in sweepTodo :
       /\ sweepTodo' = sweepTodo \ {h}
       /\ registry' = registry \ {h}
       /\ sweepCall' = IF h \in registry THEN h ELSE 0
  /\ UNCHANGED <<file, declared, shared, life, owner, sweeper, interrupted, forced, exited>>

SweepReturns ==
  /\ sweepCall # 0
  /\ life' = [life EXCEPT ![sweepCall] = "dropped"]
  /\ sweepCall' = 0
  /\ UNCHANGED <<file, declared, shared, registry, owner, sweeper, sweepTodo,
                 interrupted, forced, exited>>

SweepOver ==
  /\ sweeper = "sweeping" /\ sweepCall = 0 /\ sweepTodo = {}
  /\ sweeper' = "swept"
  /\ UNCHANGED <<file, hostVars, sweepTodo, sweepCall, interrupted, forced, exited>>

\* process::exit: after the sweep, or at once on a second signal.
ExitProcess ==
  /\ sweeper = "swept" \/ interrupted
  /\ exited' = TRUE
  /\ forced' = (sweeper # "swept")
  /\ UNCHANGED <<file, hostVars, sweeper, sweepTodo, sweepCall, interrupted>>

FileStep(f) ==
  \/ BeginScenario(f) \/ ResetNext(f) \/ ResetReturns(f)
  \/ PluginStep(f) \/ SharedLookup(f) \/ InitReturns(f) \/ Register(f) \/ Publish(f)
  \/ Dispatch(f) \/ DispatchReturns(f) \/ EndScenario(f) \/ PanicFile(f) \/ EndFile(f)
  \/ DropNext(f) \/ DropReturns(f)

SweepStep == SweepCopy \/ SweepClear \/ SweepNext \/ SweepReturns \/ SweepOver

Next == /\ ~exited
        /\ \/ SweepStep \/ Interrupt \/ ExitProcess
           \/ \E f \in Files : StartFile(f) \/ FileStep(f)

\* Files, the sweep and the process go on; every plugin call returns.
Fairness == /\ WF_vars(~exited /\ SweepStep)
            /\ WF_vars(~exited /\ ExitProcess)
            /\ \A f \in Files : WF_vars(~exited /\ StartFile(f)) /\ WF_vars(~exited /\ FileStep(f))

Spec == Init /\ [][Next]_vars /\ Fairness
-----------------------------------------------------------------------------
FilePcs == {"waiting", "boundary", "reset", "steps", "lookup", "init", "register",
            "publish", "dispatch", "calling", "drop", "done", "panicked"}

TypeOK ==
  /\ declared \in [plugin : Declarations, concurrency : 1..MaxConcurrency]
  /\ \A f \in Files :
       /\ file[f].pc \in FilePcs
       /\ file[f].call \in Handles \cup {0}
       /\ file[f].used \in [Instances -> Handles \cup {0}]
       /\ file[f].owned \subseteq Handles
       /\ file[f].todo \subseteq Handles
  /\ shared \in [Instances -> Handles \cup {0}]
  /\ registry \subseteq Handles
  /\ life \in [Handles -> {"none", "live", "dropped"}]
  /\ owner \in [Handles -> Instances]
  /\ sweeper \in {"idle", "copied", "sweeping", "swept"}
  /\ sweepTodo \subseteq Handles
  /\ sweepCall \in Handles \cup {0}

\* Who is inside bddkit_drop_instance(h), and who inside another call on h.
Dropping(h) == {f \in Files : file[f].pc = "drop" /\ file[f].call = h}
Calling(h) == {f \in Files : file[f].pc \in {"calling", "reset"} /\ file[f].call = h}

\* bddkit_drop_instance is called at most once for a handle, whoever races for
\* it: the end of a file, a lost race for a shared instance, a failed first
\* dispatch, the sweep of a drained run or of an interrupted one.
DroppedOnce ==
  \A h \in Handles :
    /\ Cardinality(Dropping(h)) + (IF sweepCall = h THEN 1 ELSE 0) <= 1
    /\ Dropping(h) # {} \/ sweepCall = h => life[h] = "live" /\ h \notin registry
    /\ h \in registry => life[h] = "live"

\* "Every instance that was created is dropped": once a run that was not
\* interrupted exits, no instance is left, panics and lost races included.
NothingOutlives ==
  exited /\ ~interrupted => \A h \in Handles : life[h] # "live"

\* Until an interrupt no step and no reset reaches an instance that is dropped
\* or being dropped.
NoCallAfterDrop ==
  ~interrupted =>
    \A h \in Handles : Calling(h) # {} =>
      life[h] = "live" /\ Dropping(h) = {} /\ sweepCall # h

\* concurrency "per_worker": no handle is ever called from two files at once;
\* "shared": every file that reached the instance holds the one handle.
HandleDiscipline ==
  /\ \A h \in Handles :
       PerWorker(owner[h]) => Cardinality(Calling(h) \cup {f \in Files : h \in file[f].owned}) <= 1
  /\ ~interrupted =>
       \A i \in Instances : ~PerWorker(i) =>
         \A f \in Files : file[f].used[i] \in {0, shared[i]} \/ sweeper # "idle"

\* A scenario never runs a step on an instance that answered an earlier scenario
\* of the file and whose reset was then skipped or failed.
ResetBeforeReuse ==
  ~interrupted =>
    \A f \in Files :
      file[f].pc = "calling" /\ Resets(owner[file[f].call])
        => file[f].call \notin file[f].stale

\* A scenario boundary never resets an instance another file is mid-scenario
\* with (reset_instances: "so neither can happen").
ResetSparesOthers ==
  \A f, g \in Files :
    f # g /\ file[f].pc = "reset" /\ file[f].call # 0
      => file[f].call \notin file[g].touched \/ Ended(g)

\* The run ends, whatever panics, fails or loses a race.
RunEnds == <>exited

\* A handle lives as a plugin's author is promised: made once for those who
\* share it, called while it lives, dropped once.
HandleLife == DroppedOnce /\ NoCallAfterDrop /\ HandleDiscipline

\* A boundary resets what its own scenario used, all of it and nothing else.
ResetDiscipline == ResetBeforeReuse /\ ResetSparesOthers
=============================================================================
