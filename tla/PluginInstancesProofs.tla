------------------------ MODULE PluginInstancesProofs -------------------------
(***************************************************************************)
(* An instance is created once for those who share it, called while it is  *)
(* registered and dropped once: for any files, instances, manifests, any   *)
(* concurrency and bounds, whoever panics, fails, loses a race or is       *)
(* interrupted.  What carries the argument is who may know a handle: one   *)
(* file alone until it is published, everybody afterwards if the instance  *)
(* is shared, and nobody else ever if it is not.                           *)
(***************************************************************************)
EXTENDS PluginInstances, FiniteSetTheorems, TLAPS

Tasks ==
  [pc : FilePcs, scenario : Nat, steps : Nat, failed : BOOLEAN,
   inst : Instances \cup {NoInstance}, handle : Handles \cup {0}, created : BOOLEAN,
   todo : SUBSET Handles, call : Handles \cup {0}, then : {"none", "done", "steps", "dispatch"},
   used : [Instances -> Handles \cup {0}], owned : SUBSET Handles,
   touched : SUBSET Handles, stale : SUBSET Handles]

Types ==
  /\ file \in [Files -> Tasks]
  /\ shared \in [Instances -> Handles \cup {0}]
  /\ registry \subseteq Handles
  /\ life \in [Handles -> {"none", "live", "dropped"}]
  /\ owner \in [Handles -> Instances \cup {NoInstance}]
  /\ sweeper \in {"idle", "copied", "sweeping", "swept"}
  /\ sweepTodo \subseteq Handles
  /\ sweepCall \in Handles \cup {0}
  /\ interrupted \in BOOLEAN

Cached(t) == {t.used[i] : i \in Instances} \ {0}
\* At its step, or on its way to it past a handle that lost the race.
AtStep(t) == t.pc \in {"dispatch", "calling"} \/ (t.pc = "drop" /\ t.then = "dispatch")
\* The handles a file will call.
Using(t) == Cached(t) \cup (IF AtStep(t) THEN {t.handle} ELSE {})
\* Those it drops.
Disposing(t) == IF t.pc = "drop" THEN (t.todo \cup {t.call}) \ {0} ELSE {}
\* Those it knows of.
Held(t) == (Cached(t) \cup t.owned \cup t.todo \cup {t.handle, t.call}) \ {0}
\* It has one that nobody else can know.
Fresh(t) == t.pc \in {"register", "publish"}

\* The places of a plugin step.
Stepping == {"lookup", "init", "register", "publish", "dispatch", "calling"}

\* What a file knows at each of its places.
Shape(t) ==
  /\ t.pc \notin {"calling", "reset", "drop"} => t.call = 0
  /\ t.pc = "calling" => t.call = t.handle
  /\ Fresh(t) \/ AtStep(t) => t.handle # 0 /\ owner[t.handle] = t.inst
  /\ t.pc \in Stepping => t.inst \in Instances
  /\ t.pc \in {"lookup", "init", "register", "publish"} => t.used[t.inst] = 0
  /\ t.pc \in {"lookup", "publish"} => ~PerWorker(t.inst)
  /\ t.pc \in {"dispatch", "calling"} => t.used[t.inst] \in {0, t.handle}
  /\ t.pc \in Stepping /\ t.created => t.used[t.inst] = 0 /\ PerWorker(t.inst)
  /\ t.pc = "drop" =>
       \/ /\ t.then = "done" /\ Cached(t) = {}
          /\ \A h \in Disposing(t) : PerWorker(owner[h])
       \/ /\ t.then \in {"steps", "dispatch"} /\ t.inst \in Instances /\ t.used[t.inst] = 0
          /\ \A h \in Disposing(t) : owner[h] = t.inst
          /\ t.then = "steps" <=> PerWorker(t.inst)
          /\ t.then = "dispatch" => t.handle \notin Disposing(t) /\ ~t.created
  /\ t.pc = "reset" => (t.todo \cup {t.call}) \ {0} \subseteq Cached(t)
  /\ t.pc \notin {"reset", "drop"} => t.todo = {}
  /\ \A i \in Instances : t.used[i] # 0 => owner[t.used[i]] = i
  /\ \A h \in t.owned : PerWorker(owner[h])
  /\ t.pc \in {"waiting", "done", "panicked"} => Cached(t) = {}

\* Until an interrupt what a file will call is registered, and of a shared
\* instance it is the one the run published.
Sound(t) ==
  ~interrupted =>
    /\ \A h \in Using(t) : h \in registry /\ (PerWorker(owner[h]) \/ shared[owner[h]] = h)
    /\ t.pc = "publish" => t.handle \in registry

\* A handle that nobody has called yet is in one hand only.
FileOK(t) ==
  /\ Shape(t) /\ Sound(t)
  /\ \A h \in Held(t) : life[h] # "none"
  /\ t.pc = "drop" /\ t.call # 0 =>
       life[t.call] = "live" /\ t.call \notin registry /\ sweepCall # t.call
  /\ t.pc = "register" =>
       life[t.handle] = "live" /\ t.handle \notin registry /\ sweepCall # t.handle
  /\ Fresh(t) => \A i \in Instances : shared[i] # t.handle

\* What two files know of each other's handles.
Apart(t, u) ==
  /\ \A h \in Held(t) \cap Held(u) : ~PerWorker(owner[h])
  /\ Fresh(t) => t.handle \notin Held(u)
  /\ t.pc = "drop" /\ u.pc = "drop" /\ t.call = u.call => t.call = 0

\* What the registry, the map of shared instances and the sweep know.
Registered == \A h \in registry : life[h] = "live"
Published ==
  \A i \in Instances : shared[i] # 0 =>
    /\ ~PerWorker(i) /\ owner[shared[i]] = i /\ life[shared[i]] # "none"
    /\ ~interrupted /\ sweeper = "idle" => shared[i] \in registry
Swept ==
  /\ sweepCall # 0 => sweeper # "idle" /\ life[sweepCall] = "live" /\ sweepCall \notin registry
  /\ ~interrupted /\ sweeper # "idle" => \A f \in Files : file[f].pc \in {"done", "panicked"}

LifeInv ==
  /\ Types /\ Registered /\ Published /\ Swept
  /\ \A f \in Files : FileOK(file[f])
  /\ \A f, g \in Files : f # g => Apart(file[f], file[g])
-----------------------------------------------------------------------------
LEMMA NoHandle == 0 \notin Handles
BY ConcurrencyAssumption DEF Handles

\* A field of a task that changes keeps it one.
LEMMA FieldTyped ==
  ASSUME NEW k \in Tasks
  PROVE  /\ \A pc \in FilePcs : [k EXCEPT !.pc = pc] \in Tasks
         /\ \A n \in Nat : [k EXCEPT !.steps = n] \in Tasks /\ [k EXCEPT !.scenario = n] \in Tasks
         /\ \A b \in BOOLEAN : [k EXCEPT !.failed = b] \in Tasks /\ [k EXCEPT !.created = b] \in Tasks
         /\ \A i \in Instances \cup {NoInstance} : [k EXCEPT !.inst = i] \in Tasks
         /\ \A h \in Handles \cup {0} : /\ [k EXCEPT !.handle = h] \in Tasks
                                         /\ [k EXCEPT !.call = h] \in Tasks
         /\ \A x \in {"none", "done", "steps", "dispatch"} : [k EXCEPT !.then = x] \in Tasks
         /\ \A u \in [Instances -> Handles \cup {0}] : [k EXCEPT !.used = u] \in Tasks
         /\ \A H \in SUBSET Handles : /\ [k EXCEPT !.todo = H] \in Tasks
                                      /\ [k EXCEPT !.owned = H] \in Tasks
                                      /\ [k EXCEPT !.touched = H] \in Tasks
                                      /\ [k EXCEPT !.stale = H] \in Tasks
<1>1. /\ \A pc \in FilePcs : [k EXCEPT !.pc = pc] \in Tasks
      /\ \A i \in Instances \cup {NoInstance} : [k EXCEPT !.inst = i] \in Tasks
      /\ \A x \in {"none", "done", "steps", "dispatch"} : [k EXCEPT !.then = x] \in Tasks
  BY DEF Tasks
<1>2. \A n \in Nat : [k EXCEPT !.steps = n] \in Tasks /\ [k EXCEPT !.scenario = n] \in Tasks
  BY DEF Tasks
<1>3. \A b \in BOOLEAN : [k EXCEPT !.failed = b] \in Tasks /\ [k EXCEPT !.created = b] \in Tasks
  BY DEF Tasks
<1>4. \A h \in Handles \cup {0} : [k EXCEPT !.handle = h] \in Tasks /\ [k EXCEPT !.call = h] \in Tasks
  BY DEF Tasks
<1>5. \A u \in [Instances -> Handles \cup {0}] : [k EXCEPT !.used = u] \in Tasks
  BY DEF Tasks
<1>6. \A H \in SUBSET Handles : [k EXCEPT !.todo = H] \in Tasks /\ [k EXCEPT !.owned = H] \in Tasks
  BY DEF Tasks
<1>7. \A H \in SUBSET Handles : [k EXCEPT !.touched = H] \in Tasks /\ [k EXCEPT !.stale = H] \in Tasks
  BY DEF Tasks
<1> QED
  BY <1>1, <1>2, <1>3, <1>4, <1>5, <1>6, <1>7

LEMMA EmptyTask ==
  ASSUME NEW pc \in FilePcs
  PROVE  /\ FileAt(pc) \in Tasks
         /\ pc \in {"waiting", "boundary", "done", "panicked"} =>
              Shape(FileAt(pc)) /\ Held(FileAt(pc)) = {} /\ Using(FileAt(pc)) = {}
<1>1. FileAt(pc) \in Tasks
  BY DEF FileAt, Tasks
<1>2. Cached(FileAt(pc)) = {} /\ Held(FileAt(pc)) = {}
  BY DEF FileAt, Cached, Held
<1>3. pc \in {"waiting", "boundary", "done", "panicked"} =>
        Shape(FileAt(pc)) /\ Using(FileAt(pc)) = {}
  BY <1>2 DEF FileAt, Shape, Using, AtStep, Fresh, Stepping, Cached
<1> QED
  BY <1>1, <1>2, <1>3

\* A file that lets go of what it has in hand.
LEMMA LetsGo ==
  ASSUME NEW k \in Tasks, Shape(k), NEW x \in Tasks,
         x.pc = "steps", x.call = 0, x.todo = {}, x.handle \in {0, k.handle},
         x.used = k.used, x.owned = k.owned
  PROVE  Shape(x) /\ Held(x) \subseteq Held(k) /\ Using(x) \subseteq Using(k) /\ ~Fresh(x)
<1>1. Cached(x) = Cached(k)
  BY DEF Cached
<1>2. Held(x) \subseteq Held(k)
  BY <1>1 DEF Held
<1>3. Using(x) \subseteq Using(k) /\ ~Fresh(x)
  BY <1>1 DEF Using, AtStep, Fresh
<1>4. Shape(x)
  BY DEF Shape, Fresh, AtStep, Stepping
<1> QED
  BY <1>2, <1>3, <1>4

LEMMA OverTyped == ASSUME NEW k \in Tasks, NEW failed \in BOOLEAN PROVE StepOver(k, failed) \in Tasks
BY DEF StepOver, Tasks, FilePcs

\* The step is over: what call_step held is gone.
LEMMA OverIs ==
  ASSUME NEW k \in Tasks, Shape(k), k.pc \in Stepping \cup {"steps", "drop"},
         k.pc = "drop" => k.todo = {}, NEW failed \in BOOLEAN
  PROVE  LET o == [StepOver(k, failed) EXCEPT !.then = "none"] IN
         /\ StepOver(k, failed) \in Tasks /\ o \in Tasks
         /\ Shape(StepOver(k, failed)) /\ Shape(o)
         /\ StepOver(k, failed).pc = "steps" /\ o.pc = "steps"
         /\ Held(StepOver(k, failed)) \subseteq Held(k) /\ Held(o) \subseteq Held(k)
         /\ Using(StepOver(k, failed)) \subseteq Using(k) /\ Using(o) \subseteq Using(k)
<1> DEFINE s == StepOver(k, failed)
           o == [s EXCEPT !.then = "none"]
<1>1. s \in Tasks /\ o \in Tasks
  <2>1. s \in Tasks
    BY OverTyped
  <2> HIDE DEF s
  <2> QED
    BY <2>1, FieldTyped
<1>2. k.todo = {}
  BY DEF Shape, Stepping
<1>3. /\ s.pc = "steps" /\ s.handle = 0 /\ s.call = 0
      /\ s.used = k.used /\ s.owned = k.owned /\ s.todo = {}
  BY <1>2 DEF StepOver, Tasks
<1>4. /\ o.pc = "steps" /\ o.handle = 0 /\ o.call = 0
      /\ o.used = k.used /\ o.owned = k.owned /\ o.todo = {}
  BY <1>1, <1>3 DEF Tasks
<1> HIDE DEF s, o
<1>5. Shape(s) /\ Held(s) \subseteq Held(k) /\ Using(s) \subseteq Using(k)
  BY <1>1, <1>3, LetsGo
<1>6. Shape(o) /\ Held(o) \subseteq Held(k) /\ Using(o) \subseteq Using(k)
  BY <1>1, <1>4, LetsGo
<1> QED
  BY <1>1, <1>3, <1>4, <1>5, <1>6 DEF s, o

\* Going on behind a reset or a drop learns no new handle.
LEMMA OnwardIs ==
  ASSUME NEW k \in Tasks, Shape(k), k.pc \in {"reset", "drop"}
  PROVE  /\ Onward(k) \in Tasks /\ Shape(Onward(k)) /\ ~Fresh(Onward(k))
         /\ Held(Onward(k)) \subseteq Held(k) /\ Using(Onward(k)) \subseteq Using(k)
         /\ Onward(k).pc = "drop" => Onward(k) = k
<1>1. CASE k.todo # {} \/ k.call # 0
  BY <1>1 DEF Onward, Fresh
<1>2. CASE k.todo = {} /\ k.call = 0 /\ k.pc = "reset"
  <2> DEFINE o == [k EXCEPT !.pc = "steps"]
  <2>1. Onward(k) = o
    BY <1>2 DEF Onward
  <2>2. o \in Tasks
    BY FieldTyped DEF FilePcs
  <2>3. /\ o.pc = "steps" /\ o.handle = k.handle /\ o.call = 0 /\ o.todo = {}
        /\ o.used = k.used /\ o.owned = k.owned
    BY <1>2 DEF Tasks
  <2> HIDE DEF o
  <2>4. Shape(o) /\ Held(o) \subseteq Held(k) /\ Using(o) \subseteq Using(k) /\ ~Fresh(o)
    BY <2>2, <2>3, LetsGo
  <2> QED
    BY <2>1, <2>2, <2>3, <2>4
<1>3. CASE k.todo = {} /\ k.call = 0 /\ k.pc = "drop" /\ k.then = "done"
  <2>1. Onward(k) = FileAt("done") /\ FileAt("done").pc = "done"
    BY <1>3 DEF Onward, FileAt
  <2>2. FileAt("done") \in Tasks /\ Shape(FileAt("done"))
        /\ Held(FileAt("done")) = {} /\ Using(FileAt("done")) = {}
    BY EmptyTask DEF FilePcs
  <2> QED
    BY <2>1, <2>2 DEF Fresh
<1>4. CASE k.todo = {} /\ k.call = 0 /\ k.pc = "drop" /\ k.then = "steps"
  <2>1. Onward(k) = [StepOver(k, TRUE) EXCEPT !.then = "none"]
    BY <1>4 DEF Onward
  <2> QED
    BY <1>4, <2>1, OverIs DEF Fresh
<1>5. CASE k.todo = {} /\ k.call = 0 /\ k.pc = "drop" /\ k.then = "dispatch"
  <2> DEFINE o == [k EXCEPT !.pc = "dispatch", !.then = "none"]
  <2>1. Onward(k) = o
    BY <1>5 DEF Onward
  <2>2. o \in Tasks
    BY DEF Tasks, FilePcs
  <2>3. /\ o.pc = "dispatch" /\ o.handle = k.handle /\ o.call = 0 /\ o.todo = {}
        /\ o.used = k.used /\ o.owned = k.owned /\ o.inst = k.inst /\ o.created = k.created
    BY <1>5 DEF Tasks
  <2> HIDE DEF o
  <2>4. Cached(o) = Cached(k)
    BY <2>3 DEF Cached
  <2>5. Held(o) \subseteq Held(k) /\ Using(o) \subseteq Using(k) /\ ~Fresh(o)
    BY <1>5, <2>3, <2>4 DEF Held, Using, AtStep, Fresh
  <2>6. Shape(o)
    BY <1>5, <2>3, <2>4 DEF Shape, Fresh, AtStep, Stepping
  <2> QED
    BY <2>1, <2>2, <2>3, <2>5, <2>6
<1> QED
  BY <1>1, <1>2, <1>3, <1>4, <1>5 DEF Shape

-----------------------------------------------------------------------------
\* A handle in a file's hand is one that was created.
LEMMA HeldCreated ==
  ASSUME LifeInv, NEW f \in Files
  PROVE  Held(file[f]) \subseteq Handles /\ 0 \notin Held(file[f])
         /\ Using(file[f]) \subseteq Held(file[f])
         /\ Disposing(file[f]) \subseteq Held(file[f])
<1>1. file[f] \in Tasks /\ Shape(file[f])
  BY DEF LifeInv, Types, FileOK
<1>2. Cached(file[f]) \subseteq Handles
  BY <1>1 DEF Tasks, Cached
<1>3. Held(file[f]) \subseteq Handles /\ 0 \notin Held(file[f])
  BY <1>1, <1>2, NoHandle DEF Tasks, Held
<1>4. AtStep(file[f]) => file[f].handle # 0
  BY <1>1 DEF Shape
<1>5. Using(file[f]) \subseteq Held(file[f])
  BY <1>4 DEF Using, Held, Cached
<1>6. Disposing(file[f]) \subseteq Held(file[f])
  BY DEF Disposing, Held
<1> QED
  BY <1>3, <1>5, <1>6

\* While a file runs and no interrupt came, the sweep has not begun.
LEMMA NotSwept ==
  ASSUME LifeInv, ~interrupted, NEW f \in Files, file[f].pc \notin {"done", "panicked"}
  PROVE  sweeper = "idle"
BY DEF LifeInv, Swept

\* What a file is dropping, no file will call.
LEMMA DisposedUnused ==
  ASSUME LifeInv, NEW f \in Files, NEW h \in Disposing(file[f])
  PROVE  /\ \A g \in Files : Fresh(file[g]) => file[g].handle # h
         /\ ~interrupted => /\ \A g \in Files : h \notin Using(file[g])
                            /\ \A i \in Instances : shared[i] # h
<1> DEFINE t == file[f]
<1>1. t \in Tasks /\ Shape(t) /\ Sound(t) /\ t.pc = "drop"
  BY DEF LifeInv, Types, FileOK, Disposing
<1>2. h \in Held(t) /\ h # 0
  BY HeldCreated
<1>3. \A g \in Files : Fresh(file[g]) => file[g].handle # h
  <2> SUFFICES ASSUME NEW g \in Files, Fresh(file[g]) PROVE file[g].handle # h
    OBVIOUS
  <2>1. g # f
    BY <1>1 DEF Fresh
  <2> QED
    BY <1>2, <2>1 DEF LifeInv, Apart
<1>4. ASSUME ~interrupted, PerWorker(owner[h])
      PROVE  /\ \A g \in Files : h \notin Using(file[g])
             /\ \A i \in Instances : shared[i] # h
  <2>1. \A i \in Instances : shared[i] # h
    BY <1>2, <1>4 DEF LifeInv, Published
  <2>2. ASSUME NEW g \in Files, g # f PROVE h \notin Using(file[g])
    BY <1>2, <1>4, <2>2, HeldCreated DEF LifeInv, Apart
  <2>3. h \notin Using(t)
    <3>1. CASE t.then = "done"
      BY <1>1, <3>1 DEF Using, AtStep, Shape
    <3>2. CASE t.then # "done"
      <4>1. t.inst \in Instances /\ t.used[t.inst] = 0 /\ owner[h] = t.inst /\ t.then = "steps"
        BY <1>1, <1>4, <3>2 DEF Shape
      <4>2. h \notin Cached(t)
        BY <1>1, <1>2, <4>1 DEF Cached, Shape
      <4> QED
        BY <1>1, <4>1, <4>2 DEF Using, AtStep
    <3> QED
      BY <3>1, <3>2
  <2> QED
    BY <2>1, <2>2, <2>3
<1>5. ASSUME ~interrupted, ~PerWorker(owner[h])
      PROVE  /\ \A g \in Files : h \notin Using(file[g])
             /\ \A i \in Instances : shared[i] # h
  <2>1. /\ t.then = "dispatch" /\ owner[h] = t.inst
        /\ t.handle # h /\ t.handle # 0 /\ owner[t.handle] = t.inst
    BY <1>1, <1>5 DEF Shape, AtStep
  <2>2. t.handle \in Using(t)
    BY <1>1, <2>1 DEF Using, AtStep
  <2>3. shared[t.inst] = t.handle
    BY <1>1, <1>5, <2>1, <2>2 DEF Sound
  <2>4. \A i \in Instances : shared[i] # h
    BY <1>2, <2>1, <2>3 DEF LifeInv, Published
  <2>5. \A g \in Files : h \notin Using(file[g])
    BY <1>5, <2>1, <2>3 DEF LifeInv, FileOK, Sound
  <2> QED
    BY <2>4, <2>5
<1> QED
  BY <1>3, <1>4, <1>5

\* The shape of a task depends on the owners of the handles it holds.
LEMMA ShapeKept ==
  ASSUME NEW g \in Files, NEW k \in Tasks, Shape(k), file'[g] = k, UNCHANGED declared,
         \A h \in Held(k) : owner'[h] = owner[h]
  PROVE  Shape(file[g])'
<1>1. /\ \A i \in Instances : k.used[i] # 0 => owner'[k.used[i]] = owner[k.used[i]]
      /\ k.handle # 0 => owner'[k.handle] = owner[k.handle]
  BY DEF Held, Cached
<1>2. \A h \in k.owned : owner'[h] = owner[h]
  BY NoHandle DEF Held, Tasks
<1>3. \A h \in Disposing(k) : owner'[h] = owner[h]
  BY DEF Held, Disposing
<1> QED
  BY <1>1, <1>2, <1>3 DEF Shape, Cached, AtStep, Disposing, Fresh, PerWorker, Stepping

\* The handles the run has published.
Known == {shared[i] : i \in Instances}

\* A step of a file that learns no handle but a published one, and takes none
\* from the registry but what it drops.
LEMMA FileMoves ==
  ASSUME LifeInv, NEW f \in Files, NEW k \in Tasks,
         file' = [file EXCEPT ![f] = k],
         UNCHANGED <<declared, shared, owner, sweeper, sweepTodo, sweepCall, interrupted>>,
         file[f].pc \notin {"done", "panicked"},
         Shape(k), ~Fresh(k),
         Held(k) \subseteq Held(file[f]) \cup Known,
         Using(k) \subseteq Using(file[f]) \cup Known,
         registry' \subseteq registry, registry \ registry' \subseteq Disposing(file[f]),
         life' \in [Handles -> {"none", "live", "dropped"}],
         \A h \in Handles : life'[h] # life[h] =>
           life'[h] = "dropped" /\ file[f].pc = "drop" /\ h = file[f].call,
         k.pc = "drop" /\ k.call # 0 => k.call \in registry \ registry'
  PROVE  LifeInv'
<1> DEFINE t(g) == IF g = f THEN k ELSE file[g]
<1>1. Types' /\ \A g \in Files : file'[g] = t(g)
  BY DEF LifeInv, Types
<1>2. \A g \in Files : t(g) \in Tasks /\ Shape(t(g)) /\ (Fresh(t(g)) => g # f)
  BY DEF LifeInv, Types, FileOK
<1>3. ~interrupted => sweeper = "idle"
  BY NotSwept
<1>4. ASSUME NEW h \in Handles, life[h] = "live", life'[h] # "live"
      PROVE  h \notin registry /\ file[f].pc = "drop" /\ h = file[f].call /\ h # 0
             /\ h \in Disposing(file[f])
             /\ sweepCall # h
  BY <1>4, NoHandle DEF LifeInv, FileOK, Disposing
<1>5. \A h \in Handles : life[h] # "none" => life'[h] # "none"
  BY DEF LifeInv, Types
<1>6. \A h \in registry : h \in Handles /\ life[h] = "live"
  BY DEF LifeInv, Types, Registered
<1>7. Registered'
  BY <1>4, <1>6 DEF Registered
<1>8. \A h \in Known : h # 0 => /\ h \in Handles /\ ~PerWorker(owner[h]) /\ shared[owner[h]] = h
                                /\ life[h] # "none" /\ owner[h] \in Instances
                                /\ ~interrupted => h \in registry /\ h \in registry'
  BY <1>3, DisposedUnused DEF LifeInv, Published, Known, Types
<1>9. Published'
  <2> SUFFICES ASSUME NEW i \in Instances, shared[i] # 0
               PROVE  /\ ~PerWorker(i) /\ owner[shared[i]] = i /\ life'[shared[i]] # "none"
                      /\ ~interrupted /\ sweeper = "idle" => shared[i] \in registry'
    BY DEF Published, PerWorker
  <2>1. ~PerWorker(i) /\ owner[shared[i]] = i
    BY DEF LifeInv, Published
  <2>2. shared[i] \in Known
    BY DEF Known
  <2> QED
    BY <1>5, <1>8, <2>1, <2>2
<1>10. Swept'
  <2>1. sweepCall # 0 => sweepCall \in Handles /\ life[sweepCall] = "live" /\ sweepCall \notin registry
    BY DEF LifeInv, Swept, Types
  <2>2. sweepCall # 0 => life'[sweepCall] = "live" /\ sweepCall \notin registry'
    BY <1>4, <2>1
  <2>3. UNCHANGED <<sweeper, sweepCall, interrupted>> /\ (sweepCall # 0 => sweeper # "idle")
    BY DEF LifeInv, Swept
  <2> QED
    BY <1>3, <2>2, <2>3 DEF Swept
<1>11. ASSUME NEW g \in Files
       PROVE  /\ Held(t(g)) \subseteq Handles /\ 0 \notin Held(t(g))
              /\ \A h \in Held(t(g)) : life[h] # "none"
  <2>1. 0 \notin Held(k)
    BY DEF Held
  <2> QED
    BY <1>8, <2>1, HeldCreated DEF LifeInv, FileOK
<1>12. ASSUME NEW g \in Files, ~interrupted, NEW h \in Using(t(g))
       PROVE  h \in registry' /\ (PerWorker(owner[h]) \/ shared[owner[h]] = h)
  <2>1. h # 0
    BY <1>2 DEF Using, Cached, Shape
  <2>2. CASE h \in Known
    BY <1>8, <1>12, <2>1, <2>2
  <2>3. CASE h \notin Known
    <3>1. PICK e \in Files : h \in Using(file[e])
      BY <2>3
    <3>2. h \in registry /\ (PerWorker(owner[h]) \/ shared[owner[h]] = h)
      BY <1>12, <3>1 DEF LifeInv, FileOK, Sound
    <3> QED
      BY <1>12, <3>1, <3>2, DisposedUnused
  <2> QED
    BY <2>2, <2>3
<1>13. ASSUME NEW g \in Files, Fresh(t(g))
       PROVE  /\ g # f /\ t(g) = file[g] /\ t(g).handle \in Held(file[g]) /\ t(g).handle \notin Known
              /\ t(g).handle \notin Held(file[f])
  BY <1>2, <1>13 DEF LifeInv, FileOK, Apart, Held, Shape, Known
<1> HIDE DEF t
<1>14. ASSUME NEW g \in Files PROVE FileOK(file[g])'
  <2>1. Shape(file[g])'
    BY <1>1, <1>2, ShapeKept
  <2>2. Sound(file[g])'
    <3>1. \A h \in Using(file[g])' : h \in Using(t(g))
      BY <1>1 DEF Using, Cached, AtStep
    <3>2. ~interrupted /\ t(g).pc = "publish" => t(g).handle \in registry'
      <4> SUFFICES ASSUME ~interrupted, t(g).pc = "publish" PROVE t(g).handle \in registry'
        OBVIOUS
      <4>1. Fresh(t(g)) /\ t(g) = file[g]
        BY <1>13 DEF Fresh
      <4> QED
        BY <4>1, DisposedUnused DEF LifeInv, FileOK, Sound
    <3> QED
      BY <1>1, <1>12, <3>1, <3>2 DEF Sound, PerWorker
  <2>3. \A h \in Held(file[g])' : life'[h] # "none"
    <3>1. Held(file[g])' = Held(t(g))
      BY <1>1 DEF Held, Cached
    <3> QED
      BY <1>5, <1>11, <3>1
  <2>4. t(g).pc = "drop" /\ t(g).call # 0 =>
          life'[t(g).call] = "live" /\ t(g).call \notin registry' /\ sweepCall # t(g).call
    <3>1. CASE g = f
      <4>1. t(g) = k
        BY <3>1 DEF t
      <4> QED
        BY <1>4, <1>6, <4>1 DEF LifeInv, Swept
    <3>2. CASE g # f
      <4>1. t(g) = file[g]
        BY <3>2 DEF t
      <4>2. file[g].pc = "drop" /\ file[g].call # 0 =>
              /\ life[file[g].call] = "live" /\ file[g].call \notin registry /\ sweepCall # file[g].call
              /\ ~(file[f].pc = "drop" /\ file[f].call = file[g].call) /\ file[g].call \in Handles
        BY <3>2 DEF LifeInv, FileOK, Apart, Types, Tasks
      <4> QED
        BY <4>1, <4>2, <1>4
    <3> QED
      BY <3>1, <3>2
  <2>5. t(g).pc = "register" =>
          life'[t(g).handle] = "live" /\ t(g).handle \notin registry' /\ sweepCall # t(g).handle
    <3> SUFFICES ASSUME t(g).pc = "register"
                 PROVE  life'[t(g).handle] = "live" /\ t(g).handle \notin registry'
                        /\ sweepCall # t(g).handle
      OBVIOUS
    <3>1. Fresh(t(g))
      BY DEF Fresh
    <3>2. t(g) = file[g] /\ t(g).handle \notin Held(file[f]) /\ t(g).handle \in Held(file[g])
      BY <1>13, <3>1
    <3>3. life[t(g).handle] = "live" /\ t(g).handle \notin registry /\ sweepCall # t(g).handle
      BY <3>2 DEF LifeInv, FileOK
    <3> QED
      BY <1>4, <3>2, <3>3, HeldCreated
  <2>6. Fresh(t(g)) => \A i \in Instances : shared[i] # t(g).handle
    BY <1>13 DEF Known
  <2> QED
    BY <1>1, <2>1, <2>2, <2>3, <2>4, <2>5, <2>6 DEF FileOK, Fresh
<1>15. ASSUME NEW g \in Files, NEW e \in Files, g # e PROVE Apart(file[g], file[e])'
  <2>1. Held(file[g])' = Held(t(g)) /\ Held(file[e])' = Held(t(e))
    BY <1>1 DEF Held, Cached
  <2>2. ASSUME NEW h \in Held(t(g)) \cap Held(t(e)) PROVE ~PerWorker(owner[h])
    <3>1. h \in Known \/ h \in Held(file[g]) \cap Held(file[e])
      BY <2>2 DEF t
    <3>2. h # 0
      BY <1>11
    <3> QED
      BY <1>8, <1>15, <3>1, <3>2 DEF LifeInv, Apart
  <2>3. Fresh(t(g)) => t(g).handle \notin Held(t(e))
    <3> SUFFICES ASSUME Fresh(t(g)), t(g).handle \in Held(t(e)) PROVE FALSE
      OBVIOUS
    <3>1. t(g) = file[g] /\ t(g).handle \notin Known
      BY <1>13
    <3>2. t(g).handle \in Held(file[e])
      BY <3>1 DEF t
    <3> QED
      BY <1>15, <3>1, <3>2 DEF LifeInv, Apart
  <2>4. t(g).pc = "drop" /\ t(e).pc = "drop" /\ t(g).call = t(e).call => t(g).call = 0
    <3>1. CASE g = f
      <4>1. t(g) = k /\ t(e) = file[e]
        BY <1>15, <3>1 DEF t
      <4> QED
        BY <4>1 DEF LifeInv, FileOK
    <3>2. CASE e = f
      <4>1. t(e) = k /\ t(g) = file[g]
        BY <1>15, <3>2 DEF t
      <4> QED
        BY <4>1 DEF LifeInv, FileOK
    <3>3. CASE g # f /\ e # f
      BY <1>15, <3>3 DEF t, LifeInv, Apart
    <3> QED
      BY <3>1, <3>2, <3>3
  <2> QED
    BY <1>1, <2>1, <2>2, <2>3, <2>4 DEF Apart, PerWorker, Fresh
<1> QED
  BY <1>1, <1>7, <1>9, <1>10, <1>14, <1>15 DEF LifeInv

\* Such a step that calls and drops nothing.
LEMMA FileGoes ==
  ASSUME LifeInv, NEW f \in Files, NEW k \in Tasks,
         file' = [file EXCEPT ![f] = k],
         UNCHANGED <<hostVars, sweeper, sweepTodo, sweepCall, interrupted>>,
         file[f].pc \notin {"done", "panicked"},
         Shape(k), ~Fresh(k),
         Held(k) \subseteq Held(file[f]) \cup Known,
         Using(k) \subseteq Using(file[f]) \cup Known,
         k.pc = "drop" => k.call = 0
  PROVE  LifeInv'
<1>1. life' \in [Handles -> {"none", "live", "dropped"}]
  BY DEF LifeInv, Types, hostVars
<1> QED
  BY <1>1, FileMoves DEF hostVars

\* The task of a file in the invariant.
LEMMA TaskIs ==
  ASSUME LifeInv, NEW f \in Files
  PROVE  file[f] \in Tasks /\ Shape(file[f]) /\ FileOK(file[f])
BY DEF LifeInv, Types, FileOK

LEMMA StartKeeps == ASSUME LifeInv, NEW f \in Files, StartFile(f) PROVE LifeInv'
<1> DEFINE k == [file[f] EXCEPT !.pc = "boundary"]
<1>1. file' = [file EXCEPT ![f] = k] /\ file[f].pc = "waiting"
  BY DEF StartFile, Becomes
<1>2. k \in Tasks
  BY TaskIs, FieldTyped DEF FilePcs
<1>3. /\ k.pc = "boundary" /\ k.call = 0 /\ k.todo = {} /\ k.handle = file[f].handle
      /\ k.used = file[f].used /\ k.owned = file[f].owned
  BY <1>1, TaskIs DEF Tasks, Shape
<1> HIDE DEF k
<1>4. Held(k) \subseteq Held(file[f]) /\ Using(k) \subseteq Using(file[f]) /\ ~Fresh(k)
  BY <1>3 DEF Held, Using, Cached, AtStep, Fresh
<1>5. Shape(k)
  BY <1>1, <1>3, TaskIs DEF Shape, AtStep, Fresh, Stepping, Cached
<1> QED
  BY <1>1, <1>2, <1>3, <1>4, <1>5, FileGoes DEF StartFile, endVars

LEMMA BeginKeeps == ASSUME LifeInv, NEW f \in Files, BeginScenario(f) PROVE LifeInv'
<1> DEFINE k == [file[f] EXCEPT !.pc = "reset", !.scenario = file[f].scenario + 1, !.todo = ToReset(f),
                                !.stale = file[f].stale \cup Answered(f), !.touched = {}]
<1>1. file' = [file EXCEPT ![f] = Onward(k)] /\ file[f].pc = "boundary"
  BY DEF BeginScenario, Becomes
<1>2. ToReset(f) \subseteq Cached(file[f]) /\ Cached(file[f]) \subseteq Handles
  BY TaskIs DEF ToReset, Cached, Tasks
<1>3. k \in Tasks
  <2>1. /\ file[f].scenario + 1 \in Nat /\ ToReset(f) \in SUBSET Handles /\ "reset" \in FilePcs
        /\ file[f].stale \cup Answered(f) \in SUBSET Handles
    BY <1>2, TaskIs DEF Tasks, FilePcs, Answered
  <2> QED
    BY <2>1, TaskIs, FieldTyped
<1>4. /\ k.pc = "reset" /\ k.call = 0 /\ k.todo = ToReset(f) /\ k.handle = file[f].handle
      /\ k.used = file[f].used /\ k.owned = file[f].owned
  BY <1>1, TaskIs DEF Tasks, Shape
<1> HIDE DEF k
<1>5. Cached(k) = Cached(file[f])
  BY <1>4 DEF Cached
<1>6. Held(k) \subseteq Held(file[f]) /\ Using(k) \subseteq Using(file[f])
  BY <1>2, <1>4, <1>5 DEF Held, Using, AtStep
<1>7. Shape(k)
  BY <1>1, <1>2, <1>4, <1>5, TaskIs DEF Shape, AtStep, Fresh, Stepping
<1> QED
  BY <1>1, <1>3, <1>4, <1>6, <1>7, OnwardIs, FileGoes DEF BeginScenario, endVars

LEMMA ResetNextKeeps == ASSUME LifeInv, NEW f \in Files, ResetNext(f) PROVE LifeInv'
<1>1. PICK h \in file[f].todo :
        file' = [file EXCEPT ![f] = Onward([file[f] EXCEPT !.todo = file[f].todo \ {h},
                                                           !.call = IF h \in registry THEN h ELSE 0])]
  BY DEF ResetNext, Becomes
<1> DEFINE c == IF h \in registry THEN h ELSE 0
           k == [file[f] EXCEPT !.todo = file[f].todo \ {h}, !.call = c]
<1>2. c \in Handles \cup {0} /\ c \in {0, h}
  BY TaskIs DEF Tasks
<1> HIDE DEF c
<1>3. k \in Tasks
  <2>1. file[f].todo \ {h} \in SUBSET Handles
    BY TaskIs DEF Tasks
  <2> QED
    BY <1>2, <2>1, TaskIs, FieldTyped
<1>4. /\ k.pc = "reset" /\ k.call = c /\ k.todo = file[f].todo \ {h} /\ k.handle = file[f].handle
      /\ k.used = file[f].used /\ k.owned = file[f].owned
  BY TaskIs DEF Tasks, ResetNext
<1> HIDE DEF k
<1>5. Cached(k) = Cached(file[f])
  BY <1>4 DEF Cached
<1>6. Held(k) \subseteq Held(file[f]) /\ Using(k) \subseteq Using(file[f])
  BY <1>2, <1>4, <1>5 DEF Held, Using, AtStep
<1>7. Shape(k)
  BY <1>2, <1>4, <1>5, TaskIs DEF Shape, AtStep, Fresh, Stepping, ResetNext
<1>8. file' = [file EXCEPT ![f] = Onward(k)]
  BY <1>1 DEF k, c
<1> QED
  BY <1>3, <1>4, <1>6, <1>7, <1>8, OnwardIs, FileGoes DEF ResetNext, endVars

LEMMA ResetReturnsKeeps == ASSUME LifeInv, NEW f \in Files, ResetReturns(f) PROVE LifeInv'
<1>1. PICK ok \in BOOLEAN :
        file' = [file EXCEPT ![f] =
          Onward([file[f] EXCEPT !.call = 0,
                                 !.stale = IF ok THEN file[f].stale \ {file[f].call} ELSE file[f].stale,
                                 !.failed = file[f].failed \/ ~ok])]
  BY DEF ResetReturns, Becomes, Unreset
<1> DEFINE left == IF ok THEN file[f].stale \ {file[f].call} ELSE file[f].stale
           k == [file[f] EXCEPT !.call = 0, !.stale = left, !.failed = file[f].failed \/ ~ok]
<1>2. left \in SUBSET Handles
  BY TaskIs DEF Tasks
<1>3. file' = [file EXCEPT ![f] = Onward(k)]
  BY <1>1
<1> HIDE DEF left
<1>4. k \in Tasks
  <2>1. (file[f].failed \/ ~ok) \in BOOLEAN
    OBVIOUS
  <2> QED
    BY <1>2, <2>1, TaskIs, FieldTyped
<1>5. /\ k.pc = "reset" /\ k.call = 0 /\ k.todo = file[f].todo /\ k.handle = file[f].handle
      /\ k.used = file[f].used /\ k.owned = file[f].owned
  BY TaskIs DEF Tasks, ResetReturns
<1> HIDE DEF k
<1>6. Cached(k) = Cached(file[f])
  BY <1>5 DEF Cached
<1>7. Held(k) \subseteq Held(file[f]) /\ Using(k) \subseteq Using(file[f])
  BY <1>5, <1>6 DEF Held, Using, AtStep
<1>8. Shape(k)
  BY <1>5, <1>6, TaskIs DEF Shape, AtStep, Fresh, Stepping, ResetReturns
<1> QED
  BY <1>3, <1>4, <1>5, <1>7, <1>8, OnwardIs, FileGoes DEF ResetReturns, endVars

LEMMA StepKeeps == ASSUME LifeInv, NEW f \in Files, PluginStep(f) PROVE LifeInv'
<1>1. file[f].pc = "steps" /\ file[f].call = 0 /\ file[f].todo = {} /\ file[f] \in Tasks
  BY TaskIs DEF PluginStep, Shape
<1>2. PICK i \in Instances :
        file' = [file EXCEPT ![f] = [file[f] EXCEPT
          !.steps = file[f].steps + 1, !.inst = i, !.handle = file[f].used[i],
          !.created = file[f].used[i] = 0 /\ PerWorker(i),
          !.pc = IF file[f].used[i] # 0 THEN "dispatch"
                 ELSE IF PerWorker(i) THEN "init" ELSE "lookup"]]
  BY DEF PluginStep, Becomes
<1> DEFINE u == file[f].used[i]
           new == u = 0 /\ PerWorker(i)
           pc == IF u # 0 THEN "dispatch" ELSE IF PerWorker(i) THEN "init" ELSE "lookup"
           k == [file[f] EXCEPT !.steps = file[f].steps + 1, !.inst = i, !.handle = u,
                                !.created = new, !.pc = pc]
<1>3. u \in Handles \cup {0} /\ new \in BOOLEAN /\ pc \in FilePcs
  BY <1>1 DEF Tasks, FilePcs
<1>4. k \in Tasks
  <2>1. file[f].steps + 1 \in Nat
    BY <1>1 DEF Tasks
  <2> HIDE DEF u, new, pc
  <2> QED
    BY <1>1, <1>3, <2>1, FieldTyped
<1>5. /\ k.call = 0 /\ k.todo = {} /\ k.used = file[f].used /\ k.owned = file[f].owned
      /\ k.handle = u /\ k.inst = i /\ k.created = new /\ k.pc = pc
  BY <1>1 DEF Tasks
<1>6. /\ pc \in {"dispatch", "init", "lookup"} /\ (pc = "dispatch" <=> u # 0)
      /\ (pc = "lookup" => ~PerWorker(i)) /\ (new => u = 0 /\ PerWorker(i))
  OBVIOUS
<1>7. u # 0 => u \in Cached(file[f]) /\ owner[u] = i
  BY TaskIs DEF Cached, Shape
<1>8. k.used[i] = u
  BY <1>5
<1>12. file' = [file EXCEPT ![f] = k]
  BY <1>2
<1> HIDE DEF k, pc, new, u
<1>9. Cached(k) = Cached(file[f])
  BY <1>5 DEF Cached
<1>10. Held(k) \subseteq Held(file[f]) /\ Using(k) \subseteq Using(file[f]) /\ ~Fresh(k)
  BY <1>5, <1>6, <1>7, <1>9 DEF Held, Using, AtStep, Fresh
<1>11. Shape(k)
  BY <1>5, <1>6, <1>7, <1>8, <1>9, TaskIs DEF Shape, AtStep, Fresh, Stepping
<1> QED
  BY <1>1, <1>4, <1>5, <1>6, <1>10, <1>11, <1>12, FileGoes DEF PluginStep, endVars

LEMMA LookupKeeps == ASSUME LifeInv, NEW f \in Files, SharedLookup(f) PROVE LifeInv'
<1> DEFINE h == shared[file[f].inst]
           pc == IF h # 0 THEN "dispatch" ELSE "init"
           k == [file[f] EXCEPT !.handle = h, !.pc = pc]
<1>1. /\ file[f].pc = "lookup" /\ file[f].call = 0 /\ file[f].todo = {} /\ file[f] \in Tasks
      /\ file[f].inst \in Instances /\ file[f].used[file[f].inst] = 0 /\ ~PerWorker(file[f].inst)
      /\ ~file[f].created
  BY TaskIs DEF SharedLookup, Shape, Stepping
<1>2. file' = [file EXCEPT ![f] = k]
  BY DEF SharedLookup, Becomes
<1>3. h \in Handles \cup {0} /\ h \in Known
  BY <1>1 DEF LifeInv, Types, Known
<1>4. h # 0 => owner[h] = file[f].inst
  BY <1>1 DEF LifeInv, Published
<1>5. k \in Tasks
  <2>1. pc \in FilePcs
    BY DEF FilePcs
  <2> HIDE DEF h, pc
  <2> QED
    BY <1>1, <1>3, <2>1, FieldTyped
<1>6. /\ k.call = 0 /\ k.todo = {} /\ k.used = file[f].used /\ k.owned = file[f].owned
      /\ k.handle = h /\ k.inst = file[f].inst /\ k.created = file[f].created /\ k.pc = pc
  BY <1>1 DEF Tasks
<1>7. pc \in {"dispatch", "init"} /\ (pc = "dispatch" <=> h # 0)
  OBVIOUS
<1> HIDE DEF k, pc, h
<1>8. Cached(k) = Cached(file[f])
  BY <1>6 DEF Cached
<1>9. Held(k) \subseteq Held(file[f]) \cup Known
  BY <1>3, <1>6, <1>8 DEF Held
<1>10. Using(k) \subseteq Using(file[f]) \cup Known /\ ~Fresh(k)
  BY <1>3, <1>6, <1>7, <1>8 DEF Using, AtStep, Fresh
<1>11. Shape(k)
  BY <1>1, <1>4, <1>6, <1>7, <1>8, TaskIs DEF Shape, AtStep, Fresh, Stepping
<1> QED
  BY <1>1, <1>2, <1>5, <1>6, <1>7, <1>9, <1>10, <1>11, FileGoes DEF SharedLookup, endVars

LEMMA DispatchKeeps == ASSUME LifeInv, NEW f \in Files, Dispatch(f) PROVE LifeInv'
<1> DEFINE k == [file[f] EXCEPT !.pc = "calling", !.call = file[f].handle]
<1>1. file[f].pc = "dispatch" /\ file[f] \in Tasks /\ file[f].todo = {}
  BY TaskIs DEF Dispatch, Shape
<1>2. file' = [file EXCEPT ![f] = k]
  BY DEF Dispatch, Becomes
<1>3. k \in Tasks
  BY <1>1 DEF Tasks, FilePcs
<1>4. /\ k.pc = "calling" /\ k.call = file[f].handle /\ k.todo = {} /\ k.handle = file[f].handle
      /\ k.used = file[f].used /\ k.owned = file[f].owned /\ k.inst = file[f].inst
      /\ k.created = file[f].created
  BY <1>1 DEF Tasks
<1> HIDE DEF k
<1>5. Cached(k) = Cached(file[f])
  BY <1>4 DEF Cached
<1>6. Held(k) \subseteq Held(file[f]) /\ Using(k) \subseteq Using(file[f]) /\ ~Fresh(k)
  BY <1>1, <1>4, <1>5 DEF Held, Using, AtStep, Fresh
<1>7. Shape(k)
  BY <1>1, <1>4, <1>5, TaskIs DEF Shape, AtStep, Fresh, Stepping
<1> QED
  BY <1>1, <1>2, <1>3, <1>4, <1>6, <1>7, FileGoes DEF Dispatch, endVars

LEMMA DispatchReturnsKeeps == ASSUME LifeInv, NEW f \in Files, DispatchReturns(f) PROVE LifeInv'
<1> DEFINE h == file[f].handle
           i == file[f].inst
           t == [file[f] EXCEPT !.touched = file[f].touched \cup {h}]
           owned == IF PerWorker(i) THEN t.owned \cup {h} ELSE t.owned
           recorded == [t EXCEPT !.used = [t.used EXCEPT ![i] = h], !.owned = owned]
           undone == [file[f] EXCEPT !.pc = "drop", !.todo = {h}, !.call = 0, !.then = "steps"]
<1>1. /\ file[f].pc = "calling" /\ file[f] \in Tasks /\ Shape(file[f]) /\ file[f].todo = {}
      /\ i \in Instances /\ h # 0 /\ h \in Handles /\ owner[h] = i /\ file[f].used[i] \in {0, h}
      /\ file[f].created => file[f].used[i] = 0 /\ PerWorker(i)
  <2>1. file[f].pc = "calling" /\ file[f] \in Tasks /\ Shape(file[f])
    BY TaskIs DEF DispatchReturns
  <2> QED
    BY <2>1 DEF Shape, Stepping, AtStep, Tasks
<1>2. \/ \E failed \in BOOLEAN :
           file' = [file EXCEPT ![f] = StepOver(IF t.used[i] = 0 THEN recorded ELSE t, failed)]
      \/ file[f].created /\ file' = [file EXCEPT ![f] = undone]
      \/ ~file[f].created /\ file' = [file EXCEPT ![f] = StepOver(t, TRUE)]
  BY DEF DispatchReturns, Becomes
<1>3. t \in Tasks
  <2>1. file[f].touched \cup {h} \in SUBSET Handles
    BY <1>1 DEF Tasks
  <2> QED
    BY <1>1, <2>1, FieldTyped
<1>4. /\ t.pc = "calling" /\ t.call = file[f].call /\ t.handle = h /\ t.inst = i /\ t.todo = {}
      /\ t.used = file[f].used /\ t.owned = file[f].owned /\ t.created = file[f].created
  BY <1>1 DEF Tasks
<1> HIDE DEF t
<1>5. Cached(t) = Cached(file[f])
  BY <1>4 DEF Cached
<1>6. Held(t) = Held(file[f]) /\ Using(t) = Using(file[f])
  BY <1>1, <1>4, <1>5 DEF Held, Using, AtStep
<1>7. Shape(t)
  BY <1>1, <1>4, <1>5 DEF Shape, AtStep, Fresh, Stepping
<1>8. h \in Held(t) /\ h \in Using(t)
  BY <1>1, <1>4 DEF Held, Using, AtStep
<1>9. UNCHANGED <<hostVars, sweeper, sweepTodo, sweepCall, interrupted>>
      /\ file[f].pc \notin {"done", "panicked"}
  BY <1>1 DEF DispatchReturns, endVars
\* Whatever is over: a file at its steps again, with no more than it held.
<1>10. ASSUME NEW x \in Tasks, Shape(x), x.pc = "calling", NEW failed \in BOOLEAN,
              Held(x) \subseteq Held(t), Using(x) \subseteq Using(t),
              file' = [file EXCEPT ![f] = StepOver(x, failed)]
       PROVE  LifeInv'
  <2>1. /\ StepOver(x, failed) \in Tasks /\ Shape(StepOver(x, failed))
        /\ StepOver(x, failed).pc = "steps"
        /\ Held(StepOver(x, failed)) \subseteq Held(x) /\ Using(StepOver(x, failed)) \subseteq Using(x)
    BY <1>10, OverIs DEF Stepping
  <2>2. ~Fresh(StepOver(x, failed))
    BY <2>1 DEF Fresh
  <2> QED
    BY <1>6, <1>9, <1>10, <2>1, <2>2, FileGoes
<1>11. CASE file[f].created /\ file' = [file EXCEPT ![f] = undone]
  <2>1. undone \in Tasks
    <3>1. {h} \in SUBSET Handles /\ "drop" \in FilePcs /\ 0 \in Handles \cup {0}
      BY <1>1 DEF FilePcs
    <3> HIDE DEF h
    <3> QED
      BY <1>1, <3>1, FieldTyped
  <2>2. /\ undone.pc = "drop" /\ undone.todo = {h} /\ undone.call = 0 /\ undone.then = "steps"
        /\ undone.handle = h /\ undone.inst = i /\ undone.used = file[f].used
        /\ undone.owned = file[f].owned
    BY <1>1 DEF Tasks
  <2>3. undone.used[i] = 0
    BY <1>1, <1>11, <2>2
  <2> HIDE DEF undone
  <2>4. Cached(undone) = Cached(file[f]) /\ Disposing(undone) = {h}
    BY <1>1, <2>2 DEF Cached, Disposing
  <2>5. Held(undone) \subseteq Held(file[f]) /\ Using(undone) \subseteq Using(file[f]) /\ ~Fresh(undone)
    BY <2>2, <2>4 DEF Held, Using, AtStep, Fresh
  <2>6. Shape(undone)
    BY <1>1, <1>11, <2>2, <2>3, <2>4 DEF Shape, AtStep, Fresh, Stepping
  <2> QED
    BY <1>9, <1>11, <2>1, <2>2, <2>5, <2>6, FileGoes
<1>12. CASE \E failed \in BOOLEAN :
              file' = [file EXCEPT ![f] = StepOver(IF t.used[i] = 0 THEN recorded ELSE t, failed)]
  <2> PICK failed \in BOOLEAN :
         file' = [file EXCEPT ![f] = StepOver(IF t.used[i] = 0 THEN recorded ELSE t, failed)]
    BY <1>12
  <2>1. CASE t.used[i] # 0
    BY <1>3, <1>4, <1>7, <1>10, <2>1
  <2>2. CASE t.used[i] = 0
    <3>1. owned \in SUBSET Handles /\ [t.used EXCEPT ![i] = h] \in [Instances -> Handles \cup {0}]
      BY <1>1, <1>3 DEF Tasks
    <3> HIDE DEF h, owned
    <3>2. recorded \in Tasks
      BY <1>3, <3>1, FieldTyped
    <3>3. /\ recorded.pc = "calling" /\ recorded.call = t.call /\ recorded.handle = h
          /\ recorded.inst = i /\ recorded.todo = {} /\ recorded.created = t.created
          /\ recorded.used = [t.used EXCEPT ![i] = h] /\ recorded.owned = owned
      BY <1>3, <1>4 DEF Tasks
    <3> HIDE DEF recorded
    <3>4. Cached(recorded) \subseteq Cached(t) \cup {h}
      BY <1>1, <1>3, <3>3 DEF Cached, Tasks
    <3>5. Held(recorded) \subseteq Held(t) /\ Using(recorded) \subseteq Using(t)
      BY <1>4, <1>8, <3>3, <3>4 DEF Held, Using, AtStep, owned
    <3> DEFINE back == StepOver(recorded, failed)
    <3>6. back \in Tasks
      BY <3>2, OverTyped
    <3>7. /\ back.pc = "steps" /\ back.handle = 0 /\ back.call = 0 /\ back.todo = {}
          /\ back.used = [t.used EXCEPT ![i] = h] /\ back.owned = owned
      BY <3>2, <3>3 DEF StepOver, Tasks
    <3>8. file' = [file EXCEPT ![f] = back]
      BY <2>2
    <3> HIDE DEF back
    <3>9. Cached(back) = Cached(recorded)
      BY <3>3, <3>7 DEF Cached
    <3>10. Held(back) \subseteq Held(recorded) /\ Using(back) \subseteq Using(recorded) /\ ~Fresh(back)
      BY <3>3, <3>7, <3>9 DEF Held, Using, AtStep, Fresh
    <3>11. \A j \in Instances : back.used[j] # 0 => owner[back.used[j]] = j
      <4> SUFFICES ASSUME NEW j \in Instances, back.used[j] # 0 PROVE owner[back.used[j]] = j
        OBVIOUS
      <4>1. CASE j = i
        BY <1>1, <1>3, <3>7, <4>1 DEF Tasks
      <4>2. CASE j # i
        BY <1>1, <1>3, <1>4, <3>7, <4>2 DEF Shape, Tasks
      <4> QED
        BY <4>1, <4>2
    <3>12. \A g \in back.owned : PerWorker(owner[g])
      BY <1>1, <1>4, <3>7 DEF Shape, owned
    <3>13. Shape(back)
      BY <3>7, <3>11, <3>12 DEF Shape, AtStep, Fresh, Stepping
    <3> QED
      BY <1>6, <1>9, <3>5, <3>6, <3>7, <3>8, <3>10, <3>13, FileGoes
  <2> QED
    BY <2>1, <2>2
<1>13. CASE ~file[f].created /\ file' = [file EXCEPT ![f] = StepOver(t, TRUE)]
  BY <1>3, <1>4, <1>7, <1>10, <1>13
<1> QED
  BY <1>2, <1>11, <1>12, <1>13

LEMMA EndScenarioKeeps == ASSUME LifeInv, NEW f \in Files, EndScenario(f) PROVE LifeInv'
<1> DEFINE k == [file[f] EXCEPT !.pc = "boundary", !.steps = 0, !.failed = FALSE]
<1>1. file' = [file EXCEPT ![f] = k] /\ file[f].pc = "steps"
  BY DEF EndScenario, Becomes
<1>2. k \in Tasks
  BY TaskIs, FieldTyped DEF FilePcs
<1>3. /\ k.pc = "boundary" /\ k.call = 0 /\ k.todo = {} /\ k.handle = file[f].handle
      /\ k.used = file[f].used /\ k.owned = file[f].owned
  BY <1>1, TaskIs DEF Tasks, Shape
<1> HIDE DEF k
<1>4. Held(k) \subseteq Held(file[f]) /\ Using(k) \subseteq Using(file[f]) /\ ~Fresh(k)
  BY <1>3 DEF Held, Using, Cached, AtStep, Fresh
<1>5. Shape(k)
  BY <1>1, <1>3, TaskIs DEF Shape, AtStep, Fresh, Stepping
<1> QED
  BY <1>1, <1>2, <1>3, <1>4, <1>5, FileGoes DEF EndScenario, endVars

LEMMA PanicKeeps == ASSUME LifeInv, NEW f \in Files, PanicFile(f) PROVE LifeInv'
<1>1. FileAt("panicked") \in Tasks /\ FileAt("panicked").pc = "panicked"
  BY EmptyTask DEF FilePcs, FileAt
<1>2. /\ Shape(FileAt("panicked")) /\ Held(FileAt("panicked")) = {} /\ Using(FileAt("panicked")) = {}
      /\ ~Fresh(FileAt("panicked"))
  BY <1>1, EmptyTask DEF FilePcs, Fresh
<1>3. file' = [file EXCEPT ![f] = FileAt("panicked")] /\ file[f].pc = "steps"
  BY DEF PanicFile, Becomes
<1> QED
  BY <1>1, <1>2, <1>3, FileGoes DEF PanicFile, endVars

LEMMA EndFileKeeps == ASSUME LifeInv, NEW f \in Files, EndFile(f) PROVE LifeInv'
<1> DEFINE k == [FileAt("drop") EXCEPT !.todo = file[f].owned, !.owned = file[f].owned, !.then = "done"]
<1>1. file' = [file EXCEPT ![f] = Onward(k)] /\ file[f].pc = "boundary"
  BY DEF EndFile, Becomes
<1>2. file[f] \in Tasks /\ file[f].owned \in SUBSET Handles /\ Shape(file[f])
  BY TaskIs DEF Tasks
<1>3. FileAt("drop") \in Tasks
  BY EmptyTask DEF FilePcs
<1>4. k \in Tasks
  BY <1>2, <1>3, FieldTyped
<1>5. /\ k.pc = "drop" /\ k.call = 0 /\ k.todo = file[f].owned /\ k.owned = file[f].owned
      /\ k.handle = 0 /\ k.then = "done" /\ k.used = [i \in Instances |-> 0]
  BY DEF FileAt
<1> HIDE DEF k
<1>6. Cached(k) = {} /\ Disposing(k) \subseteq file[f].owned
  BY <1>5 DEF Cached, Disposing
<1>7. Held(k) \subseteq Held(file[f]) /\ Using(k) \subseteq Using(file[f])
  BY <1>5, <1>6 DEF Held, Using, AtStep
<1>8. Shape(k)
  BY <1>2, <1>5, <1>6 DEF Shape, AtStep, Fresh, Stepping
<1> QED
  BY <1>1, <1>4, <1>5, <1>7, <1>8, OnwardIs, FileGoes DEF EndFile, endVars

LEMMA DropNextKeeps == ASSUME LifeInv, NEW f \in Files, DropNext(f) PROVE LifeInv'
<1> PICK h \in file[f].todo :
      /\ registry' = registry \ {h}
      /\ file' = [file EXCEPT ![f] = Onward([file[f] EXCEPT !.todo = file[f].todo \ {h},
                                                            !.call = IF h \in registry THEN h ELSE 0])]
  BY DEF DropNext, Becomes
<1> DEFINE c == IF h \in registry THEN h ELSE 0
           k == [file[f] EXCEPT !.todo = file[f].todo \ {h}, !.call = c]
<1>1. file[f] \in Tasks /\ Shape(file[f]) /\ file[f].pc = "drop" /\ file[f].call = 0 /\ h \in Handles
  BY TaskIs DEF DropNext, Tasks
<1>2. c \in Handles \cup {0} /\ c \in {0, h} /\ (c # 0 => c \in registry \ registry')
  BY <1>1
<1>3. file' = [file EXCEPT ![f] = Onward(k)]
  OBVIOUS
<1> HIDE DEF c
<1>4. k \in Tasks
  <2>1. file[f].todo \ {h} \in SUBSET Handles
    BY <1>1 DEF Tasks
  <2> QED
    BY <1>1, <1>2, <2>1, FieldTyped
<1>5. /\ k.pc = "drop" /\ k.call = c /\ k.todo = file[f].todo \ {h} /\ k.handle = file[f].handle
      /\ k.used = file[f].used /\ k.owned = file[f].owned /\ k.then = file[f].then
      /\ k.inst = file[f].inst /\ k.created = file[f].created
  BY <1>1 DEF Tasks
<1> HIDE DEF k
<1>6. Cached(k) = Cached(file[f]) /\ Disposing(k) \subseteq Disposing(file[f])
      /\ h \in Disposing(file[f])
  BY <1>1, <1>2, <1>5, NoHandle DEF Cached, Disposing
<1>7. Held(k) \subseteq Held(file[f]) /\ Using(k) \subseteq Using(file[f])
  BY <1>1, <1>2, <1>5, <1>6 DEF Held, Using, AtStep
<1>8. Shape(k)
  BY <1>1, <1>2, <1>5, <1>6 DEF Shape, AtStep, Fresh, Stepping
<1>9. /\ Onward(k) \in Tasks /\ Shape(Onward(k)) /\ ~Fresh(Onward(k))
      /\ Held(Onward(k)) \subseteq Held(file[f]) /\ Using(Onward(k)) \subseteq Using(file[f])
      /\ Onward(k).pc = "drop" /\ Onward(k).call # 0 => Onward(k).call \in registry \ registry'
  BY <1>2, <1>4, <1>5, <1>7, <1>8, OnwardIs
<1>10. life' \in [Handles -> {"none", "live", "dropped"}] /\ life' = life
  BY DEF LifeInv, Types, DropNext
<1>11. registry' \subseteq registry /\ registry \ registry' \subseteq Disposing(file[f])
       /\ UNCHANGED <<declared, shared, owner, sweeper, sweepTodo, sweepCall, interrupted>>
  BY <1>6 DEF DropNext, endVars
<1> QED
  BY <1>1, <1>3, <1>9, <1>10, <1>11, FileMoves

LEMMA DropReturnsKeeps == ASSUME LifeInv, NEW f \in Files, DropReturns(f) PROVE LifeInv'
<1> DEFINE k == [file[f] EXCEPT !.call = 0]
<1>1. file[f] \in Tasks /\ Shape(file[f]) /\ file[f].pc = "drop" /\ file[f].call # 0
  BY TaskIs DEF DropReturns
<1>2. file' = [file EXCEPT ![f] = Onward(k)]
  BY DEF DropReturns, Becomes
<1>3. k \in Tasks
  BY <1>1, FieldTyped
<1>4. /\ k.pc = "drop" /\ k.call = 0 /\ k.todo = file[f].todo /\ k.handle = file[f].handle
      /\ k.used = file[f].used /\ k.owned = file[f].owned /\ k.then = file[f].then
      /\ k.inst = file[f].inst /\ k.created = file[f].created
  BY <1>1 DEF Tasks
<1> HIDE DEF k
<1>5. Cached(k) = Cached(file[f]) /\ Disposing(k) \subseteq Disposing(file[f])
  BY <1>1, <1>4 DEF Cached, Disposing
<1>6. Held(k) \subseteq Held(file[f]) /\ Using(k) \subseteq Using(file[f])
  BY <1>1, <1>4, <1>5 DEF Held, Using, AtStep
<1>7. Shape(k)
  BY <1>1, <1>4, <1>5 DEF Shape, AtStep, Fresh, Stepping
<1>8. Onward(k).pc = "drop" => Onward(k).call = 0
  BY <1>3, <1>4, <1>7, OnwardIs
<1>9. life' \in [Handles -> {"none", "live", "dropped"}]
      /\ \A h \in Handles : life'[h] # life[h] => life'[h] = "dropped" /\ h = file[f].call
  BY DEF LifeInv, Types, DropReturns
<1> QED
  BY <1>1, <1>2, <1>3, <1>4, <1>6, <1>7, <1>8, <1>9, OnwardIs, FileMoves DEF DropReturns, endVars

\* init_instance made a handle that nobody knows.
LEMMA InitReturnsKeeps == ASSUME LifeInv, NEW f \in Files, InitReturns(f) PROVE LifeInv'
<1>1. /\ file[f] \in Tasks /\ Shape(file[f]) /\ FileOK(file[f]) /\ file[f].pc = "init"
      /\ file[f].inst \in Instances /\ file[f].used[file[f].inst] = 0
      /\ file[f].call = 0 /\ file[f].todo = {}
  <2>1. file[f] \in Tasks /\ Shape(file[f]) /\ FileOK(file[f]) /\ file[f].pc = "init"
    BY TaskIs DEF InitReturns
  <2> QED
    BY <2>1 DEF Shape, Stepping, AtStep, Fresh
<1>2. UNCHANGED <<declared, shared, registry, endVars>>
  BY DEF InitReturns
<1>3. CASE Becomes(f, StepOver(file[f], TRUE)) /\ UNCHANGED <<life, owner>>
  <2> DEFINE k == StepOver(file[f], TRUE)
  <2>1. /\ k \in Tasks /\ Shape(k) /\ k.pc = "steps"
        /\ Held(k) \subseteq Held(file[f]) /\ Using(k) \subseteq Using(file[f])
    BY <1>1, OverIs DEF Stepping
  <2>2. file' = [file EXCEPT ![f] = k]
    BY <1>3 DEF Becomes
  <2> HIDE DEF k
  <2>3. ~Fresh(k)
    BY <2>1 DEF Fresh
  <2> QED
    BY <1>1, <1>2, <1>3, <2>1, <2>2, <2>3, FileGoes DEF hostVars, endVars
<1>4. ASSUME NEW h \in Handles, life[h] = "none",
             life' = [life EXCEPT ![h] = "live"],
             owner' = [owner EXCEPT ![h] = file[f].inst],
             Becomes(f, [file[f] EXCEPT !.pc = "register", !.handle = h])
      PROVE  LifeInv'
  <2> DEFINE k == [file[f] EXCEPT !.pc = "register", !.handle = h]
             t(g) == IF g = f THEN k ELSE file[g]
  <2>1. k \in Tasks
    BY <1>1, <1>4, FieldTyped DEF FilePcs
  <2>2. /\ k.pc = "register" /\ k.call = 0 /\ k.todo = {} /\ k.handle = h
        /\ k.used = file[f].used /\ k.owned = file[f].owned
        /\ k.inst = file[f].inst /\ k.created = file[f].created
    BY <1>1 DEF Tasks
  <2>3. Types' /\ \A g \in Files : file'[g] = t(g)
    BY <1>1, <1>2, <1>4, <2>1 DEF LifeInv, Types, Becomes, endVars
  <2> HIDE DEF k
  <2>4. /\ life'[h] = "live" /\ owner'[h] = file[f].inst /\ h # 0
        /\ \A x \in Handles \ {h} : life'[x] = life[x] /\ owner'[x] = owner[x]
    BY <1>4, NoHandle DEF LifeInv, Types
  <2>5. /\ \A g \in Files : h \notin Held(file[g])
        /\ \A i \in Instances : shared[i] # h
        /\ h \notin registry /\ sweepCall # h
    BY <1>4, <2>4 DEF LifeInv, FileOK, Published, Registered, Swept
  <2>6. Registered'
    BY <1>2, <2>4 DEF LifeInv, Types, Registered
  <2>7. Published'
    <3>1. \A i \in Instances : shared[i] # 0 => shared[i] \in Handles \ {h}
      BY <2>5 DEF LifeInv, Types
    <3> QED
      BY <1>2, <2>4, <3>1 DEF LifeInv, Published, PerWorker, endVars
  <2>8. Swept'
    <3>1. sweepCall # 0 => sweepCall \in Handles \ {h}
      BY <2>5 DEF LifeInv, Types
    <3>2. ~interrupted => sweeper = "idle"
      BY <1>1, NotSwept
    <3> QED
      BY <1>2, <2>4, <3>1, <3>2 DEF LifeInv, Swept, endVars
  <2>9. Cached(k) = Cached(file[f]) /\ Held(k) \subseteq Held(file[f]) \cup {h}
        /\ Using(k) \subseteq Using(file[f])
    BY <2>2 DEF Cached, Held, Using, AtStep
  <2>10. ASSUME NEW g \in Files, g # f PROVE FileOK(file[g])'
    <3>1. file'[g] = file[g] /\ file[g] \in Tasks /\ FileOK(file[g])
      BY <2>3, <2>10, TaskIs
    <3>2. \A x \in Held(file[g]) : life'[x] = life[x] /\ owner'[x] = owner[x]
      BY <2>4, <2>5, HeldCreated
    <3>3. Shape(file[g])'
      BY <1>2, <3>1, <3>2, TaskIs, ShapeKept
    <3>4. Held(file[g])' = Held(file[g]) /\ Using(file[g])' = Using(file[g])
      BY <3>1 DEF Held, Using, Cached, AtStep
    <3>5. \A x \in Using(file[g]) : owner'[x] = owner[x]
      BY <3>2, HeldCreated
    <3>6. Sound(file[g])'
      BY <1>2, <3>1, <3>4, <3>5 DEF FileOK, Sound, PerWorker, endVars
    <3>7. /\ file[g].pc = "drop" /\ file[g].call # 0 => file[g].call \in Held(file[g])
          /\ file[g].pc = "register" => file[g].handle \in Held(file[g])
      BY <3>1 DEF Held, FileOK, Shape, Fresh
    <3> QED
      BY <1>2, <3>1, <3>2, <3>3, <3>4, <3>6, <3>7 DEF FileOK, Fresh, endVars
  <2>11. FileOK(file[f])'
    <3>1. file'[f] = k
      BY <2>3
    <3>2. \A x \in Held(file[f]) : life'[x] = life[x] /\ owner'[x] = owner[x]
      BY <2>4, <2>5, HeldCreated
    <3>3. Shape(file[f])'
      <4>1. \A i \in Instances : k.used[i] # 0 => owner'[k.used[i]] = i
        BY <1>1, <2>2, <3>2 DEF Shape, Held, Cached
      <4>2. \A x \in k.owned : owner'[x] = owner[x]
        BY <1>1, <2>2, <3>2, NoHandle DEF Held, Tasks
      <4>3. \A x \in k.owned : ~(declared.plugin[owner'[x]].mode # "per_worker")
        BY <1>1, <2>2, <4>2 DEF Shape, PerWorker
      <4>4. k.created => k.used[k.inst] = 0 /\ declared.plugin[k.inst].mode = "per_worker"
        BY <1>1, <2>2 DEF Shape, PerWorker, Stepping
      <4> QED
        BY <1>1, <1>2, <2>2, <2>4, <3>1, <4>1, <4>3, <4>4
        DEF Shape, Cached, AtStep, Disposing, Fresh, PerWorker, Stepping
    <3>4. Held(file[f])' = Held(k) /\ Using(file[f])' = Using(k)
      BY <3>1 DEF Held, Using, Cached, AtStep
    <3>5. \A x \in Using(k) : x \in Using(file[f]) /\ owner'[x] = owner[x]
      BY <2>9, <3>2, HeldCreated
    <3>6. Sound(file[f])'
      BY <1>1, <1>2, <2>2, <3>1, <3>4, <3>5 DEF FileOK, Sound, PerWorker, endVars
    <3>7. \A x \in Held(k) : life'[x] # "none"
      BY <1>1, <2>4, <2>9, <3>2 DEF FileOK
    <3> QED
      BY <1>2, <2>2, <2>4, <2>5, <3>1, <3>3, <3>4, <3>6, <3>7 DEF FileOK, Fresh, endVars
  <2>12. ASSUME NEW g \in Files, NEW e \in Files, g # e PROVE Apart(file[g], file[e])'
    <3>1. \A x \in Files : Held(file[x])' = Held(t(x))
      BY <2>3 DEF Held, Cached
    <3>2. \A x \in Files : x # f => t(x) = file[x]
      OBVIOUS
    <3>3. t(f) = k
      OBVIOUS
    <3> HIDE DEF t
    <3>4. \A x \in Held(t(g)) \cap Held(t(e)) : x \in Held(file[g]) \cap Held(file[e])
      BY <2>5, <2>9, <2>12, <3>2, <3>3
    <3>5. \A x \in Held(file[g]) : owner'[x] = owner[x]
      BY <2>4, <2>5, HeldCreated
    <3>6. \A x \in Held(t(g)) \cap Held(t(e)) : ~(declared.plugin[owner'[x]].mode = "per_worker")
      BY <2>12, <3>4, <3>5 DEF LifeInv, Apart, PerWorker
    <3>7. Fresh(t(g)) => t(g).handle \notin Held(t(e))
      <4>1. CASE g = f
        BY <2>2, <2>5, <2>12, <3>2, <3>3, <4>1
      <4>2. CASE g # f
        <5>1. Fresh(file[g]) => file[g].handle \in Held(file[g]) /\ file[g].handle # h
          BY <2>5, TaskIs DEF Held, Shape
        <5> QED
          BY <2>9, <2>12, <3>2, <3>3, <4>2, <5>1 DEF LifeInv, Apart
      <4> QED
        BY <4>1, <4>2
    <3>8. t(g).pc = "drop" /\ t(e).pc = "drop" /\ t(g).call = t(e).call => t(g).call = 0
      BY <2>2, <2>12, <3>2, <3>3 DEF LifeInv, Apart
    <3> QED
      BY <1>2, <2>3, <3>1, <3>6, <3>7, <3>8 DEF Apart, PerWorker, Fresh
  <2> QED
    BY <2>3, <2>6, <2>7, <2>8, <2>10, <2>11, <2>12 DEF LifeInv
<1> QED
  BY <1>3, <1>4 DEF InitReturns

\* What a file has in hand when its first call on a handle is near.
LEMMA FreshIs ==
  ASSUME LifeInv, NEW f \in Files, Fresh(file[f])
  PROVE  /\ file[f] \in Tasks /\ Shape(file[f]) /\ FileOK(file[f])
         /\ file[f].handle \in Handles /\ file[f].handle # 0 /\ file[f].handle \in Held(file[f])
         /\ file[f].inst \in Instances /\ owner[file[f].handle] = file[f].inst
         /\ file[f].used[file[f].inst] = 0 /\ file[f].call = 0 /\ file[f].todo = {}
         /\ file[f].pc = "publish" => ~PerWorker(file[f].inst)
         /\ file[f].created => PerWorker(file[f].inst)
         /\ \A g \in Files : g # f => file[f].handle \notin Held(file[g])
<1>1. file[f] \in Tasks /\ Shape(file[f]) /\ FileOK(file[f]) /\ file[f].pc \in {"register", "publish"}
  BY TaskIs DEF Fresh
<1>2. \A g \in Files : g # f => file[f].handle \notin Held(file[g])
  BY DEF LifeInv, Apart
<1> QED
  BY <1>1, <1>2 DEF Shape, Stepping, Tasks, Held

LEMMA RegisterKeeps == ASSUME LifeInv, NEW f \in Files, Register(f) PROVE LifeInv'
<1> DEFINE h == file[f].handle
           pc == IF PerWorker(file[f].inst) THEN "dispatch" ELSE "publish"
           k == [file[f] EXCEPT !.pc = pc]
           t(g) == IF g = f THEN k ELSE file[g]
<1>1. Fresh(file[f]) /\ file[f].pc = "register"
  BY DEF Register, Fresh
<1>2. UNCHANGED <<declared, shared, life, owner, endVars>>
      /\ registry' = registry \cup {h} /\ file' = [file EXCEPT ![f] = k]
  BY DEF Register, Becomes
<1>3. /\ pc \in {"dispatch", "publish"} /\ pc \in FilePcs
      /\ pc = "dispatch" <=> PerWorker(file[f].inst)
  BY DEF FilePcs
<1>4. k \in Tasks
  BY <1>1, <1>3, FreshIs, FieldTyped
<1>5. /\ k.pc = pc /\ k.call = 0 /\ k.todo = {} /\ k.handle = h
      /\ k.used = file[f].used /\ k.owned = file[f].owned
      /\ k.inst = file[f].inst /\ k.created = file[f].created
  BY <1>1, FreshIs DEF Tasks
<1>6. Types' /\ \A g \in Files : file'[g] = t(g)
  BY <1>1, <1>2, <1>4, FreshIs DEF LifeInv, Types, endVars
<1> HIDE DEF k, pc
<1>7. life[h] = "live" /\ h \notin registry /\ sweepCall # h /\ \A i \in Instances : shared[i] # h
  BY <1>1 DEF LifeInv, FileOK
<1>8. /\ Cached(k) = Cached(file[f]) /\ Held(k) = Held(file[f])
      /\ Using(k) \subseteq Using(file[f]) \cup (IF pc = "dispatch" THEN {h} ELSE {})
  <2>1. Cached(k) = Cached(file[f]) /\ Held(k) = Held(file[f])
    BY <1>1, <1>5, FreshIs DEF Cached, Held
  <2> QED
    BY <1>3, <1>5, <2>1 DEF Using, AtStep
<1>9. Registered' /\ Published' /\ Swept'
  <2>1. Registered'
    BY <1>2, <1>7 DEF LifeInv, Registered
  <2>2. Published'
    BY <1>2 DEF LifeInv, Published, PerWorker, endVars
  <2>3. ~interrupted => sweeper = "idle"
    BY <1>1, NotSwept
  <2>4. Swept'
    BY <1>2, <1>7, <2>3 DEF LifeInv, Swept, endVars
  <2> QED
    BY <2>1, <2>2, <2>4
<1>10. Shape(k)
  BY <1>1, <1>3, <1>5, <1>8, FreshIs DEF Shape, AtStep, Fresh, Stepping
<1>11. ASSUME NEW g \in Files PROVE FileOK(file[g])'
  <2>1. /\ t(g) \in Tasks /\ Shape(t(g)) /\ Held(t(g)) = Held(file[g]) /\ file'[g] = t(g)
        /\ \A x \in Held(file[g]) : life[x] # "none"
    BY <1>4, <1>6, <1>8, <1>10, TaskIs DEF FileOK
  <2>2. Shape(file[g])'
    BY <1>2, <2>1, ShapeKept
  <2>3. Held(file[g])' = Held(t(g)) /\ Using(file[g])' = Using(t(g))
    BY <2>1 DEF Held, Using, Cached, AtStep
  <2>4. ~interrupted =>
          /\ \A x \in Using(t(g)) : x \in registry' /\ (PerWorker(owner[x]) \/ shared[owner[x]] = x)
          /\ t(g).pc = "publish" => t(g).handle \in registry'
    <3>1. CASE g = f
      BY <1>1, <1>2, <1>3, <1>5, <1>8, <3>1, FreshIs DEF FileOK, Sound
    <3>2. CASE g # f
      BY <1>2, <3>2, TaskIs DEF FileOK, Sound
    <3> QED
      BY <3>1, <3>2
  <2>5. t(g).pc = "drop" /\ t(g).call # 0 =>
          life[t(g).call] = "live" /\ t(g).call \notin registry' /\ sweepCall # t(g).call
    <3>1. t(g).pc = "drop" => g # f
      BY <1>3, <1>5
    <3>2. g # f => h \notin Held(file[g])
      BY <1>1, FreshIs
    <3>3. t(g).pc = "drop" /\ t(g).call # 0 => file[g].call \in Held(file[g])
      BY <3>1 DEF Held
    <3> QED
      BY <1>2, <3>1, <3>2, <3>3, TaskIs DEF FileOK
  <2>6. t(g).pc = "register" =>
          life[t(g).handle] = "live" /\ t(g).handle \notin registry' /\ sweepCall # t(g).handle
    <3>1. t(g).pc = "register" => g # f
      BY <1>3, <1>5
    <3>2. g # f => h \notin Held(file[g])
      BY <1>1, FreshIs
    <3>3. t(g).pc = "register" => file[g].handle \in Held(file[g])
      BY <3>1, FreshIs DEF Fresh
    <3> QED
      BY <1>2, <3>1, <3>2, <3>3, TaskIs DEF FileOK
  <2>7. Fresh(t(g)) => \A i \in Instances : shared[i] # t(g).handle
    BY <1>5, <1>7, TaskIs DEF FileOK
  <2> HIDE DEF t
  <2>8. Sound(file[g])'
    BY <1>2, <2>1, <2>3, <2>4 DEF Sound, PerWorker, endVars
  <2> QED
    BY <1>2, <2>1, <2>2, <2>3, <2>5, <2>6, <2>7, <2>8 DEF FileOK, Fresh, endVars
<1>12. ASSUME NEW g \in Files, NEW e \in Files, g # e PROVE Apart(file[g], file[e])'
  <2>1. \A x \in Files : Held(t(x)) = Held(file[x]) /\ t(x).handle = file[x].handle
                         /\ (Fresh(t(x)) => Fresh(file[x]))
                         /\ (t(x).pc = "drop" => t(x) = file[x])
    BY <1>1, <1>3, <1>5, <1>8
  <2>2. \A x \in Files : Held(file[x])' = Held(t(x)) /\ file'[x] = t(x)
    BY <1>6 DEF Held, Cached
  <2> HIDE DEF t
  <2> QED
    BY <1>2, <1>12, <2>1, <2>2 DEF LifeInv, Apart, PerWorker, Fresh
<1> QED
  BY <1>6, <1>9, <1>11, <1>12 DEF LifeInv

LEMMA PublishKeeps == ASSUME LifeInv, NEW f \in Files, Publish(f) PROVE LifeInv'
<1> DEFINE h == file[f].handle
           i == file[f].inst
           winner == shared[i]
<1>1. Fresh(file[f]) /\ file[f].pc = "publish"
  BY DEF Publish, Fresh
<1>2. UNCHANGED <<declared, registry, life, owner, endVars>>
  BY DEF Publish
<1>3. /\ i \in Instances /\ ~PerWorker(i) /\ owner[h] = i /\ h # 0 /\ h \in Handles
      /\ file[f].used[i] = 0 /\ file[f].call = 0 /\ file[f].todo = {} /\ ~file[f].created
      /\ file[f] \in Tasks /\ Shape(file[f]) /\ FileOK(file[f]) /\ h \in Held(file[f])
  BY <1>1, FreshIs
<1>4. \A j \in Instances : shared[j] # h
  BY <1>1, <1>3 DEF FileOK
<1>5. CASE winner # 0
  <2> DEFINE k == [file[f] EXCEPT !.pc = "drop", !.todo = {h}, !.handle = winner, !.then = "dispatch"]
  <2>1. file' = [file EXCEPT ![f] = k] /\ UNCHANGED shared
    BY <1>5 DEF Publish, Becomes
  <2>2. winner \in Handles /\ winner \in Known /\ owner[winner] = i /\ winner # h
    BY <1>3, <1>4, <1>5 DEF LifeInv, Types, Known, Published
  <2>3. k \in Tasks
    <3>1. {h} \in SUBSET Handles /\ "drop" \in FilePcs /\ winner \in Handles \cup {0}
      BY <1>3, <2>2 DEF FilePcs
    <3> HIDE DEF h, winner
    <3> QED
      BY <1>3, <3>1, FieldTyped
  <2>4. /\ k.pc = "drop" /\ k.call = 0 /\ k.todo = {h} /\ k.handle = winner /\ k.then = "dispatch"
        /\ k.used = file[f].used /\ k.owned = file[f].owned
        /\ k.inst = i /\ k.created = file[f].created
    BY <1>3 DEF Tasks
  <2>5. k.used[i] = 0
    BY <1>3, <2>4
  <2> HIDE DEF k
  <2>6. Cached(k) = Cached(file[f]) /\ Disposing(k) = {h}
    BY <1>3, <2>4 DEF Cached, Disposing
  <2>7. Held(k) \subseteq Held(file[f]) \cup Known /\ Using(k) \subseteq Using(file[f]) \cup Known
    BY <1>3, <2>2, <2>4, <2>6 DEF Held, Using, AtStep
  <2>8. Shape(k) /\ ~Fresh(k)
    BY <1>3, <1>5, <2>2, <2>4, <2>5, <2>6 DEF Shape, AtStep, Fresh, Stepping
  <2> QED
    BY <1>1, <1>2, <2>1, <2>3, <2>4, <2>7, <2>8, FileGoes DEF hostVars, endVars
<1>6. CASE winner = 0
  <2> DEFINE k == [file[f] EXCEPT !.pc = "dispatch"]
             t(g) == IF g = f THEN k ELSE file[g]
  <2>1. file' = [file EXCEPT ![f] = k] /\ shared' = [shared EXCEPT ![i] = h]
    BY <1>6 DEF Publish, Becomes
  <2>2. k \in Tasks
    BY <1>3, FieldTyped DEF FilePcs
  <2>3. /\ k.pc = "dispatch" /\ k.call = 0 /\ k.todo = {} /\ k.handle = h
        /\ k.used = file[f].used /\ k.owned = file[f].owned
        /\ k.inst = i /\ k.created = file[f].created
    BY <1>3 DEF Tasks
  <2>4. Types' /\ \A g \in Files : file'[g] = t(g)
    BY <1>2, <1>3, <2>1, <2>2 DEF LifeInv, Types, endVars
  <2>5. shared'[i] = h /\ \A j \in Instances : j # i => shared'[j] = shared[j]
    BY <1>3, <2>1 DEF LifeInv, Types
  <2> HIDE DEF k
  <2>6. Held(k) = Held(file[f]) /\ Using(k) \subseteq Using(file[f]) \cup {h}
    <3>1. Cached(k) = Cached(file[f])
      BY <2>3 DEF Cached
    <3> QED
      BY <1>3, <2>3, <3>1 DEF Held, Using, AtStep
  <2>7. Registered'
    BY <1>2 DEF LifeInv, Registered
  <2>8. ~interrupted => sweeper = "idle" /\ h \in registry
    BY <1>1, <1>3, NotSwept DEF FileOK, Sound
  <2>9. life[h] # "none"
    BY <1>3 DEF FileOK
  <2>10. Published'
    <3> SUFFICES ASSUME NEW j \in Instances, shared'[j] # 0
                 PROVE  /\ ~PerWorker(j) /\ owner[shared'[j]] = j /\ life[shared'[j]] # "none"
                        /\ ~interrupted /\ sweeper = "idle" => shared'[j] \in registry
      BY <1>2 DEF Published, PerWorker, endVars
    <3>1. CASE j = i
      BY <1>3, <2>5, <2>8, <2>9, <3>1
    <3>2. CASE j # i
      BY <2>5, <3>2 DEF LifeInv, Published
    <3> QED
      BY <3>1, <3>2
  <2>11. Swept'
    BY <1>2, <2>8 DEF LifeInv, Swept, endVars
  <2>12. Shape(k) /\ ~Fresh(k)
    BY <1>3, <2>3 DEF Shape, AtStep, Fresh, Stepping, Cached
  <2>13. ASSUME NEW g \in Files PROVE FileOK(file[g])'
    <3>1. /\ t(g) \in Tasks /\ Shape(t(g)) /\ Held(t(g)) = Held(file[g]) /\ file'[g] = t(g)
          /\ \A x \in Held(file[g]) : life[x] # "none"
      BY <2>2, <2>4, <2>6, <2>12, TaskIs DEF FileOK
    <3>2. Shape(file[g])'
      BY <1>2, <3>1, ShapeKept
    <3>3. Held(file[g])' = Held(t(g)) /\ Using(file[g])' = Using(t(g))
      BY <3>1 DEF Held, Using, Cached, AtStep
    <3>4. ASSUME ~interrupted, NEW x \in Using(t(g))
          PROVE  x \in registry /\ (PerWorker(owner[x]) \/ shared'[owner[x]] = x)
      <4>1. CASE x = h
        BY <1>3, <2>5, <2>8, <3>4, <4>1
      <4>2. CASE x # h
        <5>1. x \in Using(file[g]) /\ x # 0
          BY <2>6, <3>4, <4>2, HeldCreated
        <5>2. x \in registry /\ (PerWorker(owner[x]) \/ shared[owner[x]] = x)
          BY <3>4, <5>1 DEF LifeInv, FileOK, Sound
        <5>3. x \in Handles
          BY <5>2 DEF LifeInv, Types
        <5> QED
          BY <1>6, <2>1, <5>1, <5>2, <5>3 DEF LifeInv, Types
      <4> QED
        BY <4>1, <4>2
    <3>5. ~interrupted /\ t(g).pc = "publish" => t(g).handle \in registry
      BY <2>3, TaskIs DEF FileOK, Sound
    <3>6. Sound(file[g])'
      BY <1>2, <3>1, <3>3, <3>4, <3>5 DEF Sound, PerWorker, endVars
    <3>7. Fresh(t(g)) => /\ g # f /\ t(g) = file[g]
                         /\ \A j \in Instances : shared[j] # file[g].handle /\ h # file[g].handle
      <4>1. Fresh(t(g)) => g # f /\ t(g) = file[g]
        BY <2>12
      <4>2. Fresh(t(g)) => file[g].handle \in Held(file[g]) /\ h \notin Held(file[g])
        BY <1>1, <4>1, FreshIs
      <4> QED
        BY <4>1, <4>2, TaskIs DEF FileOK
    <3>8. Fresh(t(g)) => \A j \in Instances : shared'[j] # t(g).handle
      BY <2>5, <3>7
    <3>9. /\ t(g).pc = "drop" /\ t(g).call # 0 =>
               life[t(g).call] = "live" /\ t(g).call \notin registry /\ sweepCall # t(g).call
          /\ t(g).pc = "register" =>
               life[t(g).handle] = "live" /\ t(g).handle \notin registry /\ sweepCall # t(g).handle
      BY <2>3, TaskIs DEF FileOK
    <3> HIDE DEF t
    <3> QED
      BY <1>2, <3>1, <3>2, <3>3, <3>6, <3>8, <3>9 DEF FileOK, Fresh, endVars
  <2>14. ASSUME NEW g \in Files, NEW e \in Files, g # e PROVE Apart(file[g], file[e])'
    <3>1. \A x \in Files : Held(t(x)) = Held(file[x]) /\ t(x).handle = file[x].handle
                           /\ (Fresh(t(x)) => Fresh(file[x]))
                           /\ (t(x).pc = "drop" => t(x) = file[x])
      BY <2>3, <2>6, <2>12
    <3>2. \A x \in Files : Held(file[x])' = Held(t(x)) /\ file'[x] = t(x)
      BY <2>4 DEF Held, Cached
    <3> HIDE DEF t
    <3> QED
      BY <1>2, <2>14, <3>1, <3>2 DEF LifeInv, Apart, PerWorker, Fresh
  <2> QED
    BY <2>4, <2>7, <2>10, <2>11, <2>13, <2>14 DEF LifeInv
<1> QED
  BY <1>5, <1>6

-----------------------------------------------------------------------------
\* A step of the sweep or of the handler: no file moves, and either the run is
\* interrupted or no file is left.
LEMMA HostMoves ==
  ASSUME LifeInv, Types', Registered', Published', Swept',
         UNCHANGED <<file, declared, owner>>,
         interrupted' \/ \A f \in Files : file[f].pc \in {"done", "panicked"},
         registry' \subseteq registry, sweepCall' \in {0, sweepCall} \cup registry,
         \A h \in Handles : /\ life[h] # "none" => life'[h] # "none"
                            /\ life'[h] # life[h] => h = sweepCall,
         \A i \in Instances : shared'[i] \in {0, shared[i]}
  PROVE  LifeInv'
<1>1. ASSUME NEW f \in Files PROVE FileOK(file[f])'
  <2>1. file[f] \in Tasks /\ Shape(file[f]) /\ FileOK(file[f]) /\ file'[f] = file[f]
    BY TaskIs
  <2>2. Shape(file[f])'
    BY <2>1, ShapeKept
  <2>3. Held(file[f])' = Held(file[f]) /\ Using(file[f])' = Using(file[f])
    BY DEF Held, Using, Cached, AtStep
  <2>4. Sound(file[f])'
    <3>1. CASE interrupted'
      BY <3>1 DEF Sound
    <3>2. CASE \A g \in Files : file[g].pc \in {"done", "panicked"}
      <4>1. Using(file[f]) = {} /\ file[f].pc # "publish"
        BY <2>1, <3>2 DEF Using, AtStep, Shape
      <4> QED
        BY <2>1, <2>3, <4>1 DEF Sound
    <3> QED
      BY <3>1, <3>2
  <2>5. \A h \in Held(file[f]) : life'[h] # "none"
    BY <2>1, HeldCreated DEF FileOK
  <2>6. file[f].pc = "drop" /\ file[f].call # 0 =>
          life'[file[f].call] = "live" /\ file[f].call \notin registry' /\ sweepCall' # file[f].call
    <3>1. file[f].call \in Handles \cup {0}
      BY <2>1 DEF Tasks
    <3> QED
      BY <2>1, <3>1 DEF FileOK
  <2>7. Fresh(file[f]) => file[f].handle # 0 /\ file[f].handle \in Handles
    BY FreshIs
  <2>8. file[f].pc = "register" =>
          life'[file[f].handle] = "live" /\ file[f].handle \notin registry'
          /\ sweepCall' # file[f].handle
    BY <2>1, <2>7 DEF FileOK, Fresh
  <2>9. Fresh(file[f]) => \A i \in Instances : shared'[i] # file[f].handle
    BY <2>1, <2>7 DEF FileOK
  <2> QED
    BY <2>1, <2>2, <2>3, <2>4, <2>5, <2>6, <2>8, <2>9 DEF FileOK, Fresh
<1>2. ASSUME NEW f \in Files, NEW g \in Files, f # g PROVE Apart(file[f], file[g])'
  <2>1. \A x \in Files : Held(file[x])' = Held(file[x])
    BY DEF Held, Cached
  <2> QED
    BY <1>2, <2>1 DEF LifeInv, Apart, PerWorker, Fresh
<1> QED
  BY <1>1, <1>2 DEF LifeInv

LEMMA SweepKeeps == ASSUME LifeInv, SweepStep \/ Interrupt PROVE LifeInv'
<1> DEFINE AllOver == \A f \in Files : file[f].pc \in {"done", "panicked"}
<1>1. Types /\ Registered /\ Published /\ Swept
  BY DEF LifeInv
<1>2. sweeper # "idle" => interrupted \/ AllOver
  BY <1>1 DEF Swept
<1>3. CASE Interrupt
  <2>1. UNCHANGED <<file, hostVars, sweeper, sweepTodo, sweepCall>> /\ interrupted' = TRUE
    BY <1>3 DEF Interrupt
  <2>2. Types' /\ Registered' /\ Published' /\ Swept'
    BY <1>1, <2>1 DEF Types, Registered, Published, Swept, hostVars, PerWorker
  <2> QED
    BY <2>1, <2>2, HostMoves DEF hostVars
<1>4. CASE SweepCopy
  <2>1. /\ UNCHANGED <<file, hostVars, sweepCall, interrupted>> /\ sweeper' = "copied"
        /\ sweepTodo' = registry /\ sweeper = "idle" /\ (interrupted \/ AllOver)
    BY <1>4 DEF SweepCopy
  <2>2. Types' /\ Registered' /\ Published' /\ Swept'
    BY <1>1, <2>1 DEF Types, Registered, Published, Swept, hostVars, PerWorker
  <2> QED
    BY <2>1, <2>2, HostMoves DEF hostVars
<1>5. CASE SweepClear
  <2>1. /\ UNCHANGED <<file, declared, registry, life, owner, sweepTodo, sweepCall, interrupted>>
        /\ sweeper = "copied" /\ sweeper' = "sweeping" /\ shared' = [i \in Instances |-> 0]
    BY <1>5 DEF SweepClear
  <2>2. Types' /\ Registered' /\ Published' /\ Swept'
    BY <1>1, <2>1 DEF Types, Registered, Published, Swept
  <2> QED
    BY <1>2, <2>1, <2>2, HostMoves
<1>6. CASE SweepNext
  <2>1. PICK h \in sweepTodo : /\ sweepTodo' = sweepTodo \ {h} /\ registry' = registry \ {h}
                               /\ sweepCall' = IF h \in registry THEN h ELSE 0
    BY <1>6 DEF SweepNext
  <2>2. UNCHANGED <<file, declared, shared, life, owner, sweeper, interrupted>> /\ sweeper = "sweeping"
    BY <1>6 DEF SweepNext
  <2>3. Types' /\ Registered'
    BY <1>1, <2>1, <2>2 DEF Types, Registered
  <2>4. Published'
    BY <1>1, <2>2 DEF Published, PerWorker
  <2>5. Swept'
    BY <1>1, <2>1, <2>2 DEF Swept, Registered
  <2> QED
    BY <1>2, <2>1, <2>2, <2>3, <2>4, <2>5, HostMoves
<1>7. CASE SweepReturns
  <2>1. /\ UNCHANGED <<file, declared, shared, registry, owner, sweeper, sweepTodo, interrupted>>
        /\ sweepCall # 0 /\ sweepCall' = 0 /\ life' = [life EXCEPT ![sweepCall] = "dropped"]
    BY <1>7 DEF SweepReturns
  <2>2. sweepCall \in Handles /\ sweepCall \notin registry /\ sweeper # "idle"
    BY <1>1, <2>1 DEF Types, Swept
  <2>3. life' \in [Handles -> {"none", "live", "dropped"}]
        /\ \A h \in Handles : life'[h] = IF h = sweepCall THEN "dropped" ELSE life[h]
    BY <1>1, <2>1 DEF Types
  <2>4. Types' /\ Registered'
    BY <1>1, <2>1, <2>2, <2>3, NoHandle DEF Types, Registered
  <2>5. Published' /\ Swept'
    BY <1>1, <2>1, <2>2, <2>3 DEF Types, Published, Swept, PerWorker
  <2> QED
    BY <1>2, <2>1, <2>2, <2>3, <2>4, <2>5, HostMoves
<1>8. CASE SweepOver
  <2>1. /\ UNCHANGED <<file, hostVars, sweepTodo, sweepCall, interrupted>>
        /\ sweeper = "sweeping" /\ sweeper' = "swept"
    BY <1>8 DEF SweepOver
  <2>2. Types' /\ Registered' /\ Published' /\ Swept'
    BY <1>1, <2>1 DEF Types, Registered, Published, Swept, hostVars, PerWorker
  <2> QED
    BY <1>2, <2>1, <2>2, HostMoves DEF hostVars
<1> QED
  BY <1>3, <1>4, <1>5, <1>6, <1>7, <1>8 DEF SweepStep

LEMMA LifeStep == LifeInv /\ [Next]_vars => LifeInv'
<1> SUFFICES ASSUME LifeInv, [Next]_vars PROVE LifeInv'
  OBVIOUS
<1>1. CASE UNCHANGED <<declared, file, shared, registry, life, owner, sweeper, sweepTodo,
                       sweepCall, interrupted>>
  <2>1. Types' /\ Registered' /\ Published' /\ Swept'
    BY <1>1 DEF LifeInv, Types, Registered, Published, Swept, PerWorker
  <2>2. ASSUME NEW f \in Files PROVE FileOK(file[f])'
    <3>1. Shape(file[f])'
      BY <1>1, TaskIs, ShapeKept
    <3>2. Held(file[f])' = Held(file[f]) /\ Using(file[f])' = Using(file[f])
      BY <1>1 DEF Held, Using, Cached, AtStep
    <3>3. Sound(file[f])'
      BY <1>1, <3>2, TaskIs DEF FileOK, Sound, PerWorker
    <3> QED
      BY <1>1, <3>1, <3>2, <3>3, TaskIs DEF FileOK, Fresh
  <2>3. ASSUME NEW f \in Files, NEW g \in Files, f # g PROVE Apart(file[f], file[g])'
    <3>1. \A x \in Files : Held(file[x])' = Held(file[x])
      BY <1>1 DEF Held, Cached
    <3> QED
      BY <1>1, <2>3, <3>1 DEF LifeInv, Apart, PerWorker, Fresh
  <2> QED
    BY <2>1, <2>2, <2>3 DEF LifeInv
<1>2. CASE ExitProcess
  BY <1>1, <1>2 DEF ExitProcess, hostVars
<1>3. CASE SweepStep \/ Interrupt
  BY <1>3, SweepKeeps
<1>4. CASE \E f \in Files : StartFile(f) \/ FileStep(f)
  <2> PICK f \in Files : StartFile(f) \/ FileStep(f)
    BY <1>4
  <2> QED
    BY StartKeeps, BeginKeeps, ResetNextKeeps, ResetReturnsKeeps, StepKeeps, LookupKeeps,
       InitReturnsKeeps, RegisterKeeps, PublishKeeps, DispatchKeeps, DispatchReturnsKeeps,
       EndScenarioKeeps, PanicKeeps, EndFileKeeps, DropNextKeeps, DropReturnsKeeps
    DEF FileStep
<1> QED
  BY <1>1, <1>2, <1>3, <1>4 DEF Next, vars

LEMMA LifeStart == Init => LifeInv
<1> SUFFICES ASSUME Init PROVE LifeInv
  OBVIOUS
<1>1. /\ FileAt("waiting") \in Tasks /\ Shape(FileAt("waiting"))
      /\ Held(FileAt("waiting")) = {} /\ Using(FileAt("waiting")) = {}
      /\ FileAt("waiting").pc = "waiting"
  BY EmptyTask DEF FilePcs, FileAt
<1>2. \A f \in Files : file[f] = FileAt("waiting")
  BY DEF Init
<1>3. Types
  BY <1>1 DEF Init, Types
<1>4. Registered /\ Published /\ Swept
  BY DEF Init, Registered, Published, Swept
<1>5. \A f \in Files : FileOK(file[f])
  BY <1>1, <1>2 DEF FileOK, Sound, Fresh
<1>6. \A f, g \in Files : Apart(file[f], file[g])
  BY <1>1, <1>2 DEF Apart, Fresh
<1> QED
  BY <1>3, <1>4, <1>5, <1>6 DEF LifeInv

LEMMA LifeInvariant == Spec => []LifeInv
BY LifeStart, LifeStep, PTL DEF Spec

-----------------------------------------------------------------------------
\* At most one: no two members.
LEMMA AtMostOne ==
  ASSUME NEW S, \A x, y \in S : x = y
  PROVE  Cardinality(S) \in {0, 1} /\ (S = {} => Cardinality(S) = 0)
<1>1. CASE S = {}
  BY <1>1, FS_EmptySet
<1>2. CASE S # {}
  <2>1. PICK x : S = {x}
    BY <1>2
  <2> QED
    BY <1>2, <2>1, FS_Singleton
<1> QED
  BY <1>1, <1>2

\* Nobody drops what somebody else drops or calls.
LEMMA InOneHand ==
  ASSUME LifeInv, NEW h \in Handles
  PROVE  /\ \A f, g \in Dropping(h) : f = g
         /\ \A f \in Dropping(h) : life[h] = "live" /\ h \notin registry /\ sweepCall # h
         /\ PerWorker(owner[h]) =>
              \A f, g \in Calling(h) \cup {x \in Files : h \in file[x].owned} : f = g
         /\ ~interrupted /\ Calling(h) # {} => h \in registry
<1>1. h # 0
  BY NoHandle
<1>2. \A f, g \in Dropping(h) : f = g
  BY <1>1 DEF LifeInv, Apart, Dropping
<1>3. \A f \in Dropping(h) : life[h] = "live" /\ h \notin registry /\ sweepCall # h
  BY <1>1 DEF LifeInv, FileOK, Dropping
<1>4. \A f \in Calling(h) \cup {x \in Files : h \in file[x].owned} : f \in Files /\ h \in Held(file[f])
  BY <1>1 DEF Held, Calling
<1>5. PerWorker(owner[h]) =>
        \A f, g \in Calling(h) \cup {x \in Files : h \in file[x].owned} : f = g
  BY <1>4 DEF LifeInv, Apart
<1>6. ASSUME NEW f \in Calling(h), ~interrupted PROVE h \in registry
  <2>1. f \in Files /\ file[f].call = h /\ file[f].pc \in {"calling", "reset"} /\ Shape(file[f])
    BY TaskIs DEF Calling
  <2>2. h \in Using(file[f])
    BY <1>1, <2>1 DEF Shape, Using, AtStep
  <2> QED
    BY <1>6, <2>1, <2>2 DEF LifeInv, FileOK, Sound
<1> QED
  BY <1>2, <1>3, <1>5, <1>6

\* bddkit_drop_instance is called once for a handle, no call reaches a handle
\* that is dropped or being dropped until an interrupt, no per_worker handle is
\* in two files, and those of a shared instance hold the one that was published
\* (plugin/mod.rs call_step, shared_handle, drop_instances, shutdown).
THEOREM HandlesAreSafe == Spec => []HandleLife
<1>1. LifeInv => HandleLife
  <2> SUFFICES ASSUME LifeInv PROVE HandleLife
    OBVIOUS
  <2>1. DroppedOnce
    <3> SUFFICES ASSUME NEW h \in Handles
                 PROVE  /\ Cardinality(Dropping(h)) + (IF sweepCall = h THEN 1 ELSE 0) <= 1
                        /\ Dropping(h) # {} \/ sweepCall = h => life[h] = "live" /\ h \notin registry
                        /\ h \in registry => life[h] = "live"
      BY DEF DroppedOnce
    <3>1. Cardinality(Dropping(h)) \in {0, 1} /\ (Dropping(h) = {} => Cardinality(Dropping(h)) = 0)
      BY InOneHand, AtMostOne
    <3>2. sweepCall = h => Dropping(h) = {}
      BY InOneHand
    <3>3. Dropping(h) # {} \/ sweepCall = h => life[h] = "live" /\ h \notin registry
      BY InOneHand, NoHandle DEF LifeInv, Swept
    <3>4. h \in registry => life[h] = "live"
      BY DEF LifeInv, Registered
    <3> QED
      BY <3>1, <3>2, <3>3, <3>4
  <2>2. NoCallAfterDrop
    <3> SUFFICES ASSUME ~interrupted, NEW h \in Handles, Calling(h) # {}
                 PROVE  life[h] = "live" /\ Dropping(h) = {} /\ sweepCall # h
      BY DEF NoCallAfterDrop
    <3>1. h \in registry
      BY InOneHand
    <3> QED
      BY <3>1, InOneHand, NoHandle DEF LifeInv, Registered, Swept
  <2>3. ASSUME NEW h \in Handles, PerWorker(owner[h])
        PROVE  Cardinality(Calling(h) \cup {f \in Files : h \in file[f].owned}) <= 1
    <3>1. Cardinality(Calling(h) \cup {f \in Files : h \in file[f].owned}) \in {0, 1}
      BY <2>3, InOneHand, AtMostOne
    <3> QED
      BY <3>1
  <2>4. ASSUME ~interrupted, NEW i \in Instances, ~PerWorker(i), NEW f \in Files
        PROVE  file[f].used[i] \in {0, shared[i]}
    <3>1. file[f].used[i] # 0 => file[f].used[i] \in Using(file[f]) /\ owner[file[f].used[i]] = i
      BY TaskIs DEF Using, Cached, Shape
    <3> QED
      BY <2>4, <3>1 DEF LifeInv, FileOK, Sound
  <2> QED
    BY <2>1, <2>2, <2>3, <2>4 DEF HandleLife, HandleDiscipline
<1> QED
  BY <1>1, LifeInvariant, PTL

-----------------------------------------------------------------------------
\* A handle that only its file and the plugin know of.
InHand(t, h) == (t.pc = "drop" /\ t.call = h) \/ (t.pc = "register" /\ t.handle = h)

\* Every live handle is registered, or one call away from being registered or
\* dropped.
Accounted ==
  \A h \in Handles : life[h] = "live" =>
    h \in registry \/ sweepCall = h \/ \E f \in Files : InHand(file[f], h)

\* Nothing joins the registry behind the back of the sweep.
SweepSees ==
  /\ ~interrupted /\ sweeper \in {"copied", "sweeping"} => registry \subseteq sweepTodo
  /\ ~interrupted /\ sweeper = "swept" => registry = {} /\ sweepCall = 0
  /\ exited => interrupted \/ sweeper = "swept"

LeakInv == LifeInv /\ Accounted /\ SweepSees

\* A step of a file that has nothing in hand leaves every handle accounted for.
LEMMA EmptyHanded ==
  ASSUME LeakInv, NEW f \in Files, \E k : Becomes(f, k), UNCHANGED <<registry, life, sweepCall>>,
         file[f].pc \notin {"register", "drop"}
  PROVE  Accounted'
<1>1. \A g \in Files : g # f => file'[g] = file[g]
  BY DEF LeakInv, LifeInv, Types, Becomes
<1> QED
  BY <1>1 DEF LeakInv, Accounted, InHand

\* While a file runs the sweep of an uninterrupted run has not begun.
LEMMA FilesBeforeSweep ==
  ASSUME LeakInv, NEW f \in Files, file[f].pc \notin {"done", "panicked"}, ~exited,
         UNCHANGED endVars
  PROVE  SweepSees'
<1>1. ~interrupted => sweeper = "idle"
  BY NotSwept DEF LeakInv
<1> QED
  BY <1>1 DEF SweepSees, endVars

LEMMA FileAccounts ==
  ASSUME LeakInv, NEW f \in Files, ~exited, StartFile(f) \/ FileStep(f)
  PROVE  Accounted' /\ SweepSees'
<1>1. LifeInv /\ Types /\ file[f] \in Tasks
  BY DEF LeakInv, LifeInv, Types
<1>2. ASSUME StartFile(f) \/ BeginScenario(f) \/ ResetNext(f) \/ ResetReturns(f) \/ PluginStep(f)
               \/ SharedLookup(f) \/ Dispatch(f) \/ DispatchReturns(f) \/ EndScenario(f)
               \/ PanicFile(f) \/ EndFile(f)
      PROVE  Accounted' /\ SweepSees'
  <2>1. UNCHANGED hostVars /\ UNCHANGED endVars
    BY <1>2 DEF StartFile, BeginScenario, ResetNext, ResetReturns, PluginStep, SharedLookup, Dispatch,
                DispatchReturns, EndScenario, PanicFile, EndFile
  <2>2. file[f].pc \in {"waiting", "boundary", "reset", "steps", "lookup", "dispatch", "calling"}
    BY <1>2 DEF StartFile, BeginScenario, ResetNext, ResetReturns, PluginStep, SharedLookup, Dispatch,
                DispatchReturns, EndScenario, PanicFile, EndFile
  <2>3. \E k : Becomes(f, k)
    BY <1>2 DEF StartFile, BeginScenario, ResetNext, ResetReturns, PluginStep, SharedLookup, Dispatch,
                DispatchReturns, EndScenario, PanicFile, EndFile
  <2> QED
    BY <2>1, <2>2, <2>3, EmptyHanded, FilesBeforeSweep DEF hostVars, endVars
<1>3. CASE InitReturns(f)
  <2>1. file[f].pc = "init" /\ UNCHANGED <<registry, endVars>>
    BY <1>3 DEF InitReturns
  <2>2. CASE Becomes(f, StepOver(file[f], TRUE)) /\ UNCHANGED <<life, owner>>
    <3>1. \E k : Becomes(f, k)
      BY <2>2
    <3> QED
      BY <2>1, <2>2, <3>1, EmptyHanded, FilesBeforeSweep DEF endVars
  <2>3. ASSUME NEW h \in Handles, life' = [life EXCEPT ![h] = "live"],
               Becomes(f, [file[f] EXCEPT !.pc = "register", !.handle = h])
        PROVE  Accounted' /\ SweepSees'
    <3>1. /\ file'[f].pc = "register" /\ file'[f].handle = h
          /\ \A g \in Files : g # f => file'[g] = file[g]
      BY <1>1, <2>3 DEF Types, Tasks, Becomes
    <3>2. \A x \in Handles : x # h => life'[x] = life[x]
      BY <1>1, <2>3 DEF Types
    <3>3. Accounted'
      BY <2>1, <3>1, <3>2 DEF LeakInv, Accounted, InHand, endVars
    <3> QED
      BY <2>1, <3>3, FilesBeforeSweep
  <2> QED
    BY <1>3, <2>2, <2>3 DEF InitReturns
<1>4. CASE Register(f)
  <2>1. /\ file[f].pc = "register" /\ registry' = registry \cup {file[f].handle}
        /\ UNCHANGED <<life, endVars>> /\ \A g \in Files : g # f => file'[g] = file[g]
    BY <1>1, <1>4 DEF Register, Becomes, Types
  <2>2. Accounted'
    BY <2>1 DEF LeakInv, Accounted, InHand, endVars
  <2> QED
    BY <2>1, <2>2, FilesBeforeSweep
<1>5. CASE Publish(f)
  <2>1. file[f].pc = "publish" /\ UNCHANGED <<registry, life, endVars>> /\ \E k : Becomes(f, k)
    BY <1>5 DEF Publish
  <2> QED
    BY <2>1, EmptyHanded, FilesBeforeSweep DEF endVars
<1>6. CASE DropNext(f)
  <2>1. PICK h \in file[f].todo :
          /\ registry' = registry \ {h}
          /\ Becomes(f, Onward([file[f] EXCEPT !.todo = file[f].todo \ {h},
                                               !.call = IF h \in registry THEN h ELSE 0]))
    BY <1>6 DEF DropNext
  <2>2. file[f].pc = "drop" /\ file[f].call = 0 /\ UNCHANGED <<life, endVars>>
    BY <1>6 DEF DropNext
  <2>3. \A g \in Files : g # f => file'[g] = file[g]
    BY <1>1, <2>1 DEF Types, Becomes
  <2>4. h \in registry => InHand(file'[f], h)
    <3> DEFINE k == [file[f] EXCEPT !.todo = file[f].todo \ {h}, !.call = h]
    <3> SUFFICES ASSUME h \in registry PROVE InHand(file'[f], h)
      OBVIOUS
    <3>1. h # 0
      BY <1>1, NoHandle DEF Types
    <3>2. file' = [file EXCEPT ![f] = Onward(k)]
      BY <2>1 DEF Becomes
    <3>3. k.pc = "drop" /\ k.call = h
      BY <1>1, <2>2 DEF Tasks
    <3> HIDE DEF k
    <3>4. Onward(k) = k
      BY <3>1, <3>3 DEF Onward
    <3>5. file'[f] = k
      BY <1>1, <3>2, <3>4 DEF Types
    <3> QED
      BY <3>3, <3>5 DEF InHand
  <2>5. \A x \in Handles : ~InHand(file[f], x)
    BY <2>2, NoHandle DEF InHand
  <2>6. Accounted'
    <3> SUFFICES ASSUME NEW x \in Handles, life'[x] = "live"
                 PROVE  x \in registry' \/ sweepCall' = x \/ \E g \in Files : InHand(file'[g], x)
      BY DEF Accounted, InHand
    <3>1. x \in registry \/ sweepCall = x \/ \E g \in Files : InHand(file[g], x)
      BY <2>2 DEF LeakInv, Accounted
    <3> QED
      BY <2>1, <2>2, <2>3, <2>4, <2>5, <3>1 DEF endVars
  <2> QED
    BY <2>2, <2>6, FilesBeforeSweep
<1>7. CASE DropReturns(f)
  <2>1. /\ file[f].pc = "drop" /\ UNCHANGED <<registry, endVars>>
        /\ life' = [life EXCEPT ![file[f].call] = "dropped"]
        /\ \A g \in Files : g # f => file'[g] = file[g]
    BY <1>1, <1>7 DEF DropReturns, Becomes, Types
  <2>2. \A x \in Handles : life'[x] = "live" => life[x] = "live" /\ x # file[f].call
    BY <1>1, <2>1 DEF Types
  <2>3. Accounted'
    BY <2>1, <2>2 DEF LeakInv, Accounted, InHand, endVars
  <2> QED
    BY <2>1, <2>3, FilesBeforeSweep
<1> QED
  BY <1>2, <1>3, <1>4, <1>5, <1>6, <1>7 DEF FileStep

LEMMA SweepAccounts ==
  ASSUME LeakInv, ~exited, SweepStep \/ Interrupt \/ ExitProcess
  PROVE  Accounted' /\ SweepSees'
<1>1. Types /\ Accounted /\ SweepSees /\ Swept
  BY DEF LeakInv, LifeInv
<1>2. CASE SweepNext
  <2>1. PICK h \in sweepTodo : /\ sweepTodo' = sweepTodo \ {h} /\ registry' = registry \ {h}
                               /\ sweepCall' = IF h \in registry THEN h ELSE 0
    BY <1>2 DEF SweepNext
  <2>2. UNCHANGED <<file, life, sweeper, interrupted, exited>> /\ sweeper = "sweeping" /\ sweepCall = 0
    BY <1>2 DEF SweepNext
  <2>3. Accounted'
    BY <1>1, <2>1, <2>2, NoHandle DEF Accounted, InHand
  <2>4. SweepSees'
    BY <1>1, <2>1, <2>2 DEF SweepSees
  <2> QED
    BY <2>3, <2>4
<1>3. CASE SweepReturns
  <2>1. /\ UNCHANGED <<file, registry, sweeper, sweepTodo, interrupted, exited>>
        /\ sweepCall # 0 /\ sweepCall' = 0 /\ life' = [life EXCEPT ![sweepCall] = "dropped"]
    BY <1>3 DEF SweepReturns
  <2>2. \A x \in Handles : life'[x] = "live" => life[x] = "live" /\ x # sweepCall
    BY <1>1, <2>1 DEF Types
  <2>3. Accounted'
    BY <1>1, <2>1, <2>2 DEF Accounted, InHand
  <2>4. SweepSees'
    BY <1>1, <2>1 DEF SweepSees
  <2> QED
    BY <2>3, <2>4
<1>4. CASE SweepCopy \/ SweepClear \/ SweepOver \/ Interrupt \/ ExitProcess
  <2>1. UNCHANGED <<file, registry, life, sweepCall>>
    BY <1>4 DEF SweepCopy, SweepClear, SweepOver, Interrupt, ExitProcess, hostVars
  <2>2. Accounted'
    BY <1>1, <2>1 DEF Accounted, InHand
  <2>3. SweepSees'
    BY <1>1, <1>4, <2>1
    DEF SweepCopy, SweepClear, SweepOver, Interrupt, ExitProcess, hostVars, SweepSees
  <2> QED
    BY <2>2, <2>3
<1> QED
  BY <1>2, <1>3, <1>4 DEF SweepStep

LEMMA LeakInvariant == Spec => []LeakInv
<1>1. Init => LeakInv
  <2> SUFFICES ASSUME Init PROVE LeakInv
    OBVIOUS
  <2>1. Accounted
    BY DEF Init, Accounted
  <2>2. SweepSees
    BY DEF Init, SweepSees
  <2> QED
    BY <2>1, <2>2, LifeStart DEF LeakInv
<1>2. LeakInv /\ [Next]_vars => LeakInv'
  <2> SUFFICES ASSUME LeakInv, [Next]_vars PROVE LeakInv'
    OBVIOUS
  <2>1. LifeInv'
    BY LifeStep DEF LeakInv
  <2>2. Accounted' /\ SweepSees'
    <3>1. CASE UNCHANGED vars
      BY <3>1 DEF vars, LeakInv, Accounted, SweepSees, InHand
    <3>2. CASE Next
      BY <3>2, FileAccounts, SweepAccounts DEF Next
    <3> QED
      BY <3>1, <3>2
  <2> QED
    BY <2>1, <2>2 DEF LeakInv
<1> QED
  BY <1>1, <1>2, PTL DEF Spec

\* Every instance that was created is dropped: a run that was not interrupted
\* exits with none alive, whatever failed or panicked in it (main.rs run_suite,
\* plugin/mod.rs shutdown).
THEOREM NoneLeftBehind == Spec => []NothingOutlives
<1>1. LeakInv => NothingOutlives
  <2> SUFFICES ASSUME LeakInv, exited, ~interrupted, NEW h \in Handles, life[h] = "live" PROVE FALSE
    BY DEF NothingOutlives
  <2>1. sweeper = "swept" /\ registry = {} /\ sweepCall = 0
    BY DEF LeakInv, SweepSees
  <2>2. \A f \in Files : ~InHand(file[f], h)
    BY <2>1 DEF LeakInv, LifeInv, Swept, InHand
  <2> QED
    BY <2>1, <2>2, NoHandle DEF LeakInv, Accounted
<1> QED
  BY <1>1, LeakInvariant, PTL
-----------------------------------------------------------------------------
\* Of a reset: at a boundary it covers what the file has an answer from, and
\* behind it, unless one failed, nothing that resets is left to be reset.
ResetOK(t) ==
  /\ \A h \in t.touched \cup Cached(t) : life[h] # "none"
  /\ \A h \in t.touched : h \in Cached(t) \/ ~PerWorker(owner[h])
  /\ t.stale \subseteq Cached(t)
  /\ t.pc = "reset" => \A h \in (t.todo \cup {t.call}) \ {0} : h \in Cached(t) /\ Resets(owner[h])
  /\ t.pc = "reset" /\ ~t.failed /\ ~interrupted =>
       \A h \in t.stale : Resets(owner[h]) => h \in t.todo \cup {t.call}
  /\ t.pc \notin {"boundary", "reset"} /\ ~t.failed /\ ~interrupted =>
       \A h \in t.stale : ~Resets(owner[h])
  /\ t.pc \in Stepping \/ (t.pc = "drop" /\ t.then = "dispatch") => ~t.failed
  /\ t.pc \in Stepping /\ PerWorker(t.inst) /\ t.used[t.inst] = 0 => t.created

\* One file at a time: the boundary of a file is the only one there is.
Alone == declared.concurrency = 1 => \A f, g \in Files : ~Ended(f) /\ ~Ended(g) => f = g

ResetInv ==
  /\ LifeInv /\ Loadable(declared)
  /\ declared \in [plugin : Declarations, concurrency : 1..MaxConcurrency]
  /\ Alone
  /\ \A f \in Files : ResetOK(file[f])

\* A handle that was created keeps its instance, and nothing is un-interrupted.
LEMMA CreatedStays ==
  ASSUME LifeInv, [Next]_vars
  PROVE  /\ UNCHANGED declared /\ (interrupted => interrupted')
         /\ \A h \in Handles : life[h] # "none" => owner'[h] = owner[h] /\ life'[h] # "none"
<1>1. CASE UNCHANGED vars
  BY <1>1 DEF vars
<1>2. CASE SweepStep
  BY <1>2 DEF SweepStep, SweepCopy, SweepClear, SweepNext, SweepReturns, SweepOver, hostVars,
              LifeInv, Types
<1>3. CASE Interrupt \/ ExitProcess
  BY <1>3 DEF Interrupt, ExitProcess, hostVars
<1>4. ASSUME NEW f \in Files, InitReturns(f)
      PROVE  /\ UNCHANGED declared /\ (interrupted => interrupted')
             /\ \A h \in Handles : life[h] # "none" => owner'[h] = owner[h] /\ life'[h] # "none"
  BY <1>4 DEF InitReturns, endVars, LifeInv, Types
<1>5. ASSUME NEW f \in Files, DropReturns(f)
      PROVE  /\ UNCHANGED declared /\ (interrupted => interrupted')
             /\ \A h \in Handles : life[h] # "none" => owner'[h] = owner[h] /\ life'[h] # "none"
  BY <1>5 DEF DropReturns, endVars, LifeInv, Types
<1>6. ASSUME NEW f \in Files, StartFile(f) \/ FileStep(f), ~InitReturns(f), ~DropReturns(f)
      PROVE  UNCHANGED <<declared, interrupted, life, owner>>
  BY <1>6 DEF StartFile, FileStep, BeginScenario, ResetNext, ResetReturns, PluginStep, SharedLookup,
              Register, Publish, Dispatch, DispatchReturns, EndScenario, PanicFile, EndFile, DropNext,
              hostVars, endVars
<1> QED
  BY <1>1, <1>2, <1>3, <1>4, <1>5, <1>6 DEF Next

\* What holds of a task's resets goes on holding.
LEMMA ResetStays ==
  ASSUME LifeInv, [Next]_vars, NEW g \in Files, NEW k \in Tasks, ResetOK(k), file'[g] = k
  PROVE  ResetOK(file[g])'
<1>1. k.touched \cup Cached(k) \subseteq Handles
  BY DEF Tasks, Cached
<1>2. \A h \in k.touched \cup Cached(k) : life[h] # "none"
  BY DEF ResetOK
<1>3. \A h \in k.touched \cup Cached(k) : owner'[h] = owner[h] /\ life'[h] # "none"
  BY <1>1, <1>2, CreatedStays
<1>4. UNCHANGED declared /\ (interrupted => interrupted')
  BY CreatedStays
<1>5. Cached(file[g])' = Cached(k) /\ (\A i : PerWorker(i)' <=> PerWorker(i))
      /\ (\A i : Resets(i)' <=> Resets(i))
  BY <1>4 DEF Cached, PerWorker, Resets
<1>6. /\ \A h \in k.touched \cup Cached(k) : life'[h] # "none"
      /\ \A h \in k.touched : h \in Cached(k) \/ ~PerWorker(owner'[h])
      /\ k.pc = "reset" => \A h \in (k.todo \cup {k.call}) \ {0} : h \in Cached(k) /\ Resets(owner'[h])
  BY <1>3 DEF ResetOK
<1>7. /\ k.pc = "reset" /\ ~k.failed /\ ~interrupted' =>
           \A h \in k.stale : Resets(owner'[h]) => h \in k.todo \cup {k.call}
      /\ k.pc \notin {"boundary", "reset"} /\ ~k.failed /\ ~interrupted' =>
           \A h \in k.stale : ~Resets(owner'[h])
  BY <1>3, <1>4 DEF ResetOK
<1> QED
  BY <1>4, <1>5, <1>6, <1>7 DEF ResetOK

\* A task that goes on with what it has.
LEMMA ResetCarried ==
  ASSUME ResetInv, NEW f \in Files, NEW k \in Tasks,
         file[f].pc \notin {"boundary", "reset"},
         k.touched = file[f].touched, k.used = file[f].used, k.stale = file[f].stale,
         k.pc = "boundary" \/ (k.pc # "reset" /\ k.failed = file[f].failed),
         k.pc \in Stepping \/ (k.pc = "drop" /\ k.then = "dispatch") => ~k.failed,
         k.pc \in Stepping /\ PerWorker(k.inst) /\ k.used[k.inst] = 0 => k.created
  PROVE  ResetOK(k)
<1>1. ResetOK(file[f]) /\ Cached(k) = Cached(file[f])
  BY DEF ResetInv, Cached
<1> QED
  BY <1>1 DEF ResetOK

\* A task that has nothing in hand.
LEMMA ResetBlank ==
  ASSUME NEW k \in Tasks, k.touched = {}, k.stale = {}, k.used = [i \in Instances |-> 0],
         k.pc \notin Stepping \cup {"reset"}, k.pc = "drop" => k.then = "done"
  PROVE  ResetOK(k)
<1>1. Cached(k) = {}
  BY DEF Cached
<1> QED
  BY <1>1 DEF ResetOK

\* Going on behind the last reset or the last drop.
LEMMA ResetOnward ==
  ASSUME NEW x \in Tasks, ResetOK(x), Shape(x), x.pc \in {"reset", "drop"}
  PROVE  ResetOK(Onward(x))
<1>1. CASE x.todo # {} \/ x.call # 0
  BY <1>1 DEF Onward
<1>2. CASE x.todo = {} /\ x.call = 0 /\ x.pc = "reset"
  <2> DEFINE o == [x EXCEPT !.pc = "steps"]
  <2>1. Onward(x) = o
    BY <1>2 DEF Onward
  <2>2. /\ o.pc = "steps" /\ o.touched = x.touched /\ o.used = x.used /\ o.stale = x.stale
        /\ o.failed = x.failed
    BY DEF Tasks
  <2> HIDE DEF o
  <2>3. Cached(o) = Cached(x) /\ 0 \notin Cached(x)
    BY <2>2 DEF Cached
  <2> QED
    BY <1>2, <2>1, <2>2, <2>3 DEF ResetOK, Stepping
<1>3. CASE x.todo = {} /\ x.call = 0 /\ x.pc = "drop" /\ x.then = "done"
  <2>1. Onward(x) = FileAt("done")
    BY <1>3 DEF Onward
  <2>2. FileAt("done") \in Tasks
    BY EmptyTask DEF FilePcs
  <2> QED
    BY <2>1, <2>2, ResetBlank DEF FileAt, Stepping
<1>4. CASE x.todo = {} /\ x.call = 0 /\ x.pc = "drop" /\ x.then = "steps"
  <2> DEFINE o == [StepOver(x, TRUE) EXCEPT !.then = "none"]
  <2>1. Onward(x) = o
    BY <1>4 DEF Onward
  <2>2. o.pc = "steps" /\ o.touched = x.touched /\ o.used = x.used /\ o.stale = x.stale /\ o.failed
    BY DEF Tasks, StepOver
  <2> HIDE DEF o
  <2>3. Cached(o) = Cached(x)
    BY <2>2 DEF Cached
  <2> QED
    BY <2>1, <2>2, <2>3 DEF ResetOK, Stepping
<1>5. CASE x.todo = {} /\ x.call = 0 /\ x.pc = "drop" /\ x.then = "dispatch"
  <2> DEFINE o == [x EXCEPT !.pc = "dispatch", !.then = "none"]
  <2>1. Onward(x) = o
    BY <1>5 DEF Onward
  <2>2. /\ o.pc = "dispatch" /\ o.touched = x.touched /\ o.used = x.used /\ o.stale = x.stale
        /\ o.failed = x.failed /\ o.inst = x.inst
    BY DEF Tasks
  <2>3. ~PerWorker(x.inst) /\ ~x.failed
    BY <1>5 DEF Shape, ResetOK
  <2> HIDE DEF o
  <2>4. Cached(o) = Cached(x)
    BY <2>2 DEF Cached
  <2> QED
    BY <1>5, <2>1, <2>2, <2>3, <2>4 DEF ResetOK, Stepping
<1> QED
  BY <1>1, <1>2, <1>3, <1>4, <1>5 DEF Shape

\* A boundary takes stock of what answered, and sets out to reset all of it.
LEMMA BeginResets ==
  ASSUME ResetInv, NEW f \in Files, BeginScenario(f)
  PROVE  \E k \in Tasks : Becomes(f, k) /\ ResetOK(k)
<1> DEFINE x == [file[f] EXCEPT !.pc = "reset", !.scenario = file[f].scenario + 1, !.todo = ToReset(f),
                                !.stale = file[f].stale \cup Answered(f), !.touched = {}]
<1>1. LifeInv /\ file[f] \in Tasks /\ Shape(file[f]) /\ ResetOK(file[f]) /\ FileOK(file[f])
      /\ file[f].pc = "boundary"
  BY TaskIs DEF ResetInv, BeginScenario
<1>2. ToReset(f) = {h \in Cached(file[f]) : Resets(owner[h])} /\ Cached(file[f]) \in SUBSET Handles
  BY <1>1 DEF ToReset, Cached, Tasks
<1>3. Answered(f) \subseteq file[f].touched /\ Answered(f) \subseteq Cached(file[f])
  <2>1. 0 \notin file[f].touched
    BY <1>1, NoHandle DEF Tasks
  <2> QED
    BY <2>1 DEF Answered, Cached
<1>4. x \in Tasks
  <2>1. /\ file[f].scenario + 1 \in Nat /\ ToReset(f) \in SUBSET Handles /\ "reset" \in FilePcs
        /\ file[f].stale \cup Answered(f) \in SUBSET Handles
    BY <1>1, <1>2, <1>3 DEF Tasks, FilePcs
  <2> QED
    BY <1>1, <2>1, FieldTyped
<1>5. /\ x.pc = "reset" /\ x.call = 0 /\ x.todo = ToReset(f) /\ x.touched = {}
      /\ x.used = file[f].used /\ x.stale = file[f].stale \cup Answered(f) /\ x.owned = file[f].owned
      /\ x.handle = file[f].handle
  BY <1>1 DEF Tasks, Shape
<1>6. Becomes(f, Onward(x))
  BY DEF BeginScenario
<1> HIDE DEF x
<1>7. Cached(x) = Cached(file[f])
  BY <1>5 DEF Cached
<1>8. Shape(x)
  BY <1>1, <1>2, <1>5, <1>7 DEF Shape, AtStep, Fresh, Stepping
<1>9. ResetOK(x)
  <2>1. \A h \in Cached(x) : life[h] # "none"
    BY <1>1, <1>7 DEF ResetOK
  <2>2. x.stale \subseteq Cached(x)
    BY <1>1, <1>3, <1>5, <1>7 DEF ResetOK
  <2>3. \A h \in x.stale : Resets(owner[h]) => h \in x.todo
    BY <1>2, <1>5, <1>7, <2>2
  <2> QED
    BY <1>2, <1>5, <1>7, <2>1, <2>2, <2>3 DEF ResetOK, Stepping
<1> QED
  BY <1>4, <1>5, <1>6, <1>8, <1>9, ResetOnward, OnwardIs

\* A handle that is skipped has left the registry: nothing is skipped before an
\* interrupt.
LEMMA NextResets ==
  ASSUME ResetInv, NEW f \in Files, ResetNext(f)
  PROVE  \E k \in Tasks : Becomes(f, k) /\ ResetOK(k)
<1>1. LifeInv /\ file[f] \in Tasks /\ Shape(file[f]) /\ ResetOK(file[f]) /\ FileOK(file[f])
      /\ file[f].pc = "reset" /\ file[f].call = 0
  BY TaskIs DEF ResetInv, ResetNext
<1>2. PICK h \in file[f].todo :
        Becomes(f, Onward([file[f] EXCEPT !.todo = file[f].todo \ {h},
                                          !.call = IF h \in registry THEN h ELSE 0]))
  BY DEF ResetNext
<1> DEFINE c == IF h \in registry THEN h ELSE 0
           x == [file[f] EXCEPT !.todo = file[f].todo \ {h}, !.call = c]
<1>3. h \in Handles /\ h # 0 /\ h \in Cached(file[f]) /\ (~interrupted => h \in registry)
  BY <1>1, NoHandle DEF Tasks, Shape, FileOK, Sound, Using
<1>4. c \in Handles \cup {0} /\ c \in {0, h} /\ (~interrupted => c = h)
  BY <1>3
<1>5. x \in Tasks
  <2>1. file[f].todo \ {h} \in SUBSET Handles
    BY <1>1 DEF Tasks
  <2> HIDE DEF c
  <2> QED
    BY <1>1, <1>4, <2>1, FieldTyped
<1>6. /\ x.pc = "reset" /\ x.call = c /\ x.todo = file[f].todo \ {h} /\ x.touched = file[f].touched
      /\ x.used = file[f].used /\ x.stale = file[f].stale /\ x.owned = file[f].owned
      /\ x.handle = file[f].handle /\ x.failed = file[f].failed
  BY <1>1 DEF Tasks
<1>7. Becomes(f, Onward(x))
  BY <1>2
<1> HIDE DEF x, c
<1>8. Cached(x) = Cached(file[f])
  BY <1>6 DEF Cached
<1>9. Shape(x)
  BY <1>1, <1>3, <1>4, <1>6, <1>8 DEF Shape, AtStep, Fresh, Stepping
<1>10. ResetOK(x)
  <2>1. /\ \A g \in x.touched \cup Cached(x) : life[g] # "none"
        /\ \A g \in x.touched : g \in Cached(x) \/ ~PerWorker(owner[g])
        /\ x.stale \subseteq Cached(x)
    BY <1>1, <1>6, <1>8 DEF ResetOK
  <2>2. Resets(owner[h]) /\ \A g \in x.todo \ {0} : g \in Cached(x) /\ Resets(owner[g])
    BY <1>1, <1>3, <1>6, <1>8 DEF ResetOK
  <2>3. \A g \in (x.todo \cup {x.call}) \ {0} : g \in Cached(x) /\ Resets(owner[g])
    BY <1>3, <1>4, <1>6, <1>8, <2>2
  <2>4. ~interrupted => x.todo \cup {x.call} = file[f].todo
    BY <1>4, <1>6
  <2>5. x.pc = "reset" /\ ~x.failed /\ ~interrupted =>
          \A g \in x.stale : Resets(owner[g]) => g \in x.todo \cup {x.call}
    <3>1. 0 \notin Cached(file[f])
      BY DEF Cached
    <3> QED
      BY <1>1, <1>6, <2>4, <3>1 DEF ResetOK
  <2> QED
    BY <1>6, <2>1, <2>3, <2>5 DEF ResetOK, Stepping
<1> QED
  BY <1>5, <1>6, <1>7, <1>9, <1>10, ResetOnward, OnwardIs

\* What came back in order is not stale, and what did not fails the scenario.
LEMMA ReturnResets ==
  ASSUME ResetInv, NEW f \in Files, ResetReturns(f)
  PROVE  \E k \in Tasks : Becomes(f, k) /\ ResetOK(k)
<1>1. LifeInv /\ file[f] \in Tasks /\ Shape(file[f]) /\ ResetOK(file[f])
      /\ file[f].pc = "reset" /\ file[f].call # 0
  BY TaskIs DEF ResetInv, ResetReturns
<1>2. PICK ok \in BOOLEAN :
        Becomes(f, Onward([file[f] EXCEPT !.call = 0, !.stale = Unreset(f, ok),
                                          !.failed = file[f].failed \/ ~ok]))
  BY DEF ResetReturns
<1> DEFINE left == Unreset(f, ok)
           failed == file[f].failed \/ ~ok
           x == [file[f] EXCEPT !.call = 0, !.stale = left, !.failed = failed]
<1>3. /\ left \in SUBSET Handles /\ left \subseteq file[f].stale /\ failed \in BOOLEAN
      /\ ~failed => ~file[f].failed /\ left = file[f].stale \ {file[f].call}
  BY <1>1 DEF Tasks, Unreset
<1> HIDE DEF left, failed
<1>4. x \in Tasks
  BY <1>1, <1>3, FieldTyped
<1>5. /\ x.pc = "reset" /\ x.call = 0 /\ x.todo = file[f].todo /\ x.touched = file[f].touched
      /\ x.used = file[f].used /\ x.stale = left /\ x.owned = file[f].owned
      /\ x.handle = file[f].handle /\ x.failed = failed
  BY <1>1 DEF Tasks
<1>6. Becomes(f, Onward(x))
  BY <1>2 DEF left, failed
<1> HIDE DEF x
<1>7. Cached(x) = Cached(file[f])
  BY <1>5 DEF Cached
<1>8. Shape(x)
  BY <1>1, <1>5, <1>7 DEF Shape, AtStep, Fresh, Stepping
<1>9. ResetOK(x)
  BY <1>1, <1>3, <1>5, <1>7 DEF ResetOK, Stepping
<1> QED
  BY <1>4, <1>5, <1>6, <1>8, <1>9, ResetOnward, OnwardIs

\* An answer is recorded with the step that got it; a per_worker instance that
\* did not answer was in use before, or is undone and never counted.
LEMMA AnswerResets ==
  ASSUME ResetInv, NEW f \in Files, DispatchReturns(f), NEW k \in Tasks, Becomes(f, k)
  PROVE  ResetOK(k)
<1> DEFINE h == file[f].handle
           i == file[f].inst
           t == [file[f] EXCEPT !.touched = file[f].touched \cup {h}]
           owned == IF PerWorker(i) THEN t.owned \cup {h} ELSE t.owned
           recorded == [t EXCEPT !.used = [t.used EXCEPT ![i] = h], !.owned = owned]
           undone == [file[f] EXCEPT !.pc = "drop", !.todo = {h}, !.call = 0, !.then = "steps"]
<1>1. /\ LifeInv /\ file[f] \in Tasks /\ Shape(file[f]) /\ ResetOK(file[f]) /\ FileOK(file[f])
      /\ file[f].pc = "calling"
  BY TaskIs DEF ResetInv, DispatchReturns
<1>2. /\ i \in Instances /\ h # 0 /\ owner[h] = i /\ file[f].used[i] \in {0, h}
      /\ PerWorker(i) /\ file[f].used[i] = 0 <=> file[f].created
      /\ h \in Handles /\ life[h] # "none"
  BY <1>1 DEF Shape, Stepping, AtStep, Tasks, ResetOK, FileOK, Held
<1>3. k = file'[f]
  BY DEF Becomes, ResetInv, LifeInv, Types
<1>4. \/ \E failed \in BOOLEAN : k = StepOver(IF t.used[i] = 0 THEN recorded ELSE t, failed)
      \/ file[f].created /\ k = undone
      \/ ~file[f].created /\ k = StepOver(t, TRUE)
  BY <1>1, <1>3 DEF DispatchReturns, Becomes, LifeInv, Types
<1>5. t \in Tasks
  <2>1. file[f].touched \cup {h} \in SUBSET Handles
    BY <1>1, <1>2 DEF Tasks
  <2> QED
    BY <1>1, <2>1, FieldTyped
<1>6. /\ t.touched = file[f].touched \cup {h} /\ t.used = file[f].used /\ t.stale = file[f].stale
      /\ t.failed = file[f].failed
  BY <1>1 DEF Tasks
<1>7. ~file[f].failed
  BY <1>1 DEF ResetOK, Stepping
<1> HIDE DEF t
<1>8. CASE \E failed \in BOOLEAN : k = StepOver(IF t.used[i] = 0 THEN recorded ELSE t, failed)
  <2>1. PICK failed \in BOOLEAN : k = StepOver(IF t.used[i] = 0 THEN recorded ELSE t, failed)
    BY <1>8
  <2>2. /\ k.pc = "steps" /\ k.touched = file[f].touched \cup {h} /\ k.stale = file[f].stale
        /\ k.used = [file[f].used EXCEPT ![i] = h]
    <3>1. CASE t.used[i] = 0
      BY <1>5, <1>6, <2>1, <3>1 DEF StepOver, Tasks
    <3>2. CASE t.used[i] # 0
      <4>1. file[f].used = [file[f].used EXCEPT ![i] = h]
        BY <1>1, <1>2, <1>6, <3>2 DEF Tasks
      <4> QED
        BY <1>5, <1>6, <2>1, <3>2, <4>1 DEF StepOver, Tasks
    <3> QED
      BY <3>1, <3>2
  <2> HIDE DEF h, i
  <2>3. Cached(k) = Cached(file[f]) \cup {h}
    BY <1>1, <1>2, <2>2 DEF Cached, Tasks
  <2>4. \A g \in k.stale : ~interrupted => ~Resets(owner[g])
    BY <1>1, <1>7, <2>2 DEF ResetOK
  <2>5. /\ \A g \in k.touched \cup Cached(k) : life[g] # "none"
        /\ \A g \in k.touched : g \in Cached(k) \/ ~PerWorker(owner[g])
        /\ k.stale \subseteq Cached(k)
    BY <1>1, <1>2, <2>2, <2>3 DEF ResetOK
  <2> QED
    BY <2>2, <2>4, <2>5 DEF ResetOK, Stepping
<1>9. CASE file[f].created /\ k = undone
  <2>1. /\ k.pc = "drop" /\ k.then = "steps" /\ k.touched = file[f].touched /\ k.stale = file[f].stale
        /\ k.used = file[f].used /\ k.failed = file[f].failed
    BY <1>1, <1>9 DEF Tasks
  <2> QED
    BY <1>1, <2>1, ResetCarried DEF Stepping
<1>10. CASE ~file[f].created /\ k = StepOver(t, TRUE)
  <2>1. /\ k.pc = "steps" /\ k.touched = file[f].touched \cup {h} /\ k.stale = file[f].stale
        /\ k.used = file[f].used /\ k.failed
    BY <1>5, <1>6, <1>10 DEF StepOver, Tasks
  <2>2. h \in Cached(file[f]) \/ ~PerWorker(owner[h])
    BY <1>2, <1>10 DEF Cached
  <2> HIDE DEF h, i
  <2>3. Cached(k) = Cached(file[f])
    BY <2>1 DEF Cached
  <2> QED
    BY <1>1, <1>2, <2>1, <2>2, <2>3 DEF ResetOK, Stepping
<1> QED
  BY <1>4, <1>8, <1>9, <1>10

\* A drop, of a file's own at its end or of what a step gave up.
LEMMA DropResets ==
  ASSUME ResetInv, NEW f \in Files, DropNext(f) \/ DropReturns(f), NEW k \in Tasks, Becomes(f, k)
  PROVE  ResetOK(k)
<1>1. /\ LifeInv /\ file[f] \in Tasks /\ Shape(file[f]) /\ ResetOK(file[f]) /\ file[f].pc = "drop"
      /\ k = file'[f]
  BY TaskIs DEF ResetInv, DropNext, DropReturns, Becomes, LifeInv, Types
<1>2. PICK todo, c : /\ k = Onward([file[f] EXCEPT !.todo = todo, !.call = c])
                     /\ todo \subseteq file[f].todo /\ c \in file[f].todo \cup {0}
  <2>1. CASE DropNext(f)
    <3>1. PICK h \in file[f].todo :
            Becomes(f, Onward([file[f] EXCEPT !.todo = file[f].todo \ {h},
                                              !.call = IF h \in registry THEN h ELSE 0]))
      BY <2>1 DEF DropNext
    <3>2. k = Onward([file[f] EXCEPT !.todo = file[f].todo \ {h},
                                     !.call = IF h \in registry THEN h ELSE 0])
      BY <1>1, <3>1 DEF Becomes, LifeInv, Types
    <3> QED
      BY <3>1, <3>2
  <2>2. CASE DropReturns(f)
    <3>1. k = Onward([file[f] EXCEPT !.call = 0])
      BY <1>1, <2>2 DEF DropReturns, Becomes, LifeInv, Types
    <3>2. [file[f] EXCEPT !.call = 0] = [file[f] EXCEPT !.todo = file[f].todo, !.call = 0]
      BY <1>1 DEF Tasks
    <3> QED
      BY <3>1, <3>2
  <2> QED
    BY <2>1, <2>2
<1> DEFINE x == [file[f] EXCEPT !.todo = todo, !.call = c]
<1>3. x \in Tasks
  <2>1. todo \in SUBSET Handles /\ c \in Handles \cup {0}
    BY <1>1, <1>2 DEF Tasks
  <2> QED
    BY <1>1, <2>1, FieldTyped
<1>4. /\ x.pc = "drop" /\ x.touched = file[f].touched /\ x.stale = file[f].stale
      /\ x.used = file[f].used /\ x.failed = file[f].failed /\ x.then = file[f].then
      /\ x.inst = file[f].inst /\ x.todo = todo /\ x.call = c /\ x.owned = file[f].owned
      /\ x.handle = file[f].handle /\ x.created = file[f].created
  BY <1>1 DEF Tasks
<1>5. k = Onward(x)
  BY <1>2
<1> HIDE DEF x
<1>6. Cached(x) = Cached(file[f]) /\ Disposing(x) \subseteq Disposing(file[f])
  BY <1>1, <1>2, <1>4 DEF Cached, Disposing
<1>7. Shape(x)
  BY <1>1, <1>4, <1>6 DEF Shape, AtStep, Fresh, Stepping
<1>8. ResetOK(x)
  BY <1>1, <1>4, <1>6 DEF ResetOK, Stepping
<1> QED
  BY <1>3, <1>4, <1>5, <1>7, <1>8, ResetOnward

\* The steps that leave alone what answered and what is stale.
LEMMA PlainResets ==
  ASSUME ResetInv, NEW f \in Files, NEW k \in Tasks, Becomes(f, k),
         \/ StartFile(f) \/ PluginStep(f) \/ SharedLookup(f) \/ InitReturns(f) \/ Register(f)
         \/ Publish(f) \/ Dispatch(f) \/ EndScenario(f) \/ PanicFile(f) \/ EndFile(f)
  PROVE  ResetOK(k)
<1>1. /\ LifeInv /\ file[f] \in Tasks /\ Shape(file[f]) /\ ResetOK(file[f]) /\ k = file'[f]
  BY TaskIs DEF ResetInv, Becomes, LifeInv, Types
<1>2. \A x : Becomes(f, x) => k = x
  BY <1>1 DEF Becomes, LifeInv, Types
<1>3. CASE StartFile(f)
  <2>1. file[f].pc = "waiting" /\ k = [file[f] EXCEPT !.pc = "boundary"]
    BY <1>2, <1>3 DEF StartFile
  <2>2. /\ k.pc = "boundary" /\ k.touched = file[f].touched /\ k.stale = file[f].stale
        /\ k.used = file[f].used
    BY <1>1, <2>1 DEF Tasks
  <2> QED
    BY <2>1, <2>2, ResetCarried DEF Stepping
<1>4. CASE PluginStep(f)
  <2>1. PICK i \in Instances : k = [file[f] EXCEPT
             !.steps = file[f].steps + 1, !.inst = i, !.handle = file[f].used[i],
             !.created = file[f].used[i] = 0 /\ PerWorker(i),
             !.pc = IF file[f].used[i] # 0 THEN "dispatch"
                    ELSE IF PerWorker(i) THEN "init" ELSE "lookup"]
    BY <1>2, <1>4 DEF PluginStep
  <2>2. file[f].pc = "steps" /\ ~file[f].failed
    BY <1>4 DEF PluginStep
  <2>3. /\ k.touched = file[f].touched /\ k.stale = file[f].stale /\ k.used = file[f].used
        /\ k.failed = file[f].failed /\ k.inst = i
    BY <1>1, <2>1 DEF Tasks
  <2>4. k.created = (file[f].used[i] = 0 /\ PerWorker(i)) /\ k.pc \in {"dispatch", "init", "lookup"}
    BY <1>1, <2>1 DEF Tasks
  <2> QED
    BY <2>2, <2>3, <2>4, ResetCarried
<1>5. CASE SharedLookup(f)
  <2>1. /\ file[f].pc = "lookup"
        /\ k = [file[f] EXCEPT !.handle = shared[file[f].inst],
                               !.pc = IF shared[file[f].inst] # 0 THEN "dispatch" ELSE "init"]
    BY <1>2, <1>5 DEF SharedLookup
  <2>2. /\ k.touched = file[f].touched /\ k.stale = file[f].stale /\ k.used = file[f].used
        /\ k.failed = file[f].failed /\ k.inst = file[f].inst /\ k.pc \in {"dispatch", "init"}
    BY <1>1, <2>1 DEF Tasks
  <2>3. ~PerWorker(k.inst) /\ ~file[f].failed
    BY <1>1, <2>1, <2>2 DEF Shape, ResetOK, Stepping
  <2> QED
    BY <2>1, <2>2, <2>3, ResetCarried
<1>6. CASE InitReturns(f)
  <2>1. file[f].pc = "init" /\ ~file[f].failed
        /\ (PerWorker(file[f].inst) /\ file[f].used[file[f].inst] = 0 => file[f].created)
    BY <1>1, <1>6 DEF InitReturns, ResetOK, Stepping
  <2>2. k = StepOver(file[f], TRUE)
        \/ \E h : k = [file[f] EXCEPT !.pc = "register", !.handle = h]
    BY <1>2, <1>6 DEF InitReturns
  <2>3. CASE k = StepOver(file[f], TRUE)
    <3>1. /\ k.pc = "steps" /\ k.touched = file[f].touched /\ k.stale = file[f].stale
          /\ k.used = file[f].used /\ k.failed
      BY <1>1, <2>3 DEF Tasks, StepOver
    <3>2. Cached(k) = Cached(file[f])
      BY <3>1 DEF Cached
    <3> QED
      BY <1>1, <3>1, <3>2 DEF ResetOK, Stepping
  <2>4. CASE \E h : k = [file[f] EXCEPT !.pc = "register", !.handle = h]
    <3>1. /\ k.pc = "register" /\ k.touched = file[f].touched /\ k.stale = file[f].stale
          /\ k.used = file[f].used /\ k.failed = file[f].failed /\ k.inst = file[f].inst
          /\ k.created = file[f].created
      BY <1>1, <2>4 DEF Tasks
    <3> QED
      BY <2>1, <3>1, ResetCarried
  <2> QED
    BY <2>2, <2>3, <2>4
<1>7. CASE Register(f)
  <2>1. file[f].pc = "register" /\ ~file[f].failed
        /\ (PerWorker(file[f].inst) /\ file[f].used[file[f].inst] = 0 => file[f].created)
    BY <1>1, <1>7 DEF Register, ResetOK, Stepping
  <2>2. k = [file[f] EXCEPT !.pc = IF PerWorker(file[f].inst) THEN "dispatch" ELSE "publish"]
    BY <1>2, <1>7 DEF Register
  <2>3. /\ k.pc \in {"dispatch", "publish"} /\ k.touched = file[f].touched /\ k.stale = file[f].stale
        /\ k.used = file[f].used /\ k.failed = file[f].failed /\ k.inst = file[f].inst
        /\ k.created = file[f].created
    BY <1>1, <2>2 DEF Tasks
  <2> QED
    BY <2>1, <2>3, ResetCarried
<1>8. CASE Publish(f)
  <2>1. file[f].pc = "publish" /\ ~file[f].failed /\ ~PerWorker(file[f].inst)
    BY <1>1, <1>8 DEF Publish, ResetOK, Stepping, Shape
  <2>2. \/ k = [file[f] EXCEPT !.pc = "drop", !.todo = {file[f].handle},
                               !.handle = shared[file[f].inst], !.then = "dispatch"]
        \/ k = [file[f] EXCEPT !.pc = "dispatch"]
    BY <1>2, <1>8 DEF Publish
  <2>3. /\ k.pc \in {"drop", "dispatch"} /\ k.touched = file[f].touched /\ k.stale = file[f].stale
        /\ k.used = file[f].used /\ k.failed = file[f].failed /\ k.inst = file[f].inst
    BY <1>1, <2>2 DEF Tasks
  <2> QED
    BY <2>1, <2>3, ResetCarried
<1>9. CASE Dispatch(f)
  <2>1. file[f].pc = "dispatch" /\ ~file[f].failed
        /\ (PerWorker(file[f].inst) /\ file[f].used[file[f].inst] = 0 => file[f].created)
    BY <1>1, <1>9 DEF Dispatch, ResetOK, Stepping
  <2>2. k = [file[f] EXCEPT !.pc = "calling", !.call = file[f].handle]
    BY <1>2, <1>9 DEF Dispatch
  <2>3. /\ k.pc = "calling" /\ k.touched = file[f].touched /\ k.stale = file[f].stale
        /\ k.used = file[f].used /\ k.failed = file[f].failed /\ k.inst = file[f].inst
        /\ k.created = file[f].created
    BY <1>1, <2>2 DEF Tasks
  <2> QED
    BY <2>1, <2>3, ResetCarried
<1>10. CASE EndScenario(f)
  <2>1. file[f].pc = "steps" /\ k = [file[f] EXCEPT !.pc = "boundary", !.steps = 0, !.failed = FALSE]
    BY <1>2, <1>10 DEF EndScenario
  <2>2. /\ k.pc = "boundary" /\ k.touched = file[f].touched /\ k.stale = file[f].stale
        /\ k.used = file[f].used
    BY <1>1, <2>1 DEF Tasks
  <2> QED
    BY <2>1, <2>2, ResetCarried DEF Stepping
<1>11. CASE PanicFile(f)
  <2>1. k = FileAt("panicked")
    BY <1>2, <1>11 DEF PanicFile
  <2> QED
    BY <2>1, ResetBlank DEF FileAt, Stepping
<1>12. CASE EndFile(f)
  <2> DEFINE x == [FileAt("drop") EXCEPT !.todo = file[f].owned, !.owned = file[f].owned,
                                         !.then = "done"]
  <2>1. k = Onward(x)
    BY <1>2, <1>12 DEF EndFile
  <2>2. x \in Tasks
    <3>1. FileAt("drop") \in Tasks /\ file[f].owned \in SUBSET Handles
      BY <1>1, EmptyTask DEF FilePcs, Tasks
    <3> QED
      BY <3>1, FieldTyped
  <2>3. /\ x.pc = "drop" /\ x.then = "done" /\ x.touched = {} /\ x.stale = {} /\ x.call = 0
        /\ x.used = [i \in Instances |-> 0] /\ x.todo = file[f].owned /\ x.owned = file[f].owned
        /\ x.handle = 0
    BY DEF FileAt
  <2> HIDE DEF x
  <2>4. ResetOK(x)
    BY <2>2, <2>3, ResetBlank DEF Stepping
  <2>5. Cached(x) = {} /\ Disposing(x) \subseteq file[f].owned
    BY <2>3 DEF Cached, Disposing
  <2>6. Shape(x)
    BY <1>1, <2>3, <2>5 DEF Shape, AtStep, Fresh, Stepping
  <2> QED
    BY <2>1, <2>2, <2>3, <2>4, <2>6, ResetOnward
<1> QED
  BY <1>3, <1>4, <1>5, <1>6, <1>7, <1>8, <1>9, <1>10, <1>11, <1>12

\* With a concurrency of one a file starts when no other runs.
LEMMA AloneKept == ASSUME ResetInv, [Next]_vars PROVE Alone'
<1> SUFFICES ASSUME declared.concurrency = 1, NEW f \in Files, NEW g \in Files,
                    file'[f].pc \notin {"waiting", "done", "panicked"},
                    file'[g].pc \notin {"waiting", "done", "panicked"}, f # g
             PROVE  FALSE
  BY CreatedStays DEF Alone, Ended, ResetInv
<1>1. LifeInv /\ Types /\ \A x, y \in Files : ~Ended(x) /\ ~Ended(y) => x = y
  BY DEF ResetInv, LifeInv, Alone
<1>2. CASE file' = file
  BY <1>1, <1>2 DEF Ended
<1>3. ASSUME NEW e \in Files, FileStep(e)
      PROVE  FALSE
  <2>1. ~Ended(e) /\ \A x \in Files : x # e => file'[x] = file[x]
    BY <1>1, <1>3 DEF FileStep, BeginScenario, ResetNext, ResetReturns, PluginStep, SharedLookup,
                 InitReturns, Register, Publish, Dispatch, DispatchReturns, EndScenario, PanicFile,
                 EndFile, DropNext, DropReturns, Becomes, Types, Ended
  <2> QED
    BY <1>1, <2>1 DEF Ended
<1>4. ASSUME NEW e \in Files, StartFile(e)
      PROVE  FALSE
  <2>1. Cardinality(Running) < 1 /\ \A x \in Files : x # e => file'[x] = file[x]
    BY <1>1, <1>4 DEF StartFile, Becomes, Types
  <2>2. IsFiniteSet(Running)
    BY FilesAssumption, FS_Subset DEF Running
  <2>3. Running = {}
    <3>1. Cardinality(Running) \in Nat
      BY <2>2, FS_CardinalityType
    <3> QED
      BY <2>1, <2>2, <3>1, FS_EmptySet
  <2> QED
    BY <2>1, <2>3 DEF Running, Ended
<1>5. CASE SweepStep \/ Interrupt \/ ExitProcess
  BY <1>2, <1>5 DEF SweepStep, SweepCopy, SweepClear, SweepNext, SweepReturns, SweepOver, Interrupt,
                    ExitProcess
<1>6. CASE UNCHANGED vars
  BY <1>2, <1>6 DEF vars
<1> QED
  BY <1>3, <1>4, <1>5, <1>6 DEF Next

LEMMA ResetStep == ResetInv /\ [Next]_vars => ResetInv'
<1> SUFFICES ASSUME ResetInv, [Next]_vars PROVE ResetInv'
  OBVIOUS
<1>1. LifeInv /\ LifeInv' /\ Types'
  BY LifeStep DEF ResetInv, LifeInv
<1>2. Alone' /\ UNCHANGED declared
  BY AloneKept, CreatedStays, <1>1
<1>3. ASSUME NEW g \in Files, file'[g] = file[g] PROVE ResetOK(file[g])'
  BY <1>1, <1>3, TaskIs, ResetStays DEF ResetInv
<1>4. ASSUME NEW f \in Files, StartFile(f) \/ FileStep(f), NEW g \in Files PROVE ResetOK(file[g])'
  <2>1. \E x : Becomes(f, x)
    BY <1>4 DEF StartFile, FileStep, BeginScenario, ResetNext, ResetReturns, PluginStep, SharedLookup,
                InitReturns, Register, Publish, Dispatch, DispatchReturns, EndScenario, PanicFile,
                EndFile, DropNext, DropReturns
  <2>2. CASE g # f
    <3>1. file'[g] = file[g]
      BY <1>1, <2>1, <2>2 DEF LifeInv, Types, Becomes
    <3> QED
      BY <1>3, <3>1
  <2>3. CASE g = f
    <3>1. PICK k \in Tasks : Becomes(f, k) /\ file'[f] = k
      BY <1>1, <2>1 DEF LifeInv, Types, Becomes
    <3>2. \A x : Becomes(f, x) => x = k
      BY <1>1, <3>1 DEF LifeInv, Types, Becomes
    <3>3. ResetOK(k)
      <4>1. CASE BeginScenario(f)
        BY <3>2, <4>1, BeginResets
      <4>2. CASE ResetNext(f)
        BY <3>2, <4>2, NextResets
      <4>3. CASE ResetReturns(f)
        BY <3>2, <4>3, ReturnResets
      <4>4. CASE DispatchReturns(f)
        BY <3>1, <4>4, AnswerResets
      <4>5. CASE DropNext(f) \/ DropReturns(f)
        BY <3>1, <4>5, DropResets
      <4>6. CASE \/ StartFile(f) \/ PluginStep(f) \/ SharedLookup(f) \/ InitReturns(f) \/ Register(f)
                 \/ Publish(f) \/ Dispatch(f) \/ EndScenario(f) \/ PanicFile(f) \/ EndFile(f)
        BY <3>1, <4>6, PlainResets
      <4> QED
        BY <1>4, <4>1, <4>2, <4>3, <4>4, <4>5, <4>6 DEF FileStep
    <3> QED
      BY <1>1, <2>3, <3>1, <3>3, ResetStays
  <2> QED
    BY <2>2, <2>3
<1>5. CASE SweepStep \/ Interrupt \/ ExitProcess \/ UNCHANGED vars
  <2>1. file' = file
    BY <1>5 DEF SweepStep, SweepCopy, SweepClear, SweepNext, SweepReturns, SweepOver, Interrupt,
                ExitProcess, vars
  <2> QED
    BY <1>1, <1>2, <1>3, <2>1 DEF ResetInv, Loadable
<1>6. CASE \E f \in Files : StartFile(f) \/ FileStep(f)
  BY <1>1, <1>2, <1>4, <1>6 DEF ResetInv, Loadable
<1> QED
  BY <1>5, <1>6 DEF Next

\* A step runs only on an instance that was reset since it last answered an
\* earlier scenario of the file, and no boundary resets an instance another
\* file is in the middle of a scenario with (runner.rs run_file,
\* plugin/mod.rs load, to_reset, reset_instances).
THEOREM ResetsAreKept == Spec => []ResetDiscipline
<1>1. Init => ResetInv
  <2> SUFFICES ASSUME Init PROVE ResetInv
    OBVIOUS
  <2>1. LifeInv /\ Loadable(declared)
        /\ declared \in [plugin : Declarations, concurrency : 1..MaxConcurrency]
    BY LifeStart DEF Init
  <2>2. \A f \in Files : file[f] = FileAt("waiting") /\ FileAt("waiting") \in Tasks
    BY EmptyTask DEF Init, FilePcs
  <2>3. Alone /\ \A f \in Files : ResetOK(file[f])
    BY <2>2, ResetBlank DEF Alone, Ended, FileAt, Stepping
  <2> QED
    BY <2>1, <2>3 DEF ResetInv
<1>2. ResetInv => ResetDiscipline
  <2> SUFFICES ASSUME ResetInv PROVE ResetDiscipline
    OBVIOUS
  <2>1. \A f \in Files : file[f] \in Tasks /\ Shape(file[f]) /\ ResetOK(file[f])
    BY TaskIs DEF ResetInv
  <2>2. ResetBeforeReuse
    BY <2>1 DEF ResetBeforeReuse, ResetOK, Stepping
  <2>3. ASSUME NEW f \in Files, NEW g \in Files, f # g, file[f].pc = "reset", file[f].call # 0,
               file[f].call \in file[g].touched, ~Ended(g)
        PROVE  FALSE
    <3> DEFINE h == file[f].call
    <3>1. h \in Cached(file[f]) /\ Resets(owner[h])
      BY <2>1, <2>3 DEF ResetOK
    <3>2. CASE PerWorker(owner[h])
      <4>1. h \in Held(file[f]) /\ h \in Held(file[g])
        BY <2>1, <2>3, <3>1, <3>2 DEF ResetOK, Held, Cached
      <4> QED
        BY <2>3, <3>2, <4>1 DEF ResetInv, LifeInv, Apart
    <3>3. CASE ~PerWorker(owner[h])
      <4>1. PICK i \in Instances : owner[h] = i
        BY <2>1, <3>1 DEF Shape, Cached
      <4>2. declared.plugin[i].mode = "shared"
        BY <3>3, <4>1, DeclarationsAssumption DEF ResetInv, PerWorker
      <4>3. declared.concurrency = 1
        BY <3>1, <4>1, <4>2 DEF ResetInv, Loadable, Resets
      <4> QED
        BY <2>3, <4>3 DEF ResetInv, Alone, Ended
    <3> QED
      BY <3>2, <3>3
  <2> QED
    BY <2>2, <2>3 DEF ResetDiscipline, ResetSparesOthers
<1> QED
  BY <1>1, <1>2, ResetStep, PTL DEF Spec

=============================================================================
