----------------------------- MODULE TraceProofs -----------------------------
(***************************************************************************)
(* The evidence a run leaves on disk is what its stream points at, and the *)
(* page of a file tells what its run did, for any sources of evidence, any *)
(* files, values and cap, and whatever is marked, fails, panics or is      *)
(* interrupted.                                                            *)
(*                                                                         *)
(* The argument follows a long text from the moment its directory is named *)
(* (the counter is taken once, DirsInv) over the hold buffer, where an     *)
(* event and its file wait together (ScenarioInv), to the page, which      *)
(* refers to nothing that is not on disk or known to be lost (RefersInv).  *)
(* What a scenario deferred is counted, so that one which stayed under the *)
(* cap has everything still in the buffer when its outcome is known        *)
(* (PassingInv); and what is written then is masked with the set of that   *)
(* moment, which does not change before the scenario's end (SecretsInv).   *)
(*                                                                         *)
(* The second half (TellsInv) draws the scenario at work on the page from  *)
(* the calls of the run: see the comment there.                            *)
(***************************************************************************)
EXTENDS Trace, FiniteSetTheorems, TLAPS

(***************************************************************************)
(* The tree of a report, and what an event may do to it: one that belongs  *)
(* to a scenario leaves everything but that scenario as it was, and adds   *)
(* no evidence but the one it carries.                                     *)
(***************************************************************************)
Statuses == {"open", "none", "skipped", "passed", "failed"}
Coverages == {"none", "partial", "full"}
Contents == [dir : Nat, size : Nat, shows : SUBSET Values, deferred : BOOLEAN]
Items == [kind : {"step", "annotation"}, status : Statuses, vars : SUBSET SUBSET Values,
          evidence : Seq(Contents), attempts : Nat]
SceneRecords ==
  [status : Statuses, coverage : Coverages, items : Seq(Items), parents : Seq(Nat), byStep : Seq(Nat)]
Scenes == {s \in SceneRecords : /\ Len(s.parents) = Len(s.items)
                               /\ \A n \in DOMAIN s.byStep : s.byStep[n] \in DOMAIN s.items}
Pages == [panicked : BOOLEAN, scenarios : Seq(Scenes)]
Trees == [files : Seq(Pages), index : [Paths -> Nat], incomplete : BOOLEAN]
Reports == {r \in Trees : \A p \in Paths : r.index[p] <= Len(r.files)}

\* q is r with another scenario in the place k of page i.
Placed(r, q, i, k, s) ==
  /\ q \in Reports /\ q.index = r.index /\ q.incomplete = r.incomplete
  /\ DOMAIN q.files = DOMAIN r.files
  /\ \A j \in DOMAIN r.files : j # i => q.files[j] = r.files[j]
  /\ q.files[i].panicked = r.files[i].panicked
  /\ DOMAIN q.files[i].scenarios = DOMAIN r.files[i].scenarios
  /\ \A m \in DOMAIN r.files[i].scenarios : m # k => q.files[i].scenarios[m] = r.files[i].scenarios[m]
  /\ q.files[i].scenarios[k] = s

\* Whether the report knows where an event belongs.
Reaches(r, e) == FileOf(r, e) # 0 /\ e.scenario \in DOMAIN File(r, e).scenarios

LEMMA PageIn ==
  ASSUME NEW r \in Reports, NEW p \in Paths, r.index[p] # 0
  PROVE  r.index[p] \in DOMAIN r.files /\ r.files[r.index[p]] \in Pages
BY DEF Reports, Trees

LEMMA PutScenario ==
  ASSUME NEW r \in Reports, NEW e, e.file \in Paths, Reaches(r, e), NEW s \in Scenes
  PROVE  Placed(r, InScenario(r, e, s), FileOf(r, e), e.scenario, s)
<1>1. PICK i, k : i = FileOf(r, e) /\ k = e.scenario
  OBVIOUS
<1>2. i \in DOMAIN r.files /\ r.files[i] \in Pages /\ k \in DOMAIN r.files[i].scenarios
  BY <1>1, PageIn DEF Reaches, FileOf, File
<1>3. PICK page : page = [r.files[i] EXCEPT !.scenarios[k] = s]
  OBVIOUS
<1>4. InScenario(r, e, s) = [r EXCEPT !.files[i] = page]
  BY <1>1, <1>3 DEF InScenario, InFile, Reaches, File, FileOf
<1>5. /\ page \in Pages /\ page.panicked = r.files[i].panicked
      /\ DOMAIN page.scenarios = DOMAIN r.files[i].scenarios /\ page.scenarios[k] = s
      /\ \A m \in DOMAIN r.files[i].scenarios : m # k => page.scenarios[m] = r.files[i].scenarios[m]
  BY <1>2, <1>3 DEF Pages
<1>6. PICK q : q = [r EXCEPT !.files[i] = page]
  OBVIOUS
<1>7. r \in Trees
  BY DEF Reports
<1>8. /\ q \in Trees /\ q.index = r.index /\ q.incomplete = r.incomplete
      /\ DOMAIN q.files = DOMAIN r.files /\ Len(q.files) = Len(r.files) /\ q.files[i] = page
      /\ \A j \in DOMAIN r.files : j # i => q.files[j] = r.files[j]
  <2>1. PICK list : list = [r.files EXCEPT ![i] = page]
    OBVIOUS
  <2>2. r.files \in Seq(Pages)
    BY <1>7 DEF Trees
  <2>3. /\ list \in Seq(Pages) /\ DOMAIN list = DOMAIN r.files /\ Len(list) = Len(r.files)
        /\ list[i] = page /\ \A j \in DOMAIN r.files : j # i => list[j] = r.files[j]
    BY <1>2, <1>5, <2>1, <2>2
  <2>4. q = [r EXCEPT !.files = list]
    BY <1>6, <2>1
  <2> QED
    BY <1>7, <2>3, <2>4 DEF Trees
<1>9. q \in Reports
  BY <1>8 DEF Reports
<1> QED
  BY <1>1, <1>4, <1>5, <1>6, <1>8, <1>9 DEF Placed

LEMMA NotReached ==
  ASSUME NEW r, NEW e, ~Reaches(r, e), NEW s
  PROVE  InScenario(r, e, s) = r
BY DEF InScenario, InFile, Reaches, File, FileOf

LEMMA EvidenceIs ==
  ASSUME NEW s, NEW c
  PROVE  c \in AllEvidence(s) <=>
           \E i \in DOMAIN s.items : \E k \in DOMAIN s.items[i].evidence : c = s.items[i].evidence[k]
BY DEF AllEvidence

\* What Push makes of a scenario.
Pushed(s, item, up, numbered) ==
  [s EXCEPT !.items = Append(@, item), !.parents = Append(@, up),
            !.byStep = IF numbered THEN Append(@, Len(s.items) + 1) ELSE @]

LEMMA PushedScene ==
  ASSUME NEW s \in Scenes, NEW item \in Items, item.evidence = <<>>, NEW up \in Nat,
         NEW numbered \in BOOLEAN
  PROVE  Pushed(s, item, up, numbered) \in Scenes /\ AllEvidence(Pushed(s, item, up, numbered)) = AllEvidence(s)
<1>1. PICK n, list, ups, nums, q :
        /\ n = Len(s.items) /\ list = Append(s.items, item) /\ ups = Append(s.parents, up)
        /\ nums = IF numbered THEN Append(s.byStep, n + 1) ELSE s.byStep
        /\ q = Pushed(s, item, up, numbered)
  OBVIOUS
<1>2. s \in SceneRecords /\ Len(s.parents) = n /\ n \in Nat /\ \A m \in DOMAIN s.byStep : s.byStep[m] \in 1..n
  BY <1>1 DEF Scenes, SceneRecords
<1>3. q = [s EXCEPT !.items = list, !.parents = ups, !.byStep = nums]
  BY <1>1 DEF Pushed
<1>4. /\ list \in Seq(Items) /\ ups \in Seq(Nat) /\ Len(list) = n + 1 /\ Len(ups) = n + 1
      /\ list[n + 1] = item /\ \A i \in 1..n : list[i] = s.items[i]
  BY <1>1, <1>2, SMTT(30) DEF SceneRecords
<1>5. nums \in Seq(Nat) /\ \A m \in DOMAIN nums : nums[m] \in 1..(n + 1)
  BY <1>1, <1>2 DEF SceneRecords
<1>6. /\ q \in SceneRecords /\ q.items = list /\ q.parents = ups /\ q.byStep = nums
  BY <1>2, <1>3, <1>4, <1>5 DEF SceneRecords
<1>7. q \in Scenes
  BY <1>4, <1>5, <1>6 DEF Scenes
<1>8. ASSUME NEW c PROVE c \in AllEvidence(q) <=> c \in AllEvidence(s)
  <2>1. DOMAIN list = 1..(n + 1) /\ DOMAIN s.items = 1..n
    BY <1>1, <1>2, <1>4 DEF SceneRecords
  <2>2. DOMAIN item.evidence = {}
    OBVIOUS
  <2>3. c \in AllEvidence(q) <=>
          \E i \in 1..(n + 1) : \E k \in DOMAIN list[i].evidence : c = list[i].evidence[k]
    <3>1. c \in AllEvidence(q) <=>
            \E i \in DOMAIN q.items : \E k \in DOMAIN q.items[i].evidence : c = q.items[i].evidence[k]
      BY ONLY EvidenceIs
    <3>2. q.items = list
      BY <1>6
    <3> QED
      BY ONLY <2>1, <3>1, <3>2
  <2>4. c \in AllEvidence(s) <=>
          \E i \in 1..n : \E k \in DOMAIN s.items[i].evidence : c = s.items[i].evidence[k]
    <3>1. c \in AllEvidence(s) <=>
            \E i \in DOMAIN s.items : \E k \in DOMAIN s.items[i].evidence : c = s.items[i].evidence[k]
      BY ONLY EvidenceIs
    <3> QED
      BY ONLY <2>1, <3>1
  <2>5. \A i : i \in 1..(n + 1) <=> i \in 1..n \/ i = n + 1
    BY <1>2
  <2> QED
    BY ONLY <1>4, <2>2, <2>3, <2>4, <2>5
<1> QED
  BY <1>1, <1>7, <1>8

\* What an event about a step makes of its item.
LEMMA ItemPut ==
  ASSUME NEW s \in Scenes, NEW b \in DOMAIN s.items, NEW item \in Items
  PROVE  /\ [s EXCEPT !.items[b] = item] \in Scenes
         /\ \A c \in AllEvidence([s EXCEPT !.items[b] = item]) :
              c \in AllEvidence(s) \/ \E k \in DOMAIN item.evidence : c = item.evidence[k]
<1>1. PICK list, q : list = [s.items EXCEPT ![b] = item] /\ q = [s EXCEPT !.items[b] = item]
  OBVIOUS
<1>2. s \in SceneRecords /\ s.items \in Seq(Items)
  BY DEF Scenes, SceneRecords
<1>3. /\ list \in Seq(Items) /\ DOMAIN list = DOMAIN s.items /\ Len(list) = Len(s.items)
      /\ list[b] = item /\ \A i \in DOMAIN list : i # b => list[i] = s.items[i]
  BY <1>1, <1>2
<1>4. q = [s EXCEPT !.items = list]
  BY <1>1
<1>5. q \in SceneRecords /\ q.items = list /\ q.parents = s.parents /\ q.byStep = s.byStep
  BY <1>2, <1>3, <1>4 DEF SceneRecords
<1>6. q \in Scenes
  BY <1>3, <1>5 DEF Scenes
<1>7. ASSUME NEW c \in AllEvidence(q)
      PROVE  c \in AllEvidence(s) \/ \E k \in DOMAIN item.evidence : c = item.evidence[k]
  <2>1. PICK i \in DOMAIN q.items : \E k \in DOMAIN q.items[i].evidence : c = q.items[i].evidence[k]
    BY EvidenceIs
  <2>2. PICK k \in DOMAIN list[i].evidence : c = list[i].evidence[k]
    BY <1>5, <2>1
  <2>3. i \in DOMAIN list
    BY <1>5, <2>1
  <2>4. CASE i = b
    BY <1>3, <2>2, <2>4
  <2>5. CASE i # b
    <3>1. list[i] = s.items[i] /\ i \in DOMAIN s.items
      BY <1>3, <2>3, <2>5
    <3>2. k \in DOMAIN s.items[i].evidence /\ c = s.items[i].evidence[k]
      BY <2>2, <3>1
    <3> QED
      BY <3>1, <3>2, EvidenceIs
  <2> QED
    BY <2>4, <2>5
<1> QED
  BY <1>1, <1>6, <1>7

\* The events about a scenario, each with what it carries.
SceneKinds == {"step_started", "step_skipped", "annotation", "step_finished", "vars", "evidence",
               "attempt", "scenario_finished"}
SceneEvent(e) ==
  /\ e.type \in SceneKinds /\ e.file \in Paths /\ e.scenario \in Nat
  /\ e.type \in {"step_started", "vars"} => e.vars \in SUBSET SUBSET Values
  /\ e.type = "evidence" => e.content \in Contents
  /\ e.type \in {"step_finished", "scenario_finished"} => e.status \in Statuses
  /\ e.type = "scenario_finished" => e.coverage \in Coverages
Brings(e) == IF e.type = "evidence" THEN {e.content} ELSE {}

\* The item a step event makes of the one it is about.
Changed(item, e) ==
  CASE e.type = "step_finished" -> [item EXCEPT !.status = e.status]
    [] e.type = "vars" -> [item EXCEPT !.vars = e.vars]
    [] e.type = "evidence" -> [item EXCEPT !.evidence = Append(@, e.content)]
    [] e.type = "attempt" -> [item EXCEPT !.attempts = @ + 1]

LEMMA ChangedItem ==
  ASSUME NEW item \in Items, NEW e, SceneEvent(e),
         e.type \in {"step_finished", "vars", "evidence", "attempt"}
  PROVE  /\ Changed(item, e) \in Items
         /\ \A k \in DOMAIN Changed(item, e).evidence :
              \/ k \in DOMAIN item.evidence /\ Changed(item, e).evidence[k] = item.evidence[k]
              \/ Changed(item, e).evidence[k] \in Brings(e)
<1>1. CASE e.type = "step_finished"
  BY <1>1 DEF Changed, Items, SceneEvent
<1>2. CASE e.type = "vars"
  BY <1>2 DEF Changed, Items, SceneEvent
<1>3. CASE e.type = "attempt"
  BY <1>3 DEF Changed, Items, SceneEvent
<1>4. CASE e.type = "evidence"
  <2>1. PICK list, c : list = Append(item.evidence, c) /\ c = e.content
    OBVIOUS
  <2>2. c \in Contents /\ item.evidence \in Seq(Contents)
    BY <1>4, <2>1 DEF SceneEvent, Items
  <2>3. /\ list \in Seq(Contents)
        /\ \A k \in DOMAIN list : (k \in DOMAIN item.evidence /\ list[k] = item.evidence[k]) \/ list[k] = c
    BY <2>1, <2>2
  <2>4. Changed(item, e) = [item EXCEPT !.evidence = list]
    BY <1>4, <2>1 DEF Changed
  <2>5. Changed(item, e) \in Items /\ Changed(item, e).evidence = list
    BY <2>3, <2>4 DEF Items
  <2> QED
    BY <1>4, <2>1, <2>3, <2>5 DEF Brings
<1> QED
  BY <1>1, <1>2, <1>3, <1>4

LEMMA SceneIn ==
  ASSUME NEW r \in Reports, NEW e, SceneEvent(e), Reaches(r, e)
  PROVE  Scenario(r, e) \in Scenes
BY PageIn DEF Reaches, Scenario, File, FileOf, Pages, SceneEvent

\* The scenario an event about it leaves.
LEMMA StepEvent ==
  ASSUME NEW r \in Reports, NEW e, SceneEvent(e), Reaches(r, e),
         e.type \in {"step_finished", "vars", "evidence", "attempt"}
  PROVE  \E s \in Scenes : /\ Apply(r, e) = InScenario(r, e, s)
                           /\ \A c \in AllEvidence(s) : c \in AllEvidence(Scenario(r, e)) \cup Brings(e)
<1>1. PICK s : s = Scenario(r, e)
  OBVIOUS
<1>2. s \in Scenes
  BY <1>1, SceneIn
<1>3. CASE e.step \notin DOMAIN s.byStep
  <2>1. Apply(r, e) = InScenario(r, e, s)
    BY <1>1, <1>3 DEF Apply, InStep
  <2> QED
    BY <1>1, <1>2, <2>1
<1>4. CASE e.step \in DOMAIN s.byStep
  <2>1. PICK b, item : b = s.byStep[e.step] /\ item = s.items[b]
    OBVIOUS
  <2>2. b \in DOMAIN s.items /\ item \in Items
    BY <1>2, <1>4, <2>1 DEF Scenes, SceneRecords
  <2>3. PICK new : new = Changed(item, e)
    OBVIOUS
  <2>4. item = Step(r, e)
    BY <1>1, <2>1 DEF Step
  <2>5. Apply(r, e) = InStep(r, e, new)
    BY <2>3, <2>4 DEF Apply, Changed
  <2>6. Apply(r, e) = InScenario(r, e, [s EXCEPT !.items[b] = new])
    BY <1>1, <1>4, <2>1, <2>5 DEF InStep
  <2>7. new \in Items
    BY <2>2, <2>3, ChangedItem
  <2>8. PICK q : q = [s EXCEPT !.items[b] = new]
    OBVIOUS
  <2>9. /\ q \in Scenes
        /\ \A c \in AllEvidence(q) : c \in AllEvidence(s) \/ \E k \in DOMAIN new.evidence : c = new.evidence[k]
    BY <1>2, <2>2, <2>7, <2>8, ItemPut
  <2>10. \A k \in DOMAIN new.evidence :
           (k \in DOMAIN item.evidence /\ new.evidence[k] = item.evidence[k]) \/ new.evidence[k] \in Brings(e)
    BY <2>2, <2>3, ChangedItem
  <2>11. \A k \in DOMAIN item.evidence : item.evidence[k] \in AllEvidence(s)
    BY <2>1, <2>2, EvidenceIs
  <2>12. \A c \in AllEvidence(q) : c \in AllEvidence(s) \cup Brings(e)
    BY <2>9, <2>10, <2>11
  <2> QED
    BY <1>1, <2>6, <2>8, <2>9, <2>12
<1> QED
  BY <1>3, <1>4

LEMMA ListEvent ==
  ASSUME NEW r \in Reports, NEW e, SceneEvent(e), Reaches(r, e),
         e.type \in {"step_started", "step_skipped", "annotation"}
  PROVE  \E s \in Scenes : /\ Apply(r, e) = InScenario(r, e, s)
                           /\ \A c \in AllEvidence(s) : c \in AllEvidence(Scenario(r, e)) \cup Brings(e)
<1>1. PICK s, item, up, numbered :
        /\ s = Scenario(r, e)
        /\ item = IF e.type = "step_started" THEN Item("step", "open", e.vars)
                  ELSE IF e.type = "step_skipped" THEN Item("step", "skipped", {})
                  ELSE Item("annotation", "none", {})
        /\ up = IF e.parent \in DOMAIN s.byStep THEN s.byStep[e.parent] ELSE 0
        /\ numbered = (e.type # "annotation")
  OBVIOUS
<1>2. s \in Scenes
  BY <1>1, SceneIn
<1>3. item \in Items /\ item.evidence = <<>>
  BY <1>1 DEF Item, Items, SceneEvent, Statuses
<1>4. up \in Nat /\ numbered \in BOOLEAN
  BY <1>1, <1>2 DEF Scenes, SceneRecords
<1>5. Apply(r, e) = Push(r, e, item, numbered)
  BY <1>1 DEF Apply
<1>6. Apply(r, e) = InScenario(r, e, Pushed(s, item, up, numbered))
  BY <1>1, <1>5 DEF Push, Pushed
<1>7. PICK q : q = Pushed(s, item, up, numbered)
  OBVIOUS
<1>8. q \in Scenes /\ AllEvidence(q) = AllEvidence(s)
  BY <1>2, <1>3, <1>4, <1>7, PushedScene
<1>9. Apply(r, e) = InScenario(r, e, q) /\ s = Scenario(r, e)
  BY <1>1, <1>6, <1>7
<1> QED
  BY <1>8, <1>9

\* An event about a scenario the report knows changes that scenario alone.
LEMMA SceneTold ==
  ASSUME NEW r \in Reports, NEW e, SceneEvent(e), Reaches(r, e)
  PROVE  \E s \in Scenes : /\ Placed(r, Apply(r, e), FileOf(r, e), e.scenario, s)
                           /\ AllEvidence(s) \subseteq AllEvidence(Scenario(r, e)) \cup Brings(e)
<1>1. ASSUME NEW s \in Scenes, Apply(r, e) = InScenario(r, e, s)
      PROVE  Placed(r, Apply(r, e), FileOf(r, e), e.scenario, s)
  BY <1>1, PutScenario DEF SceneEvent
<1>2. CASE e.type \in {"step_finished", "vars", "evidence", "attempt"}
  BY <1>1, <1>2, StepEvent
<1>3. CASE e.type \in {"step_started", "step_skipped", "annotation"}
  BY <1>1, <1>3, ListEvent
<1>4. CASE e.type = "scenario_finished"
  <2>1. PICK s, q : s = Scenario(r, e) /\ q = [s EXCEPT !.status = e.status, !.coverage = e.coverage]
    OBVIOUS
  <2>2. s \in Scenes
    BY <2>1, SceneIn
  <2>3. q \in Scenes /\ q.items = s.items
    BY <1>4, <2>1, <2>2 DEF Scenes, SceneRecords, SceneEvent
  <2>4. AllEvidence(q) = AllEvidence(s)
    BY <2>3 DEF AllEvidence
  <2>5. Apply(r, e) = InScenario(r, e, q)
    BY <1>4, <2>1 DEF Apply
  <2> QED
    BY <1>1, <2>1, <2>3, <2>4, <2>5
<1> QED
  BY <1>2, <1>3, <1>4 DEF SceneEvent, SceneKinds

\* Every reference a page can show.
Cited(r) == UNION {UNION {AllEvidence(r.files[i].scenarios[k]) : k \in DOMAIN r.files[i].scenarios}
                     : i \in DOMAIN r.files}

LEMMA CitedIs ==
  ASSUME NEW r, NEW c
  PROVE  c \in Cited(r) <=> \E i \in DOMAIN r.files : \E k \in DOMAIN r.files[i].scenarios :
                             c \in AllEvidence(r.files[i].scenarios[k])
BY DEF Cited

\* What an event about a scenario leaves of a report: its own page and
\* scenario may have changed, and Brings is all the evidence that is new.
OneScene(r, q, e) ==
  /\ q \in Reports /\ q.index = r.index /\ q.incomplete = r.incomplete
  /\ DOMAIN q.files = DOMAIN r.files
  /\ \A i \in DOMAIN r.files : DOMAIN q.files[i].scenarios = DOMAIN r.files[i].scenarios
  /\ \A i \in DOMAIN r.files : i # r.index[e.file] => q.files[i] = r.files[i]
  /\ \A i \in DOMAIN r.files : \A k \in DOMAIN r.files[i].scenarios :
       /\ AllEvidence(q.files[i].scenarios[k]) \subseteq AllEvidence(r.files[i].scenarios[k]) \cup Brings(e)
       /\ k # e.scenario => q.files[i].scenarios[k] = r.files[i].scenarios[k]

LEMMA FoldsScene ==
  ASSUME NEW r \in Reports, NEW e, SceneEvent(e)
  PROVE  OneScene(r, Fold(r, e), e)
<1>1. OneScene(r, r, e)
  BY DEF OneScene
<1>2. CASE ~Reaches(r, e)
  <2>1. Apply(r, e) = r
    BY <1>2, NotReached DEF Apply, InStep, Push, SceneEvent, SceneKinds
  <2> QED
    BY <1>1, <2>1 DEF Fold
<1>3. CASE Reaches(r, e) /\ r.incomplete
  <2>1. PICK s \in Scenes : /\ Placed(r, Apply(r, e), FileOf(r, e), e.scenario, s)
                           /\ AllEvidence(s) \subseteq AllEvidence(Scenario(r, e)) \cup Brings(e)
    BY <1>3, SceneTold
  <2>2. PICK q, i, k : q = Apply(r, e) /\ i = r.index[e.file] /\ k = e.scenario
    OBVIOUS
  <2>3. /\ Placed(r, q, i, k, s) /\ i \in DOMAIN r.files /\ k \in DOMAIN r.files[i].scenarios
        /\ AllEvidence(s) \subseteq AllEvidence(r.files[i].scenarios[k]) \cup Brings(e)
    BY <1>3, <2>1, <2>2, PageIn DEF Reaches, FileOf, File, Scenario, SceneEvent
  <2>4. OneScene(r, q, e)
    BY <2>2, <2>3 DEF OneScene, Placed
  <2> QED
    BY <1>3, <2>2, <2>4 DEF Fold
<1>4. CASE ~r.incomplete
  BY <1>1, <1>4 DEF Fold
<1> QED
  BY <1>2, <1>3, <1>4

LEMMA SceneCites ==
  ASSUME NEW r, NEW q, NEW e, OneScene(r, q, e)
  PROVE  Cited(q) \subseteq Cited(r) \cup Brings(e)
<1> SUFFICES ASSUME NEW c \in Cited(q) PROVE c \in Cited(r) \cup Brings(e)
  OBVIOUS
<1>1. PICK i \in DOMAIN q.files : \E k \in DOMAIN q.files[i].scenarios : c \in AllEvidence(q.files[i].scenarios[k])
  BY CitedIs
<1>2. PICK k \in DOMAIN q.files[i].scenarios : c \in AllEvidence(q.files[i].scenarios[k])
  BY <1>1
<1>3. /\ i \in DOMAIN r.files /\ k \in DOMAIN r.files[i].scenarios
      /\ c \in AllEvidence(r.files[i].scenarios[k]) \cup Brings(e)
  BY <1>1, <1>2 DEF OneScene
<1> QED
  BY <1>3, CitedIs

\* The other events: a page or a scenario more, or a page's outcome.
LEMMA FoldsStart ==
  ASSUME NEW r \in Reports, r.incomplete, NEW p \in Paths, NEW q,
         q = Fold(r, [type |-> "file_started", file |-> p])
  PROVE  /\ q \in Reports /\ q.incomplete /\ Len(q.files) = Len(r.files) + 1
         /\ q.index = [r.index EXCEPT ![p] = Len(r.files) + 1]
         /\ \A i \in DOMAIN r.files : q.files[i] = r.files[i]
         /\ q.files[Len(q.files)] = NewFile
         /\ Cited(q) \subseteq Cited(r)
<1>1. PICK n, list, index : /\ n = Len(r.files) /\ list = Append(r.files, NewFile)
                           /\ index = [r.index EXCEPT ![p] = n + 1]
  OBVIOUS
<1>2. r \in Trees /\ n \in Nat /\ r.files \in Seq(Pages)
  BY <1>1 DEF Reports, Trees
<1>3. q = [r EXCEPT !.index = index, !.files = list]
  BY <1>1 DEF Fold, Apply, FileStarted
<1>4. NewFile \in Pages
  BY DEF NewFile, Pages
<1>5. /\ list \in Seq(Pages) /\ Len(list) = n + 1 /\ list[n + 1] = NewFile
      /\ \A i \in DOMAIN r.files : list[i] = r.files[i]
  BY <1>1, <1>2, <1>4
<1>6. index \in [Paths -> Nat] /\ \A o \in Paths : index[o] <= n + 1
  BY <1>1, <1>2 DEF Reports, Trees
<1>7. q \in Trees /\ q.files = list /\ q.index = index /\ q.incomplete
  BY <1>2, <1>3, <1>5, <1>6 DEF Trees
<1>8. q \in Reports
  BY <1>5, <1>6, <1>7 DEF Reports
<1>9. ASSUME NEW c \in Cited(q) PROVE c \in Cited(r)
  <2>1. PICK i \in DOMAIN q.files : \E k \in DOMAIN q.files[i].scenarios : c \in AllEvidence(q.files[i].scenarios[k])
    BY CitedIs
  <2>2. DOMAIN NewFile.scenarios = {}
    BY DEF NewFile
  <2>3. i \in 1..(n + 1)
    BY <1>5, <1>7, <2>1
  <2>4. i # n + 1
    BY <1>5, <1>7, <2>1, <2>2
  <2>5. i \in DOMAIN r.files
    BY <1>1, <1>2, <2>3, <2>4
  <2>6. q.files[i] = r.files[i]
    BY <1>5, <1>7, <2>5
  <2> QED
    BY <2>1, <2>5, <2>6, CitedIs
<1> QED
  BY <1>1, <1>5, <1>7, <1>8, <1>9

\* q is r with another page in the place i.
LEMMA PutPage ==
  ASSUME NEW r \in Reports, NEW i \in DOMAIN r.files, NEW page \in Pages, NEW q,
         q = [r EXCEPT !.files[i] = page]
  PROVE  /\ q \in Reports /\ q.index = r.index /\ q.incomplete = r.incomplete
         /\ DOMAIN q.files = DOMAIN r.files /\ q.files[i] = page
         /\ \A j \in DOMAIN r.files : j # i => q.files[j] = r.files[j]
<1>1. PICK list : list = [r.files EXCEPT ![i] = page]
  OBVIOUS
<1>2. r \in Trees /\ r.files \in Seq(Pages)
  BY DEF Reports, Trees
<1>3. /\ list \in Seq(Pages) /\ DOMAIN list = DOMAIN r.files /\ Len(list) = Len(r.files) /\ list[i] = page
      /\ \A j \in DOMAIN r.files : j # i => list[j] = r.files[j]
  BY <1>1, <1>2
<1>4. q = [r EXCEPT !.files = list]
  BY <1>1
<1>5. q \in Trees /\ q.files = list /\ q.index = r.index /\ q.incomplete = r.incomplete
  BY <1>2, <1>3, <1>4 DEF Trees
<1>6. q \in Reports
  BY <1>3, <1>5 DEF Reports
<1> QED
  BY <1>3, <1>5, <1>6

\* q is r with a new scenario at the end of page i.
Opened(r, q, i) ==
  /\ q \in Reports /\ q.incomplete /\ q.index = r.index
  /\ i \in DOMAIN r.files /\ DOMAIN q.files = DOMAIN r.files
  /\ q.files[i].scenarios = Append(r.files[i].scenarios, NewScenario)
  /\ Len(q.files[i].scenarios) = Len(r.files[i].scenarios) + 1
  /\ AllEvidence(q.files[i].scenarios[Len(r.files[i].scenarios) + 1]) = {}
  /\ q.files[i].panicked = r.files[i].panicked
  /\ \A j \in DOMAIN r.files : j # i => q.files[j] = r.files[j]
  /\ Cited(q) \subseteq Cited(r)

LEMMA FoldsScenario ==
  ASSUME NEW r \in Reports, r.incomplete, NEW e, e.type = "scenario_started", e.file \in Paths,
         r.index[e.file] # 0
  PROVE  Opened(r, Fold(r, e), r.index[e.file])
<1>1. PICK i, q : i = r.index[e.file] /\ q = Fold(r, e)
  OBVIOUS
<1>2. i \in DOMAIN r.files /\ r.files[i] \in Pages
  BY <1>1, PageIn
<1>3. PICK old, list, n, page : /\ old = r.files[i].scenarios /\ list = Append(old, NewScenario)
                               /\ n = Len(old) /\ page = [r.files[i] EXCEPT !.scenarios = list]
  OBVIOUS
<1>4. NewScenario \in Scenes /\ AllEvidence(NewScenario) = {}
  BY DEF NewScenario, Scenes, SceneRecords, Statuses, Coverages, AllEvidence
<1>5. old \in Seq(Scenes)
  BY <1>2, <1>3 DEF Pages
<1>6. /\ list \in Seq(Scenes) /\ Len(list) = n + 1 /\ list[n + 1] = NewScenario /\ n \in Nat
      /\ \A k \in 1..n : list[k] = old[k]
  BY <1>3, <1>4, <1>5
<1>7. page \in Pages /\ page.scenarios = list /\ page.panicked = r.files[i].panicked
  BY <1>2, <1>3, <1>6 DEF Pages
<1>8. q = [r EXCEPT !.files[i] = page]
  BY <1>1, <1>2, <1>3 DEF Fold, Apply, ScenarioStarted, InFile, File, FileOf
<1>9. /\ q \in Reports /\ q.index = r.index /\ q.incomplete = r.incomplete
      /\ DOMAIN q.files = DOMAIN r.files /\ q.files[i] = page
      /\ \A j \in DOMAIN r.files : j # i => q.files[j] = r.files[j]
  BY ONLY r \in Reports, <1>2, <1>7, <1>8, PutPage
<1>10. ASSUME NEW c \in Cited(q) PROVE c \in Cited(r)
  <2>1. PICK j \in DOMAIN q.files : \E k \in DOMAIN q.files[j].scenarios : c \in AllEvidence(q.files[j].scenarios[k])
    BY CitedIs
  <2>2. CASE j # i
    <3>1. j \in DOMAIN r.files /\ q.files[j] = r.files[j]
      BY <1>9, <2>1, <2>2
    <3> QED
      BY <2>1, <3>1, CitedIs
  <2>3. CASE j = i
    <3>1. PICK k \in DOMAIN list : c \in AllEvidence(list[k])
      BY <1>7, <1>9, <2>1, <2>3
    <3>2. k \in 1..n
      BY <1>4, <1>6, <3>1
    <3>3. k \in DOMAIN old /\ c \in AllEvidence(old[k])
      BY <1>3, <1>5, <1>6, <3>1, <3>2
    <3> QED
      BY <1>2, <1>3, <3>3, CitedIs
  <2> QED
    BY <2>2, <2>3
<1>11. /\ q.files[i].scenarios = Append(r.files[i].scenarios, NewScenario)
       /\ Len(q.files[i].scenarios) = Len(r.files[i].scenarios) + 1
       /\ AllEvidence(q.files[i].scenarios[Len(r.files[i].scenarios) + 1]) = {}
  BY <1>3, <1>4, <1>6, <1>7, <1>9
<1>12. Opened(r, q, i)
  BY <1>2, <1>7, <1>9, <1>10, <1>11 DEF Opened
<1> QED
  BY <1>1, <1>12

LEMMA FoldsFinish ==
  ASSUME NEW r \in Reports, NEW p \in Paths, NEW panicked \in BOOLEAN, NEW q,
         q = Fold(r, [type |-> "file_finished", file |-> p, panicked |-> panicked])
  PROVE  /\ q \in Reports /\ q.incomplete = r.incomplete /\ q.index = r.index
         /\ DOMAIN q.files = DOMAIN r.files
         /\ \A j \in DOMAIN r.files : /\ q.files[j].scenarios = r.files[j].scenarios
                                      /\ j # r.index[p] => q.files[j] = r.files[j]
         /\ r.incomplete /\ r.index[p] # 0 => q.files[r.index[p]].panicked = panicked
         /\ Cited(q) = Cited(r)
<1>1. CASE r.incomplete /\ r.index[p] # 0
  <2>1. PICK i, page : i = r.index[p] /\ page = [r.files[i] EXCEPT !.panicked = panicked]
    OBVIOUS
  <2>2. i \in DOMAIN r.files /\ r.files[i] \in Pages
    BY <1>1, <2>1, PageIn
  <2>3. page \in Pages /\ page.scenarios = r.files[i].scenarios /\ page.panicked = panicked
    BY <2>1, <2>2 DEF Pages
  <2>4. q = [r EXCEPT !.files[i] = page]
    BY <1>1, <2>1 DEF Fold, Apply, InFile, File, FileOf
  <2>5. /\ q \in Reports /\ q.index = r.index /\ q.incomplete = r.incomplete
        /\ DOMAIN q.files = DOMAIN r.files /\ q.files[i] = page
        /\ \A j \in DOMAIN r.files : j # i => q.files[j] = r.files[j]
    BY <2>2, <2>3, <2>4, PutPage
  <2>6. \A j \in DOMAIN r.files : q.files[j].scenarios = r.files[j].scenarios
    BY <2>2, <2>3, <2>5
  <2>7. Cited(q) = Cited(r)
    BY <2>5, <2>6 DEF Cited
  <2> QED
    BY <2>1, <2>3, <2>5, <2>6, <2>7
<1>2. CASE ~(r.incomplete /\ r.index[p] # 0)
  <2>1. q = r
    BY <1>2 DEF Fold, Apply, InFile, FileOf
  <2> QED
    BY <1>2, <2>1
<1> QED
  BY <1>1, <1>2

LEMMA FoldsRun ==
  ASSUME NEW r \in Reports, NEW q, q = Fold(r, [type |-> "run_finished"])
  PROVE  /\ q \in Reports /\ ~q.incomplete /\ q.index = r.index /\ q.files = r.files
         /\ Cited(q) = Cited(r)
<1>1. q = IF r.incomplete THEN [r EXCEPT !.incomplete = FALSE] ELSE r
  BY DEF Fold, Apply
<1>2. q \in Trees /\ ~q.incomplete /\ q.index = r.index /\ q.files = r.files
  BY <1>1 DEF Reports, Trees
<1>3. q \in Reports
  BY <1>2 DEF Reports
<1> QED
  BY <1>2, <1>3 DEF Cited

-----------------------------------------------------------------------------
(***************************************************************************)
(* The state of a run, and what is kept of it between any two steps.       *)
(***************************************************************************)
VarsEvents == [type : {"vars"}, file : Paths, scenario : Nat, step : Nat, vars : SUBSET SUBSET Values]
ContentEvents == [type : {"evidence", "attempt"}, file : Paths, scenario : Nat, step : Nat, content : Contents]
Holdings == [events : Seq(VarsEvents \cup ContentEvents), files : Seq([dir : Nat, shows : SUBSET Values]),
             bytes : Nat]
Flights == [step : Nat, kind : {"leaf", "macro", "include"}, mode : {"off", "live", "deferred"},
            failed : BOOLEAN]
Outcomes == [status : {"passed", "failed"}, steps : Seq(Statuses), shows : SUBSET Values,
             stopped : BOOLEAN, bytes : Nat]
Tasks ==
  [at : {"idle", "between", "scenario", "closing", "done", "cut"}, secrets : SUBSET Values,
   done : Seq(Outcomes), scenarios : Nat, steps : Nat, open : Seq(Flights), marked : BOOLEAN,
   tagged : BOOLEAN, held : Holdings, started : Nat, live : Nat, deferred : Nat, failed : BOOLEAN,
   flush : BOOLEAN, stopped : BOOLEAN, told : Seq(Statuses), shows : SUBSET Values,
   slotted : SUBSET Nat, deferred_bytes : Nat, effects : Nat]
Artifacts == [dir : Nat, file : Files, scenario : Nat, mode : {"off", "live", "deferred", "plugin"},
              held : BOOLEAN, shows : SUBSET Values]

TraceTypes ==
  /\ plan \in Plans /\ run \in [Files -> Tasks]
  /\ result \in [Files -> [panicked : BOOLEAN, scenarios : Seq(Outcomes)]]
  /\ counter \in Nat /\ artifacts \subseteq Artifacts
  /\ report \in Reports /\ interrupted \in BOOLEAN

\* The files that are there, and those a scenario still has in memory.
OnDisk == {d.dir : d \in artifacts}
Kept(dir) == dir = 0 \/ dir \in lost \/ dir \in OnDisk
Waiting(f) == run[f].held.files
Awaited(f) == {Waiting(f)[i].dir : i \in DOMAIN Waiting(f)}
Held(f) == run[f].held.events

\* A directory is given out once, and holds one file.
DirsInv ==
  /\ \A d \in artifacts : d.dir \in 1..counter
  /\ \A d, e \in artifacts : d.dir = e.dir => d = e
  /\ \A f \in Files : \A i \in DOMAIN Waiting(f) :
       Waiting(f)[i].dir \in 1..counter /\ Waiting(f)[i].dir \notin OnDisk
  /\ \A f, g \in Files : \A i \in DOMAIN Waiting(f), j \in DOMAIN Waiting(g) :
       Waiting(f)[i].dir = Waiting(g)[j].dir => f = g /\ i = j

\* What the report cites is on disk or lost; what a held event cites may
\* still be in memory, with the event.
CitesOf(f) ==
  \A i \in DOMAIN Held(f) : Held(f)[i].type # "vars" =>
    Kept(Held(f)[i].content.dir) \/ Held(f)[i].content.dir \in Awaited(f)
RefersInv ==
  /\ \A c \in Cited(report) : Kept(c.dir)
  /\ \A f \in Files : CitesOf(f)

\* The files of the scenario f is in, or was in last.
Latest(f) == {d \in artifacts : d.file = f /\ d.scenario = run[f].scenarios}

\* Scenarios are numbered in order; the one that runs has deferred text on disk
\* only when there was more than the cap, or it has failed and is being told.
ScenarioInv(f) ==
  /\ run[f].at = "idle" => run[f].scenarios = 0 /\ \A d \in artifacts : d.file # f
  /\ run[f].at \in {"idle", "between"} => Len(run[f].done) = run[f].scenarios
  /\ run[f].at \in {"scenario", "closing"} => Len(run[f].done) + 1 = run[f].scenarios
  /\ run[f].at # "done" => \A d \in artifacts : d.file = f => d.scenario <= run[f].scenarios
  /\ run[f].at \in {"scenario", "closing"} => \A d \in Latest(f) :
       d.mode = "deferred" => run[f].deferred_bytes > Cap \/ (run[f].at = "closing" /\ run[f].flush)
  /\ run[f].held.bytes <= run[f].deferred_bytes
  /\ run[f].flush => /\ run[f].failed /\ ~run[f].stopped /\ run[f].scenarios > 0
                     /\ run[f].at \in {"closing", "between", "cut"}
  /\ run[f].at = "closing" /\ ~run[f].flush => run[f].held = NoHeld

\* The files written late show no secret; held events say where they belong.
SecretsInv(f) ==
  /\ run[f].at = "scenario" => \A d \in Latest(f) : ~d.held
  /\ run[f].at \in {"closing", "between"} => \A d \in Latest(f) : d.held => d.shows \cap run[f].secrets = {}
  /\ run[f].at = "done" /\ ~result[f].panicked =>
       \A k \in DOMAIN result[f].scenarios : result[f].scenarios[k].shows \cap run[f].secrets = {}
  /\ \A i \in DOMAIN Held(f) : Held(f)[i].file = PathOf[f] /\ Held(f)[i].scenario = run[f].scenarios

\* PassingLeavesNothing, file by file.
PassingInv(f) ==
  /\ run[f].at # "done" => ~result[f].panicked
  /\ ~result[f].panicked => \A k \in DOMAIN Told(f) :
       ((Told(f)[k].status = "passed" \/ Told(f)[k].stopped) /\ Told(f)[k].bytes <= Cap) =>
         ~\E d \in artifacts : d.file = f /\ d.scenario = k /\ d.mode = "deferred"

FileInv(f) == ScenarioInv(f) /\ SecretsInv(f) /\ PassingInv(f)

\* Every file at work has the page its path means, with its scenarios so far.
InProgress(f) == run[f].at \in {"between", "scenario", "closing"}
OwnPage(f) ==
  /\ report.index[PathOf[f]] # 0
  /\ Len(InReport(f).scenarios) = run[f].scenarios
  /\ run[f].scenarios > 0 =>
       \A c \in AllEvidence(InReport(f).scenarios[run[f].scenarios]) :
         c.deferred => run[f].at # "scenario" /\ c.shows \cap run[f].secrets = {}
PageInv ==
  /\ \A p, q \in Paths : report.index[p] # 0 /\ report.index[p] = report.index[q] => p = q
  /\ \A f \in Files \ plan.files : run[f].at = "idle"
  /\ ~report.incomplete => \A f \in plan.files :
       run[f].at \in {"done", "cut"} \/ (run[f].at = "idle" /\ interrupted)
  /\ Distinct => \A f \in Files : InProgress(f) => OwnPage(f)

EvidenceInv == TraceTypes /\ DirsInv /\ RefersInv /\ PageInv /\ \A f \in Files : FileInv(f)

LEMMA TraceStart == Init => EvidenceInv
<1> SUFFICES ASSUME Init PROVE EvidenceInv
  OBVIOUS
<1>1. NoHeld \in Holdings /\ NotRun \in [panicked : BOOLEAN, scenarios : Seq(Outcomes)]
  BY DEF NoHeld, Holdings, NotRun
<1>2. Idle \in Tasks
  BY <1>1 DEF Idle, Tasks
<1>3. Empty \in Reports
  BY DEF Empty, Reports, Trees
<1>4. TraceTypes
  BY <1>1, <1>2, <1>3 DEF Init, TraceTypes
<1>5. \A f \in Files : run[f] = Idle /\ DOMAIN Waiting(f) = {} /\ DOMAIN Held(f) = {}
  BY DEF Init, Idle, NoHeld, Waiting, Held
<1>6. DirsInv
  BY <1>5 DEF Init, DirsInv
<1>7. Cited(report) = {}
  BY DEF Init, Empty, Cited
<1>8. RefersInv
  BY <1>5, <1>7 DEF RefersInv, CitesOf
<1>9. PageInv
  BY <1>4, <1>5, TraceAssumption DEF Init, PageInv, Empty, InProgress, Idle
<1>10. ASSUME NEW f \in Files PROVE FileInv(f)
  <2>1. /\ run[f].at = "idle" /\ run[f].done = <<>> /\ run[f].scenarios = 0 /\ run[f].held.bytes = 0
        /\ run[f].deferred_bytes = 0 /\ ~run[f].flush /\ artifacts = {}
    BY <1>5 DEF Init, Idle, NoHeld
  <2>2. ScenarioInv(f)
    BY <2>1 DEF ScenarioInv
  <2>3. SecretsInv(f)
    BY <1>5, <2>1 DEF SecretsInv
  <2>4. PassingInv(f)
    BY <2>1 DEF PassingInv, Init, NotRun
  <2> QED
    BY <2>2, <2>3, <2>4 DEF FileInv
<1> QED
  BY <1>4, <1>6, <1>8, <1>9, <1>10 DEF EvidenceInv

\* Masked texts, and the events of a file as the records they are.
LEMMA MaskTyped ==
  ASSUME TraceTypes, NEW f \in Files, NEW shows \in SUBSET Values
  PROVE  /\ Mask(shows, f) \in SUBSET Values /\ Mask(shows, f) \cap run[f].secrets = {}
         /\ Size(Mask(shows, f)) \in Nat /\ Size(shows) \in Nat
<1>1. Mask(shows, f) \in SUBSET Values /\ Mask(shows, f) \cap run[f].secrets = {}
  BY DEF Mask
<1>2. IsFiniteSet(shows) /\ IsFiniteSet(Mask(shows, f))
  BY <1>1, TraceAssumption, FS_Subset
<1>3. Cardinality(shows) \in Nat /\ Cardinality(Mask(shows, f)) \in Nat
  BY <1>2, FS_CardinalityType
<1> QED
  BY <1>1, <1>3 DEF Size

LEMMA EventPlace ==
  ASSUME NEW f, NEW type
  PROVE  EventOf(f, type, <<>>) =
           [type |-> type, file |-> PathOf[f], scenario |-> run[f].scenarios]
BY DEF EventOf

LEMMA EventParent ==
  ASSUME NEW f, NEW type, NEW a
  PROVE  EventOf(f, type, [parent |-> a]) =
           [type |-> type, file |-> PathOf[f], scenario |-> run[f].scenarios, parent |-> a]
BY DEF EventOf

LEMMA EventStart ==
  ASSUME NEW f, NEW type, NEW a, NEW b
  PROVE  EventOf(f, type, [parent |-> a, vars |-> b]) =
           [type |-> type, file |-> PathOf[f], scenario |-> run[f].scenarios, parent |-> a, vars |-> b]
BY DEF EventOf

LEMMA EventVars ==
  ASSUME NEW f, NEW type, NEW a, NEW b
  PROVE  EventOf(f, type, [step |-> a, vars |-> b]) =
           [type |-> type, file |-> PathOf[f], scenario |-> run[f].scenarios, step |-> a, vars |-> b]
BY DEF EventOf

LEMMA EventContent ==
  ASSUME NEW f, NEW type, NEW a, NEW b
  PROVE  EventOf(f, type, [step |-> a, content |-> b]) =
           [type |-> type, file |-> PathOf[f], scenario |-> run[f].scenarios, step |-> a, content |-> b]
BY DEF EventOf

LEMMA EventStatus ==
  ASSUME NEW f, NEW type, NEW a, NEW b
  PROVE  EventOf(f, type, [step |-> a, status |-> b]) =
           [type |-> type, file |-> PathOf[f], scenario |-> run[f].scenarios, step |-> a, status |-> b]
BY DEF EventOf

LEMMA EventOutcome ==
  ASSUME NEW f, NEW type, NEW a, NEW b
  PROVE  EventOf(f, type, [status |-> a, coverage |-> b]) =
           [type |-> type, file |-> PathOf[f], scenario |-> run[f].scenarios, status |-> a, coverage |-> b]
BY DEF EventOf

-----------------------------------------------------------------------------
(***************************************************************************)
(* A step of one file: what it leaves of the others.                       *)
(***************************************************************************)
Only(f) ==
  /\ run' = [run EXCEPT ![f] = run'[f]] /\ result' = [result EXCEPT ![f] = result'[f]]
  /\ artifacts \subseteq artifacts' /\ \A d \in artifacts' : d \in artifacts \/ d.file = f

LEMMA OthersKeep ==
  ASSUME TraceTypes, NEW f \in Files, Only(f), NEW g \in Files, g # f, FileInv(g)
  PROVE  /\ run'[g] = run[g] /\ Waiting(g)' = Waiting(g) /\ Held(g)' = Held(g) /\ (FileInv(g))'
<1>1. run'[g] = run[g] /\ result'[g] = result[g]
  BY DEF Only, TraceTypes
<1>2. Latest(g)' = Latest(g) /\ \A d : d \in artifacts' /\ d.file = g <=> d \in artifacts /\ d.file = g
  BY <1>1 DEF Latest, Only
<1>3. (ScenarioInv(g))'
  BY <1>1, <1>2 DEF ScenarioInv, FileInv
<1>4. Held(g)' = Held(g) /\ Waiting(g)' = Waiting(g)
  BY <1>1 DEF Held, Waiting
<1>5. (SecretsInv(g))'
  BY <1>1, <1>2, <1>4 DEF SecretsInv, FileInv
<1>6. Told(g)' = Told(g)
  BY <1>1 DEF Told
<1>7. (PassingInv(g))'
  BY <1>1, <1>2, <1>6 DEF PassingInv, FileInv
<1> QED
  BY <1>1, <1>3, <1>4, <1>5, <1>7 DEF FileInv

LEMMA KeptGrows ==
  ASSUME artifacts \subseteq artifacts', lost \subseteq lost', NEW dir, Kept(dir)
  PROVE  Kept(dir)'
BY DEF Kept, OnDisk

\* References: those of the report and of the file that made the step.
LEMMA RefersKeep ==
  ASSUME EvidenceInv, NEW f \in Files, Only(f), lost \subseteq lost', (CitesOf(f))',
         \A c \in Cited(report') : c \in Cited(report) \/ (Kept(c.dir))'
  PROVE  RefersInv'
<1>1. \A c \in Cited(report') : (Kept(c.dir))'
  BY KeptGrows DEF EvidenceInv, RefersInv, Only
<1>2. ASSUME NEW g \in Files, g # f PROVE (CitesOf(g))'
  <2>1. Held(g)' = Held(g) /\ Waiting(g)' = Waiting(g)
    BY <1>2, OthersKeep DEF EvidenceInv
  <2>2. Awaited(g)' = Awaited(g)
    BY <2>1 DEF Awaited
  <2>3. CitesOf(g)
    BY DEF EvidenceInv, RefersInv
  <2> QED
    BY <2>1, <2>2, <2>3, KeptGrows DEF CitesOf, Only
<1> QED
  BY <1>1, <1>2 DEF RefersInv

\* A file that has something to do finds the stream open.
LEMMA StreamOpen ==
  ASSUME EvidenceInv, NEW f \in plan.files, InProgress(f) \/ (run[f].at = "idle" /\ ~interrupted)
  PROVE  report.incomplete /\ f \in Files
<1>1. f \in Files
  BY TraceAssumption DEF EvidenceInv, TraceTypes
<1> QED
  BY <1>1 DEF EvidenceInv, PageInv, InProgress

LEMMA OwnIndex ==
  ASSUME EvidenceInv, NEW f \in Files, NEW g \in Files, PathOf[f] # PathOf[g],
         report.index[PathOf[g]] # 0
  PROVE  report.index[PathOf[g]] \in DOMAIN report.files /\ report.index[PathOf[g]] # report.index[PathOf[f]]
<1>1. PathOf[f] \in Paths /\ PathOf[g] \in Paths
  BY TraceAssumption
<1> QED
  BY <1>1, PageIn DEF EvidenceInv, TraceTypes, PageInv

\* Pages: the others' stay, if only the own one may have changed.
OnlyPage(f) ==
  /\ report'.incomplete /\ report'.index = report.index /\ report' \in Reports
  /\ DOMAIN report'.files = DOMAIN report.files
  /\ \A i \in DOMAIN report.files : i # report.index[PathOf[f]] => report'.files[i] = report.files[i]

LEMMA PageKeeps ==
  ASSUME EvidenceInv, NEW f \in plan.files, f \in Files, plan' = plan, Only(f), OnlyPage(f),
         Distinct /\ InProgress(f)' => (OwnPage(f))'
  PROVE  PageInv'
<1>1. \A p, q \in Paths : report'.index[p] # 0 /\ report'.index[p] = report'.index[q] => p = q
  BY DEF OnlyPage, EvidenceInv, PageInv
<1>2. \A g \in Files : g # f => run'[g] = run[g]
  BY DEF Only, EvidenceInv, TraceTypes
<1>3. \A g \in Files \ plan'.files : run'[g].at = "idle"
  BY <1>2 DEF EvidenceInv, PageInv
<1>4. ASSUME Distinct, NEW g \in Files, InProgress(g)' PROVE (OwnPage(g))'
  <2>1. CASE g = f
    BY <1>4, <2>1
  <2>2. CASE g # f
    <3>1. run'[g] = run[g] /\ OwnPage(g) /\ PathOf[f] # PathOf[g]
      BY <1>2, <1>4, <2>2 DEF Distinct, InProgress, EvidenceInv, PageInv
    <3>2. /\ report.index[PathOf[g]] \in DOMAIN report.files
          /\ report.index[PathOf[g]] # report.index[PathOf[f]]
      BY <3>1, OwnIndex DEF OwnPage
    <3>3. InReport(g)' = InReport(g)
      BY <3>2 DEF OnlyPage, InReport
    <3> QED
      BY <3>1, <3>3 DEF OwnPage, OnlyPage
  <2> QED
    BY <2>1, <2>2
<1>5. Distinct' <=> Distinct
  BY DEF Distinct
<1>6. report'.incomplete
  BY DEF OnlyPage
<1> QED
  BY <1>1, <1>3, <1>4, <1>5, <1>6 DEF PageInv

\* Directories: none is new, one waits in memory, or one is on disk.
LEMMA DirsSame ==
  ASSUME EvidenceInv, NEW f \in Files, Only(f), counter' = counter, artifacts' = artifacts,
         Waiting(f)' = Waiting(f) \/ Waiting(f)' = <<>>
  PROVE  DirsInv'
<1>1. \A g \in Files : g # f => Waiting(g)' = Waiting(g)
  BY OthersKeep DEF EvidenceInv
<1>2. OnDisk' = OnDisk
  BY DEF OnDisk
<1>3. \A g \in Files : Waiting(g)' = Waiting(g) \/ DOMAIN Waiting(g)' = {}
  BY <1>1
<1> QED
  BY <1>2, <1>3 DEF EvidenceInv, DirsInv

LEMMA DirsWait ==
  ASSUME EvidenceInv, NEW f \in Files, Only(f), counter' = counter + 1, artifacts' = artifacts,
         NEW file, file.dir = counter + 1, Waiting(f)' = Append(Waiting(f), file)
  PROVE  DirsInv'
<1>1. \A g \in Files : g # f => Waiting(g)' = Waiting(g)
  BY OthersKeep DEF EvidenceInv
<1>2. OnDisk' = OnDisk /\ counter \in Nat /\ \A d \in artifacts : d.dir \in 1..counter
  BY DEF OnDisk, EvidenceInv, TraceTypes, DirsInv
<1>3. counter + 1 \notin OnDisk
  BY <1>2 DEF OnDisk
<1>4. Waiting(f) \in Seq([dir : Nat, shows : SUBSET Values])
  BY DEF Waiting, EvidenceInv, TraceTypes, Tasks, Holdings
<1>5. PICK n, list : n = Len(Waiting(f)) /\ list = Waiting(f)'
  OBVIOUS
<1>6. /\ DOMAIN list = 1..(n + 1) /\ n \in Nat /\ list[n + 1].dir = counter + 1
      /\ DOMAIN Waiting(f) = 1..n /\ \A i \in 1..n : list[i] = Waiting(f)[i]
  BY <1>4, <1>5
<1>7. ASSUME NEW g \in Files, NEW i \in DOMAIN Waiting(g)'
      PROVE  \/ i \in DOMAIN Waiting(g) /\ Waiting(g)'[i] = Waiting(g)[i]
             \/ g = f /\ i = n + 1 /\ Waiting(g)'[i].dir = counter + 1
  <2>1. CASE g = f
    BY <1>5, <1>6, <1>7, <2>1
  <2>2. CASE g # f
    BY <1>1, <1>7, <2>2
  <2> QED
    BY <2>1, <2>2
<1>8. \A g \in Files : \A i \in DOMAIN Waiting(g) :
        Waiting(g)[i].dir \in 1..counter /\ Waiting(g)[i].dir \notin OnDisk
  BY DEF EvidenceInv, DirsInv
<1>9. \A g \in Files : \A i \in DOMAIN Waiting(g)' :
        Waiting(g)'[i].dir \in 1..counter' /\ Waiting(g)'[i].dir \notin OnDisk'
  BY <1>2, <1>3, <1>7, <1>8
<1>10. ASSUME NEW g \in Files, NEW h \in Files, NEW i \in DOMAIN Waiting(g)', NEW j \in DOMAIN Waiting(h)',
              Waiting(g)'[i].dir = Waiting(h)'[j].dir
       PROVE  g = h /\ i = j
  <2>1. CASE i \in DOMAIN Waiting(g) /\ Waiting(g)'[i] = Waiting(g)[i]
    <3>1. Waiting(h)'[j].dir # counter + 1
      BY <1>2, <1>8, <1>10, <2>1
    <3>2. j \in DOMAIN Waiting(h) /\ Waiting(h)'[j] = Waiting(h)[j]
      BY <1>7, <3>1
    <3> QED
      BY <1>10, <2>1, <3>2 DEF EvidenceInv, DirsInv
  <2>2. CASE g = f /\ i = n + 1 /\ Waiting(g)'[i].dir = counter + 1
    <3>1. ~(j \in DOMAIN Waiting(h) /\ Waiting(h)'[j] = Waiting(h)[j])
      BY <1>2, <1>8, <1>10, <2>2
    <3> QED
      BY <1>7, <2>2, <3>1
  <2> QED
    BY <1>7, <2>1, <2>2
<1>11. /\ \A d \in artifacts' : d.dir \in 1..counter'
       /\ \A d, e \in artifacts' : d.dir = e.dir => d = e
  BY <1>2 DEF EvidenceInv, DirsInv
<1> QED
  BY <1>9, <1>10, <1>11 DEF DirsInv

LEMMA DirsStore ==
  ASSUME EvidenceInv, NEW f \in Files, Only(f), counter' = counter + 1,
         NEW d \in Artifacts, d.dir = counter + 1, artifacts' = artifacts \cup {d},
         Waiting(f)' = Waiting(f)
  PROVE  DirsInv'
<1>1. \A g \in Files : Waiting(g)' = Waiting(g)
  BY OthersKeep DEF EvidenceInv
<1>2. /\ counter \in Nat /\ OnDisk' = OnDisk \cup {counter + 1} /\ \A e \in artifacts : e.dir \in 1..counter
  BY DEF OnDisk, EvidenceInv, TraceTypes, DirsInv
<1>3. \A g \in Files : \A i \in DOMAIN Waiting(g) :
        Waiting(g)[i].dir \in 1..counter' /\ Waiting(g)[i].dir \notin OnDisk'
  BY <1>2 DEF EvidenceInv, DirsInv
<1>4. /\ \A e \in artifacts' : e.dir \in 1..counter'
      /\ \A e, o \in artifacts' : e.dir = o.dir => e = o
  BY <1>2 DEF EvidenceInv, DirsInv
<1>5. \A g, h \in Files : \A i \in DOMAIN Waiting(g), j \in DOMAIN Waiting(h) :
        Waiting(g)[i].dir = Waiting(h)[j].dir => g = h /\ i = j
  BY DEF EvidenceInv, DirsInv
<1> QED
  BY <1>1, <1>3, <1>4, <1>5 DEF DirsInv

-----------------------------------------------------------------------------
(***************************************************************************)
(* A step within a scenario.  It may tell or hold one event, whose text    *)
(* stands in the event, waits in memory or goes to a file at once.         *)
(***************************************************************************)
TellsStep(f) ==
  \/ report' = report
  \/ \E e : /\ SceneEvent(e) /\ e.file = PathOf[f] /\ e.scenario = run[f].scenarios
            /\ report' = Fold(report, e)
            /\ \A c \in Brings(e) : ~c.deferred /\ (Kept(c.dir))'
HoldsStep(f) ==
  \/ Held(f)' = Held(f)
  \/ \E e \in VarsEvents \cup ContentEvents :
       /\ e.file = PathOf[f] /\ e.scenario = run[f].scenarios /\ Held(f)' = Append(Held(f), e)
       /\ e.type # "vars" => (Kept(e.content.dir))' \/ e.content.dir \in (Awaited(f))'
WritesStep(f) ==
  \/ UNCHANGED <<counter, artifacts>> /\ Waiting(f)' = Waiting(f)
  \/ /\ counter' = counter + 1 /\ artifacts' = artifacts
     /\ \E file : file.dir = counter + 1 /\ Waiting(f)' = Append(Waiting(f), file)
  \/ /\ counter' = counter + 1 /\ Waiting(f)' = Waiting(f)
     /\ \E d \in Artifacts :
          /\ d.dir = counter + 1 /\ d.file = f /\ d.scenario = run[f].scenarios /\ ~d.held
          /\ artifacts' = artifacts \cup {d}
          /\ d.mode = "deferred" => run'[f].deferred_bytes > Cap
Records(f) ==
  /\ f \in plan.files /\ f \in Files /\ run[f].at = "scenario"
  /\ run' = [run EXCEPT ![f] = run'[f]] /\ run'[f] \in Tasks
  /\ run'[f].at = "scenario" /\ run'[f].scenarios = run[f].scenarios
  /\ run'[f].done = run[f].done /\ run'[f].flush = run[f].flush /\ run[f].secrets \subseteq run'[f].secrets
  /\ run[f].deferred_bytes <= run'[f].deferred_bytes /\ run'[f].held.bytes <= run'[f].deferred_bytes
  /\ TellsStep(f) /\ HoldsStep(f) /\ WritesStep(f)
  /\ UNCHANGED <<plan, result, lost, interrupted>>

LEMMA RecordsOnly ==
  ASSUME EvidenceInv, NEW f, Records(f)
  PROVE  Only(f) /\ (\A d \in artifacts' : d \in artifacts \/ (d.file = f /\ ~d.held /\
           d.scenario = run[f].scenarios /\ (d.mode = "deferred" => run'[f].deferred_bytes > Cap)))
<1>1. result' = [result EXCEPT ![f] = result'[f]]
  BY DEF Records, EvidenceInv, TraceTypes
<1> QED
  BY <1>1 DEF Records, WritesStep, Only

\* An event about the scenario f is in reaches that scenario of its page.
LEMMA TellsPage ==
  ASSUME EvidenceInv, NEW f \in plan.files, InProgress(f), run[f].scenarios > 0,
         NEW e, SceneEvent(e), e.file = PathOf[f], e.scenario = run[f].scenarios, report' = Fold(report, e),
         \A c \in Brings(e) : (Kept(c.dir))',
         \A c : (c.deferred /\ (c \in Brings(e) \/ (run[f].at # "scenario" /\ c.shows \cap run[f].secrets = {})))
                 => run'[f].at # "scenario" /\ c.shows \cap run'[f].secrets = {},
         run'[f].scenarios = run[f].scenarios
  PROVE  /\ OnlyPage(f) /\ (Distinct => (OwnPage(f))')
         /\ \A c \in Cited(report') : c \in Cited(report) \/ (Kept(c.dir))'
<1>1. report.incomplete /\ f \in Files /\ PathOf[f] \in Paths /\ report \in Reports
  BY StreamOpen, TraceAssumption DEF EvidenceInv, TraceTypes
<1>2. OneScene(report, report', e)
  BY <1>1, FoldsScene
<1>3. OnlyPage(f)
  BY <1>1, <1>2 DEF OneScene, OnlyPage
<1>4. Cited(report') \subseteq Cited(report) \cup Brings(e)
  BY <1>2, SceneCites
<1>5. ASSUME Distinct PROVE (OwnPage(f))'
  <2>1. OwnPage(f)
    BY <1>1, <1>5 DEF EvidenceInv, PageInv
  <2>2. PICK i, k : i = report.index[PathOf[f]] /\ k = run[f].scenarios
    OBVIOUS
  <2>3. /\ i \in DOMAIN report.files /\ report.files[i] \in Pages
        /\ InReport(f) = report.files[i] /\ InReport(f)' = report'.files[i] /\ report'.index[PathOf[f]] = i
    BY <1>1, <1>2, <2>1, <2>2, PageIn DEF OwnPage, InReport, OneScene
  <2>4. report.files[i].scenarios \in Seq(Scenes) /\ k = Len(report.files[i].scenarios) /\ k > 0
    BY <2>1, <2>2, <2>3 DEF OwnPage, Pages
  <2>5. k \in DOMAIN report.files[i].scenarios
    BY <2>4
  <2>6. ASSUME NEW c \in AllEvidence(report'.files[i].scenarios[k]), c.deferred
        PROVE  run'[f].at # "scenario" /\ c.shows \cap run'[f].secrets = {}
    <3>1. c \in AllEvidence(report.files[i].scenarios[k]) \/ c \in Brings(e)
      BY <1>2, <2>3, <2>5, <2>6 DEF OneScene
    <3>2. c \in AllEvidence(report.files[i].scenarios[k]) => run[f].at # "scenario" /\ c.shows \cap run[f].secrets = {}
      BY <2>1, <2>2, <2>3, <2>6 DEF OwnPage
    <3> QED
      BY <2>6, <3>1, <3>2
  <2>7. Len(report'.files[i].scenarios) = k
    <3>1. DOMAIN report'.files[i].scenarios = DOMAIN report.files[i].scenarios
      BY <1>2, <2>3 DEF OneScene
    <3>2. report'.files[i] \in Pages
      BY <1>2, <2>3 DEF OneScene, Reports, Trees
    <3> QED
      BY <2>4, <3>1, <3>2 DEF Pages
  <2> QED
    BY <2>1, <2>2, <2>3, <2>6, <2>7 DEF OwnPage
<1> QED
  BY <1>3, <1>4, <1>5

LEMMA SilentPage ==
  ASSUME EvidenceInv, NEW f \in plan.files, InProgress(f), report' = report,
         \A c : (c.deferred /\ run[f].at # "scenario" /\ c.shows \cap run[f].secrets = {})
                 => run'[f].at # "scenario" /\ c.shows \cap run'[f].secrets = {},
         run'[f].scenarios = run[f].scenarios
  PROVE  OnlyPage(f) /\ (Distinct => (OwnPage(f))')
<1>1. report.incomplete /\ f \in Files /\ report \in Reports
  BY StreamOpen DEF EvidenceInv, TraceTypes
<1>2. OnlyPage(f)
  BY <1>1 DEF OnlyPage
<1>3. ASSUME Distinct PROVE (OwnPage(f))'
  <2>1. OwnPage(f)
    BY <1>1, <1>3 DEF EvidenceInv, PageInv
  <2>2. PICK page : page = InReport(f) /\ page = InReport(f)'
    BY DEF InReport
  <2>3. /\ report'.index[PathOf[f]] # 0 /\ Len(page.scenarios) = run'[f].scenarios
        /\ run'[f].scenarios > 0 => \A c \in AllEvidence(page.scenarios[run'[f].scenarios]) :
             c.deferred => run'[f].at # "scenario" /\ c.shows \cap run'[f].secrets = {}
    BY <2>1, <2>2 DEF OwnPage
  <2> QED
    BY <2>2, <2>3 DEF OwnPage
<1> QED
  BY <1>2, <1>3

LEMMA RecordsPage ==
  ASSUME EvidenceInv, NEW f, Records(f)
  PROVE  /\ OnlyPage(f) /\ (Distinct => (OwnPage(f))')
         /\ \A c \in Cited(report') : c \in Cited(report) \/ (Kept(c.dir))'
<1>1. run[f].scenarios > 0 /\ run'[f].scenarios = run[f].scenarios
  <2>1. ScenarioInv(f) /\ run[f].done \in Seq(Outcomes)
    BY DEF Records, EvidenceInv, FileInv, TraceTypes, Tasks
  <2> QED
    BY <2>1 DEF ScenarioInv, Records
<1>2. f \in plan.files /\ InProgress(f) /\ run[f].at = "scenario" /\ run'[f].at = "scenario"
  BY DEF Records, InProgress
<1>3. CASE report' = report
  BY <1>1, <1>2, <1>3, SilentPage
<1>4. ASSUME NEW e, SceneEvent(e), e.file = PathOf[f], e.scenario = run[f].scenarios,
             report' = Fold(report, e), \A c \in Brings(e) : ~c.deferred /\ (Kept(c.dir))'
      PROVE  /\ OnlyPage(f) /\ (Distinct => (OwnPage(f))')
             /\ \A c \in Cited(report') : c \in Cited(report) \/ (Kept(c.dir))'
  <2>1. \A c : ~(c.deferred /\ (c \in Brings(e) \/ (run[f].at # "scenario" /\ c.shows \cap run[f].secrets = {})))
    BY <1>2, <1>4
  <2> QED
    BY <1>1, <1>2, <1>4, <2>1, TellsPage
<1> QED
  BY <1>3, <1>4 DEF Records, TellsStep

LEMMA RecordsCites ==
  ASSUME EvidenceInv, NEW f, Records(f)
  PROVE  (CitesOf(f))'
<1>1. /\ f \in Files /\ CitesOf(f) /\ artifacts \subseteq artifacts' /\ lost \subseteq lost'
  BY RecordsOnly DEF Records, EvidenceInv, RefersInv, Only
<1>2. Waiting(f) \in Seq([dir : Nat, shows : SUBSET Values]) /\ Held(f) \in Seq(VarsEvents \cup ContentEvents)
  BY <1>1 DEF Waiting, Held, EvidenceInv, TraceTypes, Tasks, Holdings
<1>3. Awaited(f) \subseteq (Awaited(f))'
  <2>1. ASSUME NEW file, Waiting(f)' = Append(Waiting(f), file)
        PROVE  \A i \in DOMAIN Waiting(f) : i \in DOMAIN Waiting(f)' /\ Waiting(f)'[i] = Waiting(f)[i]
    BY <1>2, <2>1
  <2>2. \A i \in DOMAIN Waiting(f) : i \in DOMAIN Waiting(f)' /\ Waiting(f)'[i] = Waiting(f)[i]
    BY <2>1 DEF Records, WritesStep
  <2> QED
    BY <2>2 DEF Awaited
<1>4. ASSUME NEW i \in DOMAIN Held(f), Held(f)[i].type # "vars", NEW dir, dir = Held(f)[i].content.dir
      PROVE  (Kept(dir))' \/ dir \in (Awaited(f))'
  BY <1>1, <1>3, <1>4, KeptGrows DEF CitesOf
<1>5. CASE Held(f)' = Held(f)
  BY <1>4, <1>5 DEF CitesOf
<1>6. ASSUME NEW e \in VarsEvents \cup ContentEvents, Held(f)' = Append(Held(f), e),
             e.type # "vars" => (Kept(e.content.dir))' \/ e.content.dir \in (Awaited(f))'
      PROVE  (CitesOf(f))'
  <2>1. \A i \in DOMAIN Held(f)' : (i \in DOMAIN Held(f) /\ Held(f)'[i] = Held(f)[i]) \/ Held(f)'[i] = e
    BY <1>2, <1>6
  <2> QED
    BY <1>4, <1>6, <2>1 DEF CitesOf
<1> QED
  BY <1>5, <1>6 DEF Records, HoldsStep

LEMMA RecordsFile ==
  ASSUME EvidenceInv, NEW f, Records(f)
  PROVE  (FileInv(f))'
<1>1. /\ f \in Files /\ ScenarioInv(f) /\ SecretsInv(f) /\ PassingInv(f) /\ result'[f] = result[f]
      /\ run[f] \in Tasks /\ run'[f] \in Tasks
  BY DEF Records, EvidenceInv, FileInv, TraceTypes
<1>2. \A d \in artifacts' : d \in artifacts \/ (d.file = f /\ ~d.held /\ d.scenario = run[f].scenarios
                                             /\ (d.mode = "deferred" => run'[f].deferred_bytes > Cap))
  BY RecordsOnly
<1>3. /\ run'[f].at = "scenario" /\ run[f].at = "scenario" /\ run'[f].scenarios = run[f].scenarios
      /\ run'[f].done = run[f].done /\ run'[f].flush = run[f].flush
      /\ run[f].deferred_bytes <= run'[f].deferred_bytes /\ run'[f].held.bytes <= run'[f].deferred_bytes
  BY DEF Records
<1>4. run[f].deferred_bytes \in Nat /\ run'[f].deferred_bytes \in Nat /\ run[f].scenarios \in Nat /\ Cap \in Nat
  BY <1>1, TraceAssumption DEF Tasks
<1>5. ~run[f].flush
  BY <1>1, <1>3 DEF ScenarioInv
<1>6. \A d \in (Latest(f))' : d.mode = "deferred" => run'[f].deferred_bytes > Cap
  <2> SUFFICES ASSUME NEW d \in (Latest(f))', d.mode = "deferred" PROVE run'[f].deferred_bytes > Cap
    OBVIOUS
  <2>1. d \in artifacts' /\ d.file = f /\ d.scenario = run[f].scenarios
    BY <1>3 DEF Latest
  <2>2. CASE d \in artifacts
    <3>1. run[f].deferred_bytes > Cap
      BY <1>1, <1>3, <2>1, <2>2 DEF ScenarioInv, Latest
    <3> QED
      BY <1>3, <1>4, <3>1
  <2> QED
    BY <1>2, <2>1, <2>2
<1>7. \A d \in artifacts' : d.file = f => d.scenario <= run[f].scenarios
  BY <1>1, <1>2, <1>3, <1>4 DEF ScenarioInv
<1>8. (ScenarioInv(f))'
  BY <1>1, <1>3, <1>5, <1>6, <1>7 DEF ScenarioInv
<1>9. \A d \in (Latest(f))' : ~d.held
  BY <1>1, <1>2, <1>3 DEF SecretsInv, Latest
<1>10. Held(f) \in Seq(VarsEvents \cup ContentEvents)
  BY <1>1 DEF Held, Tasks, Holdings
<1>11. \A i \in DOMAIN Held(f)' : Held(f)'[i].file = PathOf[f] /\ Held(f)'[i].scenario = run[f].scenarios
  <2>1. \A i \in DOMAIN Held(f) : Held(f)[i].file = PathOf[f] /\ Held(f)[i].scenario = run[f].scenarios
    BY <1>1 DEF SecretsInv
  <2>2. ASSUME NEW e, e.file = PathOf[f], e.scenario = run[f].scenarios, Held(f)' = Append(Held(f), e)
        PROVE  \A i \in DOMAIN Held(f)' : Held(f)'[i].file = PathOf[f] /\ Held(f)'[i].scenario = run[f].scenarios
    <3>1. \A i \in DOMAIN Held(f)' : (i \in DOMAIN Held(f) /\ Held(f)'[i] = Held(f)[i]) \/ Held(f)'[i] = e
      BY <1>10, <2>2
    <3> QED
      BY <2>1, <2>2, <3>1
  <2> QED
    BY <2>1, <2>2 DEF Records, HoldsStep
<1>12. (SecretsInv(f))'
  BY <1>3, <1>9, <1>11 DEF SecretsInv
<1>13. (PassingInv(f))'
  <2>1. Told(f)' = run[f].done /\ Told(f) = run[f].done
    BY <1>3 DEF Told
  <2>2. \A k \in DOMAIN run[f].done : k < run[f].scenarios
    BY <1>1, <1>3 DEF ScenarioInv, Tasks
  <2>3. \A d \in artifacts' : d.file = f => d \in artifacts \/ d.scenario = run[f].scenarios
    BY <1>2
  <2>4. \A k \in DOMAIN run[f].done : k # run[f].scenarios
    BY <1>4, <2>2
  <2> QED
    BY <1>1, <1>3, <2>1, <2>3, <2>4 DEF PassingInv
<1> QED
  BY <1>8, <1>12, <1>13 DEF FileInv

LEMMA RecordsKeep ==
  ASSUME EvidenceInv, NEW f, Records(f)
  PROVE  EvidenceInv'
<1>1. f \in Files /\ f \in plan.files /\ Only(f) /\ OnlyPage(f) /\ (Distinct => (OwnPage(f))') /\ plan' = plan
  BY RecordsOnly, RecordsPage DEF Records
<1>2. \A g \in Files : (FileInv(g))'
  BY <1>1, RecordsFile, OthersKeep DEF EvidenceInv
<1>3. PageInv'
  BY <1>1, PageKeeps
<1>4. RefersInv'
  <2>1. \A c \in Cited(report') : c \in Cited(report) \/ (Kept(c.dir))'
    BY RecordsPage
  <2>2. (CitesOf(f))' /\ lost \subseteq lost'
    BY RecordsCites DEF Records
  <2> QED
    BY <1>1, <2>1, <2>2, RefersKeep
<1>5. DirsInv'
  BY <1>1, DirsSame, DirsWait, DirsStore DEF Records, WritesStep
<1>6. TraceTypes'
  <2>1. run' \in [Files -> Tasks] /\ report' \in Reports
    BY <1>1 DEF Records, EvidenceInv, TraceTypes, OnlyPage
  <2>2. counter' \in Nat /\ artifacts' \subseteq Artifacts
    BY DEF Records, WritesStep, EvidenceInv, TraceTypes
  <2> QED
    BY <2>1, <2>2 DEF Records, EvidenceInv, TraceTypes
<1> QED
  BY <1>2, <1>3, <1>4, <1>5, <1>6 DEF EvidenceInv

\* The step in flight, and what its mode may be.
LEMMA InnermostTyped ==
  ASSUME TraceTypes, NEW f \in Files, run[f].open # <<>>
  PROVE  Innermost(f) \in Flights /\ Mode(f) = Innermost(f).mode /\ Len(run[f].open) \in Nat \ {0}
BY DEF TraceTypes, Tasks, Innermost, Mode

LEMMA SetFlight ==
  ASSUME NEW s \in Seq(Flights), NEW m \in Nat, NEW x \in Flights
  PROVE  [s EXCEPT ![m] = x] \in Seq(Flights)
<1>1. PICK n : n = Len(s) /\ n \in Nat /\ s \in [1..n -> Flights]
  OBVIOUS
<1>2. [s EXCEPT ![m] = x] \in [1..n -> Flights]
  BY <1>1
<1> QED
  BY <1>1, <1>2

\* Most steps hold nothing.
LEMMA PlainStep ==
  ASSUME EvidenceInv, NEW f \in plan.files, NEW u \in Tasks, run' = [run EXCEPT ![f] = u],
         run[f].at = "scenario", u.at = "scenario", u.scenarios = run[f].scenarios, u.done = run[f].done,
         u.flush = run[f].flush, run[f].secrets \subseteq u.secrets,
         u.held = run[f].held, u.deferred_bytes = run[f].deferred_bytes,
         UNCHANGED <<plan, result, counter, artifacts, lost, interrupted>>, TellsStep(f)
  PROVE  Records(f)
<1>1. f \in Files /\ run \in [Files -> Tasks]
  BY TraceAssumption DEF EvidenceInv, TraceTypes
<1>2. run'[f] = u
  BY <1>1
<1>3. run' = [run EXCEPT ![f] = run'[f]]
  BY <1>2
<1>4. Held(f)' = Held(f) /\ Waiting(f)' = Waiting(f)
  BY <1>2 DEF Held, Waiting
<1>5. u.deferred_bytes <= u.deferred_bytes /\ u.held.bytes <= u.deferred_bytes
  <2>1. ScenarioInv(f) /\ u.deferred_bytes \in Nat
    BY <1>1 DEF EvidenceInv, FileInv, Tasks
  <2> QED
    BY <2>1 DEF ScenarioInv
<1> QED
  BY <1>1, <1>2, <1>3, <1>4, <1>5 DEF Records, HoldsStep, WritesStep

LEMMA AnnotationRecords ==
  ASSUME EvidenceInv, NEW f \in plan.files, Annotation(f)
  PROVE  Records(f)
<1>1. f \in Files /\ run \in [Files -> Tasks] /\ run[f] \in Tasks /\ PathOf[f] \in Paths
  BY TraceAssumption DEF EvidenceInv, TraceTypes
<1>2. PICK n, u : n = run[f].effects + 1 /\ u = [run[f] EXCEPT !.effects = n]
  OBVIOUS
<1>3. /\ u \in Tasks /\ run' = [run EXCEPT ![f] = u] /\ u.held = run[f].held
      /\ u.deferred_bytes = run[f].deferred_bytes /\ u.secrets = run[f].secrets
      /\ u.at = run[f].at /\ u.scenarios = run[f].scenarios /\ u.done = run[f].done /\ u.flush = run[f].flush
  <2>1. n \in Nat
    BY <1>1, <1>2 DEF Tasks
  <2>2. u \in Tasks
    BY <1>1, <1>2, <2>1 DEF Tasks
  <2> QED
    BY <1>1, <1>2, <2>2 DEF Annotation, Tasks
<1>4. PICK e : e = EventOf(f, "annotation", [parent |-> Parent(f)])
  OBVIOUS
<1>5. e = [type |-> "annotation", file |-> PathOf[f], scenario |-> run[f].scenarios, parent |-> Parent(f)]
  BY <1>4, EventParent
<1>6. SceneEvent(e) /\ Brings(e) = {} /\ e.file = PathOf[f] /\ e.scenario = run[f].scenarios
  BY <1>1, <1>5 DEF SceneEvent, SceneKinds, Brings, Tasks
<1>7. TellsStep(f)
  BY <1>4, <1>6 DEF TellsStep, Annotation, Tell
<1> QED
  BY <1>3, <1>7, PlainStep DEF Annotation, InBody

LEMMA SkipRecords ==
  ASSUME EvidenceInv, NEW f \in plan.files, StepSkipped(f)
  PROVE  Records(f)
<1>1. f \in Files /\ run \in [Files -> Tasks] /\ run[f] \in Tasks /\ PathOf[f] \in Paths
  BY TraceAssumption DEF EvidenceInv, TraceTypes
<1>2. PICK n, told, u : /\ told = IF run[f].open = <<>> THEN Append(run[f].told, "skipped") ELSE run[f].told
                       /\ n = run[f].steps + 1 /\ u = [run[f] EXCEPT !.steps = n, !.told = told]
  OBVIOUS
<1>3. told \in Seq(Statuses)
  BY <1>1, <1>2 DEF Tasks, Statuses
<1>4. run' = [run EXCEPT ![f] = u]
  BY <1>1, <1>2 DEF StepSkipped
<1>5. /\ u \in Tasks /\ u.held = run[f].held
      /\ u.deferred_bytes = run[f].deferred_bytes /\ u.secrets = run[f].secrets
      /\ u.at = run[f].at /\ u.scenarios = run[f].scenarios /\ u.done = run[f].done /\ u.flush = run[f].flush
  <2>1. n \in Nat
    BY <1>1, <1>2 DEF Tasks
  <2> QED
    BY <1>1, <1>2, <1>3, <2>1 DEF Tasks
<1>6. PICK e : e = EventOf(f, "step_skipped", [parent |-> Parent(f)])
  OBVIOUS
<1>7. e = [type |-> "step_skipped", file |-> PathOf[f], scenario |-> run[f].scenarios, parent |-> Parent(f)]
  BY <1>6, EventParent
<1>8. SceneEvent(e) /\ Brings(e) = {} /\ e.file = PathOf[f] /\ e.scenario = run[f].scenarios
  BY <1>1, <1>7 DEF SceneEvent, SceneKinds, Brings, Tasks
<1>9. TellsStep(f)
  BY <1>6, <1>8 DEF TellsStep, StepSkipped, Tell
<1> QED
  BY <1>4, <1>5, <1>9, PlainStep DEF StepSkipped, InBody

LEMMA FinishRecords ==
  ASSUME EvidenceInv, NEW f \in plan.files, NEW ok \in BOOLEAN, NEW said \in SUBSET plan.values,
         StepFinishes(f, ok, said)
  PROVE  Records(f)
<1>1. /\ f \in Files /\ run \in [Files -> Tasks] /\ run[f] \in Tasks /\ PathOf[f] \in Paths
      /\ plan.values \subseteq Values /\ TraceTypes
  BY TraceAssumption DEF EvidenceInv, TraceTypes
<1>2. PICK depth, callers, status, open, shows, told, failed, u :
        /\ depth = Len(run[f].open) /\ callers = SubSeq(run[f].open, 1, depth - 1)
        /\ status = IF ok THEN "passed" ELSE "failed"
        /\ open = IF ok \/ depth = 1 THEN callers ELSE [callers EXCEPT ![depth - 1].failed = TRUE]
        /\ shows = IF ok THEN run[f].shows ELSE run[f].shows \cup Mask(said, f)
        /\ told = IF depth = 1 THEN Append(run[f].told, status) ELSE run[f].told
        /\ failed = (run[f].failed \/ (~ok /\ depth = 1))
        /\ u = [run[f] EXCEPT !.open = open, !.failed = failed, !.shows = shows, !.told = told]
  OBVIOUS
<1>3. status \in Statuses
  BY <1>2 DEF Statuses
<1>4. open \in Seq(Flights)
  <2>1. run[f].open \in Seq(Flights) /\ depth \in Nat \ {0}
    BY <1>1, <1>2, InnermostTyped DEF Tasks, StepFinishes
  <2>2. callers \in Seq(Flights) /\ Len(callers) = depth - 1
    BY <1>2, <2>1
  <2>3. CASE ok \/ depth = 1
    BY <1>2, <2>2, <2>3
  <2>4. CASE ~ok /\ depth # 1
    <3>1. callers[depth - 1] \in Flights
      BY <2>1, <2>2, <2>4
    <3>2. PICK flight : flight = [callers[depth - 1] EXCEPT !.failed = TRUE]
      OBVIOUS
    <3>3. flight \in Flights
      BY <3>1, <3>2 DEF Flights
    <3>4. PICK m : m = depth - 1
      OBVIOUS
    <3>5. open = [callers EXCEPT ![m] = flight]
      BY <1>2, <2>4, <3>2, <3>4
    <3>6. m \in Nat
      BY <2>1, <3>4
    <3> QED
      BY ONLY <2>2, <3>3, <3>5, <3>6, SetFlight
  <2> QED
    BY <2>3, <2>4
<1>5. shows \in SUBSET Values
  BY <1>1, <1>2, MaskTyped DEF Tasks
<1>6. told \in Seq(Statuses)
  BY <1>1, <1>2, <1>3 DEF Tasks
<1>7. run' = [run EXCEPT ![f] = u]
  BY <1>1, <1>2 DEF StepFinishes
<1>8. /\ u \in Tasks /\ u.held = run[f].held
      /\ u.deferred_bytes = run[f].deferred_bytes /\ u.secrets = run[f].secrets
      /\ u.at = run[f].at /\ u.scenarios = run[f].scenarios /\ u.done = run[f].done /\ u.flush = run[f].flush
  <2>1. failed \in BOOLEAN
    BY <1>2
  <2>2. run[f] \in Tasks /\ u = [run[f] EXCEPT !.open = open, !.failed = failed, !.shows = shows, !.told = told]
    BY <1>1, <1>2
  <2>3. u \in Tasks
    BY ONLY <1>4, <1>5, <1>6, <2>1, <2>2 DEF Tasks
  <2> QED
    BY ONLY <2>2, <2>3 DEF Tasks
<1>9. PICK e : e = EventOf(f, "step_finished", [step |-> Innermost(f).step, status |-> status])
  OBVIOUS
<1>10. e = [type |-> "step_finished", file |-> PathOf[f], scenario |-> run[f].scenarios,
            step |-> Innermost(f).step, status |-> status]
  BY <1>9, EventStatus
<1>11. SceneEvent(e) /\ Brings(e) = {} /\ e.file = PathOf[f] /\ e.scenario = run[f].scenarios
  BY <1>1, <1>3, <1>10 DEF SceneEvent, SceneKinds, Brings, Tasks
<1>12. TellsStep(f)
  BY <1>2, <1>9, <1>11 DEF TellsStep, StepFinishes, Tell
<1> QED
  BY <1>7, <1>8, <1>12, PlainStep DEF StepFinishes

LEMMA RegisterRecords ==
  ASSUME EvidenceInv, NEW f \in plan.files, NEW v \in plan.values, Register(f, v)
  PROVE  Records(f)
<1>1. /\ f \in Files /\ run \in [Files -> Tasks] /\ run[f] \in Tasks /\ plan.values \subseteq Values
  BY TraceAssumption DEF EvidenceInv, TraceTypes
<1>2. PICK n, set, u : /\ n = run[f].effects + 1 /\ set = run[f].secrets \cup {v}
                      /\ u = [run[f] EXCEPT !.effects = n, !.secrets = set]
  OBVIOUS
<1>3. /\ u \in Tasks /\ run' = [run EXCEPT ![f] = u] /\ u.held = run[f].held
      /\ u.deferred_bytes = run[f].deferred_bytes /\ run[f].secrets \subseteq u.secrets
      /\ u.at = run[f].at /\ u.scenarios = run[f].scenarios /\ u.done = run[f].done /\ u.flush = run[f].flush
  <2>1. n \in Nat /\ set \in SUBSET Values /\ run[f].secrets \subseteq set
    BY <1>1, <1>2 DEF Tasks
  <2>2. u \in Tasks
    BY <1>1, <1>2, <2>1 DEF Tasks
  <2> QED
    BY <1>1, <1>2, <2>2, ZenonT(30) DEF Register, Tasks
<1>4. TellsStep(f)
  BY DEF TellsStep, Register
<1> QED
  BY <1>3, <1>4, PlainStep DEF Register, InLeaf

LEMMA MarkRecords ==
  ASSUME EvidenceInv, NEW f \in plan.files, NEW on \in BOOLEAN, MarkSteps(f, on)
  PROVE  Records(f)
<1>1. f \in Files /\ run \in [Files -> Tasks] /\ run[f] \in Tasks
  BY TraceAssumption DEF EvidenceInv, TraceTypes
<1>2. PICK n, u : n = run[f].effects + 1 /\ u = [run[f] EXCEPT !.effects = n, !.marked = on]
  OBVIOUS
<1>3. /\ u \in Tasks /\ run' = [run EXCEPT ![f] = u] /\ u.held = run[f].held
      /\ u.deferred_bytes = run[f].deferred_bytes /\ u.secrets = run[f].secrets
      /\ u.at = run[f].at /\ u.scenarios = run[f].scenarios /\ u.done = run[f].done /\ u.flush = run[f].flush
  <2>1. n \in Nat
    BY <1>1, <1>2 DEF Tasks
  <2>2. u \in Tasks
    BY <1>1, <1>2, <2>1 DEF Tasks
  <2> QED
    BY <1>1, <1>2, <2>2 DEF MarkSteps, Tasks
<1>4. TellsStep(f)
  BY DEF TellsStep, MarkSteps
<1> QED
  BY <1>3, <1>4, PlainStep DEF MarkSteps, InLeaf

-----------------------------------------------------------------------------
(***************************************************************************)
(* Evidence: the event of a live step is told, a deferred step's is held.  *)
(***************************************************************************)
LEMMA ContentTyped ==
  ASSUME TraceTypes, NEW f \in Files, NEW dir \in Nat, NEW shows \in SUBSET Values
  PROVE  /\ Content(f, dir, shows) \in Contents /\ Content(f, dir, shows).dir = dir
         /\ Content(f, dir, shows).deferred = (Mode(f) = "deferred")
         /\ dir # 0 => Content(f, dir, shows).size = Size(shows)
<1>1. Size(shows) \in Nat
  BY MaskTyped
<1> QED
  BY <1>1 DEF Content, Contents

LEMMA RecordLive ==
  ASSUME EvidenceInv, NEW f \in plan.files, NEW type \in {"evidence", "attempt"}, NEW content \in Contents,
         NEW held, Record(f, type, content, held), Recording(f), Mode(f) = "live",
         ~content.deferred, (Kept(content.dir))', UNCHANGED <<plan, result, lost, interrupted>>
  PROVE  /\ Waiting(f)' = Waiting(f)
         /\ WritesStep(f) => Records(f)
<1>1. /\ f \in Files /\ run \in [Files -> Tasks] /\ run[f] \in Tasks /\ PathOf[f] \in Paths
      /\ TraceTypes /\ ScenarioInv(f)
  BY TraceAssumption DEF EvidenceInv, TraceTypes, FileInv
<1>2. PICK n, u : n = run[f].effects + 1 /\ u = [run[f] EXCEPT !.effects = n]
  OBVIOUS
<1>3. run[f].at = "scenario"
  BY DEF Recording, InLeaf
<1>4. /\ u \in Tasks /\ run' = [run EXCEPT ![f] = u] /\ u.held = run[f].held
      /\ u.deferred_bytes = run[f].deferred_bytes /\ run[f].secrets = u.secrets
      /\ u.at = run[f].at /\ u.scenarios = run[f].scenarios /\ u.done = run[f].done /\ u.flush = run[f].flush
  <2>1. n \in Nat
    BY <1>1, <1>2 DEF Tasks
  <2>2. u \in Tasks
    BY <1>1, <1>2, <2>1 DEF Tasks
  <2> QED
    BY <1>1, <1>2, <2>2 DEF Record, Tasks
<1>5. run'[f] = u /\ Held(f)' = Held(f) /\ Waiting(f)' = Waiting(f)
  BY <1>1, <1>4 DEF Held, Waiting
<1>6. PICK e, step : e = EventOf(f, type, [step |-> step, content |-> content]) /\ step = Innermost(f).step
  OBVIOUS
<1>7. e = [type |-> type, file |-> PathOf[f], scenario |-> run[f].scenarios, step |-> step, content |-> content]
  BY <1>6, EventContent
<1>8. SceneEvent(e) /\ Brings(e) \subseteq {content} /\ e.file = PathOf[f] /\ e.scenario = run[f].scenarios
  BY <1>1, <1>7 DEF SceneEvent, SceneKinds, Brings, Tasks
<1>9. report' = Fold(report, e)
  BY <1>6 DEF Record, Tell
<1>10. TellsStep(f)
  BY <1>8, <1>9 DEF TellsStep
<1>11. run'[f].held.bytes <= run'[f].deferred_bytes /\ run[f].deferred_bytes <= run'[f].deferred_bytes
  <2>1. run[f].deferred_bytes \in Nat
    BY <1>1 DEF Tasks
  <2> QED
    BY <1>1, <1>4, <1>5, <2>1 DEF ScenarioInv
<1> QED
  BY <1>1, <1>3, <1>4, <1>5, <1>10, <1>11 DEF Records, HoldsStep

LEMMA RecordHeld ==
  ASSUME EvidenceInv, NEW f \in plan.files, NEW type \in {"evidence", "attempt"}, NEW content \in Contents,
         NEW held \in Holdings, Record(f, type, content, held), Recording(f), Mode(f) # "live",
         held.events = Held(f),
         (Kept(content.dir))' \/ \E i \in DOMAIN held.files : held.files[i].dir = content.dir,
         held.bytes <= run[f].held.bytes + (IF content.dir = 0 THEN 0 ELSE content.size),
         UNCHANGED <<plan, result, lost, interrupted>>
  PROVE  /\ Waiting(f)' = held.files
         /\ run'[f].deferred_bytes = run[f].deferred_bytes + (IF content.dir = 0 THEN 0 ELSE content.size)
         /\ WritesStep(f) => Records(f)
<1>1. /\ f \in Files /\ run \in [Files -> Tasks] /\ run[f] \in Tasks /\ PathOf[f] \in Paths
      /\ TraceTypes /\ ScenarioInv(f)
  BY TraceAssumption DEF EvidenceInv, TraceTypes, FileInv
<1>2. PICK step : step = Innermost(f).step
  OBVIOUS
<1>3. PICK e : e = [type |-> type, file |-> PathOf[f], scenario |-> run[f].scenarios, step |-> step, content |-> content]
  OBVIOUS
<1>4. e = EventOf(f, type, [step |-> Innermost(f).step, content |-> content])
  BY <1>2, <1>3, EventContent
<1>5. run[f].at = "scenario" /\ step \in Nat
  <2>1. run[f].at = "scenario" /\ run[f].open # <<>>
    BY DEF Recording, InLeaf
  <2>2. Innermost(f) \in Flights
    BY <1>1, <2>1, InnermostTyped
  <2> QED
    BY <1>2, <2>1, <2>2 DEF Flights
<1>6. e \in ContentEvents /\ e.type # "vars" /\ e.content = content /\ e.file = PathOf[f] /\ e.scenario = run[f].scenarios
  BY <1>1, <1>3, <1>5 DEF ContentEvents, Tasks
<1>7. PICK n, list, held2, bytes, u :
        /\ n = run[f].effects + 1 /\ list = Append(held.events, e) /\ held2 = [held EXCEPT !.events = list]
        /\ bytes = run[f].deferred_bytes + (IF content.dir = 0 THEN 0 ELSE content.size)
        /\ u = [run[f] EXCEPT !.effects = n, !.held = held2, !.deferred_bytes = bytes]
  OBVIOUS
<1>8. n \in Nat /\ bytes \in Nat /\ run[f].deferred_bytes <= bytes /\ held.bytes <= bytes
  <2>1. /\ run[f].effects \in Nat /\ run[f].deferred_bytes \in Nat /\ content.size \in Nat
        /\ held.bytes \in Nat /\ run[f].held.bytes \in Nat
    BY <1>1 DEF Tasks, Contents, Holdings
  <2>2. PICK extra : extra = IF content.dir = 0 THEN 0 ELSE content.size
    OBVIOUS
  <2>3. extra \in Nat /\ bytes = run[f].deferred_bytes + extra /\ held.bytes <= run[f].held.bytes + extra
    BY <1>7, <2>1, <2>2
  <2>4. run[f].held.bytes <= run[f].deferred_bytes /\ n = run[f].effects + 1
    BY <1>1, <1>7 DEF ScenarioInv
  <2> QED
    BY ONLY <2>1, <2>3, <2>4
<1>9. /\ held2 \in Holdings /\ held2.events = list /\ held2.files = held.files /\ held2.bytes = held.bytes
  <2>1. held.events \in Seq(VarsEvents \cup ContentEvents)
    BY DEF Holdings
  <2>2. list \in Seq(VarsEvents \cup ContentEvents)
    BY <1>6, <1>7, <2>1
  <2> QED
    BY <1>7, <2>2 DEF Holdings
<1>10. run' = [run EXCEPT ![f] = u] /\ report' = report
  <2>1. bytes = IF content.dir = 0 THEN run[f].deferred_bytes ELSE run[f].deferred_bytes + content.size
    BY <1>1, <1>7 DEF Tasks
  <2> QED
    BY <1>1, <1>4, <1>7, <2>1 DEF Record
<1>11. /\ u \in Tasks /\ u.held = held2 /\ u.deferred_bytes = bytes /\ run[f].secrets = u.secrets
       /\ u.at = run[f].at /\ u.scenarios = run[f].scenarios /\ u.done = run[f].done /\ u.flush = run[f].flush
  BY <1>1, <1>7, <1>8, <1>9, ZenonT(30) DEF Tasks
<1>12. run'[f] = u
  BY <1>1, <1>10
<1>13. Held(f)' = Append(Held(f), e) /\ Waiting(f)' = held.files
  BY <1>7, <1>9, <1>11, <1>12 DEF Held, Waiting
<1>14. (Kept(content.dir))' \/ content.dir \in (Awaited(f))'
  BY <1>13 DEF Awaited
<1>15. HoldsStep(f)
  BY <1>6, <1>13, <1>14 DEF HoldsStep
<1>16. TellsStep(f)
  BY <1>10 DEF TellsStep
<1>17. run'[f].deferred_bytes = bytes /\ run'[f].held.bytes = held.bytes
  BY <1>9, <1>11, <1>12
<1> QED
  BY <1>1, <1>5, <1>7, <1>8, <1>10, <1>11, <1>12, <1>13, <1>15, <1>16, <1>17 DEF Records

\* What stands in the event itself, or was written before it.
LEMMA RecordWritten ==
  ASSUME EvidenceInv, NEW f \in plan.files, NEW type \in {"evidence", "attempt"}, NEW content \in Contents,
         Record(f, type, content, run[f].held), Recording(f),
         content.deferred = (Mode(f) = "deferred"), (Kept(content.dir))',
         UNCHANGED <<plan, result, lost, interrupted>>
  PROVE  /\ Waiting(f)' = Waiting(f)
         /\ Mode(f) = "deferred" =>
              run'[f].deferred_bytes = run[f].deferred_bytes + (IF content.dir = 0 THEN 0 ELSE content.size)
         /\ WritesStep(f) => Records(f)
<1>1. f \in Files /\ run[f] \in Tasks /\ TraceTypes
  BY TraceAssumption DEF EvidenceInv, TraceTypes
<1>2. CASE Mode(f) = "live"
  BY <1>2, RecordLive
<1>3. CASE Mode(f) # "live"
  <2>1. run[f].held \in Holdings /\ run[f].held.events = Held(f) /\ run[f].held.files = Waiting(f)
    BY <1>1 DEF Tasks, Held, Waiting
  <2>2. PICK held : held = run[f].held
    OBVIOUS
  <2>3. held.bytes <= run[f].held.bytes + (IF content.dir = 0 THEN 0 ELSE content.size)
    BY <2>1, <2>2 DEF Holdings, Contents
  <2>4. Record(f, type, content, held)
    BY <2>2
  <2>5. held \in Holdings /\ held.events = Held(f)
    BY <2>1, <2>2
  <2>6. /\ Waiting(f)' = held.files
        /\ run'[f].deferred_bytes = run[f].deferred_bytes + (IF content.dir = 0 THEN 0 ELSE content.size)
        /\ WritesStep(f) => Records(f)
    BY <1>3, <2>3, <2>4, <2>5, RecordHeld
  <2> QED
    BY <2>1, <2>2, <2>6
<1> QED
  BY <1>2, <1>3

LEMMA InlineRecords ==
  ASSUME EvidenceInv, NEW f \in plan.files, NEW shows \in SUBSET plan.values, InlineEvidence(f, shows)
  PROVE  Records(f)
<1>1. f \in Files /\ TraceTypes /\ shows \in SUBSET Values
  BY TraceAssumption DEF EvidenceInv, TraceTypes
<1>2. PICK masked, content : masked = Mask(shows, f) /\ content = Content(f, 0, masked)
  OBVIOUS
<1>3. masked \in SUBSET Values
  BY <1>1, <1>2, MaskTyped
<1>4. content \in Contents /\ content.dir = 0 /\ content.deferred = (Mode(f) = "deferred")
  BY <1>1, <1>2, <1>3, ContentTyped
<1>5. (Kept(content.dir))'
  BY <1>4 DEF Kept
<1>6. Record(f, "evidence", content, run[f].held)
  BY <1>2 DEF InlineEvidence
<1>7. Recording(f) /\ UNCHANGED <<plan, result, counter, artifacts, lost, interrupted>>
  BY DEF InlineEvidence
<1>8. Waiting(f)' = Waiting(f) /\ (WritesStep(f) => Records(f))
  BY <1>4, <1>5, <1>6, <1>7, RecordWritten
<1> QED
  BY <1>7, <1>8 DEF WritesStep

LEMMA AttemptRecords ==
  ASSUME EvidenceInv, NEW f \in plan.files, Attempt(f)
  PROVE  Records(f)
<1>1. f \in Files /\ TraceTypes
  BY TraceAssumption DEF EvidenceInv, TraceTypes
<1>2. PICK content : content = Content(f, 0, {})
  OBVIOUS
<1>3. content \in Contents /\ content.dir = 0 /\ content.deferred = (Mode(f) = "deferred")
  BY <1>1, <1>2, ContentTyped
<1>4. (Kept(content.dir))'
  BY <1>3 DEF Kept
<1>5. Record(f, "attempt", content, run[f].held)
  BY <1>2 DEF Attempt
<1>6. Recording(f) /\ UNCHANGED <<plan, result, counter, artifacts, lost, interrupted>>
  BY DEF Attempt
<1>7. Waiting(f)' = Waiting(f) /\ (WritesStep(f) => Records(f))
  BY <1>3, <1>4, <1>5, <1>6, RecordWritten
<1> QED
  BY <1>6, <1>7 DEF WritesStep

LEMMA PluginRecords ==
  ASSUME EvidenceInv, NEW f \in plan.files, NEW shows \in SUBSET plan.values, PluginFile(f, shows)
  PROVE  Records(f)
<1>1. f \in Files /\ TraceTypes /\ shows \in SUBSET Values /\ counter \in Nat /\ run[f] \in Tasks
  BY TraceAssumption DEF EvidenceInv, TraceTypes
<1>2. PICK dir, whole, content, d :
        /\ dir = counter + 1 /\ whole = Content(f, counter + 1, shows) /\ content = [whole EXCEPT !.shows = {}]
        /\ d = [Stored(f, counter + 1, shows, FALSE) EXCEPT !.mode = "plugin"]
  OBVIOUS
<1>3. whole \in Contents /\ whole.dir = dir /\ whole.deferred = (Mode(f) = "deferred") /\ dir \in Nat
  BY <1>1, <1>2, ContentTyped
<1>4. content \in Contents /\ content.dir = dir /\ content.deferred = (Mode(f) = "deferred")
  BY <1>2, <1>3 DEF Contents
<1>5. d \in Artifacts /\ d.dir = dir /\ d.file = f /\ d.scenario = run[f].scenarios /\ d.mode = "plugin" /\ ~d.held
  BY <1>1, <1>2, <1>3 DEF Stored, Artifacts, Tasks
<1>6. Recording(f) /\ artifacts' = artifacts \cup {d} /\ counter' = counter + 1
  BY <1>2 DEF PluginFile
<1>7. Record(f, "evidence", content, run[f].held)
  BY <1>2 DEF PluginFile
<1>8. (Kept(content.dir))'
  BY <1>4, <1>5, <1>6 DEF Kept, OnDisk
<1>9. UNCHANGED <<plan, result, lost, interrupted>>
  BY DEF PluginFile
<1>10. Waiting(f)' = Waiting(f) /\ (WritesStep(f) => Records(f))
  BY <1>4, <1>6, <1>7, <1>8, <1>9, RecordWritten
<1> QED
  BY <1>2, <1>5, <1>6, <1>10 DEF WritesStep

LEMMA WriteRecords ==
  ASSUME EvidenceInv, NEW f \in plan.files, NEW shows \in SUBSET plan.values, WriteLong(f, shows)
  PROVE  Records(f)
<1>1. /\ f \in Files /\ TraceTypes /\ shows \in SUBSET Values /\ counter \in Nat /\ run[f] \in Tasks
      /\ ScenarioInv(f) /\ Cap \in Nat
  BY TraceAssumption DEF EvidenceInv, TraceTypes, FileInv
<1>2. PICK dir, masked, content, d :
        /\ dir = counter + 1 /\ masked = Mask(shows, f) /\ content = Content(f, counter + 1, masked)
        /\ d = Stored(f, counter + 1, masked, FALSE)
  OBVIOUS
<1>3. masked \in SUBSET Values /\ Size(masked) \in Nat /\ dir \in Nat \ {0}
  BY <1>1, <1>2, MaskTyped
<1>4. /\ content \in Contents /\ content.dir = dir /\ content.deferred = (Mode(f) = "deferred")
      /\ content.size = Size(masked)
  BY <1>1, <1>2, <1>3, ContentTyped
<1>5. Mode(f) \in {"off", "live", "deferred"}
  BY <1>1, InnermostTyped DEF WriteLong, Recording, InLeaf, Flights
<1>6. d \in Artifacts /\ d.dir = dir /\ d.file = f /\ d.scenario = run[f].scenarios /\ d.mode = Mode(f) /\ ~d.held
  BY <1>1, <1>2, <1>3, <1>5 DEF Stored, Artifacts, Tasks
<1>7. Recording(f) /\ artifacts' = artifacts \cup {d} /\ counter' = counter + 1 /\ ~WithinCap(f, shows)
  BY <1>2 DEF WriteLong
<1>8. Record(f, "evidence", content, run[f].held)
  BY <1>2 DEF WriteLong
<1>9. (Kept(content.dir))'
  BY <1>4, <1>6, <1>7 DEF Kept, OnDisk
<1>10. UNCHANGED <<plan, result, lost, interrupted>>
  BY DEF WriteLong
<1>11. /\ Waiting(f)' = Waiting(f) /\ (WritesStep(f) => Records(f))
       /\ Mode(f) = "deferred" =>
            run'[f].deferred_bytes = run[f].deferred_bytes + (IF content.dir = 0 THEN 0 ELSE content.size)
  BY <1>4, <1>7, <1>8, <1>9, <1>10, RecordWritten
<1>12. Mode(f) = "deferred" => run'[f].deferred_bytes > Cap
  <2>1. Mode(f) = "deferred" => run[f].held.bytes + Size(masked) > Cap
    <3>1. run[f].held.bytes \in Nat
      BY <1>1 DEF Tasks, Holdings
    <3>2. Mode(f) = "deferred" => ~(run[f].held.bytes + Size(masked) <= Cap)
      BY <1>2, <1>7 DEF WithinCap
    <3> QED
      BY <1>1, <1>3, <3>1, <3>2
  <2>2. run[f].held.bytes <= run[f].deferred_bytes
    BY <1>1 DEF ScenarioInv
  <2>3. Mode(f) = "deferred" => run'[f].deferred_bytes = run[f].deferred_bytes + Size(masked)
    BY <1>3, <1>4, <1>11
  <2>4. run[f].held.bytes \in Nat /\ run[f].deferred_bytes \in Nat
    BY <1>1 DEF Tasks, Holdings
  <2> QED
    BY <1>1, <1>3, <2>1, <2>2, <2>3, <2>4
<1> QED
  BY <1>2, <1>6, <1>7, <1>11, <1>12 DEF WritesStep

LEMMA HoldRecords ==
  ASSUME EvidenceInv, NEW f \in plan.files, NEW shows \in SUBSET plan.values, HoldLong(f, shows)
  PROVE  Records(f)
<1>1. /\ f \in Files /\ TraceTypes /\ shows \in SUBSET Values /\ counter \in Nat /\ run[f] \in Tasks
  BY TraceAssumption DEF EvidenceInv, TraceTypes
<1>2. PICK dir, masked, content, file, list, bytes, held :
        /\ dir = counter + 1 /\ masked = Mask(shows, f) /\ content = Content(f, counter + 1, masked)
        /\ file = [dir |-> counter + 1, shows |-> masked] /\ list = Append(run[f].held.files, file)
        /\ bytes = run[f].held.bytes + Size(masked)
        /\ held = [run[f].held EXCEPT !.files = list, !.bytes = bytes]
  OBVIOUS
<1>3. masked \in SUBSET Values /\ Size(masked) \in Nat /\ dir \in Nat \ {0}
  BY <1>1, <1>2, MaskTyped
<1>4. /\ content \in Contents /\ content.dir = dir /\ content.size = Size(masked)
  BY <1>1, <1>2, <1>3, ContentTyped
<1>5. run[f].held \in Holdings /\ run[f].held.bytes \in Nat
  BY <1>1 DEF Tasks, Holdings
<1>6. /\ list \in Seq([dir : Nat, shows : SUBSET Values]) /\ bytes \in Nat
      /\ \E i \in DOMAIN list : list[i].dir = dir
  <2>1. file \in [dir : Nat, shows : SUBSET Values] /\ file.dir = dir
    BY <1>2, <1>3
  <2>2. run[f].held.files \in Seq([dir : Nat, shows : SUBSET Values])
    BY <1>5 DEF Holdings
  <2>3. list \in Seq([dir : Nat, shows : SUBSET Values])
    BY <1>2, <2>1, <2>2
  <2>4. PICK n : n = Len(run[f].held.files) + 1
    OBVIOUS
  <2>5. n \in DOMAIN list /\ list[n] = file
    BY <1>2, <2>1, <2>2, <2>4, SMTT(30)
  <2>6. bytes \in Nat
    BY <1>2, <1>3, <1>5, SMTT(30)
  <2> QED
    BY <2>1, <2>3, <2>5, <2>6
<1>7. held \in Holdings /\ held.events = Held(f) /\ held.files = list /\ held.bytes = bytes
  BY <1>2, <1>5, <1>6 DEF Holdings, Held
<1>8. Recording(f) /\ counter' = counter + 1 /\ artifacts' = artifacts
      /\ UNCHANGED <<plan, result, lost, interrupted>> /\ Mode(f) # "live"
  BY DEF HoldLong, WithinCap
<1>9. Record(f, "evidence", content, held)
  BY <1>2 DEF HoldLong
<1>10. held.bytes <= run[f].held.bytes + (IF content.dir = 0 THEN 0 ELSE content.size)
  BY <1>2, <1>3, <1>4, <1>5, <1>7
<1>11. \E i \in DOMAIN held.files : held.files[i].dir = content.dir
  BY <1>4, <1>6, <1>7
<1>12. Waiting(f)' = held.files /\ (WritesStep(f) => Records(f))
  BY <1>4, <1>7, <1>8, <1>9, <1>10, <1>11, RecordHeld
<1>13. Waiting(f)' = Append(Waiting(f), file) /\ file.dir = counter + 1
  BY <1>2, <1>7, <1>12 DEF Waiting
<1> QED
  BY <1>8, <1>12, <1>13 DEF WritesStep

LEMMA StartRecords ==
  ASSUME EvidenceInv, NEW f \in plan.files, NEW kind \in plan.kinds, NEW slots \in SUBSET {plan.values},
         StepStarts(f, kind, slots)
  PROVE  Records(f)
<1>1. /\ f \in Files /\ run \in [Files -> Tasks] /\ run[f] \in Tasks /\ PathOf[f] \in Paths
      /\ plan.values \subseteq Values /\ kind \in {"leaf", "macro", "include"} /\ TraceTypes /\ ScenarioInv(f)
  BY TraceAssumption DEF EvidenceInv, TraceTypes, FileInv
<1>2. PICK step, mode, shown, more, e, held, events, open, slotted, started, live, deferred :
        /\ step = run[f].steps + 1 /\ mode = Decide(f) /\ shown = {Mask(v, f) : v \in slots}
        /\ e = EventOf(f, "vars", [step |-> step, vars |-> shown])
        /\ events = (IF mode = "deferred" /\ slots # {} THEN Append(run[f].held.events, e) ELSE run[f].held.events)
        /\ held = [run[f].held EXCEPT !.events = events]
        /\ open = Append(run[f].open, [step |-> step, kind |-> kind, mode |-> mode, failed |-> FALSE])
        /\ slotted = (IF slots = {} THEN run[f].slotted ELSE run[f].slotted \cup {step})
        /\ started = run[f].started + 1
        /\ live = (IF mode = "live" THEN run[f].live + 1 ELSE run[f].live)
        /\ deferred = (IF mode = "deferred" THEN run[f].deferred + 1 ELSE run[f].deferred)
        /\ more = (IF mode = "live" THEN shown ELSE {})
  OBVIOUS
<1>3. PICK u : u = [run[f] EXCEPT !.steps = step, !.started = started, !.live = live, !.deferred = deferred,
                                  !.open = open, !.slotted = slotted, !.held = held]
  OBVIOUS
<1>4. /\ step \in Nat /\ started \in Nat /\ live \in Nat /\ deferred \in Nat /\ slotted \in SUBSET Nat
      /\ mode \in {"off", "live", "deferred"}
  <2>1. run[f].steps \in Nat /\ run[f].started \in Nat /\ run[f].live \in Nat /\ run[f].deferred \in Nat
    BY <1>1 DEF Tasks
  <2>2. run[f].slotted \in SUBSET Nat
    BY <1>1 DEF Tasks
  <2>3. Decide(f) \in {"off", "live", "deferred"}
    BY DEF Decide
  <2>4. mode \in {"off", "live", "deferred"} /\ step \in Nat /\ started \in Nat
    BY <1>2, <2>1, <2>3, SMTT(30)
  <2>5. live = run[f].live + 1 \/ live = run[f].live
    BY <1>2
  <2>6. deferred = run[f].deferred + 1 \/ deferred = run[f].deferred
    BY <1>2
  <2>7. live \in Nat /\ deferred \in Nat
    BY <2>1, <2>5, <2>6
  <2> QED
    BY <1>2, <2>2, <2>4, <2>7
<1>5. shown \in SUBSET SUBSET Values
  BY <1>1, <1>2, MaskTyped
<1>6. open \in Seq(Flights)
  BY <1>1, <1>2, <1>4 DEF Tasks, Flights
<1>7. e \in VarsEvents /\ e.type = "vars" /\ e.file = PathOf[f] /\ e.scenario = run[f].scenarios
  <2>1. e = [type |-> "vars", file |-> PathOf[f], scenario |-> run[f].scenarios, step |-> step, vars |-> shown]
    BY <1>2, EventVars
  <2> QED
    BY <1>1, <1>4, <1>5, <2>1 DEF VarsEvents, Tasks
<1>8. run[f].held \in Holdings /\ run[f].held.events \in Seq(VarsEvents \cup ContentEvents)
  BY <1>1 DEF Tasks, Holdings
<1>9. events \in Seq(VarsEvents \cup ContentEvents)
  BY <1>2, <1>7, <1>8
<1>10. held \in Holdings /\ held.events = events /\ held.files = run[f].held.files /\ held.bytes = run[f].held.bytes
  BY <1>2, <1>8, <1>9 DEF Holdings
<1>11. /\ u \in Tasks /\ u.held = held /\ u.deferred_bytes = run[f].deferred_bytes /\ u.secrets = run[f].secrets
       /\ u.at = run[f].at /\ u.scenarios = run[f].scenarios /\ u.done = run[f].done /\ u.flush = run[f].flush
  <2>1. run[f] \in Tasks
    BY <1>1
  <2>2. held \in Holdings
    BY <1>10
  <2>3. u \in Tasks
    BY ONLY <1>3, <1>4, <1>6, <2>1, <2>2 DEF Tasks
  <2>4. /\ u.held = held /\ u.deferred_bytes = run[f].deferred_bytes /\ u.secrets = run[f].secrets
        /\ u.at = run[f].at /\ u.scenarios = run[f].scenarios /\ u.done = run[f].done /\ u.flush = run[f].flush
    BY ONLY <1>3, <2>1 DEF Tasks
  <2> QED
    BY <2>3, <2>4
<1>12. run' = [run EXCEPT ![f] = u]
  <2>1. run' = [run EXCEPT ![f].steps = step, ![f].started = started, ![f].live = live, ![f].deferred = deferred,
                           ![f].open = open, ![f].slotted = slotted, ![f].held.events = events]
    BY <1>2 DEF StepStarts
  <2>2. run \in [Files -> Tasks] /\ run[f] \in Tasks /\ f \in Files
    BY <1>1
  <2>3. held = [run[f].held EXCEPT !.events = events]
    BY <1>2
  <2> QED
    BY ONLY <1>3, <2>1, <2>2, <2>3 DEF Tasks
<1>13. run'[f] = u
  BY <1>1, <1>12
<1>14. HoldsStep(f)
  <2>1. Held(f)' = events /\ Held(f) = run[f].held.events
    BY <1>10, <1>11, <1>13 DEF Held
  <2> QED
    BY <1>2, <1>7, <2>1 DEF HoldsStep
<1>15. WritesStep(f)
  BY <1>10, <1>11, <1>13 DEF WritesStep, StepStarts, Waiting
<1>16. TellsStep(f)
  <2>1. PICK o, up : up = Parent(f) /\ o = EventOf(f, "step_started", [parent |-> up, vars |-> more])
    OBVIOUS
  <2>2. o = [type |-> "step_started", file |-> PathOf[f], scenario |-> run[f].scenarios, parent |-> up, vars |-> more]
    BY <2>1, EventStart
  <2>3. SceneEvent(o) /\ Brings(o) = {} /\ o.file = PathOf[f] /\ o.scenario = run[f].scenarios
    BY <1>1, <1>2, <1>5, <2>2 DEF SceneEvent, SceneKinds, Brings, Tasks
  <2>4. report' = Fold(report, o)
    BY <1>2, <2>1 DEF StepStarts, Tell
  <2> QED
    BY <2>3, <2>4 DEF TellsStep
<1>17. /\ run[f].at = "scenario" /\ run[f].deferred_bytes \in Nat /\ run[f].held.bytes <= run[f].deferred_bytes
  BY <1>1 DEF StepStarts, InBody, ScenarioInv, Tasks
<1>18. run' = [run EXCEPT ![f] = run'[f]] /\ UNCHANGED <<plan, result, lost, interrupted>>
  BY <1>12, <1>13 DEF StepStarts
<1>19. run[f].deferred_bytes <= run'[f].deferred_bytes /\ run'[f].held.bytes <= run'[f].deferred_bytes
  BY <1>10, <1>11, <1>13, <1>17
<1> QED
  BY <1>1, <1>11, <1>13, <1>14, <1>15, <1>16, <1>17, <1>18, <1>19 DEF Records

-----------------------------------------------------------------------------
(***************************************************************************)
(* The other steps of a file, and of the run.                              *)
(***************************************************************************)
\* A file of the run that is at work.
LEMMA FileFacts ==
  ASSUME EvidenceInv, NEW f \in plan.files
  PROVE  /\ f \in Files /\ TraceTypes /\ run \in [Files -> Tasks] /\ run[f] \in Tasks /\ PathOf[f] \in Paths
         /\ ScenarioInv(f) /\ SecretsInv(f) /\ PassingInv(f) /\ FileInv(f) /\ CitesOf(f)
         /\ Held(f) \in Seq(VarsEvents \cup ContentEvents)
         /\ Waiting(f) \in Seq([dir : Nat, shows : SUBSET Values])
BY TraceAssumption DEF EvidenceInv, TraceTypes, FileInv, RefersInv, Held, Waiting, Tasks, Holdings

\* What remains to be shown of a step of one file.
LEMMA FileStep ==
  ASSUME EvidenceInv, NEW f \in plan.files, NEW u \in Tasks, run' = [run EXCEPT ![f] = u],
         artifacts \subseteq artifacts', \A d \in artifacts' : d \in artifacts \/ d.file = f,
         result' = [result EXCEPT ![f] = result'[f]],
         result' \in [Files -> [panicked : BOOLEAN, scenarios : Seq(Outcomes)]],
         artifacts' \subseteq Artifacts, report' \in Reports, UNCHANGED <<plan, counter, interrupted>>,
         lost \subseteq lost', (FileInv(f))', (CitesOf(f))', PageInv', DirsInv',
         \A c \in Cited(report') : c \in Cited(report) \/ (Kept(c.dir))'
  PROVE  EvidenceInv'
<1>1. f \in Files /\ run \in [Files -> Tasks] /\ TraceTypes
  BY FileFacts
<1>2. run'[f] = u /\ Only(f)
  BY <1>1 DEF Only
<1>3. TraceTypes'
  BY <1>1 DEF TraceTypes
<1>4. RefersInv'
  BY <1>1, <1>2, RefersKeep
<1>5. \A g \in Files : (FileInv(g))'
  BY <1>1, <1>2, OthersKeep DEF EvidenceInv
<1> QED
  BY <1>3, <1>4, <1>5 DEF EvidenceInv

LEMMA ClosesKeep ==
  ASSUME EvidenceInv, NEW f \in plan.files, ScenarioCloses(f)
  PROVE  EvidenceInv'
<1>1. /\ f \in Files /\ TraceTypes /\ run \in [Files -> Tasks] /\ run[f] \in Tasks
      /\ ScenarioInv(f) /\ SecretsInv(f) /\ PassingInv(f) /\ CitesOf(f)
  BY FileFacts
<1>2. PICK flush, held, u :
        /\ flush = Flushes(f) /\ held = (IF flush THEN run[f].held ELSE NoHeld)
        /\ u = [run[f] EXCEPT !.at = "closing", !.flush = flush, !.stopped = interrupted, !.held = held]
  OBVIOUS
<1>3. /\ flush \in BOOLEAN /\ (flush => run[f].failed /\ ~interrupted)
      /\ interrupted \in BOOLEAN /\ held \in Holdings /\ (held = run[f].held \/ held = NoHeld)
  <2>1. interrupted \in BOOLEAN /\ run[f].held \in Holdings /\ NoHeld \in Holdings
    BY <1>1 DEF TraceTypes, Tasks, NoHeld, Holdings
  <2>2. flush = (run[f].failed /\ ~interrupted)
    BY <1>2 DEF Flushes
  <2>3. held = run[f].held \/ held = NoHeld
    BY <1>2
  <2> QED
    BY <2>1, <2>2, <2>3
<1>4. u \in Tasks
  <2>1. run[f] \in Tasks /\ u = [run[f] EXCEPT !.at = "closing", !.flush = flush, !.stopped = interrupted, !.held = held]
    BY <1>1, <1>2
  <2> QED
    BY ONLY <1>3, <2>1 DEF Tasks
<1>5. /\ u.at = "closing" /\ u.flush = flush /\ u.stopped = interrupted /\ u.held = held /\ u.failed = run[f].failed
      /\ u.deferred_bytes = run[f].deferred_bytes /\ u.secrets = run[f].secrets
      /\ u.scenarios = run[f].scenarios /\ u.done = run[f].done
  BY <1>1, <1>2 DEF Tasks
<1>6. /\ run' = [run EXCEPT ![f] = u] /\ run[f].at = "scenario"
      /\ UNCHANGED <<plan, result, counter, artifacts, lost, report, interrupted>>
  BY <1>1, <1>2 DEF ScenarioCloses
<1>7. run'[f] = u /\ Only(f)
  BY <1>1, <1>6 DEF Only, TraceTypes
<1>8. \/ Held(f)' = Held(f) /\ Waiting(f)' = Waiting(f)
      \/ Held(f)' = <<>> /\ Waiting(f)' = <<>>
  BY <1>3, <1>5, <1>7 DEF Held, Waiting, NoHeld
<1>9. (CitesOf(f))'
  BY <1>1, <1>6, <1>8, KeptGrows DEF CitesOf, Awaited
<1>10. DirsInv'
  BY <1>1, <1>6, <1>7, <1>8, DirsSame
<1>11. run[f].scenarios > 0 /\ run[f].deferred_bytes \in Nat /\ run[f].held.bytes <= run[f].deferred_bytes
  BY <1>1, <1>6 DEF ScenarioInv, Tasks
<1>12. Latest(f)' = Latest(f)
  BY <1>5, <1>6, <1>7 DEF Latest
<1>13. (ScenarioInv(f))'
  <2>1. held.bytes <= run[f].deferred_bytes
    BY <1>3, <1>11 DEF NoHeld
  <2>2. ~flush => held = NoHeld
    BY <1>2
  <2>3. \A d \in Latest(f) : d.mode = "deferred" => run[f].deferred_bytes > Cap
    BY <1>1, <1>6 DEF ScenarioInv
  <2> QED
    BY <1>1, <1>3, <1>5, <1>6, <1>7, <1>11, <1>12, <2>1, <2>2, <2>3 DEF ScenarioInv
<1>14. (SecretsInv(f))'
  BY <1>1, <1>5, <1>6, <1>7, <1>8, <1>12 DEF SecretsInv
<1>15. (PassingInv(f))'
  BY <1>1, <1>5, <1>6, <1>7 DEF PassingInv, Told
<1>16. (FileInv(f))'
  BY <1>13, <1>14, <1>15 DEF FileInv
<1>17. OnlyPage(f) /\ (Distinct => (OwnPage(f))')
  <2>1. InProgress(f) /\ run'[f].scenarios = run[f].scenarios
    BY <1>5, <1>6, <1>7 DEF InProgress
  <2> QED
    BY <1>6, <2>1, SilentPage
<1>18. PageInv'
  BY <1>1, <1>6, <1>7, <1>17, PageKeeps
<1>19. /\ result' \in [Files -> [panicked : BOOLEAN, scenarios : Seq(Outcomes)]] /\ artifacts' \subseteq Artifacts
       /\ report' \in Reports /\ result' = [result EXCEPT ![f] = result'[f]]
  BY <1>1, <1>6 DEF TraceTypes
<1> QED
  BY <1>4, <1>6, <1>9, <1>10, <1>16, <1>18, <1>19, FileStep

LEMMA ScenarioKeep ==
  ASSUME EvidenceInv, NEW f \in plan.files, ScenarioStarts(f)
  PROVE  EvidenceInv'
<1>1. /\ f \in Files /\ TraceTypes /\ run \in [Files -> Tasks] /\ run[f] \in Tasks /\ PathOf[f] \in Paths
      /\ ScenarioInv(f) /\ SecretsInv(f) /\ PassingInv(f) /\ CitesOf(f)
  BY FileFacts
<1>2. PICK tagged \in BOOLEAN, resetFailed \in BOOLEAN :
        run' = [run EXCEPT ![f] =
                  [Idle EXCEPT !.at = "scenario", !.secrets = Idle.secrets \cup run[f].secrets,
                     !.done = run[f].done, !.effects = run[f].effects, !.scenarios = run[f].scenarios + 1,
                     !.tagged = tagged, !.failed = resetFailed]]
  BY DEF ScenarioStarts
<1>3. PICK n, set, u :
        /\ n = run[f].scenarios + 1 /\ set = Idle.secrets \cup run[f].secrets
        /\ u = [Idle EXCEPT !.at = "scenario", !.secrets = set, !.done = run[f].done,
                            !.effects = run[f].effects, !.scenarios = n, !.tagged = tagged, !.failed = resetFailed]
  OBVIOUS
<1>4. Idle \in Tasks /\ Idle.held = NoHeld /\ ~Idle.flush /\ Idle.deferred_bytes = 0 /\ Idle.secrets = {}
  <2>1. NoHeld \in Holdings
    BY DEF NoHeld, Holdings
  <2> QED
    BY <2>1 DEF Idle, Tasks
<1>5. set = run[f].secrets /\ n \in Nat /\ run[f].scenarios \in Nat
  <2>1. run[f].scenarios \in Nat
    BY <1>1 DEF Tasks
  <2>2. PICK old : old = run[f].secrets
    OBVIOUS
  <2>3. set = {} \cup old
    BY <1>3, <1>4, <2>2
  <2> QED
    BY <1>3, <2>1, <2>2, <2>3
<1>6. run' = [run EXCEPT ![f] = u]
  BY <1>2, <1>3
<1>7. /\ u \in Tasks /\ u.at = "scenario" /\ u.held = NoHeld /\ u.deferred_bytes = 0 /\ ~u.flush
      /\ u.scenarios = n /\ u.done = run[f].done /\ u.secrets = run[f].secrets
  <2>1. /\ run[f].done \in Seq(Outcomes) /\ run[f].effects \in Nat /\ run[f].secrets \in SUBSET Values
    BY <1>1 DEF Tasks
  <2>2. tagged \in BOOLEAN /\ resetFailed \in BOOLEAN
    BY <1>2
  <2>3. /\ u = [Idle EXCEPT !.at = "scenario", !.secrets = set, !.done = run[f].done,
                            !.effects = run[f].effects, !.scenarios = n, !.tagged = tagged, !.failed = resetFailed]
        /\ set \in SUBSET Values /\ n \in Nat /\ Idle \in Tasks
    BY <1>3, <1>4, <1>5, <2>1
  <2>4. u \in Tasks
    BY ONLY <2>1, <2>2, <2>3, ZenonT(30) DEF Tasks
  <2>5. /\ u.at = "scenario" /\ u.held = Idle.held /\ u.deferred_bytes = Idle.deferred_bytes /\ u.flush = Idle.flush
        /\ u.scenarios = n /\ u.done = run[f].done /\ u.secrets = set
    BY ONLY <1>3, <1>4 DEF Tasks
  <2> QED
    BY <1>4, <1>5, <2>4, <2>5
<1>8. /\ run[f].at = "between" /\ UNCHANGED <<plan, result, counter, artifacts, lost, interrupted>>
      /\ report' = Fold(report, EventOf(f, "scenario_started", <<>>))
  BY DEF ScenarioStarts, Tell
<1>9. run'[f] = u /\ Only(f)
  BY <1>1, <1>6, <1>8 DEF Only, TraceTypes
<1>10. Held(f)' = <<>> /\ Waiting(f)' = <<>>
  BY <1>7, <1>9 DEF Held, Waiting, NoHeld
<1>11. (CitesOf(f))' /\ DirsInv'
  BY <1>1, <1>8, <1>9, <1>10, DirsSame DEF CitesOf
<1>12. (Latest(f))' = {}
  <2>1. \A d \in artifacts : d.file = f => d.scenario <= run[f].scenarios
    BY <1>1, <1>8 DEF ScenarioInv
  <2>2. \A d \in artifacts : d.scenario \in Nat
    BY <1>1 DEF TraceTypes, Artifacts
  <2> QED
    <3>1. \A d \in artifacts : d.file = f => d.scenario # n
      BY <1>3, <1>5, <2>1, <2>2
    <3>2. (Latest(f))' = {d \in artifacts : d.file = f /\ d.scenario = n}
      BY <1>7, <1>8, <1>9 DEF Latest
    <3> QED
      BY <3>1, <3>2
<1>13. (ScenarioInv(f))'
  <2>1. Len(run[f].done) = run[f].scenarios
    BY <1>1, <1>8 DEF ScenarioInv
  <2>2. \A d \in artifacts : d.file = f => d.scenario <= n
    <3>1. \A d \in artifacts : d.scenario \in Nat
      BY <1>1 DEF TraceTypes, Artifacts
    <3>2. \A d \in artifacts : d.file = f => d.scenario <= run[f].scenarios
      BY <1>1, <1>8 DEF ScenarioInv
    <3> QED
      BY <1>3, <1>5, <3>1, <3>2
  <2>3. NoHeld.bytes = 0
    BY DEF NoHeld
  <2> QED
    BY <1>3, <1>5, <1>7, <1>8, <1>9, <1>12, <2>1, <2>2, <2>3 DEF ScenarioInv
<1>14. (SecretsInv(f))'
  BY <1>7, <1>9, <1>10, <1>12 DEF SecretsInv
<1>15. (PassingInv(f))'
  BY <1>1, <1>7, <1>8, <1>9 DEF PassingInv, Told
<1>16. (FileInv(f))'
  BY <1>13, <1>14, <1>15 DEF FileInv
<1>17. report.incomplete /\ report \in Reports /\ InProgress(f)
  BY <1>1, <1>8, StreamOpen DEF InProgress, TraceTypes
<1>18. PICK e : e = [type |-> "scenario_started", file |-> PathOf[f], scenario |-> run[f].scenarios]
  OBVIOUS
<1>19. report' = Fold(report, e) /\ e.type = "scenario_started" /\ e.file = PathOf[f]
  BY <1>8, <1>18, EventPlace
<1>20. CASE report.index[PathOf[f]] = 0
  <2>1. report' = report
    BY <1>17, <1>19, <1>20 DEF Fold, Apply, ScenarioStarted, InFile, FileOf
  <2>2. OnlyPage(f) /\ ~Distinct
    BY <1>1, <1>17, <1>20, <2>1 DEF OnlyPage, EvidenceInv, PageInv, OwnPage
  <2>3. PageInv'
    BY <1>1, <1>8, <1>9, <2>2, PageKeeps
  <2> QED
    BY <1>1, <1>6, <1>7, <1>8, <1>11, <1>16, <1>17, <2>1, <2>3, FileStep DEF TraceTypes
<1>21. CASE report.index[PathOf[f]] # 0
  <2>1. PICK i : i = report.index[PathOf[f]]
    OBVIOUS
  <2>2. Opened(report, report', i)
    BY <1>1, <1>17, <1>19, <1>21, <2>1, FoldsScenario
  <2>3. OnlyPage(f)
    BY <2>1, <2>2 DEF Opened, OnlyPage
  <2>4. ASSUME Distinct PROVE (OwnPage(f))'
    <3>1. OwnPage(f)
      BY <1>1, <1>17, <2>4 DEF EvidenceInv, PageInv
    <3>2. /\ InReport(f) = report.files[i] /\ InReport(f)' = report'.files[i] /\ report'.index[PathOf[f]] = i
      BY <2>1, <2>2 DEF InReport, Opened
    <3>3. Len(report.files[i].scenarios) = run[f].scenarios
      BY <3>1, <3>2 DEF OwnPage
    <3>4. Len(report'.files[i].scenarios) = n /\ AllEvidence(report'.files[i].scenarios[n]) = {}
      BY <1>3, <2>2, <3>3 DEF Opened
    <3> QED
      BY <1>7, <1>9, <1>21, <2>1, <3>2, <3>4 DEF OwnPage
  <2>5. PageInv'
    BY <1>1, <1>8, <1>9, <2>3, <2>4, PageKeeps
  <2>6. \A c \in Cited(report') : c \in Cited(report)
    BY <2>2 DEF Opened
  <2>7. report' \in Reports
    BY <2>2 DEF Opened
  <2> QED
    BY <1>1, <1>6, <1>7, <1>8, <1>11, <1>16, <2>5, <2>6, <2>7, FileStep DEF TraceTypes
<1> QED
  BY <1>20, <1>21

LEMMA StartsKeep ==
  ASSUME EvidenceInv, NEW f \in plan.files, FileStarts(f)
  PROVE  EvidenceInv'
<1>1. /\ f \in Files /\ TraceTypes /\ run \in [Files -> Tasks] /\ run[f] \in Tasks /\ PathOf[f] \in Paths
      /\ ScenarioInv(f) /\ SecretsInv(f) /\ PassingInv(f) /\ CitesOf(f)
  BY FileFacts
<1>2. PICK u : u = [run[f] EXCEPT !.at = "between"]
  OBVIOUS
<1>3. /\ u \in Tasks /\ u.at = "between" /\ u.held = run[f].held /\ u.deferred_bytes = run[f].deferred_bytes
      /\ u.flush = run[f].flush /\ u.scenarios = run[f].scenarios /\ u.done = run[f].done /\ u.secrets = run[f].secrets
  BY <1>1, <1>2 DEF Tasks
<1>4. /\ run' = [run EXCEPT ![f] = u] /\ run[f].at = "idle" /\ ~interrupted
      /\ UNCHANGED <<plan, result, counter, artifacts, lost, interrupted>>
      /\ report' = Fold(report, [type |-> "file_started", file |-> PathOf[f]])
  BY <1>1, <1>2 DEF FileStarts, Tell
<1>5. run'[f] = u /\ Only(f)
  BY <1>1, <1>4 DEF Only, TraceTypes
<1>6. Held(f)' = Held(f) /\ Waiting(f)' = Waiting(f)
  BY <1>3, <1>5 DEF Held, Waiting
<1>7. (CitesOf(f))' /\ DirsInv'
  BY <1>1, <1>4, <1>5, <1>6, DirsSame, KeptGrows DEF CitesOf, Awaited
<1>8. run[f].scenarios = 0 /\ \A d \in artifacts : d.file # f
  BY <1>1, <1>4 DEF ScenarioInv
<1>9. (Latest(f))' = {}
  BY <1>4, <1>8 DEF Latest
<1>10. (ScenarioInv(f))'
  BY <1>1, <1>3, <1>4, <1>5, <1>8, <1>9 DEF ScenarioInv
<1>11. (SecretsInv(f))'
  BY <1>1, <1>3, <1>5, <1>6, <1>9 DEF SecretsInv
<1>12. (PassingInv(f))'
  BY <1>1, <1>3, <1>4, <1>5 DEF PassingInv, Told
<1>13. (FileInv(f))'
  BY <1>10, <1>11, <1>12 DEF FileInv
<1>14. report.incomplete /\ report \in Reports /\ report \in Trees
  BY <1>1, <1>4, StreamOpen DEF TraceTypes, Reports
<1>15. PICK n, q : n = Len(report.files) /\ q = report'
  OBVIOUS
<1>16. /\ q \in Reports /\ q.incomplete /\ Len(q.files) = n + 1 /\ q.index = [report.index EXCEPT ![PathOf[f]] = n + 1]
       /\ \A i \in DOMAIN report.files : q.files[i] = report.files[i]
       /\ q.files[Len(q.files)] = NewFile /\ Cited(q) \subseteq Cited(report)
  BY <1>1, <1>4, <1>14, <1>15, FoldsStart
<1>17. n \in Nat /\ \A p \in Paths : report.index[p] \in Nat /\ report.index[p] <= n
  BY <1>14, <1>15 DEF Reports, Trees
<1>18. q.index[PathOf[f]] = n + 1 /\ \A p \in Paths : p # PathOf[f] => q.index[p] = report.index[p]
  BY <1>1, <1>14, <1>16 DEF Trees
<1>19. PageInv'
  <2>1. \A p, o \in Paths : q.index[p] # 0 /\ q.index[p] = q.index[o] => p = o
    <3>1. \A p, o \in Paths : report.index[p] # 0 /\ report.index[p] = report.index[o] => p = o
      BY DEF EvidenceInv, PageInv
    <3> QED
      BY <1>17, <1>18, <3>1
  <2>2. \A g \in Files : g # f => run'[g] = run[g]
    BY <1>1, <1>4
  <2>3. \A g \in Files \ plan'.files : run'[g].at = "idle"
    BY <1>4, <2>2 DEF EvidenceInv, PageInv
  <2>4. ASSUME Distinct, NEW g \in Files, InProgress(g)' PROVE (OwnPage(g))'
    <3>1. CASE g = f
      <4>1. InReport(f)' = NewFile /\ Len(NewFile.scenarios) = 0
        BY <1>15, <1>16, <1>18 DEF InReport, NewFile
      <4>2. report'.index[PathOf[f]] # 0 /\ run'[f].scenarios = 0
        BY <1>3, <1>5, <1>8, <1>15, <1>17, <1>18
      <4> QED
        BY <3>1, <4>1, <4>2 DEF OwnPage
    <3>2. CASE g # f
      <4>1. run'[g] = run[g] /\ OwnPage(g) /\ PathOf[f] # PathOf[g] /\ PathOf[g] \in Paths
        BY <1>1, <2>2, <2>4, <3>2, TraceAssumption DEF Distinct, InProgress, EvidenceInv, PageInv
      <4>2. report.index[PathOf[g]] \in DOMAIN report.files
        BY <1>14, <4>1, PageIn DEF OwnPage
      <4>3. InReport(g)' = InReport(g) /\ report'.index[PathOf[g]] = report.index[PathOf[g]]
        BY <1>15, <1>16, <1>18, <4>1, <4>2 DEF InReport
      <4> QED
        BY <4>1, <4>3 DEF OwnPage
    <3> QED
      BY <3>1, <3>2
  <2>5. Distinct' <=> Distinct
    BY DEF Distinct
  <2> QED
    BY <1>15, <1>16, <2>1, <2>3, <2>4, <2>5 DEF PageInv
<1> QED
  BY <1>1, <1>3, <1>4, <1>7, <1>13, <1>15, <1>16, <1>19, FileStep DEF TraceTypes

LEMMA DirsTake ==
  ASSUME EvidenceInv, NEW f \in Files, Only(f), counter' = counter, Waiting(f) # <<>>,
         Waiting(f)' = Tail(Waiting(f)),
         artifacts' = artifacts \/
           \E d \in Artifacts : d.dir = Head(Waiting(f)).dir /\ artifacts' = artifacts \cup {d}
  PROVE  DirsInv'
<1>1. \A g \in Files : g # f => Waiting(g)' = Waiting(g)
  BY OthersKeep DEF EvidenceInv
<1>2. Waiting(f) \in Seq([dir : Nat, shows : SUBSET Values])
  BY DEF Waiting, EvidenceInv, TraceTypes, Tasks, Holdings
<1>3. PICK top : top = Waiting(f)[1].dir
  OBVIOUS
<1>4. /\ 1 \in DOMAIN Waiting(f) /\ Head(Waiting(f)) = Waiting(f)[1]
      /\ \A i \in DOMAIN Waiting(f)' : i + 1 \in DOMAIN Waiting(f) /\ i + 1 # 1 /\ Waiting(f)'[i] = Waiting(f)[i + 1]
  BY <1>2
<1>5. DirsInv
  BY DEF EvidenceInv
<1>6. top \in 1..counter /\ top \notin OnDisk
  BY <1>3, <1>4, <1>5 DEF DirsInv
<1>7. \A d \in artifacts' : d \in artifacts \/ (d.dir = top /\ \A e \in artifacts' : e \in artifacts \/ e = d)
  BY <1>3, <1>4
<1>8. /\ \A d \in artifacts' : d.dir \in 1..counter'
      /\ \A d, e \in artifacts' : d.dir = e.dir => d = e
  <2>1. \A d \in artifacts : d.dir \in 1..counter /\ d.dir # top
    BY <1>5, <1>6 DEF DirsInv, OnDisk
  <2>2. \A d, e \in artifacts : d.dir = e.dir => d = e
    BY <1>5 DEF DirsInv
  <2> QED
    BY <1>6, <1>7, <2>1, <2>2
<1>9. \A dir \in OnDisk' : dir \in OnDisk \/ dir = top
  BY <1>7 DEF OnDisk
<1>10. ASSUME NEW g \in Files, NEW i \in DOMAIN Waiting(g)'
       PROVE  \E k \in DOMAIN Waiting(g) : /\ Waiting(g)'[i] = Waiting(g)[k] /\ (g = f => k # 1)
                                           /\ k = IF g = f THEN i + 1 ELSE i
  <2>1. CASE g = f
    BY <1>4, <1>10, <2>1
  <2>2. CASE g # f
    BY <1>1, <1>10, <2>2
  <2> QED
    BY <2>1, <2>2
<1>11. ASSUME NEW g \in Files, NEW i \in DOMAIN Waiting(g)'
       PROVE  Waiting(g)'[i].dir \in 1..counter' /\ Waiting(g)'[i].dir \notin OnDisk'
  <2>1. PICK k \in DOMAIN Waiting(g) : Waiting(g)'[i] = Waiting(g)[k] /\ (g = f => k # 1)
    BY <1>10, <1>11
  <2>2. Waiting(g)[k].dir \in 1..counter /\ Waiting(g)[k].dir \notin OnDisk
    BY <1>5 DEF DirsInv
  <2>3. Waiting(g)[k].dir = Waiting(f)[1].dir => g = f /\ k = 1
    BY <1>4, <1>5 DEF DirsInv
  <2>4. Waiting(g)[k].dir # top
    BY <1>3, <2>1, <2>3
  <2> QED
    BY <1>9, <2>1, <2>2, <2>4
<1>12. ASSUME NEW g \in Files, NEW h \in Files, NEW i \in DOMAIN Waiting(g)', NEW j \in DOMAIN Waiting(h)',
              Waiting(g)'[i].dir = Waiting(h)'[j].dir
       PROVE  g = h /\ i = j
  <2>1. PICK k \in DOMAIN Waiting(g) : Waiting(g)'[i] = Waiting(g)[k] /\ k = IF g = f THEN i + 1 ELSE i
    BY <1>10
  <2>2. PICK m \in DOMAIN Waiting(h) : Waiting(h)'[j] = Waiting(h)[m] /\ m = IF h = f THEN j + 1 ELSE j
    BY <1>10
  <2>3. g = h /\ k = m
    BY <1>5, <1>12, <2>1, <2>2 DEF DirsInv
  <2>4. i \in Nat /\ j \in Nat
    <3>1. \A o \in Files : DOMAIN Waiting(o)' \subseteq Nat
      <4>1. \A o \in Files : Waiting(o) \in Seq([dir : Nat, shows : SUBSET Values])
        BY DEF Waiting, EvidenceInv, TraceTypes, Tasks, Holdings
      <4>2. Tail(Waiting(f)) \in Seq([dir : Nat, shows : SUBSET Values])
        BY <1>2
      <4>3. \A o \in Files : Waiting(o)' \in Seq([dir : Nat, shows : SUBSET Values])
        BY <1>1, <4>1, <4>2
      <4> QED
        BY <4>3, SMTT(30)
    <3> QED
      BY <1>12, <3>1
  <2> QED
    BY <2>1, <2>2, <2>3, <2>4
<1> QED
  BY <1>8, <1>11, <1>12 DEF DirsInv

LEMMA WriteKeeps ==
  ASSUME EvidenceInv, NEW f \in plan.files, WriteHeld(f)
  PROVE  EvidenceInv'
<1>1. /\ f \in Files /\ TraceTypes /\ run \in [Files -> Tasks] /\ run[f] \in Tasks /\ run[f].held \in Holdings
      /\ ScenarioInv(f) /\ SecretsInv(f) /\ PassingInv(f) /\ CitesOf(f) /\ run[f].scenarios \in Nat
      /\ Waiting(f) \in Seq([dir : Nat, shows : SUBSET Values])
  <2>1. run[f] \in Tasks
    BY FileFacts
  <2>2. run[f].held \in Holdings /\ run[f].scenarios \in Nat
    BY <2>1 DEF Tasks
  <2> QED
    BY <2>1, <2>2, FileFacts
<1>2. /\ run[f].at = "closing" /\ Waiting(f) # <<>>
      /\ UNCHANGED <<plan, result, counter, report, interrupted>>
  BY DEF WriteHeld, Waiting
<1>3. PICK file, rest, held, u, d :
        /\ file = Head(Waiting(f)) /\ rest = Tail(Waiting(f)) /\ held = [run[f].held EXCEPT !.files = rest]
        /\ u = [run[f] EXCEPT !.held = held]
        /\ d = [Stored(f, file.dir, Mask(file.shows, f), TRUE) EXCEPT !.mode = "deferred"]
  OBVIOUS
<1>4. /\ file \in [dir : Nat, shows : SUBSET Values] /\ rest \in Seq([dir : Nat, shows : SUBSET Values])
      /\ 1 \in DOMAIN Waiting(f) /\ file = Waiting(f)[1]
      /\ \A i \in DOMAIN Waiting(f) : i = 1 \/ (i - 1 \in DOMAIN rest /\ rest[i - 1] = Waiting(f)[i])
  <2>1. PICK w : w = Waiting(f)
    OBVIOUS
  <2>2. w \in Seq([dir : Nat, shows : SUBSET Values]) /\ w # <<>>
    BY <1>1, <1>2, <2>1
  <2>3. file = Head(w) /\ rest = Tail(w)
    BY <1>3, <2>1
  <2>4. w \in Seq([dir : Nat, shows : SUBSET Values]) /\ w # <<>> /\ file = Head(w) /\ rest = Tail(w)
    BY <2>2, <2>3
  <2>5. file \in [dir : Nat, shows : SUBSET Values] /\ rest \in Seq([dir : Nat, shows : SUBSET Values])
    <3>1. PICK S : S = [dir : Nat, shows : SUBSET Values]
      OBVIOUS
    <3>2. w \in Seq(S) /\ w # <<>> /\ file = Head(w) /\ rest = Tail(w)
      BY <2>4, <3>1
    <3>3. file \in S /\ rest \in Seq(S)
      BY ONLY <3>2
    <3> QED
      BY <3>1, <3>3
  <2>6. 1 \in DOMAIN w /\ file = w[1]
    BY ONLY <2>4
  <2>7. \A i \in DOMAIN w : i = 1 \/ (i - 1 \in DOMAIN rest /\ rest[i - 1] = w[i])
    BY ONLY <2>4
  <2> QED
    BY <2>1, <2>5, <2>6, <2>7
<1>5. run' = [run EXCEPT ![f] = u]
  BY <1>1, <1>3 DEF WriteHeld, Waiting
<1>6. /\ held \in Holdings /\ held.files = rest /\ held.events = run[f].held.events /\ held.bytes = run[f].held.bytes
  BY <1>1, <1>3, <1>4 DEF Holdings
<1>7. /\ u \in Tasks /\ u.at = "closing" /\ u.held = held /\ u.deferred_bytes = run[f].deferred_bytes
      /\ u.flush = run[f].flush /\ u.scenarios = run[f].scenarios /\ u.done = run[f].done
      /\ u.secrets = run[f].secrets /\ u.failed = run[f].failed /\ u.stopped = run[f].stopped
  BY <1>1, <1>2, <1>3, <1>6 DEF Tasks
<1>8. run'[f] = u
  BY <1>1, <1>5
<1>9. Held(f)' = Held(f) /\ Waiting(f)' = rest
  BY <1>6, <1>7, <1>8 DEF Held, Waiting
<1>10. /\ d \in Artifacts /\ d.dir = file.dir /\ d.file = f /\ d.scenario = run[f].scenarios
       /\ d.mode = "deferred" /\ d.held /\ d.shows \cap run[f].secrets = {}
  <2>1. Mask(file.shows, f) \in SUBSET Values /\ Mask(file.shows, f) \cap run[f].secrets = {}
    BY <1>1, <1>4, MaskTyped
  <2> QED
    BY <1>1, <1>3, <1>4, <2>1 DEF Stored, Artifacts
<1>11. \/ artifacts' = artifacts \cup {d} /\ lost' = lost
       \/ artifacts' = artifacts /\ lost' = lost \cup {file.dir}
  BY <1>3 DEF WriteHeld, Waiting
<1>12. /\ artifacts \subseteq artifacts' /\ lost \subseteq lost' /\ \A o \in artifacts' : o \in artifacts \/ o = d
       /\ artifacts' \subseteq Artifacts
  BY <1>1, <1>10, <1>11 DEF TraceTypes
<1>13. Only(f)
  BY <1>1, <1>2, <1>5, <1>8, <1>10, <1>12 DEF Only, TraceTypes
<1>14. DirsInv'
  BY <1>1, <1>2, <1>3, <1>9, <1>10, <1>11, <1>13, DirsTake
<1>15. (CitesOf(f))'
  <2>1. (Kept(file.dir))'
    BY <1>10, <1>11 DEF Kept, OnDisk
  <2>2. ASSUME NEW i \in DOMAIN Held(f), Held(f)[i].type # "vars", NEW dir, dir = Held(f)[i].content.dir
        PROVE  (Kept(dir))' \/ dir \in (Awaited(f))'
    <3>1. CASE Kept(dir)
      BY <1>12, <3>1, KeptGrows
    <3>2. CASE dir \in Awaited(f)
      <4>1. PICK k \in DOMAIN Waiting(f) : dir = Waiting(f)[k].dir
        BY <3>2 DEF Awaited
      <4>2. CASE k = 1
        BY <1>4, <2>1, <4>1, <4>2
      <4>3. CASE k # 1
        BY <1>4, <1>9, <4>1, <4>3 DEF Awaited
      <4> QED
        BY <4>2, <4>3
    <3> QED
      BY <1>1, <2>2, <3>1, <3>2 DEF CitesOf
  <2> QED
    BY <1>9, <2>2 DEF CitesOf
<1>16. run[f].flush
  BY <1>1, <1>2 DEF ScenarioInv, Waiting, NoHeld
<1>17. /\ Len(run[f].done) + 1 = run[f].scenarios /\ run[f].held.bytes <= run[f].deferred_bytes
       /\ run[f].failed /\ ~run[f].stopped /\ run[f].scenarios > 0
  BY <1>1, <1>2, <1>16 DEF ScenarioInv
<1>18. (ScenarioInv(f))'
  <2>1. \A o \in artifacts' : o.file = f => o.scenario <= run[f].scenarios
    BY <1>1, <1>2, <1>10, <1>12 DEF ScenarioInv
  <2> QED
    BY <1>6, <1>7, <1>8, <1>16, <1>17, <2>1 DEF ScenarioInv
<1>19. (SecretsInv(f))'
  <2>1. \A o \in (Latest(f))' : o.held => o.shows \cap run[f].secrets = {}
    <3>1. \A o \in (Latest(f))' : o \in Latest(f) \/ o = d
      BY <1>7, <1>8, <1>12 DEF Latest
    <3> QED
      BY <1>1, <1>2, <1>10, <3>1 DEF SecretsInv
  <2> QED
    BY <1>1, <1>7, <1>8, <1>9, <2>1 DEF SecretsInv
<1>20. (PassingInv(f))'
  <2>1. Told(f)' = run[f].done /\ Told(f) = run[f].done /\ result'[f] = result[f]
    BY <1>2, <1>7, <1>8 DEF Told
  <2>2. run[f].done \in Seq(Outcomes)
    BY <1>1 DEF Tasks
  <2>3. \A k \in DOMAIN run[f].done : k # run[f].scenarios
    BY <1>17, <2>2
  <2> QED
    BY <1>1, <1>2, <1>10, <1>12, <2>1, <2>3 DEF PassingInv
<1>21. OnlyPage(f) /\ (Distinct => (OwnPage(f))')
  <2>1. InProgress(f) /\ run'[f].scenarios = run[f].scenarios
    BY <1>2, <1>7, <1>8 DEF InProgress
  <2> QED
    BY <1>2, <1>7, <1>8, <2>1, SilentPage
<1>22. PageInv'
  BY <1>1, <1>2, <1>13, <1>21, PageKeeps
<1>23. /\ result' \in [Files -> [panicked : BOOLEAN, scenarios : Seq(Outcomes)]] /\ report' \in Reports
       /\ result' = [result EXCEPT ![f] = result'[f]] /\ (FileInv(f))'
  BY <1>1, <1>2, <1>18, <1>19, <1>20 DEF TraceTypes, FileInv
<1> QED
  BY <1>2, <1>5, <1>7, <1>10, <1>12, <1>14, <1>15, <1>22, <1>23, FileStep

LEMMA EmitKeeps ==
  ASSUME EvidenceInv, NEW f \in plan.files, EmitHeld(f)
  PROVE  EvidenceInv'
<1>1. /\ f \in Files /\ TraceTypes /\ run \in [Files -> Tasks] /\ run[f] \in Tasks /\ run[f].held \in Holdings
      /\ ScenarioInv(f) /\ SecretsInv(f) /\ PassingInv(f) /\ CitesOf(f) /\ PathOf[f] \in Paths
      /\ Held(f) \in Seq(VarsEvents \cup ContentEvents) /\ run[f].scenarios \in Nat
  <2>1. run[f] \in Tasks
    BY FileFacts
  <2>2. run[f].held \in Holdings /\ run[f].scenarios \in Nat
    BY <2>1 DEF Tasks
  <2> QED
    BY <2>1, <2>2, FileFacts
<1>2. /\ run[f].at = "closing" /\ Waiting(f) = <<>> /\ Held(f) # <<>>
      /\ UNCHANGED <<plan, result, counter, artifacts, lost, interrupted>>
  BY DEF EmitHeld, FilesWritten, Waiting, Held
<1>3. PICK old, rest, held, u, e :
        /\ old = Head(Held(f)) /\ rest = Tail(Held(f)) /\ held = [run[f].held EXCEPT !.events = rest]
        /\ u = [run[f] EXCEPT !.held = held] /\ e = Remasked(f, old)
  OBVIOUS
<1>4. /\ old \in VarsEvents \cup ContentEvents /\ rest \in Seq(VarsEvents \cup ContentEvents)
      /\ 1 \in DOMAIN Held(f) /\ old = Held(f)[1]
      /\ \A i \in DOMAIN rest : i + 1 \in DOMAIN Held(f) /\ rest[i] = Held(f)[i + 1]
  <2>1. PICK w : w = Held(f)
    OBVIOUS
  <2>2. w \in Seq(VarsEvents \cup ContentEvents) /\ w # <<>> /\ old = Head(w) /\ rest = Tail(w)
    BY <1>1, <1>2, <1>3, <2>1
  <2>3. old \in VarsEvents \cup ContentEvents /\ rest \in Seq(VarsEvents \cup ContentEvents)
    BY ONLY <2>2
  <2>4. 1 \in DOMAIN w /\ old = w[1]
    BY ONLY <2>2
  <2>5. \A i \in DOMAIN rest : i + 1 \in DOMAIN w /\ rest[i] = w[i + 1]
    BY ONLY <2>2
  <2> QED
    BY <2>1, <2>3, <2>4, <2>5
<1>5. run' = [run EXCEPT ![f] = u] /\ report' = Fold(report, e)
  BY <1>1, <1>3 DEF EmitHeld, Held, Tell
<1>6. /\ held \in Holdings /\ held.files = run[f].held.files /\ held.events = rest /\ held.bytes = run[f].held.bytes
  BY <1>1, <1>3, <1>4 DEF Holdings
<1>7. /\ u \in Tasks /\ u.at = "closing" /\ u.held = held /\ u.deferred_bytes = run[f].deferred_bytes
      /\ u.flush = run[f].flush /\ u.scenarios = run[f].scenarios /\ u.done = run[f].done
      /\ u.secrets = run[f].secrets /\ u.failed = run[f].failed /\ u.stopped = run[f].stopped
  BY <1>1, <1>2, <1>3, <1>6 DEF Tasks
<1>8. run'[f] = u
  BY <1>1, <1>5
<1>9. Held(f)' = rest /\ Waiting(f)' = Waiting(f) /\ Waiting(f) = <<>>
  BY <1>2, <1>6, <1>7, <1>8 DEF Held, Waiting
<1>10. Only(f)
  BY <1>1, <1>2, <1>5, <1>8 DEF Only, TraceTypes
<1>11. DirsInv'
  BY <1>1, <1>2, <1>9, <1>10, DirsSame
<1>12. \A i \in DOMAIN Held(f) : Held(f)[i].type # "vars" => Kept(Held(f)[i].content.dir)
  <2>1. Awaited(f) = {}
    BY <1>2 DEF Awaited
  <2> QED
    BY <1>1, <2>1 DEF CitesOf
<1>13. (CitesOf(f))'
  <2>1. ASSUME NEW dir, Kept(dir) PROVE (Kept(dir))'
    BY <1>2, <2>1, KeptGrows
  <2>2. ASSUME NEW i \in DOMAIN rest, rest[i].type # "vars", NEW dir, dir = rest[i].content.dir PROVE (Kept(dir))'
    BY <1>4, <1>12, <2>1, <2>2
  <2> QED
    BY <1>9, <2>2 DEF CitesOf
<1>14. old.file = PathOf[f] /\ old.scenario = run[f].scenarios
  BY <1>1, <1>4 DEF SecretsInv
<1>15. SceneEvent(e) /\ e.file = PathOf[f] /\ e.scenario = run[f].scenarios
       /\ \A c \in Brings(e) : c.shows \cap run[f].secrets = {} /\ (Kept(c.dir))'
  <2>1. CASE old \in VarsEvents
    <3>1. old.type = "vars" /\ old.vars \in SUBSET SUBSET Values
      BY <2>1 DEF VarsEvents
    <3>2. PICK all : all = {Mask(v, f) : v \in old.vars}
      OBVIOUS
    <3>3. all \in SUBSET SUBSET Values
      BY <1>1, <3>1, <3>2, MaskTyped
    <3>4. e = [old EXCEPT !.vars = all]
      BY <1>3, <3>1, <3>2 DEF Remasked
    <3>5. e \in VarsEvents /\ e.file = old.file /\ e.scenario = old.scenario
      BY ONLY <2>1, <3>3, <3>4 DEF VarsEvents
    <3> QED
      BY <1>14, <3>5 DEF VarsEvents, SceneEvent, SceneKinds, Brings
  <2>2. CASE old \in ContentEvents
    <3>1. old.type \in {"evidence", "attempt"} /\ old.content \in Contents
      BY <2>2 DEF ContentEvents
    <3>2. PICK shows, content : /\ shows = Mask(old.content.shows, f)
                                /\ content = [old.content EXCEPT !.shows = shows]
      OBVIOUS
    <3>3. shows \in SUBSET Values /\ shows \cap run[f].secrets = {}
      BY <1>1, <3>1, <3>2, MaskTyped DEF Contents
    <3>4. content \in Contents /\ content.shows = shows /\ content.dir = old.content.dir
      BY <3>1, <3>2, <3>3 DEF Contents
    <3>5. e = [old EXCEPT !.content = content]
      BY <1>3, <3>1, <3>2 DEF Remasked
    <3>6. e \in ContentEvents /\ e.file = old.file /\ e.scenario = old.scenario /\ e.content = content
      BY ONLY <2>2, <3>4, <3>5 DEF ContentEvents
    <3>7. PICK dir : dir = old.content.dir
      OBVIOUS
    <3>8. (Kept(dir))'
      BY <1>2, <1>4, <1>12, <3>1, <3>7, KeptGrows
    <3> QED
      BY <1>14, <3>3, <3>4, <3>6, <3>7, <3>8 DEF ContentEvents, SceneEvent, SceneKinds, Brings
  <2> QED
    BY <1>4, <2>1, <2>2
<1>16. run[f].scenarios > 0 /\ InProgress(f)
  <2>1. run[f].done \in Seq(Outcomes)
    BY <1>1 DEF Tasks
  <2> QED
    BY <1>1, <1>2, <2>1 DEF ScenarioInv, InProgress
<1>17. /\ OnlyPage(f) /\ (Distinct => (OwnPage(f))')
       /\ \A c \in Cited(report') : c \in Cited(report) \/ (Kept(c.dir))'
  <2>1. \A c : (c.deferred /\ (c \in Brings(e) \/ (run[f].at # "scenario" /\ c.shows \cap run[f].secrets = {})))
                 => run'[f].at # "scenario" /\ c.shows \cap run'[f].secrets = {}
    BY <1>7, <1>8, <1>15
  <2>2. run'[f].scenarios = run[f].scenarios
    BY <1>7, <1>8
  <2> QED
    BY <1>5, <1>15, <1>16, <2>1, <2>2, TellsPage
<1>18. PageInv'
  BY <1>1, <1>2, <1>10, <1>17, PageKeeps
<1>19. Latest(f)' = Latest(f)
  BY <1>2, <1>7, <1>8 DEF Latest
<1>20. (ScenarioInv(f))'
  <2>1. run[f].flush
    BY <1>1, <1>2 DEF ScenarioInv, Held, NoHeld
  <2> QED
    BY <1>1, <1>2, <1>6, <1>7, <1>8, <1>19, <2>1 DEF ScenarioInv
<1>21. (SecretsInv(f))'
  <2>1. \A i \in DOMAIN rest : rest[i].file = PathOf[f] /\ rest[i].scenario = run[f].scenarios
    BY <1>1, <1>4 DEF SecretsInv
  <2> QED
    BY <1>1, <1>2, <1>7, <1>8, <1>9, <1>19, <2>1 DEF SecretsInv
<1>22. (PassingInv(f))'
  BY <1>1, <1>2, <1>7, <1>8 DEF PassingInv, Told
<1>23. /\ result' \in [Files -> [panicked : BOOLEAN, scenarios : Seq(Outcomes)]] /\ artifacts' \subseteq Artifacts
       /\ report' \in Reports /\ result' = [result EXCEPT ![f] = result'[f]] /\ (FileInv(f))'
  BY <1>1, <1>2, <1>17, <1>20, <1>21, <1>22 DEF TraceTypes, FileInv, OnlyPage
<1> QED
  BY <1>2, <1>5, <1>7, <1>11, <1>13, <1>17, <1>18, <1>23, FileStep

LEMMA FinishKeeps ==
  ASSUME EvidenceInv, NEW f \in plan.files, ScenarioFinishes(f)
  PROVE  EvidenceInv'
<1>1. /\ f \in Files /\ TraceTypes /\ run \in [Files -> Tasks] /\ run[f] \in Tasks /\ PathOf[f] \in Paths
      /\ ScenarioInv(f) /\ SecretsInv(f) /\ PassingInv(f) /\ CitesOf(f)
  BY FileFacts
<1>2. /\ run[f].at = "closing" /\ Waiting(f) = <<>> /\ Held(f) = <<>>
      /\ UNCHANGED <<plan, result, counter, artifacts, lost, interrupted>>
  BY DEF ScenarioFinishes, Waiting, Held
<1>3. PICK status, outcome, done, coverage, e, u :
        /\ status = (IF run[f].failed THEN "failed" ELSE "passed") /\ coverage = Coverage(f)
        /\ outcome = [status |-> status, steps |-> run[f].told, shows |-> run[f].shows,
                      stopped |-> run[f].stopped, bytes |-> run[f].deferred_bytes]
        /\ done = Append(run[f].done, outcome)
        /\ e = EventOf(f, "scenario_finished", [status |-> status, coverage |-> coverage])
        /\ u = [run[f] EXCEPT !.at = "between", !.done = done]
  OBVIOUS
<1>4. /\ status \in {"passed", "failed"} /\ (run[f].failed => status = "failed")
      /\ run[f].told \in Seq(Statuses) /\ run[f].shows \in SUBSET Values /\ run[f].stopped \in BOOLEAN
      /\ run[f].deferred_bytes \in Nat /\ run[f].done \in Seq(Outcomes) /\ run[f].scenarios \in Nat
  BY <1>1, <1>3 DEF Tasks
<1>5. /\ outcome \in Outcomes /\ outcome.status = status /\ outcome.stopped = run[f].stopped
      /\ outcome.bytes = run[f].deferred_bytes
  BY <1>3, <1>4 DEF Outcomes
<1>6. /\ done \in Seq(Outcomes) /\ Len(done) = Len(run[f].done) + 1 /\ DOMAIN done = 1..(Len(run[f].done) + 1)
      /\ done[Len(run[f].done) + 1] = outcome /\ \A k \in DOMAIN run[f].done : done[k] = run[f].done[k]
      /\ DOMAIN run[f].done = 1..Len(run[f].done) /\ Len(run[f].done) \in Nat
  <2>1. PICK old : old = run[f].done
    OBVIOUS
  <2>2. old \in Seq(Outcomes) /\ done = Append(old, outcome)
    BY <1>3, <1>4, <2>1
  <2>3. /\ done \in Seq(Outcomes) /\ Len(done) = Len(old) + 1 /\ DOMAIN done = 1..(Len(old) + 1)
        /\ done[Len(old) + 1] = outcome /\ \A k \in DOMAIN old : done[k] = old[k]
        /\ DOMAIN old = 1..Len(old) /\ Len(old) \in Nat
    BY ONLY <1>5, <2>2
  <2> QED
    BY <2>1, <2>3
<1>7. /\ u \in Tasks /\ u.at = "between" /\ u.held = run[f].held /\ u.deferred_bytes = run[f].deferred_bytes
      /\ u.flush = run[f].flush /\ u.scenarios = run[f].scenarios /\ u.done = done
      /\ u.secrets = run[f].secrets /\ u.failed = run[f].failed /\ u.stopped = run[f].stopped
  <2>1. run[f] \in Tasks /\ u = [run[f] EXCEPT !.at = "between", !.done = done]
    BY <1>1, <1>3
  <2> QED
    BY ONLY <1>6, <2>1 DEF Tasks
<1>8. run' = [run EXCEPT ![f] = u] /\ report' = Fold(report, e)
  BY <1>1, <1>3 DEF ScenarioFinishes, Tell
<1>9. run'[f] = u
  BY <1>1, <1>8
<1>10. Held(f)' = Held(f) /\ Waiting(f)' = Waiting(f)
  BY <1>7, <1>9 DEF Held, Waiting
<1>11. Only(f)
  BY <1>1, <1>2, <1>8, <1>9 DEF Only, TraceTypes
<1>12. DirsInv' /\ (CitesOf(f))'
  BY <1>1, <1>2, <1>10, <1>11, DirsSame DEF CitesOf
<1>13. /\ Len(run[f].done) + 1 = run[f].scenarios /\ run[f].held.bytes <= run[f].deferred_bytes
       /\ run[f].flush => run[f].failed /\ ~run[f].stopped
       /\ \A d \in Latest(f) : d.mode = "deferred" => run[f].deferred_bytes > Cap \/ run[f].flush
  BY <1>1, <1>2 DEF ScenarioInv
<1>14. SceneEvent(e) /\ Brings(e) = {} /\ e.file = PathOf[f] /\ e.scenario = run[f].scenarios
  <2>1. e = [type |-> "scenario_finished", file |-> PathOf[f], scenario |-> run[f].scenarios,
             status |-> status, coverage |-> coverage]
    BY <1>3, EventOutcome
  <2>2. coverage \in Coverages
    BY <1>3 DEF Coverage, Coverages
  <2> QED
    BY <1>1, <1>4, <2>1, <2>2 DEF SceneEvent, SceneKinds, Brings, Statuses
<1>15. /\ OnlyPage(f) /\ (Distinct => (OwnPage(f))')
       /\ \A c \in Cited(report') : c \in Cited(report) \/ (Kept(c.dir))'
  <2>1. \A c : (c.deferred /\ (c \in Brings(e) \/ (run[f].at # "scenario" /\ c.shows \cap run[f].secrets = {})))
                 => run'[f].at # "scenario" /\ c.shows \cap run'[f].secrets = {}
    BY <1>7, <1>9, <1>14
  <2>2. run'[f].scenarios = run[f].scenarios /\ InProgress(f) /\ run[f].scenarios > 0
    BY <1>2, <1>4, <1>6, <1>7, <1>9, <1>13 DEF InProgress
  <2> QED
    BY <1>8, <1>14, <2>1, <2>2, TellsPage
<1>16. PageInv'
  BY <1>1, <1>2, <1>11, <1>15, PageKeeps
<1>17. Latest(f)' = Latest(f)
  BY <1>2, <1>7, <1>9 DEF Latest
<1>18. (ScenarioInv(f))'
  <2>1. run[f].scenarios > 0
    BY <1>4, <1>6, <1>13
  <2> QED
    BY <1>1, <1>2, <1>6, <1>7, <1>9, <1>13, <2>1 DEF ScenarioInv
<1>19. (SecretsInv(f))'
  BY <1>1, <1>2, <1>7, <1>9, <1>10, <1>17 DEF SecretsInv
<1>20. (PassingInv(f))'
  <2>1. Told(f)' = done /\ Told(f) = run[f].done /\ result'[f] = result[f]
    BY <1>2, <1>7, <1>9 DEF Told
  <2>2. ASSUME NEW k \in DOMAIN done, (done[k].status = "passed" \/ done[k].stopped) /\ done[k].bytes <= Cap,
               ~result[f].panicked, NEW d \in artifacts, d.file = f /\ d.scenario = k /\ d.mode = "deferred"
        PROVE  FALSE
    <3>1. CASE k \in DOMAIN run[f].done
      BY <1>1, <1>6, <2>1, <2>2, <3>1 DEF PassingInv
    <3>2. CASE k \notin DOMAIN run[f].done
      <4>1. k = run[f].scenarios /\ done[k] = outcome
        BY <1>4, <1>6, <1>13, <2>2, <3>2
      <4>2. d \in Latest(f) /\ run[f].deferred_bytes <= Cap
        BY <1>5, <2>2, <4>1 DEF Latest
      <4>3. run[f].flush
        BY <1>4, <1>13, <2>2, <4>2, TraceAssumption
      <4> QED
        BY <1>4, <1>5, <1>13, <2>2, <4>1, <4>3
    <3> QED
      BY <3>1, <3>2
  <2> QED
    BY <1>1, <1>2, <2>1, <2>2 DEF PassingInv
<1>21. /\ result' \in [Files -> [panicked : BOOLEAN, scenarios : Seq(Outcomes)]] /\ artifacts' \subseteq Artifacts
       /\ report' \in Reports /\ result' = [result EXCEPT ![f] = result'[f]] /\ (FileInv(f))'
  BY <1>1, <1>2, <1>15, <1>18, <1>19, <1>20 DEF TraceTypes, FileInv, OnlyPage
<1> QED
  BY <1>2, <1>7, <1>8, <1>12, <1>15, <1>16, <1>21, FileStep

LEMMA EndsKeep ==
  ASSUME EvidenceInv, NEW f \in plan.files, InProgress(f), NEW panicked \in BOOLEAN,
         NEW scenarios \in Seq(Outcomes), Ends(f, panicked, scenarios),
         ~panicked => /\ DOMAIN scenarios = DOMAIN run[f].done /\ run[f].at = "between"
                      /\ \A k \in DOMAIN scenarios :
                           /\ scenarios[k].status = run[f].done[k].status
                           /\ scenarios[k].stopped = run[f].done[k].stopped
                           /\ scenarios[k].bytes = run[f].done[k].bytes
                           /\ scenarios[k].shows \cap run[f].secrets = {}
  PROVE  EvidenceInv'
<1>1. /\ f \in Files /\ TraceTypes /\ run \in [Files -> Tasks] /\ run[f] \in Tasks /\ PathOf[f] \in Paths
      /\ ScenarioInv(f) /\ SecretsInv(f) /\ PassingInv(f) /\ CitesOf(f)
  BY FileFacts
<1>2. PICK u : u = [Idle EXCEPT !.at = "done", !.secrets = run[f].secrets]
  OBVIOUS
<1>3. Idle \in Tasks /\ Idle.held = NoHeld /\ ~Idle.flush /\ Idle.deferred_bytes = 0
  <2>1. NoHeld \in Holdings
    BY DEF NoHeld, Holdings
  <2> QED
    BY <2>1 DEF Idle, Tasks
<1>4. /\ u \in Tasks /\ u.at = "done" /\ u.held = NoHeld /\ ~u.flush /\ u.deferred_bytes = 0
      /\ u.secrets = run[f].secrets
  <2>1. run[f].secrets \in SUBSET Values
    BY <1>1 DEF Tasks
  <2>2. u \in Tasks /\ u.at = "done" /\ u.held = Idle.held /\ u.flush = Idle.flush
        /\ u.deferred_bytes = Idle.deferred_bytes /\ u.secrets = run[f].secrets
    BY ONLY <1>2, <1>3, <2>1 DEF Tasks
  <2> QED
    BY <1>3, <2>2
<1>5. /\ run' = [run EXCEPT ![f] = u] /\ UNCHANGED <<plan, counter, artifacts, lost, interrupted>>
      /\ report' = Fold(report, [type |-> "file_finished", file |-> PathOf[f], panicked |-> panicked])
  BY <1>2 DEF Ends, Tell
<1>6. /\ result'[f].panicked = panicked /\ result'[f].scenarios = scenarios
      /\ result' = [result EXCEPT ![f] = result'[f]]
      /\ result' \in [Files -> [panicked : BOOLEAN, scenarios : Seq(Outcomes)]]
  <2>1. result \in [Files -> [panicked : BOOLEAN, scenarios : Seq(Outcomes)]]
    BY <1>1 DEF TraceTypes
  <2>2. result' = [result EXCEPT ![f].panicked = panicked, ![f].scenarios = scenarios]
    BY DEF Ends
  <2>3. f \in Files /\ panicked \in BOOLEAN /\ scenarios \in Seq(Outcomes)
    BY <1>1
  <2> QED
    BY ONLY <2>1, <2>2, <2>3
<1>7. run'[f] = u
  BY <1>1, <1>5
<1>8. Only(f)
  BY <1>1, <1>5, <1>6, <1>7 DEF Only
<1>9. Held(f)' = <<>> /\ Waiting(f)' = <<>>
  BY <1>4, <1>7 DEF Held, Waiting, NoHeld
<1>10. DirsInv' /\ (CitesOf(f))'
  BY <1>1, <1>5, <1>8, <1>9, DirsSame DEF CitesOf
<1>11. (ScenarioInv(f))'
  <2>1. NoHeld.bytes = 0
    BY DEF NoHeld
  <2> QED
    BY <1>4, <1>7, <2>1 DEF ScenarioInv
<1>12. (SecretsInv(f))'
  BY <1>4, <1>6, <1>7, <1>9 DEF SecretsInv
<1>13. (PassingInv(f))'
  <2>1. Told(f)' = scenarios /\ result'[f].panicked = panicked
    BY <1>4, <1>6, <1>7 DEF Told
  <2>2. CASE panicked
    BY <1>4, <1>7, <2>1, <2>2 DEF PassingInv
  <2>3. CASE ~panicked
    <3>1. Told(f) = run[f].done
      BY <2>3 DEF Told
    <3>2. \A k \in DOMAIN scenarios :
            ((scenarios[k].status = "passed" \/ scenarios[k].stopped) /\ scenarios[k].bytes <= Cap) =>
              ~\E d \in artifacts : d.file = f /\ d.scenario = k /\ d.mode = "deferred"
      BY <1>1, <2>3, <3>1 DEF PassingInv
    <3> QED
      BY <1>1, <1>4, <1>5, <1>7, <2>1, <2>3, <3>2 DEF PassingInv
  <2> QED
    BY <2>2, <2>3
<1>14. (FileInv(f))'
  BY <1>11, <1>12, <1>13 DEF FileInv
<1>15. PICK q : q = report'
  OBVIOUS
<1>16. /\ q \in Reports /\ q.incomplete = report.incomplete /\ q.index = report.index
       /\ DOMAIN q.files = DOMAIN report.files /\ Cited(q) = Cited(report)
       /\ \A i \in DOMAIN report.files : i # report.index[PathOf[f]] => q.files[i] = report.files[i]
  <2>1. report \in Reports
    BY <1>1 DEF TraceTypes
  <2> QED
    BY <1>1, <1>5, <1>15, <2>1, FoldsFinish
<1>17. OnlyPage(f) /\ ~InProgress(f)'
  BY <1>4, <1>7, <1>15, <1>16, StreamOpen DEF OnlyPage, InProgress
<1>18. PageInv'
  BY <1>1, <1>5, <1>8, <1>17, PageKeeps
<1> QED
  BY <1>1, <1>4, <1>5, <1>6, <1>7, <1>10, <1>14, <1>15, <1>16, <1>18, FileStep DEF TraceTypes

LEMMA FileEndsKeep ==
  ASSUME EvidenceInv, NEW f \in plan.files, FileEnds(f)
  PROVE  EvidenceInv'
<1>1. /\ f \in Files /\ TraceTypes /\ run[f] \in Tasks
  BY FileFacts
<1>2. PICK done, scenarios : done = run[f].done /\ scenarios = FinalTexts(f)
  OBVIOUS
<1>3. done \in Seq(Outcomes)
  BY <1>1, <1>2 DEF Tasks
<1>4. scenarios = [k \in DOMAIN done |-> [done[k] EXCEPT !.shows = Mask(done[k].shows, f)]]
  BY <1>2 DEF FinalTexts
<1>5. ASSUME NEW k \in DOMAIN done
      PROVE  /\ scenarios[k] \in Outcomes /\ scenarios[k].status = done[k].status
             /\ scenarios[k].stopped = done[k].stopped /\ scenarios[k].bytes = done[k].bytes
             /\ scenarios[k].shows \cap run[f].secrets = {}
  <2>1. PICK one, shows, new : one = done[k] /\ shows = Mask(one.shows, f) /\ new = [one EXCEPT !.shows = shows]
    OBVIOUS
  <2>2. scenarios[k] = new /\ one \in Outcomes
    BY <1>3, <1>4, <1>5, <2>1
  <2>3. shows \in SUBSET Values /\ shows \cap run[f].secrets = {}
    BY <1>1, <2>1, <2>2, MaskTyped DEF Outcomes
  <2>4. /\ new \in Outcomes /\ new.status = one.status /\ new.stopped = one.stopped /\ new.bytes = one.bytes
        /\ new.shows = shows
    BY ONLY <2>1, <2>2, <2>3 DEF Outcomes
  <2> QED
    BY <2>1, <2>2, <2>3, <2>4
<1>6. PICK n : n = Len(done) /\ n \in Nat /\ DOMAIN done = 1..n
  BY <1>3
<1>7. DOMAIN scenarios = 1..n /\ scenarios \in [1..n -> Outcomes]
  BY <1>4, <1>5, <1>6
<1>8. scenarios \in Seq(Outcomes)
  BY <1>6, <1>7
<1>9. run[f].at = "between" /\ Ends(f, FALSE, scenarios) /\ InProgress(f)
  BY <1>2 DEF FileEnds, InProgress
<1> QED
  BY <1>2, <1>5, <1>6, <1>7, <1>8, <1>9, EndsKeep

LEMMA PanicsKeep ==
  ASSUME EvidenceInv, NEW f \in plan.files, Panics(f)
  PROVE  EvidenceInv'
<1>1. Aborted \in Outcomes
  BY DEF Aborted, Outcomes
<1>2. <<Aborted>> \in Seq(Outcomes)
  BY <1>1
<1>3. InProgress(f) /\ Ends(f, TRUE, <<Aborted>>)
  BY DEF Panics, InProgress
<1> QED
  BY <1>2, <1>3, EndsKeep

LEMMA InterruptKeeps ==
  ASSUME EvidenceInv, Interrupt
  PROVE  EvidenceInv'
<1>1. interrupted' = TRUE /\ UNCHANGED <<plan, run, result, counter, artifacts, lost, report>>
  BY DEF Interrupt
<1>2. TraceTypes' /\ DirsInv'
  BY <1>1 DEF EvidenceInv, TraceTypes, DirsInv, Waiting, OnDisk
<1>3. RefersInv'
  BY <1>1, ZenonT(30) DEF EvidenceInv, RefersInv, CitesOf, Kept, OnDisk, Held, Awaited, Waiting
<1>4. PageInv'
  BY <1>1 DEF EvidenceInv, PageInv, Distinct, InProgress, OwnPage, InReport
<1>5. ASSUME NEW f \in Files PROVE (FileInv(f))'
  <2>1. ScenarioInv(f) /\ SecretsInv(f) /\ PassingInv(f)
    BY DEF EvidenceInv, FileInv
  <2>2. (ScenarioInv(f))'
    BY <1>1, <2>1 DEF ScenarioInv, Latest
  <2>3. (SecretsInv(f))'
    BY <1>1, <2>1 DEF SecretsInv, Latest, Held
  <2>4. (PassingInv(f))'
    BY <1>1, <2>1 DEF PassingInv, Told
  <2> QED
    BY <2>2, <2>3, <2>4 DEF FileInv
<1> QED
  BY <1>2, <1>3, <1>4, <1>5 DEF EvidenceInv

LEMMA RunFinishesKeeps ==
  ASSUME EvidenceInv, RunFinishes
  PROVE  EvidenceInv'
<1>1. /\ TraceTypes /\ run \in [Files -> Tasks] /\ report.incomplete /\ report \in Reports
      /\ plan.files \subseteq Files
  BY TraceAssumption DEF EvidenceInv, TraceTypes, RunFinishes
<1>2. /\ interrupted \/ \A f \in plan.files : run[f].at = "done"
      /\ run' = [f \in Files |-> IF run[f].at \in {"idle", "done"} THEN run[f] ELSE [run[f] EXCEPT !.at = "cut"]]
      /\ report' = Fold(report, [type |-> "run_finished"])
      /\ UNCHANGED <<plan, result, counter, artifacts, lost, interrupted>>
  BY DEF RunFinishes, Tell
<1>3. ASSUME NEW f \in Files
      PROVE  /\ run'[f] \in Tasks
             /\ run'[f] = run[f] \/ (run'[f].at = "cut" /\ run[f].at \notin {"idle", "done"})
             /\ run[f].at \in {"idle", "done"} => run'[f] = run[f]
             /\ run[f].at \notin {"idle", "done"} => run'[f].at = "cut"
             /\ run'[f].held = run[f].held /\ run'[f].deferred_bytes = run[f].deferred_bytes
             /\ run'[f].flush = run[f].flush /\ run'[f].scenarios = run[f].scenarios
             /\ run'[f].done = run[f].done /\ run'[f].secrets = run[f].secrets
             /\ run'[f].failed = run[f].failed /\ run'[f].stopped = run[f].stopped
  <2>1. run[f] \in Tasks /\ run'[f] = IF run[f].at \in {"idle", "done"} THEN run[f] ELSE [run[f] EXCEPT !.at = "cut"]
    BY <1>1, <1>2
  <2>2. CASE run[f].at \in {"idle", "done"}
    BY <2>1, <2>2
  <2>3. CASE run[f].at \notin {"idle", "done"}
    <3>1. PICK u : u = [run[f] EXCEPT !.at = "cut"]
      OBVIOUS
    <3>2. /\ u \in Tasks /\ u.at = "cut" /\ u.held = run[f].held /\ u.deferred_bytes = run[f].deferred_bytes
          /\ u.flush = run[f].flush /\ u.scenarios = run[f].scenarios /\ u.done = run[f].done
          /\ u.secrets = run[f].secrets /\ u.failed = run[f].failed /\ u.stopped = run[f].stopped
      BY <2>1, <3>1 DEF Tasks
    <3>3. run'[f] = u
      BY <2>1, <2>3, <3>1
    <3> QED
      BY <2>3, <3>2, <3>3
  <2> QED
    BY <2>2, <2>3
<1>4. \A f \in Files : Held(f)' = Held(f) /\ Waiting(f)' = Waiting(f) /\ Latest(f)' = Latest(f)
  BY <1>2, <1>3 DEF Held, Waiting, Latest
<1>5. PICK q : q = report'
  OBVIOUS
<1>6. q \in Reports /\ ~q.incomplete /\ q.index = report.index /\ q.files = report.files /\ Cited(q) = Cited(report)
  BY <1>1, <1>2, <1>5, FoldsRun
<1>7. TraceTypes'
  <2>1. run' \in [Files -> Tasks]
    BY <1>2, <1>3
  <2> QED
    BY <1>1, <1>2, <1>5, <1>6, <2>1 DEF TraceTypes
<1>8. DirsInv'
  <2>1. OnDisk' = OnDisk
    BY <1>2 DEF OnDisk
  <2> QED
    BY <1>2, <1>4, <2>1 DEF EvidenceInv, DirsInv
<1>9. RefersInv'
  <2>1. \A dir : (Kept(dir))' <=> Kept(dir)
    BY <1>2 DEF Kept, OnDisk
  <2>2. \A f \in Files : Awaited(f)' = Awaited(f)
    BY <1>4 DEF Awaited
  <2>3. \A f \in Files : (CitesOf(f))'
    BY <1>4, <2>1, <2>2 DEF EvidenceInv, RefersInv, CitesOf
  <2> QED
    BY <1>5, <1>6, <2>1, <2>3 DEF EvidenceInv, RefersInv
<1>10. PageInv'
  <2>1. \A f \in Files \ plan'.files : run'[f].at = "idle"
    BY <1>2, <1>3 DEF EvidenceInv, PageInv
  <2>2. \A f \in plan'.files : run'[f].at \in {"done", "cut"} \/ (run'[f].at = "idle" /\ interrupted')
    BY <1>1, <1>2, <1>3
  <2>3. \A f \in Files : run'[f].at \in {"idle", "done", "cut"}
    BY <1>1, <2>1, <2>2
  <2>4. \A f \in Files : ~InProgress(f)'
    BY <2>3 DEF InProgress
  <2>5. \A p, o \in Paths : report'.index[p] # 0 /\ report'.index[p] = report'.index[o] => p = o
    BY <1>5, <1>6 DEF EvidenceInv, PageInv
  <2> QED
    BY <2>1, <2>2, <2>4, <2>5 DEF PageInv
<1>11. ASSUME NEW f \in Files PROVE (FileInv(f))'
  <2>1. ScenarioInv(f) /\ SecretsInv(f) /\ PassingInv(f)
    BY DEF EvidenceInv, FileInv
  <2>2. CASE run'[f] = run[f]
    <3>1. (ScenarioInv(f))'
      BY <1>2, <1>4, <2>1, <2>2 DEF ScenarioInv
    <3>2. (SecretsInv(f))'
      BY <1>2, <1>4, <2>1, <2>2 DEF SecretsInv
    <3>3. (PassingInv(f))'
      BY <1>2, <2>1, <2>2 DEF PassingInv, Told
    <3> QED
      BY <3>1, <3>2, <3>3 DEF FileInv
  <2>3. CASE run'[f].at = "cut" /\ run[f].at \notin {"idle", "done"}
    <3>1. /\ run'[f].held = run[f].held /\ run'[f].deferred_bytes = run[f].deferred_bytes
          /\ run'[f].flush = run[f].flush /\ run'[f].scenarios = run[f].scenarios
          /\ run'[f].failed = run[f].failed /\ run'[f].stopped = run[f].stopped
          /\ run'[f].done = run[f].done /\ artifacts' = artifacts /\ result' = result
      BY <1>2, <1>3
    <3>2. (ScenarioInv(f))'
      BY <2>1, <2>3, <3>1 DEF ScenarioInv
    <3>3. (SecretsInv(f))'
      BY <1>3, <1>4, <2>1, <2>3 DEF SecretsInv
    <3>4. Told(f)' = Told(f) /\ run[f].at # "done"
      BY <2>3, <3>1 DEF Told
    <3>5. (PassingInv(f))'
      BY <2>1, <3>1, <3>4 DEF PassingInv
    <3> QED
      BY <3>2, <3>3, <3>5 DEF FileInv
  <2> QED
    BY <1>3, <2>2, <2>3
<1> QED
  BY <1>7, <1>8, <1>9, <1>10, <1>11 DEF EvidenceInv

LEMMA IdleKeeps ==
  ASSUME EvidenceInv, UNCHANGED vars
  PROVE  EvidenceInv'
<1>1. UNCHANGED <<plan, run, result, counter, artifacts, lost, report, interrupted>>
  BY DEF vars
<1>2. TraceTypes' /\ DirsInv'
  BY <1>1 DEF EvidenceInv, TraceTypes, DirsInv, Waiting, OnDisk
<1>3. RefersInv'
  BY <1>1, ZenonT(30) DEF EvidenceInv, RefersInv, CitesOf, Kept, OnDisk, Held, Awaited, Waiting
<1>4. PageInv'
  BY <1>1 DEF EvidenceInv, PageInv, Distinct, InProgress, OwnPage, InReport
<1>5. ASSUME NEW f \in Files PROVE (FileInv(f))'
  <2>1. ScenarioInv(f) /\ SecretsInv(f) /\ PassingInv(f)
    BY DEF EvidenceInv, FileInv
  <2>2. (ScenarioInv(f))'
    BY <1>1, <2>1 DEF ScenarioInv, Latest
  <2>3. (SecretsInv(f))'
    BY <1>1, <2>1 DEF SecretsInv, Latest, Held
  <2>4. (PassingInv(f))'
    BY <1>1, <2>1 DEF PassingInv, Told
  <2> QED
    BY <2>2, <2>3, <2>4 DEF FileInv
<1> QED
  BY <1>2, <1>3, <1>4, <1>5 DEF EvidenceInv

LEMMA EvidenceStep == EvidenceInv /\ [Next]_vars => EvidenceInv'
<1> SUFFICES ASSUME EvidenceInv, [Next]_vars PROVE EvidenceInv'
  OBVIOUS
<1>1. CASE UNCHANGED vars
  BY <1>1, IdleKeeps
<1>2. CASE Interrupt \/ RunFinishes
  BY <1>2, InterruptKeeps, RunFinishesKeeps
<1>3. ASSUME NEW f \in plan.files,
             FileStarts(f) \/ ScenarioStarts(f) \/ ScenarioCloses(f) \/ WriteHeld(f) \/ EmitHeld(f)
               \/ ScenarioFinishes(f) \/ FileEnds(f) \/ Panics(f)
      PROVE  EvidenceInv'
  BY <1>3, StartsKeep, ScenarioKeep, ClosesKeep, WriteKeeps, EmitKeeps, FinishKeeps, FileEndsKeep, PanicsKeep
<1>4. ASSUME NEW f \in plan.files, Annotation(f) \/ StepSkipped(f) \/ Attempt(f) \/ PluginFile(f, plan.values)
      PROVE  Records(f)
  BY <1>4, AnnotationRecords, SkipRecords, AttemptRecords, PluginRecords
<1>5. ASSUME NEW f \in plan.files, NEW kind \in plan.kinds, NEW slots \in SUBSET {plan.values}, StepStarts(f, kind, slots)
      PROVE  Records(f)
  BY <1>5, StartRecords
<1>6. ASSUME NEW f \in plan.files, NEW shows \in SUBSET plan.values,
             \/ InlineEvidence(f, shows) \/ HoldLong(f, shows) \/ WriteLong(f, shows)
             \/ \E ok \in BOOLEAN : StepFinishes(f, ok, shows)
      PROVE  Records(f)
  BY <1>6, InlineRecords, HoldRecords, WriteRecords, FinishRecords
<1>7. ASSUME NEW f \in plan.files, \/ \E v \in plan.values : Register(f, v)
                                   \/ \E on \in BOOLEAN : MarkSteps(f, on)
      PROVE  Records(f)
  BY <1>7, RegisterRecords, MarkRecords
<1>8. ASSUME NEW f \in plan.files, Records(f) PROVE EvidenceInv'
  BY <1>8, RecordsKeep
<1> QED
  BY <1>1, <1>2, <1>3, <1>4, <1>5, <1>6, <1>7, <1>8 DEF Next

LEMMA EvidenceMeans == EvidenceInv => EvidenceKept
<1> SUFFICES ASSUME EvidenceInv PROVE EvidenceKept
  OBVIOUS
<1>1. /\ TraceTypes /\ report \in Reports /\ \A f \in Files : FileInv(f)
      /\ run \in [Files -> Tasks]
  BY DEF EvidenceInv, TraceTypes
<1>2. PassingLeavesNothing
  BY <1>1 DEF PassingLeavesNothing, FileInv, PassingInv
<1>3. ASSUME NEW f \in Files, Started(f), NEW e \in References(f), e.dir # 0
      PROVE  e.dir \in lost \/ \E d \in artifacts : d.dir = e.dir
  <2>1. PathOf[f] \in Paths
    BY TraceAssumption
  <2>2. PICK i : i = report.index[PathOf[f]]
    OBVIOUS
  <2>3. i \in DOMAIN report.files /\ InReport(f) = report.files[i]
    BY <1>1, <1>3, <2>1, <2>2, PageIn DEF Started, InReport
  <2>4. e \in Cited(report)
    BY <2>3 DEF References, Cited
  <2>5. Kept(e.dir)
    BY <2>4 DEF EvidenceInv, RefersInv
  <2> QED
    BY <1>3, <2>5 DEF Kept, OnDisk
<1>4. FileBeforeEvent
  BY <1>3 DEF FileBeforeEvent, EvidenceInv, DirsInv
<1>5. ASSUME NEW f \in Files, run[f].at = "done", ~result[f].panicked
      PROVE  \A k \in DOMAIN result[f].scenarios : result[f].scenarios[k].shows \cap run[f].secrets = {}
  BY <1>1, <1>5 DEF FileInv, SecretsInv
<1>6. ASSUME NEW f \in Files, Distinct, run[f].at = "between", run[f].flush
      PROVE  /\ \A e \in AllEvidence(InReport(f).scenarios[run[f].scenarios]) :
                  e.deferred => e.shows \cap run[f].secrets = {}
             /\ \A d \in artifacts : (d.file = f /\ d.scenario = run[f].scenarios /\ d.held) =>
                  d.shows \cap run[f].secrets = {}
  <2>1. OwnPage(f)
    BY <1>6 DEF EvidenceInv, PageInv, InProgress
  <2>2. run[f].scenarios > 0 /\ SecretsInv(f)
    BY <1>1, <1>6 DEF FileInv, ScenarioInv
  <2> QED
    BY <1>6, <2>1, <2>2 DEF OwnPage, SecretsInv, Latest
<1>7. LateSecretHidden
  BY <1>5, <1>6 DEF LateSecretHidden
<1> QED
  BY <1>2, <1>4, <1>7 DEF EvidenceKept

\* Evidence on disk is what the stream points at: nothing deferred of a scenario
\* that passed or was stopped, unless there was more than the cap; no event
\* before its file, and no two references to one file; and no value that was a
\* secret when a text was written late, however late the value became one
\* (events.rs text and scenario_finished, artifacts.rs next_dir, runner.rs
\* run_file), whatever is marked, fails, panics or is interrupted.
THEOREM EvidenceIsKept == Spec => []EvidenceKept
<1>1. Init => EvidenceInv
  BY TraceStart
<1>2. EvidenceInv /\ [Next]_vars => EvidenceInv'
  BY EvidenceStep
<1>3. EvidenceInv => EvidenceKept
  BY EvidenceMeans
<1> QED
  BY <1>1, <1>2, <1>3, PTL DEF Spec

-----------------------------------------------------------------------------
(***************************************************************************)
(* What a page tells.  While a scenario runs, its tree follows the task:   *)
(* an open item for every call in progress, nested as they are (Calls), a  *)
(* failed one only where the task has a failure to give to the body around *)
(* it (Failures), its top-level items the steps told so far (TopsTold),    *)
(* and evidence only where the task has counted some (Counted).  When the  *)
(* scenario is over, its outcome closes what is open, and what was true of *)
(* the task is true of the page (ClosedTell); a step of another file       *)
(* leaves it alone (Aside).                                                *)
(***************************************************************************)
\* Where a scenario shows the step of a call in progress.
Shows(s, open, d) == s.byStep[open[d].step]

\* The steps shown as open are the calls in progress, each under the one around it.
Calls(s, open) ==
  /\ \A d \in DOMAIN open :
       /\ open[d].step \in DOMAIN s.byStep /\ s.items[Shows(s, open, d)].status = "open"
       /\ s.parents[Shows(s, open, d)] = IF d = 1 THEN 0 ELSE Shows(s, open, d - 1)
       /\ \A c \in DOMAIN open : c < d => Shows(s, open, c) < Shows(s, open, d)
  /\ \A i \in DOMAIN s.items :
       /\ s.parents[i] \in {0} \cup DOMAIN s.items
       /\ s.items[i].status = "open" => \E d \in DOMAIN open : i = Shows(s, open, d)

\* Failed is shown at i, under up.
FailedAt(s, i, up) == s.parents[i] = up /\ s.items[i].status = "failed"
NothingRan(s) == \A i \in DOMAIN s.items : s.parents[i] = 0 => s.items[i].status \notin {"passed", "failed"}

Failures(s, open, fails) ==
  /\ \A i \in DOMAIN s.items : s.items[i].status = "failed" =>
       IF s.parents[i] = 0 THEN fails
       ELSE \/ s.items[s.parents[i]].status = "failed"
            \/ \E d \in DOMAIN open : s.parents[i] = Shows(s, open, d) /\ open[d].failed
  /\ \A d \in DOMAIN open : open[d].failed => \E j \in DOMAIN s.items : FailedAt(s, j, Shows(s, open, d))
  /\ fails => open = <<>> /\ ((\E j \in DOMAIN s.items : FailedAt(s, j, 0)) \/ NothingRan(s))
  /\ \A i \in DOMAIN s.items : s.items[i].status = "skipped" =>
       \/ \E j \in DOMAIN s.items : j < i /\ FailedAt(s, j, s.parents[i])
       \/ s.parents[i] = 0 /\ fails /\ NothingRan(s)

Tops(s) == {i \in Children(s, 0) : s.items[i].kind = "step"}
Rank(s, i) == Cardinality({j \in Tops(s) : j <= i})
TopsTold(s, open, told) ==
  /\ Cardinality(Tops(s)) = Len(told) + IF open = <<>> THEN 0 ELSE 1
  /\ \A i \in Tops(s) : s.items[i].status = "open" \/ s.items[i].status = told[Rank(s, i)]
  /\ open # <<>> => /\ Shows(s, open, 1) \in Tops(s)
                    /\ \A i \in Tops(s) : i <= Shows(s, open, 1)

Bare(item) == item.vars = {} /\ item.evidence = <<>> /\ item.attempts = 0
Resolved(s, n) == s.items[s.byStep[n]].vars # {}
WaitsFor(t, n) ==
  \E i \in DOMAIN t.held.events : t.held.events[i].type = "vars" /\ t.held.events[i].step = n
Counted(s, t) ==
  /\ \A d \in DOMAIN t.open : /\ t.open[d].mode = "live" => t.live > 0
                              /\ t.open[d].mode = "deferred" => t.deferred > 0
  /\ t.held.events # <<>> => t.deferred > 0
  /\ \A i \in DOMAIN t.held.events : t.held.events[i].type = "vars" => t.held.events[i].vars # {}
  /\ (\E i \in DOMAIN s.items : ~Bare(s.items[i])) => t.live > 0 \/ (t.flush /\ t.deferred > 0)
  /\ t.live + t.deferred <= t.started /\ t.slotted \subseteq DOMAIN s.byStep
  /\ t.live = t.started => \A n \in t.slotted : Resolved(s, n)
  /\ t.live + t.deferred = t.started /\ (t.at = "scenario" \/ t.flush) =>
       \A n \in t.slotted : Resolved(s, n) \/ WaitsFor(t, n)

\* The scenario at work, as it stands on the page.
SceneNow(s, t) ==
  /\ s.status = "open" /\ Len(s.byStep) = t.steps /\ (t.at = "closing" => t.open = <<>>)
  /\ Calls(s, t.open) /\ Failures(s, t.open, t.failed) /\ TopsTold(s, t.open, t.told) /\ Counted(s, t)

\* FailureShown and CoverageHonest, scenario by scenario.
Explained(s) ==
  \A i \in DOMAIN s.items :
    LET up == s.parents[i] IN
    /\ s.items[i].status = "failed" =>
         IF up = 0 THEN s.status = "failed" ELSE s.items[up].status = "failed"
    /\ s.items[i].status = "skipped" =>
         \/ \E j \in Children(s, up) : j < i /\ s.items[j].status = "failed"
         \/ up = 0 /\ s.status = "failed"
            /\ \A j \in Children(s, 0) : s.items[j].status \notin {"passed", "failed"}
    /\ s.items[i].status # "open"
Honest(s, slotted) ==
  /\ s.coverage = "none" => \A i \in DOMAIN s.items : Bare(s.items[i])
  /\ s.coverage = "full" => \A n \in slotted : s.items[s.byStep[n]].vars # {}

\* What the page of a file says of the scenarios that are over, and of the one at work.
Scene(f) == InReport(f).scenarios[run[f].scenarios]
ClosedTell(f) ==
  \A k \in DOMAIN InReport(f).scenarios :
    LET s == InReport(f).scenarios[k] IN
    s.status # "open" =>
      /\ Explained(s)
      /\ ~result[f].panicked => /\ k \in DOMAIN Told(f) /\ s.status = Told(f)[k].status
                                /\ SameSteps(s, Told(f)[k].steps)
FileTells(f) ==
  /\ ClosedTell(f)
  /\ run[f].at \in {"scenario", "closing"} => SceneNow(Scene(f), run[f])
  /\ run[f].at \in {"between", "scenario", "closing"} =>
       \A k \in DOMAIN run[f].done : InReport(f).scenarios[k].status # "open"
  /\ run[f].at = "between" /\ run[f].done # <<>> => Honest(Scene(f), run[f].slotted)
  /\ run[f].at = "done" =>
       /\ InReport(f).panicked = result[f].panicked
       /\ ~result[f].panicked => /\ Len(InReport(f).scenarios) = Len(Told(f))
                                 /\ \A k \in DOMAIN Told(f) : InReport(f).scenarios[k].status # "open"
TellsInv == Distinct => \A f \in Files : Started(f) => FileTells(f)

LEMMA SceneTyped ==
  ASSUME NEW s \in Scenes
  PROVE  /\ s.items \in Seq(Items) /\ s.parents \in Seq(Nat) /\ s.byStep \in Seq(Nat)
         /\ DOMAIN s.items = 1..Len(s.items) /\ DOMAIN s.parents = DOMAIN s.items
         /\ Len(s.items) \in Nat /\ Len(s.byStep) \in Nat /\ DOMAIN s.byStep = 1..Len(s.byStep)
         /\ \A m \in DOMAIN s.byStep : s.byStep[m] \in DOMAIN s.items
BY DEF Scenes, SceneRecords

\* An event that leaves the tree and its statuses leaves what they say.
SameTree(s, q) ==
  /\ DOMAIN q.items = DOMAIN s.items /\ q.parents = s.parents /\ q.byStep = s.byStep
  /\ \A i \in DOMAIN s.items : q.items[i].status = s.items[i].status /\ q.items[i].kind = s.items[i].kind

LEMMA TreeCalls ==
  ASSUME NEW s \in Scenes, NEW q \in Scenes, SameTree(s, q), NEW open \in Seq(Flights), Calls(s, open)
  PROVE  Calls(q, open) /\ \A d \in DOMAIN open : Shows(q, open, d) = Shows(s, open, d)
<1>1. \A d : Shows(q, open, d) = Shows(s, open, d)
  BY DEF Shows, SameTree
<1>2. \A d \in DOMAIN open : Shows(s, open, d) \in DOMAIN s.items
  BY SceneTyped DEF Shows, Calls
<1> QED
  BY <1>1, <1>2 DEF Calls, SameTree

LEMMA TreeFailures ==
  ASSUME NEW s \in Scenes, NEW q \in Scenes, SameTree(s, q), NEW open \in Seq(Flights), Calls(s, open),
         NEW fails, Failures(s, open, fails)
  PROVE  Failures(q, open, fails)
<1>1. \A d : Shows(q, open, d) = Shows(s, open, d)
  BY DEF Shows, SameTree
<1>2. \A i, up : i \in DOMAIN s.items => (FailedAt(q, i, up) <=> FailedAt(s, i, up))
  BY DEF FailedAt, SameTree
<1>3. NothingRan(q) <=> NothingRan(s)
  BY DEF NothingRan, SameTree
<1>4. \A i \in DOMAIN s.items : s.parents[i] \in {0} \cup DOMAIN s.items
  BY DEF Calls
<1>5. DOMAIN q.items = DOMAIN s.items /\ q.parents = s.parents
  BY DEF SameTree
<1>6. ASSUME NEW i \in DOMAIN q.items, q.items[i].status = "failed"
      PROVE  IF q.parents[i] = 0 THEN fails
             ELSE \/ q.items[q.parents[i]].status = "failed"
                  \/ \E d \in DOMAIN open : q.parents[i] = Shows(q, open, d) /\ open[d].failed
  BY <1>1, <1>4, <1>5, <1>6 DEF Failures, SameTree
<1>7. \A d \in DOMAIN open : open[d].failed => \E j \in DOMAIN q.items : FailedAt(q, j, Shows(q, open, d))
  BY <1>1, <1>2, <1>5 DEF Failures
<1>8. fails => open = <<>> /\ ((\E j \in DOMAIN q.items : FailedAt(q, j, 0)) \/ NothingRan(q))
  BY <1>2, <1>3, <1>5 DEF Failures
<1>9. ASSUME NEW i \in DOMAIN q.items, q.items[i].status = "skipped"
      PROVE  \/ \E j \in DOMAIN q.items : j < i /\ FailedAt(q, j, q.parents[i])
             \/ q.parents[i] = 0 /\ fails /\ NothingRan(q)
  <2>1. s.items[i].status = "skipped" /\ i \in DOMAIN s.items
    BY <1>9 DEF SameTree
  <2> QED
    BY <1>2, <1>3, <1>5, <2>1 DEF Failures
<1> QED
  BY <1>6, <1>7, <1>8, <1>9 DEF Failures

LEMMA TreeTops ==
  ASSUME NEW s \in Scenes, NEW q \in Scenes, SameTree(s, q), NEW open, NEW told, TopsTold(s, open, told)
  PROVE  TopsTold(q, open, told)
<1>1. Tops(q) = Tops(s)
  BY DEF Tops, Children, SameTree
<1>2. \A i : Rank(q, i) = Rank(s, i)
  BY <1>1 DEF Rank
<1>3. \A i \in Tops(s) : q.items[i].status = s.items[i].status
  BY DEF Tops, Children, SameTree
<1>4. \A d : Shows(q, open, d) = Shows(s, open, d)
  BY DEF Shows, SameTree
<1> QED
  BY <1>1, <1>2, <1>3, <1>4 DEF TopsTold

\* An event that adds an item at the end of the tree.
Adds(s, q, item, up) ==
  /\ DOMAIN q.items = 1..(Len(s.items) + 1) /\ q.status = s.status
  /\ \A i \in DOMAIN s.items : q.items[i] = s.items[i] /\ q.parents[i] = s.parents[i]
  /\ q.items[Len(s.items) + 1] = item /\ q.parents[Len(s.items) + 1] = up
  /\ \A m \in DOMAIN s.byStep : m \in DOMAIN q.byStep /\ q.byStep[m] = s.byStep[m]

LEMMA PushedAdds ==
  ASSUME NEW s \in Scenes, NEW item \in Items, NEW up \in Nat, NEW more, NEW q,
         q = [s EXCEPT !.items = Append(@, item), !.parents = Append(@, up), !.byStep = more],
         more = s.byStep \/ more = Append(s.byStep, Len(s.items) + 1)
  PROVE  /\ Adds(s, q, item, up) /\ q.byStep = more
         /\ Len(s.byStep) \in Nat
         /\ more = Append(s.byStep, Len(s.items) + 1) =>
              Len(more) = Len(s.byStep) + 1 /\ more[Len(s.byStep) + 1] = Len(s.items) + 1
<1>1. PICK n, list, ups :
        n = Len(s.items) /\ list = Append(s.items, item) /\ ups = Append(s.parents, up)
  OBVIOUS
<1>2. /\ s.items \in Seq(Items) /\ s.parents \in Seq(Nat) /\ s.byStep \in Seq(Nat) /\ n \in Nat
      /\ DOMAIN s.items = 1..n /\ DOMAIN s.parents = 1..n /\ Len(s.parents) = n
  BY <1>1, SceneTyped DEF Scenes
<1>3. q = [s EXCEPT !.items = list, !.parents = ups, !.byStep = more] /\ s \in SceneRecords
  BY <1>1 DEF Scenes
<1>4. q.items = list /\ q.parents = ups /\ q.byStep = more /\ q.status = s.status
  BY <1>3 DEF SceneRecords
<1>5. /\ DOMAIN list = 1..(n + 1) /\ list[n + 1] = item /\ \A i \in 1..n : list[i] = s.items[i]
      /\ ups[n + 1] = up /\ \A i \in 1..n : ups[i] = s.parents[i]
  BY <1>1, <1>2
<1>6. more = Append(s.byStep, n + 1) =>
        /\ \A m \in DOMAIN s.byStep : m \in DOMAIN more /\ more[m] = s.byStep[m]
        /\ Len(more) = Len(s.byStep) + 1 /\ more[Len(s.byStep) + 1] = n + 1
  BY <1>2, SMTT(30)
<1>7. \A m \in DOMAIN s.byStep : m \in DOMAIN more /\ more[m] = s.byStep[m]
  BY <1>1, <1>6
<1> QED
  BY <1>1, <1>2, <1>4, <1>5, <1>6, <1>7, SMTT(30) DEF Adds

\* The step around whatever comes next.
Around(s, open) == IF open = <<>> THEN 0 ELSE Shows(s, open, Len(open))

LEMMA AroundIs ==
  ASSUME NEW s \in Scenes, NEW open \in Seq(Flights), Calls(s, open)
  PROVE  /\ Around(s, open) \in {0} \cup DOMAIN s.items /\ Around(s, open) \in Nat
         /\ Around(s, open) = 0 <=> open = <<>>
         /\ \A d \in DOMAIN open : Shows(s, open, d) \in DOMAIN s.items /\ Shows(s, open, d) # 0
<1>1. \A d \in DOMAIN open : Shows(s, open, d) \in DOMAIN s.items
  BY SceneTyped DEF Calls, Shows
<1>2. open # <<>> => Len(open) \in DOMAIN open
  OBVIOUS
<1>3. 0 \notin DOMAIN s.items /\ DOMAIN s.items \subseteq Nat
  BY SceneTyped
<1> QED
  BY <1>1, <1>2, <1>3 DEF Around

LEMMA AddKeepsCalls ==
  ASSUME NEW s \in Scenes, NEW q \in Scenes, NEW item, NEW up \in {0} \cup DOMAIN s.items, Adds(s, q, item, up),
         item.status # "open", NEW open \in Seq(Flights), Calls(s, open)
  PROVE  Calls(q, open) /\ \A d \in DOMAIN open : Shows(q, open, d) = Shows(s, open, d)
<1>1. \A d \in DOMAIN open : open[d].step \in DOMAIN q.byStep /\ Shows(q, open, d) = Shows(s, open, d)
  BY DEF Shows, Adds, Calls
<1>2. \A d \in DOMAIN open : Shows(s, open, d) \in DOMAIN s.items
  BY AroundIs
<1>3. PICK n \in Nat : n = Len(s.items) /\ DOMAIN s.items = 1..n /\ DOMAIN q.items = 1..(n + 1)
  BY SceneTyped DEF Adds
<1>4. \A i : i \in DOMAIN q.items <=> i \in DOMAIN s.items \/ i = n + 1
  BY <1>3
<1>5. ASSUME NEW d \in DOMAIN open
      PROVE  /\ open[d].step \in DOMAIN q.byStep /\ q.items[Shows(q, open, d)].status = "open"
             /\ q.parents[Shows(q, open, d)] = IF d = 1 THEN 0 ELSE Shows(q, open, d - 1)
             /\ \A c \in DOMAIN open : c < d => Shows(q, open, c) < Shows(q, open, d)
  <2>1. d # 1 => d - 1 \in DOMAIN open
    OBVIOUS
  <2> QED
    BY <1>1, <1>2, <2>1 DEF Calls, Adds
<1>6. ASSUME NEW i \in DOMAIN q.items
      PROVE  /\ q.parents[i] \in {0} \cup DOMAIN q.items
             /\ q.items[i].status = "open" => \E d \in DOMAIN open : i = Shows(q, open, d)
  BY <1>1, <1>3, <1>4, SMTT(30) DEF Calls, Adds
<1> QED
  BY <1>1, <1>5, <1>6 DEF Calls

\* The step n is the last item, and the innermost call is that step.
ShownLast(s, q, n) == n \in DOMAIN q.byStep /\ q.byStep[n] = Len(s.items) + 1
Deeper(s, q, open, open2) ==
  /\ \A d \in DOMAIN open : d \in DOMAIN open2 /\ Shows(q, open2, d) = Shows(s, open, d)
  /\ DOMAIN open2 = DOMAIN open \cup {Len(open) + 1} /\ Shows(q, open2, Len(open) + 1) = Len(s.items) + 1

LEMMA AddCall ==
  ASSUME NEW s \in Scenes, NEW q \in Scenes, NEW item, NEW open \in Seq(Flights), Calls(s, open),
         NEW up, up = Around(s, open), Adds(s, q, item, up), item.status = "open",
         NEW flight \in Flights, ShownLast(s, q, flight.step), NEW open2, open2 = Append(open, flight)
  PROVE  Calls(q, open2) /\ Deeper(s, q, open, open2)
<1> USE DEF ShownLast, Deeper
<1>1. PICK m \in Nat : m = Len(open) /\ DOMAIN open = 1..m
  OBVIOUS
<1>2. /\ open2 \in Seq(Flights) /\ DOMAIN open2 = 1..(m + 1) /\ open2[m + 1] = flight
      /\ \A d \in 1..m : open2[d] = open[d]
  BY <1>1
<1>3. PICK n \in Nat : n = Len(s.items) /\ DOMAIN s.items = 1..n /\ DOMAIN q.items = 1..(n + 1)
  BY SceneTyped DEF Adds
<1>4. \A d \in 1..m : open2[d].step \in DOMAIN q.byStep /\ Shows(q, open2, d) = Shows(s, open, d)
  BY <1>1, <1>2 DEF Shows, Adds, Calls
<1>5. Shows(q, open2, m + 1) = n + 1 /\ open2[m + 1].step \in DOMAIN q.byStep
  BY <1>2, <1>3 DEF Shows
<1>6. \A d \in 1..m : Shows(s, open, d) \in 1..n
  BY <1>1, <1>3, AroundIs
<1>7. \A i : i \in DOMAIN q.items <=> i \in DOMAIN s.items \/ i = n + 1
  BY <1>3
<1>8. ASSUME NEW d \in 1..m
      PROVE  /\ q.items[Shows(q, open2, d)].status = "open"
             /\ q.parents[Shows(q, open2, d)] = IF d = 1 THEN 0 ELSE Shows(q, open2, d - 1)
             /\ \A c \in 1..(m + 1) : c < d => Shows(q, open2, c) < Shows(q, open2, d)
  <2>1. d # 1 => d - 1 \in 1..m
    OBVIOUS
  <2>2. \A c \in 1..(m + 1) : c < d => c \in 1..m
    OBVIOUS
  <2> QED
    <3>1. Shows(q, open2, d) = Shows(s, open, d) /\ Shows(s, open, d) \in DOMAIN s.items /\ d \in DOMAIN open
      BY <1>1, <1>3, <1>4, <1>6
    <3>2. q.items[Shows(q, open2, d)].status = "open"
      BY <3>1 DEF Calls, Adds
    <3>3. q.parents[Shows(q, open2, d)] = IF d = 1 THEN 0 ELSE Shows(s, open, d - 1)
      BY <3>1 DEF Calls, Adds
    <3>4. d # 1 => Shows(q, open2, d - 1) = Shows(s, open, d - 1)
      BY <1>4, <2>1
    <3>5. \A c \in 1..m : c < d => Shows(s, open, c) < Shows(s, open, d)
      BY <1>1, <3>1 DEF Calls
    <3> QED
      BY <1>4, <2>2, <3>1, <3>2, <3>3, <3>4, <3>5
<1>9. /\ q.items[Shows(q, open2, m + 1)].status = "open"
      /\ q.parents[Shows(q, open2, m + 1)] = IF m + 1 = 1 THEN 0 ELSE Shows(q, open2, m + 1 - 1)
      /\ \A c \in 1..(m + 1) : c < m + 1 => Shows(q, open2, c) < Shows(q, open2, m + 1)
  <2>1. q.items[n + 1].status = "open" /\ q.parents[n + 1] = up
    BY <1>3 DEF Adds
  <2>2. up = IF m = 0 THEN 0 ELSE Shows(s, open, m)
    BY <1>1 DEF Around
  <2>3. m # 0 => m \in 1..m /\ m + 1 - 1 = m
    OBVIOUS
  <2>4. \A c \in 1..(m + 1) : c < m + 1 => c \in 1..m
    OBVIOUS
  <2> QED
    BY <1>4, <1>5, <1>6, <2>1, <2>2, <2>3, <2>4
<1>10. ASSUME NEW i \in DOMAIN q.items
      PROVE  /\ q.parents[i] \in {0} \cup DOMAIN q.items
             /\ q.items[i].status = "open" => \E d \in 1..(m + 1) : i = Shows(q, open2, d)
  <2>1. CASE i = n + 1
    <3>1. q.parents[i] = up /\ up \in {0} \cup DOMAIN s.items
      BY <1>3, <2>1, AroundIs DEF Adds
    <3> QED
      BY <1>5, <1>7, <2>1, <3>1
  <2>2. CASE i \in DOMAIN s.items
    <3>1. q.parents[i] = s.parents[i] /\ q.items[i] = s.items[i]
      BY <2>2 DEF Adds
    <3>2. s.parents[i] \in {0} \cup DOMAIN s.items /\ (s.items[i].status = "open" => \E d \in 1..m : i = Shows(s, open, d))
      BY <1>1, <2>2 DEF Calls
    <3> QED
      BY <1>4, <1>7, <3>1, <3>2
  <2> QED
    BY <1>7, <2>1, <2>2
<1>11. \A d \in 1..(m + 1) : d \in 1..m \/ d = m + 1
  OBVIOUS
<1>12. Calls(q, open2)
  <2>1. ASSUME NEW d \in DOMAIN open2
        PROVE  /\ open2[d].step \in DOMAIN q.byStep /\ q.items[Shows(q, open2, d)].status = "open"
               /\ q.parents[Shows(q, open2, d)] = IF d = 1 THEN 0 ELSE Shows(q, open2, d - 1)
               /\ \A c \in DOMAIN open2 : c < d => Shows(q, open2, c) < Shows(q, open2, d)
    <3>1. d \in 1..m \/ d = m + 1
      BY <1>2, <1>11, <2>1
    <3>2. CASE d \in 1..m
      BY <1>2, <1>4, <1>8, <3>2
    <3>3. CASE d = m + 1
      BY <1>2, <1>5, <1>9, <3>3
    <3> QED
      BY <3>1, <3>2, <3>3
  <2> QED
    BY ONLY <1>2, <1>10, <2>1 DEF Calls
<1>13. DOMAIN open2 = DOMAIN open \cup {m + 1}
  BY <1>1, <1>2
<1> QED
  BY <1>1, <1>3, <1>4, <1>5, <1>12, <1>13

\* What may be added after a failure: nothing runs, and what is skipped says why.
Admits(s, q, open, open2, item, up, fails) ==
  /\ \A d \in DOMAIN open : d \in DOMAIN open2 /\ Shows(q, open2, d) = Shows(s, open, d)
                            /\ open2[d].failed = open[d].failed
  /\ \A d \in DOMAIN open2 : d \in DOMAIN open \/ ~open2[d].failed
  /\ fails => open2 = <<>>
  /\ item.status \notin {"passed", "failed"}
  /\ item.status = "skipped" =>
       (\E j \in DOMAIN s.items : FailedAt(s, j, up)) \/ (up = 0 /\ fails /\ NothingRan(s))

LEMMA AddFailures ==
  ASSUME NEW s \in Scenes, NEW q \in Scenes, NEW item, NEW up \in {0} \cup DOMAIN s.items, Adds(s, q, item, up),
         NEW open \in Seq(Flights), Calls(s, open), NEW fails, Failures(s, open, fails),
         NEW open2, Admits(s, q, open, open2, item, up, fails)
  PROVE  Failures(q, open2, fails)
<1> USE DEF Admits
<1>1. PICK n : n \in Nat /\ n = Len(s.items) /\ DOMAIN s.items = 1..n /\ DOMAIN q.items = 1..(n + 1)
  BY SceneTyped DEF Adds
<1>2. \A i : i \in DOMAIN q.items <=> i \in DOMAIN s.items \/ i = n + 1
  BY ONLY <1>1
<1>3. /\ \A i \in DOMAIN s.items : q.items[i] = s.items[i] /\ q.parents[i] = s.parents[i]
      /\ q.items[n + 1] = item /\ q.parents[n + 1] = up
  BY <1>1 DEF Adds
<1>4. \A i \in DOMAIN s.items : s.parents[i] \in {0} \cup DOMAIN s.items
  BY DEF Calls
<1>5. \A i, a : FailedAt(s, i, a) /\ i \in DOMAIN s.items => FailedAt(q, i, a)
  BY <1>3 DEF FailedAt
<1>6. NothingRan(s) => NothingRan(q)
  BY <1>2, <1>3 DEF NothingRan
<1>7. ASSUME NEW i \in DOMAIN q.items, q.items[i].status = "failed"
      PROVE  IF q.parents[i] = 0 THEN fails
             ELSE \/ q.items[q.parents[i]].status = "failed"
                  \/ \E d \in DOMAIN open2 : q.parents[i] = Shows(q, open2, d) /\ open2[d].failed
  <2>1. i \in DOMAIN s.items /\ s.items[i].status = "failed" /\ q.parents[i] = s.parents[i]
    BY <1>2, <1>3, <1>7
  <2>2. CASE s.parents[i] = 0
    BY <2>1, <2>2 DEF Failures
  <2>3. CASE s.parents[i] # 0
    <3>1. s.parents[i] \in DOMAIN s.items
      BY <1>4, <2>1, <2>3
    <3>2. \/ s.items[s.parents[i]].status = "failed"
          \/ \E d \in DOMAIN open : s.parents[i] = Shows(s, open, d) /\ open[d].failed
      BY <2>1, <2>3 DEF Failures
    <3> QED
      BY <1>3, <2>1, <2>3, <3>1, <3>2
  <2> QED
    BY <2>2, <2>3
<1>8. ASSUME NEW d \in DOMAIN open2, open2[d].failed
      PROVE  \E j \in DOMAIN q.items : FailedAt(q, j, Shows(q, open2, d))
  <2>1. d \in DOMAIN open /\ open[d].failed /\ Shows(q, open2, d) = Shows(s, open, d)
    BY <1>8
  <2>2. PICK j \in DOMAIN s.items : FailedAt(s, j, Shows(s, open, d))
    BY <2>1 DEF Failures
  <2> QED
    BY <1>2, <1>5, <2>1, <2>2
<1>9. fails => open2 = <<>> /\ ((\E j \in DOMAIN q.items : FailedAt(q, j, 0)) \/ NothingRan(q))
  BY <1>2, <1>5, <1>6 DEF Failures
<1>10. ASSUME NEW i \in DOMAIN q.items, q.items[i].status = "skipped"
       PROVE  \/ \E j \in DOMAIN q.items : j < i /\ FailedAt(q, j, q.parents[i])
              \/ q.parents[i] = 0 /\ fails /\ NothingRan(q)
  <2>1. CASE i \in DOMAIN s.items
    <3>1. \/ \E j \in DOMAIN s.items : j < i /\ FailedAt(s, j, s.parents[i])
          \/ s.parents[i] = 0 /\ fails /\ NothingRan(s)
      BY <1>3, <1>10, <2>1 DEF Failures
    <3> QED
      BY <1>2, <1>3, <1>5, <1>6, <2>1, <3>1
  <2>2. CASE i = n + 1
    <3>1. (\E j \in DOMAIN s.items : FailedAt(s, j, up)) \/ (up = 0 /\ fails /\ NothingRan(s))
      BY <1>3, <1>10, <2>2
    <3>2. \A j \in DOMAIN s.items : j < i
      BY <1>1, <2>2
    <3> QED
      BY <1>2, <1>3, <1>5, <1>6, <2>2, <3>1, <3>2
  <2> QED
    BY <1>2, <2>1, <2>2
<1> QED
  BY <1>7, <1>8, <1>9, <1>10 DEF Failures

\* The steps at the top are finitely many, and a rank among them is a place in a list.
LEMMA TopsFinite ==
  ASSUME NEW s \in Scenes
  PROVE  /\ Tops(s) \subseteq DOMAIN s.items /\ IsFiniteSet(Tops(s)) /\ Cardinality(Tops(s)) \in Nat
         /\ \A i \in Tops(s) : Rank(s, i) \in 1..Cardinality(Tops(s))
<1>1. Tops(s) \subseteq DOMAIN s.items
  BY DEF Tops, Children
<1>2. IsFiniteSet(Tops(s)) /\ Cardinality(Tops(s)) \in Nat
  <2>1. PICK n : n \in Nat /\ DOMAIN s.items = 1..n
    BY SceneTyped
  <2>2. IsFiniteSet(1..n)
    BY <2>1, FS_Interval
  <2> QED
    BY <1>1, <2>1, <2>2, FS_Subset, FS_CardinalityType
<1>3. ASSUME NEW i \in Tops(s) PROVE Rank(s, i) \in 1..Cardinality(Tops(s))
  <2>1. PICK upto : upto = {j \in Tops(s) : j <= i}
    OBVIOUS
  <2>2. upto \subseteq Tops(s) /\ i \in upto
    BY <1>1, <2>1, SceneTyped
  <2>3. IsFiniteSet(upto) /\ Cardinality(upto) \in Nat /\ Cardinality(upto) <= Cardinality(Tops(s))
    BY <1>2, <2>2, FS_Subset, FS_CardinalityType
  <2>4. Cardinality(upto) # 0
    BY <2>2, <2>3, FS_EmptySet
  <2> QED
    BY <1>2, <2>1, <2>3, <2>4 DEF Rank
<1> QED
  BY <1>1, <1>2, <1>3

LEMMA AddBelow ==
  ASSUME NEW s \in Scenes, NEW q \in Scenes, NEW item, NEW up \in {0} \cup DOMAIN s.items, Adds(s, q, item, up),
         up # 0 \/ item.kind # "step"
  PROVE  Tops(q) = Tops(s) /\ \A i : Rank(q, i) = Rank(s, i)
<1>1. PICK n : n \in Nat /\ n = Len(s.items) /\ DOMAIN s.items = 1..n /\ DOMAIN q.items = 1..(n + 1)
  BY SceneTyped DEF Adds
<1>2. \A i : i \in DOMAIN q.items <=> i \in DOMAIN s.items \/ i = n + 1
  BY ONLY <1>1
<1>3. Tops(q) = Tops(s)
  BY <1>1, <1>2 DEF Tops, Children, Adds
<1> QED
  BY <1>3 DEF Rank

LEMMA AddTop ==
  ASSUME NEW s \in Scenes, NEW q \in Scenes, NEW item, Adds(s, q, item, 0), item.kind = "step"
  PROVE  /\ Tops(q) = Tops(s) \cup {Len(s.items) + 1} /\ Cardinality(Tops(q)) = Cardinality(Tops(s)) + 1
         /\ \A i \in Tops(s) : Rank(q, i) = Rank(s, i) /\ i < Len(s.items) + 1
         /\ Rank(q, Len(s.items) + 1) = Cardinality(Tops(s)) + 1
<1>1. PICK n : n \in Nat /\ n = Len(s.items) /\ DOMAIN s.items = 1..n /\ DOMAIN q.items = 1..(n + 1)
  BY SceneTyped DEF Adds
<1>2. \A i : i \in DOMAIN q.items <=> i \in DOMAIN s.items \/ i = n + 1
  BY ONLY <1>1
<1>3. Tops(q) = Tops(s) \cup {n + 1}
  BY <1>1, <1>2 DEF Tops, Children, Adds
<1>4. \A i \in Tops(s) : i \in 1..n
  BY <1>1, TopsFinite
<1>5. n + 1 \notin Tops(s)
  <2>1. n + 1 \notin 1..n
    BY <1>1
  <2> QED
    BY <1>4, <2>1
<1>6. Cardinality(Tops(q)) = Cardinality(Tops(s)) + 1
  BY <1>3, <1>5, TopsFinite, FS_AddElement
<1>7. ASSUME NEW i \in Tops(s) PROVE Rank(q, i) = Rank(s, i) /\ i < n + 1
  <2>1. i \in 1..n /\ ~(n + 1 <= i) /\ i < n + 1
    BY <1>1, <1>4
  <2>2. {j \in Tops(q) : j <= i} = {j \in Tops(s) : j <= i}
    BY <1>3, <2>1
  <2> QED
    BY <2>1, <2>2 DEF Rank
<1>8. Rank(q, n + 1) = Cardinality(Tops(q))
  <2>1. \A j \in Tops(q) : j <= n + 1
    BY <1>1, <1>3, <1>4
  <2>2. {j \in Tops(q) : j <= n + 1} = Tops(q)
    BY <2>1
  <2> QED
    BY <2>2 DEF Rank
<1> QED
  BY <1>1, <1>3, <1>6, <1>7, <1>8

LEMMA AddBelowTold ==
  ASSUME NEW s \in Scenes, NEW q \in Scenes, NEW item, NEW up \in {0} \cup DOMAIN s.items, Adds(s, q, item, up),
         up # 0 \/ item.kind # "step", NEW open, NEW open2, NEW told, TopsTold(s, open, told),
         (open = <<>>) <=> (open2 = <<>>), open # <<>> => Shows(q, open2, 1) = Shows(s, open, 1)
  PROVE  TopsTold(q, open2, told)
<1>1. Tops(q) = Tops(s) /\ \A i : Rank(q, i) = Rank(s, i)
  BY AddBelow
<1>2. \A i \in Tops(s) : q.items[i] = s.items[i]
  BY TopsFinite DEF Adds
<1> QED
  BY <1>1, <1>2 DEF TopsTold

LEMMA AddTopTold ==
  ASSUME NEW s \in Scenes, NEW q \in Scenes, NEW item, Adds(s, q, item, 0), item.kind = "step",
         NEW told \in Seq(Statuses), TopsTold(s, <<>>, told)
  PROVE  /\ \A open2 : item.status = "open" /\ open2 # <<>> /\ Shows(q, open2, 1) = Len(s.items) + 1
                         => TopsTold(q, open2, told)
         /\ \A told2 : told2 = Append(told, item.status) => TopsTold(q, <<>>, told2)
<1>1. /\ Tops(q) = Tops(s) \cup {Len(s.items) + 1} /\ Cardinality(Tops(q)) = Cardinality(Tops(s)) + 1
      /\ \A i \in Tops(s) : Rank(q, i) = Rank(s, i) /\ i < Len(s.items) + 1
      /\ Rank(q, Len(s.items) + 1) = Cardinality(Tops(s)) + 1
  BY AddTop
<1>2. q.items[Len(s.items) + 1] = item /\ \A i \in Tops(s) : q.items[i] = s.items[i]
  BY TopsFinite DEF Adds
<1>3. Cardinality(Tops(s)) = Len(told) /\ Len(told) \in Nat /\ Len(s.items) \in Nat
  BY SceneTyped DEF TopsTold
<1>4. \A i \in Tops(s) : i \in Nat /\ Rank(s, i) \in 1..Len(told)
                         /\ (s.items[i].status = "open" \/ s.items[i].status = told[Rank(s, i)])
  BY <1>3, TopsFinite, SceneTyped DEF TopsTold
<1>5. ASSUME NEW open2, item.status = "open", open2 # <<>>, Shows(q, open2, 1) = Len(s.items) + 1
      PROVE  TopsTold(q, open2, told)
  <2>1. \A i \in Tops(q) : i <= Len(s.items) + 1
    BY <1>1, <1>3, <1>4
  <2>2. \A i \in Tops(q) : q.items[i].status = "open" \/ q.items[i].status = told[Rank(q, i)]
    BY <1>1, <1>2, <1>4, <1>5
  <2>3. Cardinality(Tops(q)) = Len(told) + 1 /\ Shows(q, open2, 1) \in Tops(q)
    BY <1>1, <1>3, <1>5
  <2> QED
    BY ONLY <1>5, <2>1, <2>2, <2>3 DEF TopsTold
<1>6. ASSUME NEW told2, told2 = Append(told, item.status)
      PROVE  TopsTold(q, <<>>, told2)
  <2>1. Len(told2) = Len(told) + 1 /\ told2[Len(told) + 1] = item.status /\ \A r \in 1..Len(told) : told2[r] = told[r]
    BY <1>6
  <2>2. \A i \in Tops(q) : q.items[i].status = "open" \/ q.items[i].status = told2[Rank(q, i)]
    BY <1>1, <1>2, <1>3, <1>4, <2>1
  <2>3. Cardinality(Tops(q)) = Len(told2) + 0
    BY <1>1, <1>3, <2>1
  <2> QED
    BY <2>2, <2>3 DEF TopsTold
<1> QED
  BY <1>5, <1>6

-----------------------------------------------------------------------------
\* A step that finishes: the innermost call, whose item gets its status.
Marks(s, q, b, status) ==
  /\ DOMAIN q.items = DOMAIN s.items /\ q.parents = s.parents /\ q.byStep = s.byStep /\ q.status = s.status
  /\ \A i \in DOMAIN s.items : i # b => q.items[i] = s.items[i]
  /\ q.items[b] = [s.items[b] EXCEPT !.status = status]

LEMMA MarksAll ==
  ASSUME NEW s \in Scenes, NEW q \in Scenes, NEW b \in DOMAIN s.items, NEW status, Marks(s, q, b, status)
  PROVE  /\ q.items[b].status = status
         /\ \A i \in DOMAIN s.items : q.items[i].kind = s.items[i].kind /\ q.items[i].vars = s.items[i].vars
              /\ q.items[i].evidence = s.items[i].evidence /\ q.items[i].attempts = s.items[i].attempts
<1>1. s.items[b] \in Items
  BY SceneTyped
<1>2. /\ q.items[b].status = status /\ q.items[b].kind = s.items[b].kind /\ q.items[b].vars = s.items[b].vars
      /\ q.items[b].evidence = s.items[b].evidence /\ q.items[b].attempts = s.items[b].attempts
  BY <1>1 DEF Marks, Items
<1>3. \A i \in DOMAIN s.items : i # b => q.items[i] = s.items[i]
  BY DEF Marks
<1> QED
  BY <1>2, <1>3

LEMMA MarksCalls ==
  ASSUME NEW s \in Scenes, NEW q \in Scenes, NEW open \in Seq(Flights), Calls(s, open), open # <<>>,
         NEW b, b = Shows(s, open, Len(open)), NEW status \in {"passed", "failed"}, Marks(s, q, b, status),
         NEW open2 \in Seq(Flights), Len(open2) = Len(open) - 1,
         \A d \in DOMAIN open2 : open2[d].step = open[d].step
  PROVE  /\ Calls(q, open2) /\ b \in DOMAIN s.items
         /\ \A d \in DOMAIN open2 : d \in DOMAIN open /\ d # Len(open) /\ Shows(q, open2, d) = Shows(s, open, d)
<1>1. PICK m : m \in Nat \ {0} /\ m = Len(open) /\ DOMAIN open = 1..m /\ DOMAIN open2 = 1..(m - 1)
  OBVIOUS
<1>2. \A d \in 1..(m - 1) : d \in 1..m /\ d # m /\ d < m /\ (d # 1 => d - 1 \in 1..(m - 1))
  BY <1>1
<1>3. \A d \in 1..(m - 1) : Shows(q, open2, d) = Shows(s, open, d)
  BY <1>1 DEF Shows, Marks
<1>4. m \in 1..m /\ b = Shows(s, open, m) /\ b \in DOMAIN s.items /\ q.items[b].status # "open"
  BY <1>1, AroundIs, MarksAll
<1>5. \A d \in 1..m : Shows(s, open, d) \in DOMAIN s.items
  BY <1>1, AroundIs
<1>6. \A d \in 1..(m - 1) : Shows(s, open, d) # b
  <2> SUFFICES ASSUME NEW d \in 1..(m - 1) PROVE Shows(s, open, d) # b
    OBVIOUS
  <2>1. Shows(s, open, d) < Shows(s, open, m)
    BY <1>1, <1>2, <1>4 DEF Calls
  <2>2. Shows(s, open, d) \in Nat
    BY <1>2, <1>5, SceneTyped
  <2> QED
    BY <1>4, <2>1, <2>2
<1>7. ASSUME NEW d \in DOMAIN open2
      PROVE  /\ open2[d].step \in DOMAIN q.byStep /\ q.items[Shows(q, open2, d)].status = "open"
             /\ q.parents[Shows(q, open2, d)] = IF d = 1 THEN 0 ELSE Shows(q, open2, d - 1)
             /\ \A c \in DOMAIN open2 : c < d => Shows(q, open2, c) < Shows(q, open2, d)
  <2>1. d \in 1..(m - 1) /\ d \in DOMAIN open /\ open2[d].step = open[d].step
    BY <1>1, <1>2
  <2>2. open2[d].step \in DOMAIN q.byStep
    BY <2>1 DEF Calls, Marks
  <2>3. q.items[Shows(q, open2, d)].status = "open"
    BY <1>3, <1>5, <1>6, <1>1, <2>1 DEF Calls, Marks
  <2>4. q.parents[Shows(s, open, d)] = IF d = 1 THEN 0 ELSE Shows(s, open, d - 1)
    BY <2>1 DEF Calls, Marks
  <2>5. \A c \in DOMAIN open : c < d => Shows(s, open, c) < Shows(s, open, d)
    BY <2>1 DEF Calls
  <2>6. \A c \in DOMAIN open2 : c \in DOMAIN open /\ Shows(q, open2, c) = Shows(s, open, c)
    BY <1>1, <1>2, <1>3
  <2> QED
    BY <1>1, <1>2, <1>3, <2>1, <2>2, <2>3, <2>4, <2>5, <2>6
<1>8. ASSUME NEW i \in DOMAIN q.items
      PROVE  /\ q.parents[i] \in {0} \cup DOMAIN q.items
             /\ q.items[i].status = "open" => \E d \in DOMAIN open2 : i = Shows(q, open2, d)
  <2>1. i \in DOMAIN s.items /\ q.parents[i] = s.parents[i] /\ DOMAIN q.items = DOMAIN s.items
    BY <1>8 DEF Marks
  <2>2. ASSUME q.items[i].status = "open" PROVE \E d \in DOMAIN open2 : i = Shows(q, open2, d)
    <3>1. i # b /\ s.items[i].status = "open"
      BY <1>4, <2>1, <2>2 DEF Marks
    <3>2. PICK d \in DOMAIN open : i = Shows(s, open, d)
      BY <2>1, <3>1 DEF Calls
    <3>3. d # m
      BY <1>4, <3>1, <3>2
    <3>4. d \in 1..(m - 1)
      BY <1>1, <3>2, <3>3
    <3> QED
      BY <1>1, <1>3, <3>2, <3>4
  <2> QED
    BY <2>1, <2>2 DEF Calls
<1>9. Calls(q, open2)
  BY <1>7, <1>8 DEF Calls
<1> QED
  BY <1>1, <1>2, <1>3, <1>4, <1>9

\* The innermost call returns, and its failure goes to the body around it.
Returns(open, open2, fails, fails2, status) ==
  /\ open2 \in Seq(Flights) /\ Len(open2) = Len(open) - 1
  /\ open[Len(open)].failed => status = "failed"
  /\ \A d \in DOMAIN open2 : open2[d].step = open[d].step
       /\ (open2[d].failed <=> open[d].failed \/ (status = "failed" /\ d = Len(open) - 1))
  /\ fails2 <=> fails \/ (status = "failed" /\ Len(open) = 1)

LEMMA MarksFailures ==
  ASSUME NEW s \in Scenes, NEW q \in Scenes, NEW open \in Seq(Flights), Calls(s, open), open # <<>>,
         NEW fails, Failures(s, open, fails),
         NEW b, b = Shows(s, open, Len(open)), NEW status \in {"passed", "failed"}, Marks(s, q, b, status),
         NEW open2, NEW fails2, Returns(open, open2, fails, fails2, status)
  PROVE  Failures(q, open2, fails2)
<1> USE DEF Returns
<1>1. PICK m : m \in Nat \ {0} /\ m = Len(open) /\ DOMAIN open = 1..m /\ DOMAIN open2 = 1..(m - 1) /\ m \in 1..m
  OBVIOUS
<1>2. ~fails
  BY DEF Failures
<1>3. /\ b \in DOMAIN s.items /\ b = Shows(s, open, m) /\ s.items[b].status = "open"
      /\ s.parents[b] = IF m = 1 THEN 0 ELSE Shows(s, open, m - 1)
  BY <1>1, AroundIs DEF Calls
<1>4. \A d \in 1..(m - 1) : Shows(q, open2, d) = Shows(s, open, d) /\ d \in 1..m
  <2>1. \A d \in 1..(m - 1) : open2[d].step = open[d].step /\ d \in 1..m
    BY <1>1
  <2>2. q.byStep = s.byStep
    BY DEF Marks
  <2> QED
    BY <2>1, <2>2 DEF Shows
<1>5. /\ DOMAIN q.items = DOMAIN s.items /\ q.parents = s.parents /\ q.items[b].status = status
      /\ \A i \in DOMAIN s.items : i # b => q.items[i] = s.items[i]
  BY <1>3, MarksAll DEF Marks
<1>6. \A i, up : i \in DOMAIN s.items /\ FailedAt(s, i, up) => FailedAt(q, i, up)
  BY <1>3, <1>5 DEF FailedAt
<1>7. m # 1 => m - 1 \in 1..(m - 1)
  BY <1>1
<1>8. ASSUME NEW i \in DOMAIN q.items, q.items[i].status = "failed"
      PROVE  IF q.parents[i] = 0 THEN fails2
             ELSE \/ q.items[q.parents[i]].status = "failed"
                  \/ \E d \in DOMAIN open2 : q.parents[i] = Shows(q, open2, d) /\ open2[d].failed
  <2>1. CASE i = b
    <3>1. status = "failed"
      BY <1>5, <1>8, <2>1
    <3>2. CASE m = 1
      BY <1>1, <1>3, <1>5, <2>1, <3>1, <3>2
    <3>3. CASE m # 1
      <4>1. m - 1 \in DOMAIN open2 /\ open2[m - 1].failed
        BY <1>1, <1>7, <3>1, <3>3
      <4>2. q.parents[i] = Shows(q, open2, m - 1)
        <5>1. q.parents[i] = Shows(s, open, m - 1) /\ m - 1 \in 1..(m - 1)
          BY <1>3, <1>5, <1>7, <2>1, <3>3
        <5> QED
          BY <1>4, <5>1
      <4>3. q.parents[i] # 0
        BY <1>1, <1>4, <1>7, <3>3, <4>2, AroundIs
      <4> QED
        BY <4>1, <4>2, <4>3
    <3> QED
      BY <3>2, <3>3
  <2>2. CASE i # b
    <3>1. i \in DOMAIN s.items /\ s.items[i].status = "failed" /\ q.parents[i] = s.parents[i]
      BY <1>5, <1>8, <2>2
    <3>2. /\ s.parents[i] # 0
          /\ \/ s.items[s.parents[i]].status = "failed"
             \/ \E d \in DOMAIN open : s.parents[i] = Shows(s, open, d) /\ open[d].failed
      BY <1>2, <3>1 DEF Failures
    <3>3. CASE s.items[s.parents[i]].status = "failed"
      <4>1. s.parents[i] \in DOMAIN s.items /\ s.parents[i] # b
        BY <1>3, <3>1, <3>2, <3>3 DEF Calls
      <4> QED
        BY <1>5, <3>1, <3>2, <3>3, <4>1
    <3>4. ASSUME NEW d \in DOMAIN open, s.parents[i] = Shows(s, open, d), open[d].failed
          PROVE  \/ q.items[q.parents[i]].status = "failed"
                 \/ \E c \in DOMAIN open2 : q.parents[i] = Shows(q, open2, c) /\ open2[c].failed
      <4>1. CASE d = m
        BY <1>1, <1>3, <1>5, <3>1, <3>4, <4>1
      <4>2. CASE d # m
        <5>1. d \in 1..(m - 1)
          BY <1>1, <4>2
        <5> QED
          BY <1>1, <1>4, <3>1, <3>4, <5>1
      <4> QED
        BY <4>1, <4>2
    <3> QED
      BY <3>1, <3>2, <3>3, <3>4
  <2> QED
    BY <2>1, <2>2
<1>9. ASSUME NEW d \in DOMAIN open2, open2[d].failed
      PROVE  \E j \in DOMAIN q.items : FailedAt(q, j, Shows(q, open2, d))
  <2>1. d \in 1..(m - 1) /\ d \in DOMAIN open /\ Shows(q, open2, d) = Shows(s, open, d)
    BY <1>1, <1>4
  <2>2. CASE open[d].failed
    <3>1. PICK j \in DOMAIN s.items : FailedAt(s, j, Shows(s, open, d))
      BY <2>1, <2>2 DEF Failures
    <3> QED
      BY <1>5, <1>6, <2>1, <3>1
  <2>3. CASE ~open[d].failed
    <3>1. status = "failed" /\ d = m - 1 /\ m # 1
      BY <1>1, <1>9, <2>1, <2>3
    <3>2. FailedAt(q, b, Shows(s, open, d))
      BY <1>3, <1>5, <3>1 DEF FailedAt
    <3> QED
      BY <1>3, <1>5, <2>1, <3>2
  <2> QED
    BY <2>2, <2>3
<1>10. ASSUME fails2
       PROVE  open2 = <<>> /\ \E j \in DOMAIN q.items : FailedAt(q, j, 0)
  <2>1. status = "failed" /\ m = 1
    BY <1>1, <1>2, <1>10
  <2>2. FailedAt(q, b, 0)
    BY <1>3, <1>5, <2>1 DEF FailedAt
  <2> QED
    BY <1>1, <1>3, <1>5, <2>1, <2>2
<1>11. ASSUME NEW i \in DOMAIN q.items, q.items[i].status = "skipped"
       PROVE  \E j \in DOMAIN q.items : j < i /\ FailedAt(q, j, q.parents[i])
  <2>1. i # b /\ i \in DOMAIN s.items
    BY <1>5, <1>11
  <2>2. s.items[i].status = "skipped"
    BY <1>5, <1>11, <2>1
  <2>3. PICK j \in DOMAIN s.items : j < i /\ FailedAt(s, j, s.parents[i])
    BY <1>2, <2>1, <2>2 DEF Failures
  <2> QED
    BY <1>5, <1>6, <2>3
<1> QED
  BY <1>8, <1>9, <1>10, <1>11 DEF Failures

LEMMA MarksTops ==
  ASSUME NEW s \in Scenes, NEW q \in Scenes, NEW open \in Seq(Flights), Calls(s, open), open # <<>>,
         NEW told \in Seq(Statuses), TopsTold(s, open, told),
         NEW b, b = Shows(s, open, Len(open)), NEW status \in {"passed", "failed"}, Marks(s, q, b, status),
         NEW open2 \in Seq(Flights), Len(open2) = Len(open) - 1,
         \A d \in DOMAIN open2 : open2[d].step = open[d].step,
         NEW told2, told2 = IF Len(open) = 1 THEN Append(told, status) ELSE told
  PROVE  TopsTold(q, open2, told2)
<1>1. PICK m : m \in Nat \ {0} /\ m = Len(open) /\ DOMAIN open = 1..m /\ DOMAIN open2 = 1..(m - 1) /\ m \in 1..m
               /\ Len(open2) = m - 1
  OBVIOUS
<1>2. /\ b \in DOMAIN s.items /\ b = Shows(s, open, m) /\ s.items[b].status = "open"
      /\ s.parents[b] = IF m = 1 THEN 0 ELSE Shows(s, open, m - 1)
  BY <1>1, AroundIs DEF Calls
<1>3. /\ DOMAIN q.items = DOMAIN s.items /\ q.parents = s.parents /\ q.items[b].status = status
      /\ \A i \in DOMAIN s.items : i # b => q.items[i] = s.items[i]
      /\ \A i \in DOMAIN s.items : q.items[i].kind = s.items[i].kind
  <2>1. q.items[b].status = status /\ \A i \in DOMAIN s.items : q.items[i].kind = s.items[i].kind
    BY <1>2, MarksAll
  <2> QED
    BY <2>1 DEF Marks
<1>4. Tops(q) = Tops(s) /\ \A i : Rank(q, i) = Rank(s, i)
  <2>1. Tops(q) = Tops(s)
    BY <1>3 DEF Tops, Children
  <2> QED
    BY <2>1 DEF Rank
<1>5. /\ Cardinality(Tops(s)) = Len(told) + 1 /\ Len(told) \in Nat
      /\ Shows(s, open, 1) \in Tops(s) /\ \A i \in Tops(s) : i <= Shows(s, open, 1)
      /\ \A i \in Tops(s) : i \in DOMAIN s.items /\ (s.items[i].status = "open" \/ s.items[i].status = told[Rank(s, i)])
  BY TopsFinite DEF TopsTold
<1>6. CASE m # 1
  <2>1. m - 1 \in DOMAIN open /\ 1 \in 1..(m - 1) /\ open2 # <<>>
    BY <1>1, <1>6
  <2>2. Shows(s, open, m - 1) # 0
    BY <2>1, AroundIs
  <2>3. b \notin Tops(s)
    BY <1>2, <1>6, <2>2 DEF Tops, Children
  <2>4. Shows(q, open2, 1) = Shows(s, open, 1)
    BY <1>1, <2>1 DEF Shows, Marks
  <2>5. \A i \in Tops(s) : q.items[i] = s.items[i]
    BY <1>3, <1>5, <2>3
  <2>6. told2 = told
    BY <1>1, <1>6
  <2> QED
    BY <1>4, <1>5, <2>1, <2>4, <2>5, <2>6 DEF TopsTold
<1>7. CASE m = 1
  <2>1. open2 = <<>> /\ b = Shows(s, open, 1) /\ told2 = Append(told, status)
    BY <1>1, <1>2, <1>7
  <2>2. Len(told2) = Len(told) + 1 /\ told2[Len(told) + 1] = status /\ \A r \in 1..Len(told) : told2[r] = told[r]
    BY <2>1
  <2>3. Rank(s, b) = Len(told) + 1
    <3>1. {j \in Tops(s) : j <= b} = Tops(s)
      BY <1>5, <2>1
    <3> QED
      BY <1>5, <3>1 DEF Rank
  <2>4. ASSUME NEW i \in Tops(s), i # b PROVE Rank(s, i) \in 1..Len(told)
    <3>1. PICK upto : upto = {j \in Tops(s) : j <= i}
      OBVIOUS
    <3>2. i \in Nat /\ b \in Nat /\ i <= b
      BY <1>2, <1>5, <2>1, SceneTyped
    <3>3. b \notin upto /\ upto \subseteq Tops(s) \ {b}
      BY <2>4, <3>1, <3>2
    <3>4. IsFiniteSet(Tops(s)) /\ b \in Tops(s)
      BY <1>5, <2>1, TopsFinite
    <3>5. IsFiniteSet(Tops(s) \ {b}) /\ Cardinality(Tops(s) \ {b}) = Cardinality(Tops(s)) - 1
      BY <3>4, FS_RemoveElement
    <3>6. Cardinality(upto) <= Cardinality(Tops(s) \ {b})
      BY <3>3, <3>5, FS_Subset
    <3>7. Rank(s, i) = Cardinality(upto) /\ Rank(s, i) \in 1..Cardinality(Tops(s))
      BY <3>1, TopsFinite DEF Rank
    <3> QED
      BY <1>5, <3>5, <3>6, <3>7
  <2>5. \A i \in Tops(s) : q.items[i].status = "open" \/ q.items[i].status = told2[Rank(s, i)]
    BY <1>3, <1>5, <2>2, <2>3, <2>4
  <2> QED
    <3>1. Cardinality(Tops(q)) = Len(told2) + 0
      BY <1>4, <1>5, <2>2
    <3>2. \A i \in Tops(q) : q.items[i].status = "open" \/ q.items[i].status = told2[Rank(q, i)]
      BY <1>4, <2>5
    <3> QED
      BY <2>1, <3>1, <3>2 DEF TopsTold
<1> QED
  BY <1>6, <1>7

-----------------------------------------------------------------------------
\* What the counters of the scenario say of the page, when only bare items are
\* added, statuses change, or a step with evidence of its own adds to it.
LEMMA CountedKeeps ==
  ASSUME NEW s \in Scenes, NEW q \in Scenes, NEW t \in Tasks, NEW u \in Tasks, Counted(s, t),
         \A m \in DOMAIN s.byStep : m \in DOMAIN q.byStep /\ (Resolved(s, m) => Resolved(q, m)),
         \A i \in DOMAIN q.items : Bare(q.items[i]) \/ (\E j \in DOMAIN s.items : ~Bare(s.items[j]))
                                   \/ t.live > 0 \/ (t.flush /\ t.deferred > 0),
         u.live = t.live, u.deferred = t.deferred, u.started = t.started, u.slotted = t.slotted,
         u.flush = t.flush, u.at = t.at,
         \A d \in DOMAIN u.open : d \in DOMAIN t.open /\ u.open[d].mode = t.open[d].mode,
         \/ u.held.events = t.held.events
         \/ t.deferred > 0 /\ \E e : e.type # "vars" /\ u.held.events = Append(t.held.events, e)
  PROVE  Counted(q, u)
<1>1. t.held.events \in Seq(VarsEvents \cup ContentEvents)
  BY DEF Tasks, Holdings
<1>2. \A i \in DOMAIN t.held.events : i \in DOMAIN u.held.events /\ u.held.events[i] = t.held.events[i]
  BY <1>1
<1>3. \A i \in DOMAIN u.held.events : i \in DOMAIN t.held.events \/ u.held.events[i].type # "vars"
  BY <1>1
<1>4. \A n : WaitsFor(t, n) => WaitsFor(u, n)
  BY <1>2 DEF WaitsFor
<1>5. \A d \in DOMAIN u.open : /\ u.open[d].mode = "live" => u.live > 0
                               /\ u.open[d].mode = "deferred" => u.deferred > 0
  BY DEF Counted
<1>6. u.held.events # <<>> => u.deferred > 0
  BY DEF Counted
<1>7. \A i \in DOMAIN u.held.events : u.held.events[i].type = "vars" => u.held.events[i].vars # {}
  BY <1>2, <1>3 DEF Counted
<1>8. (\E i \in DOMAIN q.items : ~Bare(q.items[i])) => u.live > 0 \/ (u.flush /\ u.deferred > 0)
  BY DEF Counted
<1>9. u.live + u.deferred <= u.started /\ u.slotted \subseteq DOMAIN q.byStep
  BY DEF Counted
<1>10. u.live = u.started => \A n \in u.slotted : Resolved(q, n)
  BY DEF Counted
<1>11. u.live + u.deferred = u.started /\ (u.at = "scenario" \/ u.flush) =>
         \A n \in u.slotted : Resolved(q, n) \/ WaitsFor(u, n)
  BY <1>4 DEF Counted
<1> QED
  BY <1>5, <1>6, <1>7, <1>8, <1>9, <1>10, <1>11 DEF Counted

LEMMA CountedIs ==
  ASSUME NEW s, NEW t,
         \A d \in DOMAIN t.open : /\ t.open[d].mode = "live" => t.live > 0
                                  /\ t.open[d].mode = "deferred" => t.deferred > 0,
         t.held.events # <<>> => t.deferred > 0,
         \A i \in DOMAIN t.held.events : t.held.events[i].type = "vars" => t.held.events[i].vars # {},
         (\E i \in DOMAIN s.items : ~Bare(s.items[i])) => t.live > 0 \/ (t.flush /\ t.deferred > 0),
         t.live + t.deferred <= t.started, t.slotted \subseteq DOMAIN s.byStep,
         t.live = t.started => \A n \in t.slotted : Resolved(s, n),
         t.live + t.deferred = t.started /\ (t.at = "scenario" \/ t.flush) =>
           \A n \in t.slotted : Resolved(s, n) \/ WaitsFor(t, n)
  PROVE  Counted(s, t)
BY DEF Counted

\* A call that starts: what it takes in the counters, and what it shows.
Begins(t, u, n, mode, shown, flight, e) ==
  /\ t.at = "scenario" /\ u.at = "scenario" /\ ~t.flush /\ ~u.flush
  /\ flight.mode = mode /\ flight.step = n /\ ~flight.failed
  /\ u.open = Append(t.open, flight) /\ u.started = t.started + 1
  /\ u.failed = t.failed /\ u.told = t.told /\ u.steps = n
  /\ u.live = IF mode = "live" THEN t.live + 1 ELSE t.live
  /\ u.deferred = IF mode = "deferred" THEN t.deferred + 1 ELSE t.deferred
  /\ u.slotted = IF shown = {} THEN t.slotted ELSE t.slotted \cup {n}
  /\ e.type = "vars" /\ e.step = n /\ e.vars = shown
  /\ u.held.events = IF mode = "deferred" /\ shown # {} THEN Append(t.held.events, e) ELSE t.held.events
Draws(s, q, item, n, mode, shown) ==
  /\ n = Len(s.byStep) + 1 /\ n \in DOMAIN q.byStep /\ q.byStep[n] = Len(s.items) + 1
  /\ item.evidence = <<>> /\ item.attempts = 0 /\ item.vars = IF mode = "live" THEN shown ELSE {}

LEMMA CountedStarts ==
  ASSUME NEW s \in Scenes, NEW q \in Scenes, NEW t \in Tasks, NEW u \in Tasks, Counted(s, t),
         NEW item, NEW up, Adds(s, q, item, up), NEW mode \in {"off", "live", "deferred"}, NEW shown,
         NEW n, Draws(s, q, item, n, mode, shown), NEW flight, NEW e, Begins(t, u, n, mode, shown, flight, e)
  PROVE  Counted(q, u)
<1> USE DEF Begins, Draws
<1>1. /\ t.held.events \in Seq(VarsEvents \cup ContentEvents) /\ t.open \in Seq(Flights) /\ u.open \in Seq(Flights)
      /\ t.live \in Nat /\ t.deferred \in Nat /\ t.started \in Nat
  BY DEF Tasks, Holdings
<1>2. \A i \in DOMAIN t.held.events : i \in DOMAIN u.held.events /\ u.held.events[i] = t.held.events[i]
  BY <1>1, SMTT(30)
<1>3. \A i \in DOMAIN u.held.events : i \in DOMAIN t.held.events \/ (u.held.events[i] = e /\ mode = "deferred" /\ shown # {})
  <2>1. CASE mode = "deferred" /\ shown # {}
    <3>1. PICK held, more : held = t.held.events /\ more = u.held.events
      OBVIOUS
    <3>2. held \in Seq(VarsEvents \cup ContentEvents) /\ more = Append(held, e)
      BY <1>1, <2>1, <3>1
    <3>3. \A i \in DOMAIN more : i \in DOMAIN held \/ more[i] = e
      BY ONLY <3>2
    <3> QED
      BY <2>1, <3>1, <3>3
  <2>2. CASE ~(mode = "deferred" /\ shown # {})
    BY <2>2
  <2> QED
    BY <2>1, <2>2
<1>4. \A d \in DOMAIN u.open : (d \in DOMAIN t.open /\ u.open[d] = t.open[d]) \/ u.open[d] = flight
  <2>1. \A d \in DOMAIN u.open : d \in DOMAIN t.open \/ d = Len(t.open) + 1
    BY <1>1
  <2>2. \A d \in DOMAIN t.open : u.open[d] = t.open[d]
    BY <1>1
  <2>3. u.open[Len(t.open) + 1] = flight
    BY <1>1
  <2> QED
    BY <2>1, <2>2, <2>3
<1>5. /\ t.live <= u.live /\ t.deferred <= u.deferred /\ (mode = "live" => u.live > 0) /\ (mode = "deferred" => u.deferred > 0)
      /\ u.live \in Nat /\ u.deferred \in Nat
      /\ \/ mode = "live" /\ u.live = t.live + 1 /\ u.deferred = t.deferred
         \/ mode = "deferred" /\ u.live = t.live /\ u.deferred = t.deferred + 1
         \/ mode = "off" /\ u.live = t.live /\ u.deferred = t.deferred
  <2>1. \/ mode = "live" /\ u.live = t.live + 1 /\ u.deferred = t.deferred
        \/ mode = "deferred" /\ u.live = t.live /\ u.deferred = t.deferred + 1
        \/ mode = "off" /\ u.live = t.live /\ u.deferred = t.deferred
    OBVIOUS
  <2> QED
    BY ONLY <1>1, <2>1
<1>6. \A d \in DOMAIN u.open : /\ u.open[d].mode = "live" => u.live > 0
                               /\ u.open[d].mode = "deferred" => u.deferred > 0
  BY <1>1, <1>4, <1>5 DEF Counted
<1>7. u.held.events # <<>> => u.deferred > 0
  BY <1>1, <1>5 DEF Counted
<1>8. \A i \in DOMAIN u.held.events : u.held.events[i].type = "vars" => u.held.events[i].vars # {}
  BY <1>2, <1>3 DEF Counted
<1>9. \A i \in DOMAIN q.items : i \in DOMAIN s.items \/ i = Len(s.items) + 1
  BY SceneTyped DEF Adds
<1>10. ASSUME NEW i \in DOMAIN q.items, ~Bare(q.items[i])
       PROVE  u.live > 0
  <2>1. CASE i \in DOMAIN s.items
    <3>1. ~Bare(s.items[i])
      BY <1>10, <2>1 DEF Adds
    <3>2. t.live > 0
      BY <2>1, <3>1 DEF Counted
    <3> QED
      BY <1>1, <1>5, <3>2
  <2>2. CASE i = Len(s.items) + 1
    <3>1. q.items[i] = item
      BY <2>2 DEF Adds
    <3>2. mode = "live"
      BY <1>10, <3>1 DEF Bare
    <3> QED
      BY <1>5, <3>2
  <2> QED
    BY <1>9, <2>1, <2>2
<1>11. \A m \in DOMAIN s.byStep : m \in DOMAIN q.byStep /\ (Resolved(s, m) <=> Resolved(q, m))
  <2> SUFFICES ASSUME NEW m \in DOMAIN s.byStep
               PROVE  m \in DOMAIN q.byStep /\ (Resolved(s, m) <=> Resolved(q, m))
    OBVIOUS
  <2>1. m \in DOMAIN q.byStep /\ q.byStep[m] = s.byStep[m] /\ s.byStep[m] \in DOMAIN s.items
    BY SceneTyped DEF Adds
  <2>2. q.items[q.byStep[m]] = s.items[s.byStep[m]]
    BY <2>1 DEF Adds
  <2> QED
    BY <2>1, <2>2 DEF Resolved
<1>12. mode = "live" /\ shown # {} => Resolved(q, n)
  BY DEF Resolved, Adds
<1>13. u.live + u.deferred <= u.started /\ u.slotted \subseteq DOMAIN q.byStep
  <2>1. t.live + t.deferred <= t.started /\ t.slotted \subseteq DOMAIN s.byStep
    BY DEF Counted
  <2>2. u.live + u.deferred <= t.live + t.deferred + 1
    BY ONLY <1>1, <1>5
  <2>3. u.live + u.deferred <= u.started
    BY <1>1, <1>5, <2>1, <2>2
  <2> QED
    BY <1>11, <2>1, <2>3
<1>14. ASSUME u.live = u.started PROVE \A m \in u.slotted : Resolved(q, m)
  <2>1. t.live + t.deferred <= t.started
    BY DEF Counted
  <2>2. mode = "live" /\ t.live = t.started
    <3>1. u.started = t.started + 1
      OBVIOUS
    <3> QED
      BY ONLY <1>1, <1>5, <1>14, <2>1, <3>1
  <2>3. t.slotted \subseteq DOMAIN s.byStep /\ \A m \in t.slotted : Resolved(s, m)
    BY <2>2 DEF Counted
  <2> QED
    BY <1>11, <1>12, <2>2, <2>3
<1>15. ASSUME u.live + u.deferred = u.started PROVE \A m \in u.slotted : Resolved(q, m) \/ WaitsFor(u, m)
  <2>1. t.live + t.deferred <= t.started
    BY DEF Counted
  <2>2. mode \in {"live", "deferred"} /\ t.live + t.deferred = t.started
    <3>1. u.started = t.started + 1
      OBVIOUS
    <3>2. CASE mode = "off"
      <4>1. u.live = t.live /\ u.deferred = t.deferred
        BY ONLY <1>5, <3>2
      <4> QED
        BY ONLY <1>1, <1>15, <2>1, <3>1, <4>1
    <3>3. CASE mode = "live"
      <4>1. u.live = t.live + 1 /\ u.deferred = t.deferred /\ u.live \in Nat /\ u.deferred \in Nat
        BY ONLY <1>5, <3>3
      <4>2. t.live + t.deferred = t.started
        <5>1. PICK a, b, c, ua, ub, uc : /\ a = t.live /\ b = t.deferred /\ c = t.started
                                        /\ ua = u.live /\ ub = u.deferred /\ uc = u.started
          OBVIOUS
        <5>2. a \in Nat /\ b \in Nat /\ c \in Nat /\ ua = a + 1 /\ ub = b /\ uc = c + 1 /\ ua + ub = uc
          BY ONLY <1>1, <1>15, <3>1, <4>1, <5>1
        <5>3. a + b = c
          BY ONLY <5>2
        <5> QED
          BY ONLY <5>1, <5>3
      <4> QED
        BY ONLY <3>3, <4>2
    <3>4. CASE mode = "deferred"
      <4>1. u.live = t.live /\ u.deferred = t.deferred + 1 /\ u.live \in Nat /\ u.deferred \in Nat
        BY ONLY <1>5, <3>4
      <4>2. t.live + t.deferred = t.started
        <5>1. PICK a, b, c, ua, ub, uc : /\ a = t.live /\ b = t.deferred /\ c = t.started
                                        /\ ua = u.live /\ ub = u.deferred /\ uc = u.started
          OBVIOUS
        <5>2. a \in Nat /\ b \in Nat /\ c \in Nat /\ ua = a /\ ub = b + 1 /\ uc = c + 1 /\ ua + ub = uc
          BY ONLY <1>1, <1>15, <3>1, <4>1, <5>1
        <5>3. a + b = c
          BY ONLY <5>2
        <5> QED
          BY ONLY <5>1, <5>3
      <4> QED
        BY ONLY <3>4, <4>2
    <3> QED
      BY <3>2, <3>3, <3>4
  <2>3. t.slotted \subseteq DOMAIN s.byStep /\ \A m \in t.slotted : Resolved(s, m) \/ WaitsFor(t, m)
    BY <2>2 DEF Counted
  <2>4. \A m : WaitsFor(t, m) => WaitsFor(u, m)
    BY <1>2 DEF WaitsFor
  <2>5. mode = "deferred" /\ shown # {} => WaitsFor(u, n)
    <3> SUFFICES ASSUME mode = "deferred", shown # {} PROVE WaitsFor(u, n)
      OBVIOUS
    <3>1. u.held.events = Append(t.held.events, e)
      OBVIOUS
    <3>2. PICK i : i = Len(t.held.events) + 1 /\ i \in DOMAIN u.held.events /\ u.held.events[i] = e
      BY <1>1, <3>1, SMTT(30)
    <3> QED
      BY <3>2 DEF WaitsFor
  <2> QED
    BY <1>11, <1>12, <2>2, <2>3, <2>4, <2>5
<1>16. u.flush = FALSE
  OBVIOUS
<1>17. (\E i \in DOMAIN q.items : ~Bare(q.items[i])) => u.live > 0 \/ (u.flush /\ u.deferred > 0)
  BY ONLY <1>10
<1>18. u.live = u.started => \A m \in u.slotted : Resolved(q, m)
  BY ONLY <1>14
<1>19. u.live + u.deferred = u.started /\ (u.at = "scenario" \/ u.flush) =>
         \A m \in u.slotted : Resolved(q, m) \/ WaitsFor(u, m)
  BY ONLY <1>15
<1> QED
  BY <1>6, <1>7, <1>8, <1>13, <1>17, <1>18, <1>19, CountedIs

LEMMA CountedEmits ==
  ASSUME NEW s \in Scenes, NEW q \in Scenes, NEW t \in Tasks, NEW u \in Tasks, Counted(s, t), t.flush,
         t.held.events # <<>>, u.held.events = Tail(t.held.events),
         \A m \in DOMAIN s.byStep :
           /\ m \in DOMAIN q.byStep
           /\ Resolved(s, m) \/ (Head(t.held.events).type = "vars" /\ Head(t.held.events).step = m) => Resolved(q, m),
         u.live = t.live, u.deferred = t.deferred, u.started = t.started, u.slotted = t.slotted,
         u.flush = t.flush, u.at = t.at, u.open = t.open
  PROVE  Counted(q, u)
<1>1. t.held.events \in Seq(VarsEvents \cup ContentEvents)
  BY DEF Tasks, Holdings
<1>2. PICK k : k \in Nat /\ Len(t.held.events) = k + 1 /\ DOMAIN t.held.events = 1..(k + 1) /\ DOMAIN u.held.events = 1..k
               /\ Head(t.held.events) = t.held.events[1] /\ \A i \in 1..k : u.held.events[i] = t.held.events[i + 1]
  <2>1. PICK k : k = Len(t.held.events) - 1
    OBVIOUS
  <2>2. PICK held, rest : held = t.held.events /\ rest = u.held.events
    OBVIOUS
  <2>3. held \in Seq(VarsEvents \cup ContentEvents) /\ held # <<>> /\ rest = Tail(held) /\ k = Len(held) - 1
    BY <1>1, <2>1, <2>2
  <2>4. k \in Nat /\ Len(held) = k + 1
    BY ONLY <2>3
  <2>5. DOMAIN held = 1..(k + 1) /\ Head(held) = held[1]
    BY ONLY <2>3, <2>4
  <2>6. DOMAIN rest = 1..k /\ \A i \in 1..k : rest[i] = held[i + 1]
    BY ONLY <2>3, <2>4
  <2> QED
    BY ONLY <2>2, <2>4, <2>5, <2>6
<1>3. t.deferred > 0
  BY DEF Counted
<1>4. \A i \in DOMAIN u.held.events : u.held.events[i].type = "vars" => u.held.events[i].vars # {}
  <2>1. \A i \in 1..k : i + 1 \in 1..(k + 1)
    BY <1>2
  <2> QED
    BY <1>2, <2>1 DEF Counted
<1>5. \A m : WaitsFor(t, m) => WaitsFor(u, m) \/ (Head(t.held.events).type = "vars" /\ Head(t.held.events).step = m)
  <2> SUFFICES ASSUME NEW m, NEW i \in 1..(k + 1), t.held.events[i].type = "vars", t.held.events[i].step = m,
                      i # 1
               PROVE  WaitsFor(u, m)
    BY <1>2, ZenonT(30) DEF WaitsFor
  <2>1. i - 1 \in 1..k /\ i - 1 + 1 = i
    BY <1>2
  <2> QED
    BY <1>2, <2>1, ZenonT(30) DEF WaitsFor
<1>6. \A d \in DOMAIN u.open : /\ u.open[d].mode = "live" => u.live > 0
                               /\ u.open[d].mode = "deferred" => u.deferred > 0
  BY DEF Counted
<1>7. u.live + u.deferred <= u.started /\ u.slotted \subseteq DOMAIN q.byStep
  BY DEF Counted
<1>8. u.live = u.started => \A m \in u.slotted : Resolved(q, m)
  BY DEF Counted
<1>9. u.live + u.deferred = u.started => \A m \in u.slotted : Resolved(q, m) \/ WaitsFor(u, m)
  BY <1>5 DEF Counted
<1> QED
  BY <1>3, <1>4, <1>6, <1>7, <1>8, <1>9 DEF Counted

LEMMA CountedCloses ==
  ASSUME NEW s \in Scenes, NEW t \in Tasks, NEW u \in Tasks, Counted(s, t), t.at = "scenario", ~t.flush,
         u.at = "closing", u.held = IF u.flush THEN t.held ELSE NoHeld,
         u.live = t.live, u.deferred = t.deferred, u.started = t.started, u.slotted = t.slotted, u.open = t.open
  PROVE  Counted(s, u)
<1>1. CASE u.flush
  BY <1>1 DEF Counted, WaitsFor
<1>2. CASE ~u.flush
  <2>1. u.held.events = <<>>
    BY <1>2 DEF NoHeld
  <2> QED
    BY <1>2, <2>1 DEF Counted
<1> QED
  BY <1>1, <1>2

-----------------------------------------------------------------------------
\* What an event makes of the scenario it is about.
After(s, e) ==
  CASE e.type \in {"step_finished", "vars", "evidence", "attempt"} ->
         IF e.step \in DOMAIN s.byStep
         THEN [s EXCEPT !.items[s.byStep[e.step]] = Changed(s.items[s.byStep[e.step]], e)] ELSE s
    [] e.type \in {"step_started", "step_skipped", "annotation"} ->
         Pushed(s, IF e.type = "step_started" THEN Item("step", "open", e.vars)
                   ELSE IF e.type = "step_skipped" THEN Item("step", "skipped", {})
                   ELSE Item("annotation", "none", {}),
                IF e.parent \in DOMAIN s.byStep THEN s.byStep[e.parent] ELSE 0, e.type # "annotation")
    [] e.type = "scenario_finished" -> [s EXCEPT !.status = e.status, !.coverage = e.coverage]

LEMMA SceneAfter ==
  ASSUME NEW r \in Reports, NEW e, SceneEvent(e), Reaches(r, e), NEW s, s = Scenario(r, e)
  PROVE  s \in Scenes /\ After(s, e) \in Scenes
         /\ Placed(r, Apply(r, e), FileOf(r, e), e.scenario, After(s, e))
<1>1. s \in Scenes
  BY SceneIn
<1>2. CASE e.type \in {"step_finished", "vars", "evidence", "attempt"}
  <2>1. CASE e.step \notin DOMAIN s.byStep
    <3>1. After(s, e) = s
      BY <1>2, <2>1 DEF After
    <3>2. Apply(r, e) = InScenario(r, e, s)
      BY <1>2, <2>1 DEF Apply, InStep
    <3> QED
      BY <1>1, <3>1, <3>2, PutScenario DEF SceneEvent
  <2>2. CASE e.step \in DOMAIN s.byStep
    <3>1. PICK b, item, new : b = s.byStep[e.step] /\ item = s.items[b] /\ new = Changed(item, e)
      OBVIOUS
    <3>2. b \in DOMAIN s.items /\ item \in Items /\ item = Step(r, e)
      BY <1>1, <2>2, <3>1, SceneTyped DEF Step
    <3>3. new \in Items
      BY <1>2, <3>1, <3>2, ChangedItem
    <3>4. PICK q : q = [s EXCEPT !.items[b] = new]
      OBVIOUS
    <3>5. q \in Scenes
      BY <1>1, <3>2, <3>3, <3>4, ItemPut
    <3>6. After(s, e) = q
      BY <1>2, <2>2, <3>1, <3>4 DEF After
    <3>7. Apply(r, e) = InStep(r, e, new)
      BY <1>2, <3>1, <3>2 DEF Apply, Changed
    <3>8. Apply(r, e) = InScenario(r, e, q)
      BY <2>2, <3>1, <3>4, <3>7 DEF InStep
    <3> QED
      BY <1>1, <3>5, <3>6, <3>8, PutScenario DEF SceneEvent
  <2> QED
    BY <2>1, <2>2
<1>3. CASE e.type \in {"step_started", "step_skipped", "annotation"}
  <2>1. PICK item, up, numbered :
          /\ item = IF e.type = "step_started" THEN Item("step", "open", e.vars)
                    ELSE IF e.type = "step_skipped" THEN Item("step", "skipped", {})
                    ELSE Item("annotation", "none", {})
          /\ up = IF e.parent \in DOMAIN s.byStep THEN s.byStep[e.parent] ELSE 0
          /\ numbered = (e.type # "annotation")
    OBVIOUS
  <2>2. item \in Items /\ item.evidence = <<>>
    BY <2>1 DEF Item, Items, SceneEvent, Statuses
  <2>3. up \in Nat /\ numbered \in BOOLEAN
    BY <1>1, <2>1, SceneTyped
  <2>4. PICK q : q = Pushed(s, item, up, numbered)
    OBVIOUS
  <2>5. q \in Scenes
    BY <1>1, <2>2, <2>3, <2>4, PushedScene
  <2>6. After(s, e) = q
    BY <1>3, <2>1, <2>4 DEF After
  <2>7. Apply(r, e) = Push(r, e, item, numbered)
    BY <1>3, <2>1 DEF Apply
  <2>8. Apply(r, e) = InScenario(r, e, q)
    BY <2>1, <2>4, <2>7 DEF Push, Pushed
  <2> QED
    BY <1>1, <2>5, <2>6, <2>8, PutScenario DEF SceneEvent
<1>4. CASE e.type = "scenario_finished"
  <2>1. PICK q : q = [s EXCEPT !.status = e.status, !.coverage = e.coverage]
    OBVIOUS
  <2>2. q \in Scenes
    BY <1>1, <1>4, <2>1 DEF Scenes, SceneRecords, SceneEvent
  <2>3. After(s, e) = q
    BY <1>4, <2>1 DEF After
  <2>4. Apply(r, e) = InScenario(r, e, q)
    BY <1>4, <2>1 DEF Apply
  <2> QED
    BY <1>1, <2>2, <2>3, <2>4, PutScenario DEF SceneEvent
<1> QED
  BY <1>2, <1>3, <1>4 DEF SceneEvent, SceneKinds

-----------------------------------------------------------------------------
(***************************************************************************)
(* A step of one file leaves what the other pages tell.                    *)
(***************************************************************************)
Aside(f) ==
  \A g \in Files : g # f =>
    /\ run'[g] = run[g] /\ result'[g] = result[g]
    /\ Started(g)' => Started(g) /\ InReport(g)' = InReport(g)

LEMMA AsideTells ==
  ASSUME TellsInv, NEW f \in Files, Distinct => Aside(f), Distinct /\ Started(f)' => (FileTells(f))'
  PROVE  TellsInv'
<1>1. Distinct' <=> Distinct
  BY DEF Distinct
<1>2. ASSUME Distinct, NEW g \in Files, g # f, Started(g)' PROVE (FileTells(g))'
  <2>1. /\ run'[g] = run[g] /\ result'[g] = result[g] /\ Started(g) /\ InReport(g)' = InReport(g)
    BY <1>2 DEF Aside
  <2>2. FileTells(g)
    BY <1>2, <2>1 DEF TellsInv
  <2>3. Told(g)' = Told(g) /\ Scene(g)' = Scene(g)
    BY <2>1 DEF Told, Scene
  <2> QED
    BY <2>1, <2>2, <2>3 DEF FileTells, ClosedTell
<1> QED
  BY <1>1, <1>2 DEF TellsInv

LEMMA OnlyAside ==
  ASSUME EvidenceInv, Distinct, NEW f \in Files, Only(f), OnlyPage(f)
  PROVE  Aside(f)
<1> SUFFICES ASSUME NEW g \in Files, g # f
             PROVE  /\ run'[g] = run[g] /\ result'[g] = result[g]
                    /\ Started(g)' => Started(g) /\ InReport(g)' = InReport(g)
  BY DEF Aside
<1>1. run'[g] = run[g] /\ result'[g] = result[g]
  BY DEF Only, EvidenceInv, TraceTypes
<1>2. ASSUME Started(g)' PROVE Started(g) /\ InReport(g)' = InReport(g)
  <2>1. Started(g) /\ report'.index = report.index
    BY <1>1, <1>2 DEF Started, OnlyPage
  <2>2. PathOf[f] # PathOf[g]
    BY DEF Distinct
  <2>3. /\ report.index[PathOf[g]] \in DOMAIN report.files
        /\ report.index[PathOf[g]] # report.index[PathOf[f]]
    BY <2>1, <2>2, OwnIndex DEF Started
  <2> QED
    BY <2>1, <2>3 DEF OnlyPage, InReport
<1> QED
  BY <1>1, <1>2

\* The scenario at work, before the step.
AtWork(f) == run[f].at \in {"scenario", "closing"}

LEMMA WorkFacts ==
  ASSUME EvidenceInv, NEW f \in plan.files, InProgress(f)
  PROVE  /\ f \in Files /\ TraceTypes /\ run[f] \in Tasks /\ PathOf[f] \in Paths /\ report \in Reports
         /\ report.incomplete /\ ScenarioInv(f) /\ SecretsInv(f) /\ PassingInv(f) /\ plan.values \subseteq Values
         /\ run[f].scenarios \in Nat /\ (AtWork(f) => run[f].scenarios > 0)
         /\ Distinct => OwnPage(f) /\ Started(f)
<1>1. /\ f \in Files /\ TraceTypes /\ run[f] \in Tasks /\ PathOf[f] \in Paths /\ report \in Reports
      /\ plan.values \subseteq Values /\ report.incomplete
  BY StreamOpen, TraceAssumption DEF EvidenceInv, TraceTypes
<1>2. ScenarioInv(f) /\ SecretsInv(f) /\ PassingInv(f)
  BY <1>1 DEF EvidenceInv, FileInv
<1>3. run[f].scenarios \in Nat /\ run[f].done \in Seq(Outcomes)
  BY <1>1 DEF Tasks
<1>4. AtWork(f) => run[f].scenarios > 0
  <2>1. Len(run[f].done) \in Nat
    BY <1>3
  <2> QED
    BY <1>2, <1>3, <2>1 DEF AtWork, ScenarioInv
<1>5. Distinct => OwnPage(f)
  BY <1>1 DEF EvidenceInv, PageInv
<1>6. OwnPage(f) => Started(f)
  BY DEF OwnPage, Started, InProgress
<1> QED
  BY <1>1, <1>2, <1>3, <1>4, <1>5, <1>6

LEMMA OwnScenes ==
  ASSUME EvidenceInv, Distinct, NEW f \in plan.files, InProgress(f)
  PROVE  /\ report.index[PathOf[f]] \in DOMAIN report.files /\ InReport(f) \in Pages
         /\ DOMAIN InReport(f).scenarios = 1..run[f].scenarios
         /\ \A k \in 1..run[f].scenarios : InReport(f).scenarios[k] \in Scenes
         /\ run[f].scenarios > 0 => Scene(f) \in Scenes
<1>1. report \in Reports /\ PathOf[f] \in Paths /\ OwnPage(f) /\ run[f].scenarios \in Nat
  BY WorkFacts
<1>2. report.index[PathOf[f]] \in DOMAIN report.files /\ InReport(f) \in Pages
  BY <1>1, PageIn DEF OwnPage, InReport
<1>3. PICK list : list = InReport(f).scenarios
  OBVIOUS
<1>4. list \in Seq(Scenes) /\ Len(list) = run[f].scenarios
  BY <1>1, <1>2, <1>3 DEF Pages, OwnPage
<1>5. DOMAIN list = 1..run[f].scenarios /\ \A k \in 1..run[f].scenarios : list[k] \in Scenes
  BY <1>1, <1>4
<1>6. run[f].scenarios > 0 => run[f].scenarios \in 1..run[f].scenarios
  BY <1>1
<1> QED
  BY <1>2, <1>3, <1>5, <1>6 DEF Scene

\* What becomes of the scenario at work: nothing, or what its event makes of it.
Redrawn(f, q) ==
  \/ report' = report /\ q = Scene(f)
  \/ \E e : /\ SceneEvent(e) /\ e.file = PathOf[f] /\ e.scenario = run[f].scenarios
            /\ report' = Fold(report, e) /\ q = After(Scene(f), e)

LEMMA PageRedrawn ==
  ASSUME EvidenceInv, Distinct, NEW f \in plan.files, InProgress(f), run[f].scenarios > 0, NEW q, Redrawn(f, q)
  PROVE  /\ Scene(f) \in Scenes /\ q \in Scenes /\ OnlyPage(f)
         /\ InReport(f)'.panicked = InReport(f).panicked
         /\ DOMAIN InReport(f)'.scenarios = 1..run[f].scenarios
         /\ \A m \in 1..run[f].scenarios : m # run[f].scenarios =>
              InReport(f)'.scenarios[m] = InReport(f).scenarios[m]
         /\ InReport(f)'.scenarios[run[f].scenarios] = q
<1>1. /\ report \in Reports /\ PathOf[f] \in Paths /\ OwnPage(f) /\ run[f].scenarios \in Nat /\ report.incomplete
  BY WorkFacts
<1>2. PICK i, k : i = report.index[PathOf[f]] /\ k = run[f].scenarios
  OBVIOUS
<1>3. /\ i \in DOMAIN report.files /\ InReport(f) = report.files[i] /\ i # 0
      /\ DOMAIN report.files[i].scenarios = 1..k /\ k \in 1..k /\ Scene(f) = report.files[i].scenarios[k]
      /\ Scene(f) \in Scenes
  <2>1. /\ i \in DOMAIN report.files /\ DOMAIN InReport(f).scenarios = 1..k /\ Scene(f) \in Scenes
    BY <1>2, OwnScenes
  <2>2. InReport(f) = report.files[i] /\ i # 0
    BY <1>1, <1>2 DEF InReport, OwnPage
  <2>3. k \in 1..k
    BY <1>1, <1>2
  <2>4. Scene(f) = report.files[i].scenarios[k]
    BY <1>2, <2>2 DEF Scene
  <2> QED
    BY <2>1, <2>2, <2>3, <2>4
<1>4. CASE report' = report /\ q = Scene(f)
  <2>1. OnlyPage(f)
    BY <1>1, <1>4 DEF OnlyPage
  <2>2. InReport(f)' = report.files[i]
    BY <1>2, <1>4 DEF InReport
  <2> QED
    BY <1>2, <1>3, <1>4, <2>1, <2>2
<1>5. ASSUME NEW e, SceneEvent(e), e.file = PathOf[f], e.scenario = run[f].scenarios,
             report' = Fold(report, e), q = After(Scene(f), e)
      PROVE  /\ q \in Scenes /\ Placed(report, report', i, k, q)
  <2>1. FileOf(report, e) = i /\ Reaches(report, e) /\ Scenario(report, e) = Scene(f)
    BY <1>2, <1>3, <1>5 DEF FileOf, Reaches, File, Scenario
  <2>2. report' = Apply(report, e)
    BY <1>1, <1>5 DEF Fold
  <2>3. PICK s : s = Scenario(report, e)
    OBVIOUS
  <2>4. After(s, e) \in Scenes /\ Placed(report, Apply(report, e), FileOf(report, e), e.scenario, After(s, e))
    BY <1>1, <1>5, <2>1, <2>3, SceneAfter
  <2> QED
    BY <1>2, <1>5, <2>1, <2>2, <2>3, <2>4
<1>6. ASSUME q \in Scenes, Placed(report, report', i, k, q)
      PROVE  /\ OnlyPage(f) /\ InReport(f)'.panicked = InReport(f).panicked
             /\ DOMAIN InReport(f)'.scenarios = 1..k
             /\ \A m \in 1..k : m # k => InReport(f)'.scenarios[m] = InReport(f).scenarios[m]
             /\ InReport(f)'.scenarios[k] = q
  <2>1. OnlyPage(f)
    BY <1>1, <1>2, <1>6 DEF OnlyPage, Placed
  <2>2. InReport(f)' = report'.files[i]
    BY <1>2, <1>6 DEF InReport, Placed
  <2> QED
    BY <1>3, <1>6, <2>1, <2>2 DEF Placed
<1>7. CASE \E e : /\ SceneEvent(e) /\ e.file = PathOf[f] /\ e.scenario = run[f].scenarios
                  /\ report' = Fold(report, e) /\ q = After(Scene(f), e)
  BY <1>2, <1>3, <1>5, <1>6, <1>7
<1> QED
  BY <1>4, <1>7 DEF Redrawn

\* A scenario that goes on, and is still told as it stands.
LEMMA SceneGoesOn ==
  ASSUME EvidenceInv, TellsInv, NEW f \in plan.files, AtWork(f), run'[f].at \in {"scenario", "closing"},
         run' = [run EXCEPT ![f] = run'[f]], result' = result, artifacts \subseteq artifacts',
         \A d \in artifacts' : d \in artifacts \/ d.file = f,
         run'[f].done = run[f].done, run'[f].scenarios = run[f].scenarios,
         NEW q, Redrawn(f, q),
         Distinct /\ Scene(f) \in Scenes /\ q \in Scenes /\ SceneNow(Scene(f), run[f]) => SceneNow(q, run'[f])
  PROVE  TellsInv'
<1>1. /\ f \in Files /\ run[f].scenarios > 0 /\ run[f].scenarios \in Nat /\ InProgress(f)
      /\ ScenarioInv(f) /\ run[f].done \in Seq(Outcomes) /\ TraceTypes
  <2>1. InProgress(f)
    BY DEF AtWork, InProgress
  <2> QED
    BY <2>1, WorkFacts DEF Tasks
<1>2. Only(f)
  BY <1>1 DEF Only, TraceTypes
<1>3. ASSUME Distinct PROVE Aside(f) /\ (FileTells(f))'
  <2>1. /\ Scene(f) \in Scenes /\ q \in Scenes /\ OnlyPage(f)
        /\ DOMAIN InReport(f)'.scenarios = 1..run[f].scenarios
        /\ \A m \in 1..run[f].scenarios : m # run[f].scenarios =>
             InReport(f)'.scenarios[m] = InReport(f).scenarios[m]
        /\ InReport(f)'.scenarios[run[f].scenarios] = q
    BY <1>1, <1>3, PageRedrawn
  <2>2. FileTells(f)
    BY <1>1, <1>3, WorkFacts DEF TellsInv
  <2>3. SceneNow(q, run'[f]) /\ q.status = "open"
    BY <1>3, <2>1, <2>2 DEF FileTells, AtWork, SceneNow
  <2>4. Told(f)' = run[f].done /\ Told(f) = run[f].done
    BY DEF Told, AtWork
  <2>5. DOMAIN InReport(f).scenarios = 1..run[f].scenarios
    BY <1>1, <1>3, OwnScenes
  <2>6. (ClosedTell(f))'
    <3> SUFFICES ASSUME NEW k \in DOMAIN InReport(f)'.scenarios, NEW s, s = InReport(f)'.scenarios[k],
                        s.status # "open"
                 PROVE  /\ Explained(s)
                        /\ ~result'[f].panicked => /\ k \in DOMAIN Told(f)' /\ s.status = (Told(f)')[k].status
                                                   /\ SameSteps(s, (Told(f)')[k].steps)
      BY DEF ClosedTell
    <3>1. k \in 1..run[f].scenarios /\ s = InReport(f).scenarios[k]
      BY <2>1, <2>3
    <3> QED
      BY <2>2, <2>4, <2>5, <3>1 DEF FileTells, ClosedTell
  <2>7. Scene(f)' = q
    BY <2>1 DEF Scene
  <2>8. \A k \in DOMAIN run'[f].done : InReport(f)'.scenarios[k].status # "open"
    <3> SUFFICES ASSUME NEW k \in DOMAIN run[f].done PROVE InReport(f)'.scenarios[k].status # "open"
      OBVIOUS
    <3>1. InReport(f).scenarios[k].status # "open"
      BY <2>2 DEF FileTells, AtWork
    <3>2. Len(run[f].done) + 1 = run[f].scenarios
      BY <1>1 DEF ScenarioInv, AtWork
    <3>3. k \in 1..run[f].scenarios /\ k # run[f].scenarios
      <4>1. DOMAIN run[f].done = 1..Len(run[f].done) /\ Len(run[f].done) \in Nat
        BY <1>1
      <4> QED
        BY <1>1, <3>2, <4>1
    <3> QED
      BY <2>1, <3>1, <3>3
  <2> QED
    BY <1>1, <1>2, <1>3, <2>1, <2>3, <2>6, <2>7, <2>8, OnlyAside DEF FileTells
<1> QED
  BY <1>1, <1>3, AsideTells

-----------------------------------------------------------------------------
(***************************************************************************)
(* What the events of a step make of the scenario they are about.          *)
(***************************************************************************)
LEMMA StepChanged ==
  ASSUME NEW s \in Scenes, NEW e, SceneEvent(e), e.type \in {"vars", "evidence", "attempt"},
         e.type = "vars" => e.vars # {}, NEW q \in Scenes, q = After(s, e)
  PROVE  /\ SameTree(s, q) /\ q.status = s.status
         /\ \A m \in DOMAIN s.byStep : m \in DOMAIN q.byStep /\ (Resolved(s, m) => Resolved(q, m))
         /\ e.type = "vars" /\ e.step \in DOMAIN s.byStep => Resolved(q, e.step)
<1>1. CASE e.step \notin DOMAIN s.byStep
  <2>1. q = s
    BY <1>1 DEF After
  <2> QED
    BY <1>1, <2>1 DEF SameTree
<1>2. CASE e.step \in DOMAIN s.byStep
  <2>1. PICK b, item, new : b = s.byStep[e.step] /\ item = s.items[b] /\ new = Changed(item, e)
    OBVIOUS
  <2>2. b \in DOMAIN s.items /\ item \in Items
    BY <1>2, <2>1, SceneTyped
  <2>3. /\ new.status = item.status /\ new.kind = item.kind
        /\ new.vars = IF e.type = "vars" THEN e.vars ELSE item.vars
    BY <2>1, <2>2 DEF Changed, Items
  <2>4. q = [s EXCEPT !.items[b] = new]
    BY <1>2, <2>1 DEF After
  <2>5. s \in SceneRecords /\ s.items \in Seq(Items)
    BY DEF Scenes, SceneRecords
  <2>6. /\ q.items = [s.items EXCEPT ![b] = new] /\ q.parents = s.parents /\ q.byStep = s.byStep
        /\ q.status = s.status
    BY <2>4, <2>5 DEF SceneRecords
  <2>7. /\ DOMAIN q.items = DOMAIN s.items /\ q.items[b] = new
        /\ \A i \in DOMAIN s.items : i # b => q.items[i] = s.items[i]
    BY <2>2, <2>5, <2>6
  <2>8. SameTree(s, q)
    BY <2>1, <2>3, <2>6, <2>7 DEF SameTree
  <2>9. \A m \in DOMAIN s.byStep : Resolved(s, m) => Resolved(q, m)
    <3> SUFFICES ASSUME NEW m \in DOMAIN s.byStep, Resolved(s, m) PROVE Resolved(q, m)
      OBVIOUS
    <3>1. s.byStep[m] \in DOMAIN s.items
      BY SceneTyped
    <3>2. s.items[s.byStep[m]].vars # {}
      BY DEF Resolved
    <3>3. new.vars # {} \/ s.byStep[m] # b
      BY <2>1, <2>3, <3>2
    <3>4. q.items[s.byStep[m]].vars # {}
      BY <2>7, <3>1, <3>2, <3>3
    <3> QED
      BY <2>6, <3>4 DEF Resolved
  <2>10. e.type = "vars" => Resolved(q, e.step)
    BY <2>1, <2>3, <2>6, <2>7, ZenonT(30) DEF Resolved
  <2> QED
    BY <2>6, <2>8, <2>9, <2>10
<1> QED
  BY <1>1, <1>2

LEMMA StepMarked ==
  ASSUME NEW s \in Scenes, NEW e, e.type = "step_finished", e.step \in DOMAIN s.byStep, NEW q, q = After(s, e)
  PROVE  Marks(s, q, s.byStep[e.step], e.status)
<1>1. PICK b, item, new : b = s.byStep[e.step] /\ item = s.items[b] /\ new = [item EXCEPT !.status = e.status]
  OBVIOUS
<1>2. b \in DOMAIN s.items
  BY <1>1, SceneTyped
<1>3. q = [s EXCEPT !.items[b] = new]
  BY <1>1 DEF After, Changed
<1>4. s \in SceneRecords /\ s.items \in Seq(Items)
  BY DEF Scenes, SceneRecords
<1>5. /\ q.items = [s.items EXCEPT ![b] = new] /\ q.parents = s.parents /\ q.byStep = s.byStep
      /\ q.status = s.status
  BY <1>3, <1>4 DEF SceneRecords
<1>6. /\ DOMAIN q.items = DOMAIN s.items /\ q.items[b] = new
      /\ \A i \in DOMAIN s.items : i # b => q.items[i] = s.items[i]
  BY <1>2, <1>4, <1>5
<1> QED
  BY <1>1, <1>5, <1>6 DEF Marks

\* The item an event adds, and where it goes.
ItemOf(e) ==
  IF e.type = "step_started" THEN Item("step", "open", e.vars)
  ELSE IF e.type = "step_skipped" THEN Item("step", "skipped", {}) ELSE Item("annotation", "none", {})
Under(s, e) == IF e.parent \in DOMAIN s.byStep THEN s.byStep[e.parent] ELSE 0

Grown(s, q, item, up, e) ==
  /\ Adds(s, q, item, up) /\ item.evidence = <<>> /\ item.attempts = 0
  /\ item.kind = (IF e.type = "annotation" THEN "annotation" ELSE "step")
  /\ item.status = (IF e.type = "step_started" THEN "open"
                    ELSE IF e.type = "step_skipped" THEN "skipped" ELSE "none")
  /\ item.vars = (IF e.type = "step_started" THEN e.vars ELSE {})
  /\ Len(q.byStep) = Len(s.byStep) + (IF e.type = "annotation" THEN 0 ELSE 1)
  /\ e.type # "annotation" => q.byStep[Len(s.byStep) + 1] = Len(s.items) + 1

LEMMA ItemAdded ==
  ASSUME NEW s \in Scenes, NEW e, SceneEvent(e), e.type \in {"step_started", "step_skipped", "annotation"},
         NEW q, q = After(s, e), NEW item, item = ItemOf(e), NEW up, up = Under(s, e)
  PROVE  Grown(s, q, item, up, e)
<1> USE DEF ItemOf, Under, Grown
<1>1. item \in Items
  BY DEF Item, Items, SceneEvent, Statuses
<1>2. up \in Nat
  BY SceneTyped
<1>3. /\ item.evidence = <<>> /\ item.attempts = 0
      /\ item.kind = (IF e.type = "annotation" THEN "annotation" ELSE "step")
      /\ item.status = (IF e.type = "step_started" THEN "open"
                        ELSE IF e.type = "step_skipped" THEN "skipped" ELSE "none")
      /\ item.vars = (IF e.type = "step_started" THEN e.vars ELSE {})
  BY DEF Item
<1>4. PICK more : more = IF e.type = "annotation" THEN s.byStep ELSE Append(s.byStep, Len(s.items) + 1)
  OBVIOUS
<1>5. q = [s EXCEPT !.items = Append(@, item), !.parents = Append(@, up), !.byStep = more]
  BY <1>4 DEF After, Pushed
<1>6. more = s.byStep \/ more = Append(s.byStep, Len(s.items) + 1)
  BY <1>4
<1>7. /\ Adds(s, q, item, up) /\ q.byStep = more
      /\ Len(s.byStep) \in Nat
      /\ more = Append(s.byStep, Len(s.items) + 1) =>
           Len(more) = Len(s.byStep) + 1 /\ more[Len(s.byStep) + 1] = Len(s.items) + 1
  <2>1. s \in Scenes
    OBVIOUS
  <2> QED
    <3>1. Adds(s, q, item, up)
      BY ONLY <1>1, <1>2, <1>5, <1>6, <2>1, PushedAdds, Zenon
    <3>2. q.byStep = more
      <4>1. PICK list, ups : list = Append(s.items, item) /\ ups = Append(s.parents, up)
        OBVIOUS
      <4>2. q = [s EXCEPT !.items = list, !.parents = ups, !.byStep = more] /\ s \in SceneRecords
        BY <1>5, <4>1 DEF Scenes
      <4> QED
        BY ONLY <4>2 DEF SceneRecords
    <3>3. Len(s.byStep) \in Nat /\ s.byStep \in Seq(Nat) /\ Len(s.items) \in Nat
      BY SceneTyped
    <3> QED
      BY ONLY <3>1, <3>2, <3>3
<1>8. /\ Len(q.byStep) = Len(s.byStep) + (IF e.type = "annotation" THEN 0 ELSE 1)
      /\ e.type # "annotation" => q.byStep[Len(s.byStep) + 1] = Len(s.items) + 1
  <2>1. CASE e.type = "annotation"
    BY ONLY <1>4, <1>7, <2>1
  <2>2. CASE e.type # "annotation"
    BY ONLY <1>4, <1>7, <2>2
  <2> QED
    BY <2>1, <2>2
<1> QED
  BY <1>3, <1>7, <1>8

\* The event's parent is the step around whatever comes next.
LEMMA ParentIs ==
  ASSUME NEW f, run[f].open \in Seq(Flights), NEW s \in Scenes, Calls(s, run[f].open)
  PROVE  (IF Parent(f) \in DOMAIN s.byStep THEN s.byStep[Parent(f)] ELSE 0) = Around(s, run[f].open)
<1>1. CASE run[f].open = <<>>
  <2>1. 0 \notin DOMAIN s.byStep
    BY SceneTyped
  <2> QED
    BY <1>1, <2>1 DEF Parent, Around
<1>2. CASE run[f].open # <<>>
  <2>1. Len(run[f].open) \in DOMAIN run[f].open
    BY <1>2
  <2>2. Parent(f) = run[f].open[Len(run[f].open)].step /\ Parent(f) \in DOMAIN s.byStep
    BY <1>2, <2>1 DEF Parent, Innermost, Calls
  <2> QED
    BY <1>2, <2>2 DEF Around, Shows
<1> QED
  BY <1>1, <1>2

LEMMA SceneKeeps ==
  ASSUME NEW s \in Scenes, NEW q \in Scenes, NEW t \in Tasks, NEW u \in Tasks, SceneNow(s, t),
         SameTree(s, q), q.status = s.status, u.open = t.open, u.failed = t.failed, u.told = t.told,
         u.steps = t.steps, u.at = t.at, Counted(q, u)
  PROVE  SceneNow(q, u)
<1>1. t.open \in Seq(Flights)
  BY DEF Tasks
<1>2. Calls(q, t.open)
  BY <1>1, TreeCalls DEF SceneNow
<1>3. Failures(q, t.open, t.failed)
  BY <1>1, TreeFailures DEF SceneNow
<1>4. TopsTold(q, t.open, t.told)
  BY TreeTops DEF SceneNow
<1>5. Len(q.byStep) = t.steps
  BY DEF SceneNow, SameTree
<1> QED
  BY <1>2, <1>3, <1>4, <1>5 DEF SceneNow

-----------------------------------------------------------------------------
(***************************************************************************)
(* The steps of a file at work, and what they leave of its scenario.       *)
(***************************************************************************)
\* The counters, the calls and what was told stay.
Same(t, u) ==
  /\ u.open = t.open /\ u.failed = t.failed /\ u.told = t.told /\ u.steps = t.steps /\ u.at = t.at
  /\ u.live = t.live /\ u.deferred = t.deferred /\ u.started = t.started /\ u.slotted = t.slotted
  /\ u.flush = t.flush

LEMMA SceneStays ==
  ASSUME NEW s \in Scenes, NEW q \in Scenes, NEW t \in Tasks, NEW u \in Tasks, SceneNow(s, t), Same(t, u),
         SameTree(s, q), q.status = s.status,
         \A m \in DOMAIN s.byStep : m \in DOMAIN q.byStep /\ (Resolved(s, m) => Resolved(q, m)),
         q = s \/ t.live > 0,
         \/ u.held.events = t.held.events
         \/ t.deferred > 0 /\ \E e : e.type # "vars" /\ u.held.events = Append(t.held.events, e)
  PROVE  SceneNow(q, u)
<1>1. Counted(s, t)
  BY DEF SceneNow
<1>2. \A d \in DOMAIN u.open : d \in DOMAIN t.open /\ u.open[d].mode = t.open[d].mode
  BY DEF Same
<1>3. \A i \in DOMAIN q.items : Bare(q.items[i]) \/ (\E j \in DOMAIN s.items : ~Bare(s.items[j]))
                                \/ t.live > 0 \/ (t.flush /\ t.deferred > 0)
  OBVIOUS
<1>4. /\ u.live = t.live /\ u.deferred = t.deferred /\ u.started = t.started /\ u.slotted = t.slotted
      /\ u.flush = t.flush /\ u.at = t.at
  BY DEF Same
<1>5. Counted(q, u)
  BY <1>1, <1>2, <1>3, <1>4, CountedKeeps
<1> QED
  BY <1>5, SceneKeeps DEF Same

LEMMA StepGoesOn ==
  ASSUME EvidenceInv, TellsInv, NEW f, Records(f), NEW q, Redrawn(f, q),
         Distinct /\ Scene(f) \in Scenes /\ q \in Scenes /\ SceneNow(Scene(f), run[f]) => SceneNow(q, run'[f])
  PROVE  TellsInv'
<1>1. /\ f \in plan.files /\ AtWork(f) /\ run'[f].at \in {"scenario", "closing"} /\ result' = result
      /\ run' = [run EXCEPT ![f] = run'[f]] /\ run'[f].done = run[f].done /\ run'[f].scenarios = run[f].scenarios
  BY DEF Records, AtWork
<1>2. artifacts \subseteq artifacts' /\ \A d \in artifacts' : d \in artifacts \/ d.file = f
  BY RecordsOnly DEF Only
<1> QED
  BY <1>1, <1>2, SceneGoesOn

LEMMA TaskFacts ==
  ASSUME EvidenceInv, NEW f, Records(f)
  PROVE  /\ f \in plan.files /\ f \in Files /\ run \in [Files -> Tasks] /\ run[f] \in Tasks /\ run'[f] \in Tasks
         /\ PathOf[f] \in Paths /\ InProgress(f) /\ TraceTypes /\ run[f].at = "scenario" /\ ~run[f].flush
<1>1. f \in plan.files /\ f \in Files /\ run'[f] \in Tasks /\ run[f].at = "scenario"
  BY DEF Records
<1>2. TraceTypes /\ run \in [Files -> Tasks] /\ run[f] \in Tasks
  BY <1>1 DEF EvidenceInv, TraceTypes
<1>3. ~run[f].flush
  BY <1>1 DEF EvidenceInv, FileInv, ScenarioInv
<1> QED
  BY <1>1, <1>2, <1>3, TraceAssumption DEF InProgress

LEMMA SetsTell ==
  ASSUME EvidenceInv, TellsInv, NEW f \in plan.files,
         \/ \E v \in plan.values : Register(f, v)
         \/ \E on \in BOOLEAN : MarkSteps(f, on)
  PROVE  TellsInv'
<1>1. Records(f)
  BY RegisterRecords, MarkRecords
<1>2. /\ f \in Files /\ run[f] \in Tasks /\ run'[f] \in Tasks /\ run \in [Files -> Tasks]
  BY <1>1, TaskFacts
<1>3. report' = report
  BY DEF Register, MarkSteps
<1>4. Same(run[f], run'[f]) /\ run'[f].held = run[f].held
  <2>1. CASE \E v \in plan.values : Register(f, v)
    <3>1. PICK n, set : run' = [run EXCEPT ![f].effects = n, ![f].secrets = set]
      BY <2>1 DEF Register
    <3> QED
      BY ONLY <1>2, <3>1 DEF Same, Tasks
  <2>2. CASE \E on \in BOOLEAN : MarkSteps(f, on)
    <3>1. PICK n, on : run' = [run EXCEPT ![f].effects = n, ![f].marked = on]
      BY <2>2 DEF MarkSteps
    <3> QED
      BY ONLY <1>2, <3>1 DEF Same, Tasks
  <2> QED
    BY <2>1, <2>2
<1>5. PICK s : s = Scene(f)
  OBVIOUS
<1>6. Redrawn(f, s)
  BY <1>3, <1>5 DEF Redrawn
<1>7. s \in Scenes /\ SceneNow(s, run[f]) => SceneNow(s, run'[f])
  <2>1. SameTree(s, s)
    BY DEF SameTree
  <2> QED
    BY <1>2, <1>4, <2>1, SceneStays
<1> QED
  BY <1>1, <1>5, <1>6, <1>7, StepGoesOn

\* A step in flight that records is counted.
LEMMA InFlight ==
  ASSUME NEW f \in Files, run[f] \in Tasks, run[f].open # <<>>, NEW s \in Scenes, SceneNow(s, run[f])
  PROVE  /\ Mode(f) = "live" => run[f].live > 0
         /\ Mode(f) = "deferred" => run[f].deferred > 0
<1>1. run[f].open \in Seq(Flights)
  BY DEF Tasks
<1>2. Len(run[f].open) \in DOMAIN run[f].open
  BY <1>1
<1>3. Mode(f) = run[f].open[Len(run[f].open)].mode
  BY DEF Mode, Innermost
<1> QED
  BY <1>2, <1>3 DEF SceneNow, Counted

LEMMA RecordTells ==
  ASSUME EvidenceInv, TellsInv, NEW f, Records(f), Recording(f), NEW type \in {"evidence", "attempt"},
         NEW content \in Contents, NEW held \in Holdings, held.events = run[f].held.events, Record(f, type, content, held)
  PROVE  TellsInv'
<1>1. /\ f \in Files /\ run[f] \in Tasks /\ run'[f] \in Tasks /\ run \in [Files -> Tasks] /\ PathOf[f] \in Paths
      /\ TraceTypes
  BY TaskFacts
<1>2. run[f].open # <<>> /\ Mode(f) # "off"
  BY DEF Recording, InLeaf
<1>3. PICK e, s : e = EventOf(f, type, [step |-> Innermost(f).step, content |-> content]) /\ s = Scene(f)
  OBVIOUS
<1>4. /\ e.type = type /\ e.file = PathOf[f] /\ e.scenario = run[f].scenarios /\ e.content = content
      /\ SceneEvent(e)
  <2>1. PICK step : step = Innermost(f).step
    OBVIOUS
  <2>2. e = [type |-> type, file |-> PathOf[f], scenario |-> run[f].scenarios, step |-> step, content |-> content]
    BY <1>3, <2>1, EventContent
  <2> QED
    BY <1>1, <2>2 DEF SceneEvent, SceneKinds, Tasks
<1>5. CASE Mode(f) = "live"
  <2>1. report' = Fold(report, e)
    BY <1>3, <1>5 DEF Record, Tell
  <2>2. Same(run[f], run'[f]) /\ run'[f].held = run[f].held
    <3>1. PICK n : run' = [run EXCEPT ![f].effects = n]
      BY <1>5 DEF Record
    <3> QED
      BY ONLY <1>1, <3>1 DEF Same, Tasks
  <2>3. PICK q : q = After(s, e)
    OBVIOUS
  <2>4. Redrawn(f, q)
    BY <1>3, <1>4, <2>1, <2>3 DEF Redrawn
  <2>5. s \in Scenes /\ q \in Scenes /\ SceneNow(s, run[f]) => SceneNow(q, run'[f])
    <3> SUFFICES ASSUME s \in Scenes, q \in Scenes, SceneNow(s, run[f]) PROVE SceneNow(q, run'[f])
      OBVIOUS
    <3>1. run[f].live > 0
      BY <1>1, <1>2, <1>5, InFlight
    <3>2. /\ SameTree(s, q) /\ q.status = s.status
          /\ \A m \in DOMAIN s.byStep : m \in DOMAIN q.byStep /\ (Resolved(s, m) => Resolved(q, m))
      BY <1>4, <2>3, StepChanged
    <3> QED
      BY <1>1, <2>2, <3>1, <3>2, SceneStays
  <2> QED
    BY <1>3, <2>4, <2>5, StepGoesOn
<1>6. CASE Mode(f) # "live"
  <2>0. PICK n, kept, bytes :
          /\ n = run[f].effects + 1 /\ kept = [held EXCEPT !.events = Append(held.events, e)]
          /\ bytes = IF content.dir = 0 THEN run[f].deferred_bytes ELSE run[f].deferred_bytes + content.size
    OBVIOUS
  <2>1. report' = report /\ run' = [run EXCEPT ![f].effects = n, ![f].held = kept, ![f].deferred_bytes = bytes]
    BY <1>1, <1>3, <1>6, <2>0 DEF Record
  <2>2. Same(run[f], run'[f]) /\ run'[f].held = kept
    BY ONLY <1>1, <2>1 DEF Same, Tasks
  <2>3. kept.events = Append(run[f].held.events, e)
    BY <2>0 DEF Holdings
  <2>4. run[f].held \in Holdings /\ e.type # "vars"
    BY <1>1, <1>4 DEF Tasks
  <2>5. Redrawn(f, s)
    BY <1>3, <2>1 DEF Redrawn
  <2>6. s \in Scenes /\ SceneNow(s, run[f]) => SceneNow(s, run'[f])
    <3> SUFFICES ASSUME s \in Scenes, SceneNow(s, run[f]) PROVE SceneNow(s, run'[f])
      OBVIOUS
    <3>1. Innermost(f) \in Flights /\ Mode(f) = Innermost(f).mode
      BY <1>1, <1>2, InnermostTyped
    <3>2. Mode(f) = "deferred"
      BY <1>2, <1>6, <3>1 DEF Flights
    <3>3. run[f].deferred > 0
      BY <1>1, <1>2, <3>2, InFlight
    <3>4. SameTree(s, s)
      BY DEF SameTree
    <3> QED
      BY <1>1, <2>2, <2>3, <2>4, <3>3, <3>4, SceneStays
  <2> QED
    BY <1>3, <2>5, <2>6, StepGoesOn
<1> QED
  BY <1>5, <1>6

LEMMA EvidenceTells ==
  ASSUME EvidenceInv, TellsInv, NEW f \in plan.files, NEW shows \in SUBSET plan.values,
         InlineEvidence(f, shows) \/ HoldLong(f, shows) \/ WriteLong(f, shows)
  PROVE  TellsInv'
<1>1. Records(f)
  BY InlineRecords, HoldRecords, WriteRecords
<1>2. /\ f \in Files /\ TraceTypes /\ run[f] \in Tasks /\ counter \in Nat /\ run[f].held \in Holdings
      /\ shows \in SUBSET Values
  BY <1>1, TaskFacts, TraceAssumption DEF TraceTypes, Tasks
<1>3. PICK masked : masked = Mask(shows, f)
  OBVIOUS
<1>4. masked \in SUBSET Values /\ Size(masked) \in Nat /\ counter + 1 \in Nat
  BY <1>2, <1>3, MaskTyped
<1>5. CASE InlineEvidence(f, shows)
  <2>1. Content(f, 0, masked) \in Contents
    BY <1>2, <1>4, ContentTyped
  <2> QED
    BY <1>1, <1>2, <1>3, <1>5, <2>1, RecordTells DEF InlineEvidence
<1>6. CASE WriteLong(f, shows)
  <2>1. Content(f, counter + 1, masked) \in Contents
    BY <1>2, <1>4, ContentTyped
  <2> QED
    BY <1>1, <1>2, <1>3, <1>6, <2>1, RecordTells DEF WriteLong
<1>7. CASE HoldLong(f, shows)
  <2>1. Content(f, counter + 1, masked) \in Contents
    BY <1>2, <1>4, ContentTyped
  <2>2. PICK file, files, bytes, held :
          /\ file = [dir |-> counter + 1, shows |-> masked] /\ files = Append(run[f].held.files, file)
          /\ bytes = run[f].held.bytes + Size(masked)
          /\ held = [run[f].held EXCEPT !.files = files, !.bytes = bytes]
    OBVIOUS
  <2>3. held \in Holdings /\ held.events = run[f].held.events
    <3>1. file \in [dir : Nat, shows : SUBSET Values]
      BY <1>2, <1>4, <2>2
    <3>2. files \in Seq([dir : Nat, shows : SUBSET Values])
      BY <1>2, <2>2, <3>1 DEF Holdings
    <3>3. bytes \in Nat
      BY <1>2, <1>4, <2>2 DEF Holdings
    <3> QED
      BY <1>2, <2>2, <3>2, <3>3 DEF Holdings
  <2>4. Record(f, "evidence", Content(f, counter + 1, masked), held)
    BY <1>3, <1>7, <2>2 DEF HoldLong
  <2> QED
    BY <1>1, <1>7, <2>1, <2>3, <2>4, RecordTells DEF HoldLong
<1> QED
  BY <1>5, <1>6, <1>7

LEMMA AttemptTells ==
  ASSUME EvidenceInv, TellsInv, NEW f \in plan.files, Attempt(f)
  PROVE  TellsInv'
<1>1. Records(f)
  BY AttemptRecords
<1>2. f \in Files /\ TraceTypes /\ run[f] \in Tasks /\ run[f].held \in Holdings
  BY <1>1, TaskFacts DEF Tasks
<1>3. Content(f, 0, {}) \in Contents
  BY <1>2, ContentTyped
<1> QED
  BY <1>1, <1>2, <1>3, RecordTells DEF Attempt

LEMMA PluginTells ==
  ASSUME EvidenceInv, TellsInv, NEW f \in plan.files, PluginFile(f, plan.values)
  PROVE  TellsInv'
<1>1. Records(f)
  BY PluginRecords
<1>2. /\ f \in Files /\ TraceTypes /\ run[f] \in Tasks /\ counter \in Nat /\ run[f].held \in Holdings
      /\ plan.values \in SUBSET Values
  BY <1>1, TaskFacts, TraceAssumption DEF TraceTypes, Tasks
<1>3. PICK plain, content : plain = Content(f, counter + 1, plan.values) /\ content = [plain EXCEPT !.shows = {}]
  OBVIOUS
<1>4. plain \in Contents
  BY <1>2, <1>3, ContentTyped
<1>5. content \in Contents
  BY <1>3, <1>4 DEF Contents
<1>6. Record(f, "evidence", content, run[f].held)
  BY <1>3 DEF PluginFile
<1> QED
  BY <1>1, <1>2, <1>5, <1>6, RecordTells DEF PluginFile

LEMMA FinishTells ==
  ASSUME EvidenceInv, TellsInv, NEW f \in plan.files, NEW ok \in BOOLEAN, NEW said \in SUBSET plan.values,
         StepFinishes(f, ok, said)
  PROVE  TellsInv'
<1>1. Records(f)
  BY FinishRecords
<1>2. /\ f \in Files /\ run[f] \in Tasks /\ run'[f] \in Tasks /\ run \in [Files -> Tasks] /\ PathOf[f] \in Paths
      /\ run[f].open \in Seq(Flights) /\ run'[f].open \in Seq(Flights) /\ run[f].told \in Seq(Statuses)
      /\ run[f].failed \in BOOLEAN /\ run[f].open # <<>>
  BY <1>1, TaskFacts DEF Tasks, StepFinishes
<1>3. PICK depth, callers, status, open, told, failed, shows :
        /\ depth = Len(run[f].open) /\ callers = SubSeq(run[f].open, 1, depth - 1)
        /\ status = IF ok THEN "passed" ELSE "failed"
        /\ open = IF ok \/ depth = 1 THEN callers ELSE [callers EXCEPT ![depth - 1].failed = TRUE]
        /\ told = IF depth = 1 THEN Append(run[f].told, status) ELSE run[f].told
        /\ failed = (run[f].failed \/ (~ok /\ depth = 1))
        /\ shows = IF ok THEN run[f].shows ELSE run[f].shows \cup Mask(said, f)
  OBVIOUS
<1>4. run' = [run EXCEPT ![f].open = open, ![f].failed = failed, ![f].shows = shows, ![f].told = told]
  BY <1>2, <1>3 DEF StepFinishes
<1>5. /\ run'[f].open = open /\ run'[f].failed = failed /\ run'[f].told = told
      /\ run'[f].live = run[f].live /\ run'[f].deferred = run[f].deferred /\ run'[f].started = run[f].started
      /\ run'[f].slotted = run[f].slotted /\ run'[f].flush = run[f].flush /\ run'[f].at = run[f].at
      /\ run'[f].held = run[f].held /\ run'[f].steps = run[f].steps
  BY ONLY <1>2, <1>4 DEF Tasks
<1>6. PICK m : m = depth /\ m \in Nat \ {0} /\ DOMAIN run[f].open = 1..m
  BY <1>2, <1>3
<1>7. Len(callers) = m - 1 /\ DOMAIN callers = 1..(m - 1) /\ \A d \in 1..(m - 1) : callers[d] = run[f].open[d]
  BY <1>2, <1>3, <1>6
<1>8. /\ DOMAIN open = 1..(m - 1)
      /\ \A d \in 1..(m - 1) :
           /\ d \in DOMAIN run[f].open /\ open[d].step = run[f].open[d].step /\ open[d].mode = run[f].open[d].mode
           /\ (open[d].failed <=> run[f].open[d].failed \/ (status = "failed" /\ d = m - 1))
  <2>1. \A d \in 1..(m - 1) : d \in DOMAIN run[f].open /\ run[f].open[d] \in Flights
    BY <1>2, <1>6
  <2>2. CASE ok \/ m = 1
    <3>1. open = callers
      BY <1>3, <1>6, <2>2
    <3>2. \A d \in 1..(m - 1) : m # 1
      BY <1>6
    <3>3. \A d \in 1..(m - 1) : status # "failed"
      BY <1>3, <2>2, <3>2
    <3> QED
      BY <1>7, <2>1, <3>1, <3>3
  <2>3. CASE ~ok /\ m # 1
    <3>1. open = [callers EXCEPT ![m - 1].failed = TRUE] /\ status = "failed"
      BY <1>3, <1>6, <2>3
    <3>2. DOMAIN open = 1..(m - 1)
      BY <1>7, <3>1
    <3>3. ASSUME NEW d \in 1..(m - 1)
          PROVE  /\ open[d].step = run[f].open[d].step /\ open[d].mode = run[f].open[d].mode
                 /\ (open[d].failed <=> run[f].open[d].failed \/ d = m - 1)
      <4>1. CASE d = m - 1
        <5>1. open[d] = [callers[d] EXCEPT !.failed = TRUE]
          BY <1>7, <3>1, <4>1
        <5> QED
          BY <1>7, <2>1, <4>1, <5>1 DEF Flights
      <4>2. CASE d # m - 1
        BY <1>7, <3>1, <4>2
      <4> QED
        BY <4>1, <4>2
    <3> QED
      BY <2>1, <3>1, <3>2, <3>3
  <2> QED
    BY <2>2, <2>3
<1>9. open \in Seq(Flights) /\ Len(open) = m - 1
  <2>1. open \in Seq(Flights)
    BY <1>2, <1>5
  <2> QED
    BY <1>6, <1>8, <2>1
<1>10. PICK s, e, q : /\ s = Scene(f) /\ q = After(s, e)
                      /\ e = EventOf(f, "step_finished", [step |-> Innermost(f).step, status |-> status])
  OBVIOUS
<1>11. /\ e.type = "step_finished" /\ e.file = PathOf[f] /\ e.scenario = run[f].scenarios
       /\ e.step = run[f].open[m].step /\ e.status = status /\ SceneEvent(e)
  <2>1. PICK step : step = Innermost(f).step
    OBVIOUS
  <2>2. e = [type |-> "step_finished", file |-> PathOf[f], scenario |-> run[f].scenarios, step |-> step, status |-> status]
    BY <1>10, <2>1, EventStatus
  <2>3. status \in Statuses
    BY <1>3 DEF Statuses
  <2>4. step = run[f].open[m].step
    BY <1>3, <1>6, <2>1 DEF Innermost
  <2>5. run[f].scenarios \in Nat
    BY <1>2 DEF Tasks
  <2> QED
    BY <1>2, <2>2, <2>3, <2>4, <2>5 DEF SceneEvent, SceneKinds
<1>12. Redrawn(f, q)
  <2>1. report' = Fold(report, e)
    BY <1>3, <1>10 DEF StepFinishes, Tell
  <2> QED
    BY <1>10, <1>11, <2>1 DEF Redrawn
<1>13. ASSUME s \in Scenes, q \in Scenes, SceneNow(s, run[f]) PROVE SceneNow(q, run'[f])
  <2>1. Calls(s, run[f].open) /\ Failures(s, run[f].open, run[f].failed) /\ TopsTold(s, run[f].open, run[f].told)
        /\ Counted(s, run[f]) /\ s.status = "open" /\ Len(s.byStep) = run[f].steps
    BY <1>13 DEF SceneNow
  <2>2. m \in DOMAIN run[f].open /\ e.step \in DOMAIN s.byStep
    BY <1>6, <1>11, <2>1 DEF Calls
  <2>3. PICK b : b = Shows(s, run[f].open, Len(run[f].open))
    OBVIOUS
  <2>4. Marks(s, q, b, status)
    <3>1. Marks(s, q, s.byStep[e.step], e.status)
      BY <1>10, <1>11, <1>13, <2>2, StepMarked
    <3>2. b = s.byStep[e.step]
      BY <1>3, <1>6, <1>11, <2>3 DEF Shows
    <3> QED
      BY <1>11, <3>1, <3>2
  <2>5. status \in {"passed", "failed"}
    BY <1>3
  <2>6. PICK now, before, fails : now = run[f].open /\ before = run[f].told /\ fails = run[f].failed
    OBVIOUS
  <2>7. /\ s \in Scenes /\ q \in Scenes /\ now \in Seq(Flights) /\ now # <<>> /\ before \in Seq(Statuses)
        /\ Calls(s, now) /\ Failures(s, now, fails) /\ TopsTold(s, now, before) /\ b = Shows(s, now, Len(now))
        /\ open \in Seq(Flights) /\ Len(open) = Len(now) - 1 /\ \A d \in DOMAIN open : open[d].step = now[d].step
        /\ now[Len(now)].failed => status = "failed"
        /\ failed <=> fails \/ (status = "failed" /\ Len(now) = 1)
        /\ told = IF Len(now) = 1 THEN Append(before, status) ELSE before
    <3>1. now[Len(now)].failed => status = "failed"
      BY <1>3, <2>6 DEF StepFinishes, Innermost
    <3>2. Len(now) = m /\ m = depth
      BY <1>3, <1>6, <2>6
    <3>3. Len(open) = Len(now) - 1 /\ \A d \in DOMAIN open : open[d].step = now[d].step
      BY <1>8, <1>9, <2>6, <3>2
    <3>4. failed <=> fails \/ (status = "failed" /\ Len(now) = 1)
      <4>1. status = "failed" <=> ~ok
        BY <1>3
      <4> QED
        BY ONLY <1>3, <2>6, <3>2, <4>1
    <3>5. told = IF Len(now) = 1 THEN Append(before, status) ELSE before
      BY ONLY <1>3, <2>6, <3>2
    <3>6. Calls(s, now) /\ Failures(s, now, fails) /\ TopsTold(s, now, before) /\ b = Shows(s, now, Len(now))
      BY <2>1, <2>3, <2>6
    <3> QED
      BY <1>2, <1>9, <1>13, <2>6, <3>1, <3>3, <3>4, <3>5, <3>6
  <2>8. \A d \in DOMAIN open : open[d].step = now[d].step
           /\ (open[d].failed <=> now[d].failed \/ (status = "failed" /\ d = Len(now) - 1))
    <3>1. Len(now) = m
      BY <1>3, <1>6, <2>6
    <3> QED
      BY ONLY <1>8, <2>6, <3>1
  <2>10. Calls(q, open) /\ b \in DOMAIN s.items
    BY ONLY <2>4, <2>5, <2>7, MarksCalls, SMTT(30)
  <2>11. Failures(q, open, failed)
    <3>1. Returns(now, open, fails, failed, status)
      BY ONLY <2>7, <2>8 DEF Returns
    <3>2. s \in Scenes /\ q \in Scenes /\ now \in Seq(Flights) /\ now # <<>>
      BY ONLY <2>7
    <3>3. Calls(s, now) /\ Failures(s, now, fails) /\ b = Shows(s, now, Len(now))
      BY ONLY <2>7
    <3> QED
      BY ONLY <2>4, <2>5, <3>1, <3>2, <3>3, MarksFailures
  <2>12. TopsTold(q, open, told)
    BY ONLY <2>4, <2>5, <2>7, MarksTops
  <2>9. Counted(q, run'[f])
    <3>1. \A i \in DOMAIN s.items : q.items[i].vars = s.items[i].vars
            /\ q.items[i].evidence = s.items[i].evidence /\ q.items[i].attempts = s.items[i].attempts
      BY <1>13, <2>4, <2>10, MarksAll
    <3>2. DOMAIN q.items = DOMAIN s.items /\ q.byStep = s.byStep
      BY <2>4 DEF Marks
    <3>3. \A i \in DOMAIN q.items : Bare(q.items[i]) \/ (\E j \in DOMAIN s.items : ~Bare(s.items[j]))
      BY <3>1, <3>2 DEF Bare
    <3>4. \A n \in DOMAIN s.byStep : n \in DOMAIN q.byStep /\ (Resolved(s, n) => Resolved(q, n))
      BY <1>13, <3>1, <3>2, SceneTyped DEF Resolved
    <3>5. \A d \in DOMAIN run'[f].open :
            d \in DOMAIN run[f].open /\ run'[f].open[d].mode = run[f].open[d].mode
      BY <1>5, <1>8
    <3> QED
      BY <1>2, <1>5, <1>13, <2>1, <3>3, <3>4, <3>5, CountedKeeps
  <2> QED
    BY <1>2, <1>5, <2>1, <2>4, <2>9, <2>10, <2>11, <2>12 DEF SceneNow, Marks, StepFinishes
<1> QED
  BY <1>1, <1>10, <1>12, <1>13, StepGoesOn

-----------------------------------------------------------------------------
\* The steps that add to the list of the body at work.
LEMMA AddBare ==
  ASSUME NEW s \in Scenes, NEW q \in Scenes, NEW item, NEW up, Adds(s, q, item, up), Bare(item)
  PROVE  /\ \A m \in DOMAIN s.byStep : m \in DOMAIN q.byStep /\ (Resolved(s, m) => Resolved(q, m))
         /\ \A i \in DOMAIN q.items : Bare(q.items[i]) \/ (\E j \in DOMAIN s.items : ~Bare(s.items[j]))
<1>1. PICK n : n \in Nat /\ n = Len(s.items) /\ DOMAIN s.items = 1..n /\ DOMAIN q.items = 1..(n + 1)
  BY SceneTyped DEF Adds
<1>2. \A i : i \in DOMAIN q.items => i \in DOMAIN s.items \/ i = n + 1
  BY ONLY <1>1
<1>3. \A i \in DOMAIN q.items : Bare(q.items[i]) \/ (\E j \in DOMAIN s.items : ~Bare(s.items[j]))
  BY <1>1, <1>2 DEF Adds
<1>4. \A m \in DOMAIN s.byStep : m \in DOMAIN q.byStep /\ (Resolved(s, m) => Resolved(q, m))
  <2> SUFFICES ASSUME NEW m \in DOMAIN s.byStep PROVE m \in DOMAIN q.byStep /\ (Resolved(s, m) => Resolved(q, m))
    OBVIOUS
  <2>1. m \in DOMAIN q.byStep /\ q.byStep[m] = s.byStep[m] /\ s.byStep[m] \in DOMAIN s.items
    BY SceneTyped DEF Adds
  <2>2. q.items[q.byStep[m]] = s.items[s.byStep[m]]
    BY <2>1 DEF Adds
  <2> QED
    BY <2>1, <2>2 DEF Resolved
<1> QED
  BY <1>3, <1>4

\* A listed item: an annotation, or a step that is not run.
LEMMA ListedNow ==
  ASSUME NEW s \in Scenes, NEW q \in Scenes, NEW t \in Tasks, NEW u \in Tasks, SceneNow(s, t),
         NEW item, NEW up, up = Around(s, t.open), Adds(s, q, item, up), Bare(item),
         \/ item.kind = "annotation" /\ item.status = "none" /\ u.told = t.told
         \/ /\ item.kind = "step" /\ item.status = "skipped"
            /\ u.told = IF t.open = <<>> THEN Append(t.told, "skipped") ELSE t.told
            /\ IF t.open = <<>> THEN t.failed ELSE t.open[Len(t.open)].failed,
         Len(q.byStep) = u.steps, t.at = "scenario", u.at = t.at, u.open = t.open, u.failed = t.failed,
         u.held = t.held, u.live = t.live, u.deferred = t.deferred, u.started = t.started,
         u.slotted = t.slotted, u.flush = t.flush
  PROVE  SceneNow(q, u)
<1>1. PICK open, fails, told : open = t.open /\ fails = t.failed /\ told = t.told
  OBVIOUS
<1>2. /\ open \in Seq(Flights) /\ told \in Seq(Statuses) /\ s.status = "open"
      /\ Calls(s, open) /\ Failures(s, open, fails) /\ TopsTold(s, open, told) /\ Counted(s, t)
  BY <1>1 DEF SceneNow, Tasks
<1>3. /\ up \in {0} \cup DOMAIN s.items /\ (up = 0 <=> open = <<>>) /\ up = Around(s, open)
      /\ item.status # "open" /\ q.status = "open"
  BY <1>1, <1>2, AroundIs DEF Adds
<1>4. Calls(q, open) /\ \A d \in DOMAIN open : Shows(q, open, d) = Shows(s, open, d)
  BY <1>2, <1>3, AddKeepsCalls
<1>5. Failures(q, open, fails)
  <2>1. Admits(s, q, open, open, item, up, fails)
    <3>1. item.status = "skipped" =>
            (\E j \in DOMAIN s.items : FailedAt(s, j, up)) \/ (up = 0 /\ fails /\ NothingRan(s))
      <4> SUFFICES ASSUME item.status = "skipped"
                   PROVE  (\E j \in DOMAIN s.items : FailedAt(s, j, up)) \/ (up = 0 /\ fails /\ NothingRan(s))
        OBVIOUS
      <4>1. CASE open = <<>>
        BY <1>1, <1>2, <1>3, <4>1 DEF Failures
      <4>2. CASE open # <<>>
        <5>1. Len(open) \in DOMAIN open /\ open[Len(open)].failed /\ up = Shows(s, open, Len(open))
          BY <1>1, <1>2, <1>3, <4>2 DEF Around
        <5> QED
          BY <1>2, <5>1 DEF Failures
      <4> QED
        BY <4>1, <4>2
    <3>2. fails => open = <<>>
      BY <1>2 DEF Failures
    <3>3. item.status \notin {"passed", "failed"}
      OBVIOUS
    <3> QED
      BY <1>4, <3>1, <3>2, <3>3 DEF Admits
  <2> QED
    BY <1>2, <1>3, <2>1, AddFailures
<1>6. TopsTold(q, open, u.told)
  <2>1. open # <<>> => Shows(q, open, 1) = Shows(s, open, 1)
    BY <1>2, <1>4
  <2>2. CASE item.kind # "step" \/ open # <<>>
    <3>1. u.told = told
      BY <1>1, <2>2
    <3> QED
      BY <1>2, <1>3, <2>1, <2>2, <3>1, AddBelowTold
  <2>3. CASE item.kind = "step" /\ open = <<>>
    <3>1. /\ Adds(s, q, item, 0) /\ TopsTold(s, <<>>, told) /\ item.kind = "step"
          /\ u.told = Append(told, item.status)
      BY <1>1, <1>2, <1>3, <2>3
    <3>2. \A told2 : told2 = Append(told, item.status) => TopsTold(q, <<>>, told2)
      BY <1>2, <3>1, AddTopTold
    <3> QED
      BY <2>3, <3>1, <3>2
  <2> QED
    BY <2>2, <2>3
<1>7. Counted(q, u)
  <2>1. /\ \A m \in DOMAIN s.byStep : m \in DOMAIN q.byStep /\ (Resolved(s, m) => Resolved(q, m))
        /\ \A i \in DOMAIN q.items : Bare(q.items[i]) \/ (\E j \in DOMAIN s.items : ~Bare(s.items[j]))
    BY AddBare
  <2> QED
    BY <1>2, <2>1, CountedKeeps
<1> QED
  BY <1>1, <1>3, <1>4, <1>5, <1>6, <1>7 DEF SceneNow

LEMMA AnnotationTells ==
  ASSUME EvidenceInv, TellsInv, NEW f \in plan.files, Annotation(f)
  PROVE  TellsInv'
<1>1. Records(f)
  BY AnnotationRecords
<1>2. /\ f \in Files /\ run[f] \in Tasks /\ run'[f] \in Tasks /\ run \in [Files -> Tasks] /\ PathOf[f] \in Paths
      /\ run[f].at = "scenario"
  BY <1>1, TaskFacts
<1>3. /\ Same(run[f], run'[f]) /\ run'[f].held = run[f].held
  <2>1. PICK n : run' = [run EXCEPT ![f].effects = n]
    BY DEF Annotation
  <2> QED
    BY ONLY <1>2, <2>1 DEF Same, Tasks
<1>4. PICK e, s, q : e = EventOf(f, "annotation", [parent |-> Parent(f)]) /\ s = Scene(f) /\ q = After(s, e)
  OBVIOUS
<1>5. e = [type |-> "annotation", file |-> PathOf[f], scenario |-> run[f].scenarios, parent |-> Parent(f)]
  BY <1>4, EventParent
<1>6. SceneEvent(e) /\ e.file = PathOf[f] /\ e.scenario = run[f].scenarios
  BY <1>2, <1>5 DEF SceneEvent, SceneKinds, Tasks
<1>7. Redrawn(f, q)
  <2>1. report' = Fold(report, e)
    BY <1>4 DEF Annotation, Tell
  <2> QED
    BY <1>4, <1>6, <2>1 DEF Redrawn
<1>8. ASSUME s \in Scenes, q \in Scenes, SceneNow(s, run[f]) PROVE SceneNow(q, run'[f])
  <2>1. Calls(s, run[f].open) /\ run[f].open \in Seq(Flights) /\ Len(s.byStep) = run[f].steps /\ run[f].steps \in Nat
    BY <1>2, <1>8 DEF SceneNow, Tasks
  <2>2. PICK item, up : item = ItemOf(e) /\ up = Around(s, run[f].open)
    OBVIOUS
  <2>3. up = Under(s, e)
    BY <1>5, <1>8, <2>1, <2>2, ParentIs DEF Under
  <2>4. /\ Adds(s, q, item, up) /\ item.evidence = <<>> /\ item.attempts = 0
        /\ item.kind = "annotation" /\ item.status = "none" /\ item.vars = {}
        /\ Len(q.byStep) = Len(s.byStep) + 0
    <3>1. e.type = "annotation" /\ e.type \in {"step_started", "step_skipped", "annotation"}
      BY <1>5
    <3>2. Grown(s, q, item, up, e)
      BY ONLY <1>4, <1>6, <1>8, <2>2, <2>3, <3>1, ItemAdded
    <3> QED
      BY <3>1, <3>2 DEF Grown
  <2>5. Bare(item)
    BY <2>4 DEF Bare
  <2>6. Len(q.byStep) = run'[f].steps
    BY <1>3, <2>1, <2>4 DEF Same
  <2> QED
    BY <1>2, <1>3, <1>8, <2>2, <2>4, <2>5, <2>6, ListedNow DEF Same
<1> QED
  BY <1>1, <1>4, <1>7, <1>8, StepGoesOn

LEMMA SkipTells ==
  ASSUME EvidenceInv, TellsInv, NEW f \in plan.files, StepSkipped(f)
  PROVE  TellsInv'
<1>1. Records(f)
  BY SkipRecords
<1>2. /\ f \in Files /\ run[f] \in Tasks /\ run'[f] \in Tasks /\ run \in [Files -> Tasks] /\ PathOf[f] \in Paths
      /\ run[f].at = "scenario"
  BY <1>1, TaskFacts
<1>3. PICK n, told :
        /\ n = run[f].steps + 1
        /\ told = IF run[f].open = <<>> THEN Append(run[f].told, "skipped") ELSE run[f].told
  OBVIOUS
<1>4. /\ run'[f].steps = n /\ run'[f].told = told /\ run'[f].held = run[f].held
      /\ run'[f].open = run[f].open /\ run'[f].failed = run[f].failed /\ run'[f].at = run[f].at
      /\ run'[f].live = run[f].live /\ run'[f].deferred = run[f].deferred /\ run'[f].started = run[f].started
      /\ run'[f].slotted = run[f].slotted /\ run'[f].flush = run[f].flush
  <2>1. run' = [run EXCEPT ![f].steps = n, ![f].told = told]
    BY <1>2, <1>3 DEF StepSkipped
  <2> QED
    BY ONLY <1>2, <2>1 DEF Tasks
<1>5. PICK e, s, q : e = EventOf(f, "step_skipped", [parent |-> Parent(f)]) /\ s = Scene(f) /\ q = After(s, e)
  OBVIOUS
<1>6. e = [type |-> "step_skipped", file |-> PathOf[f], scenario |-> run[f].scenarios, parent |-> Parent(f)]
  BY <1>5, EventParent
<1>7. SceneEvent(e) /\ e.file = PathOf[f] /\ e.scenario = run[f].scenarios
  BY <1>2, <1>6 DEF SceneEvent, SceneKinds, Tasks
<1>8. Redrawn(f, q)
  <2>1. report' = Fold(report, e)
    BY <1>5 DEF StepSkipped, Tell
  <2> QED
    BY <1>5, <1>7, <2>1 DEF Redrawn
<1>9. IF run[f].open = <<>> THEN run[f].failed ELSE run[f].open[Len(run[f].open)].failed
  BY DEF StepSkipped, BodyFailed, Innermost
<1>10. ASSUME s \in Scenes, q \in Scenes, SceneNow(s, run[f]) PROVE SceneNow(q, run'[f])
  <2>1. Calls(s, run[f].open) /\ run[f].open \in Seq(Flights) /\ Len(s.byStep) = run[f].steps /\ run[f].steps \in Nat
    BY <1>2, <1>10 DEF SceneNow, Tasks
  <2>2. PICK item, up : item = ItemOf(e) /\ up = Around(s, run[f].open)
    OBVIOUS
  <2>3. up = Under(s, e)
    BY <1>6, <1>10, <2>1, <2>2, ParentIs DEF Under
  <2>4. /\ Adds(s, q, item, up) /\ item.evidence = <<>> /\ item.attempts = 0
        /\ item.kind = "step" /\ item.status = "skipped" /\ item.vars = {}
        /\ Len(q.byStep) = Len(s.byStep) + 1
    <3>1. e.type = "step_skipped" /\ e.type \in {"step_started", "step_skipped", "annotation"}
      BY <1>6
    <3>2. Grown(s, q, item, up, e)
      BY ONLY <1>5, <1>7, <1>10, <2>2, <2>3, <3>1, ItemAdded
    <3> QED
      BY <3>1, <3>2 DEF Grown
  <2>5. Bare(item)
    BY <2>4 DEF Bare
  <2>6. Len(q.byStep) = run'[f].steps
    BY <1>3, <1>4, <2>1, <2>4
  <2>7. /\ item.kind = "step" /\ item.status = "skipped"
        /\ run'[f].told = IF run[f].open = <<>> THEN Append(run[f].told, "skipped") ELSE run[f].told
        /\ IF run[f].open = <<>> THEN run[f].failed ELSE run[f].open[Len(run[f].open)].failed
    BY <1>3, <1>4, <1>9, <2>4
  <2> QED
    BY <1>2, <1>4, <1>10, <2>2, <2>4, <2>5, <2>6, <2>7, ListedNow
<1> QED
  BY <1>1, <1>5, <1>8, <1>10, StepGoesOn

\* Whether the body at work goes on.
Free(t) == IF t.open = <<>> THEN ~t.failed ELSE ~t.open[Len(t.open)].failed

LEMMA StartedNow ==
  ASSUME NEW s \in Scenes, NEW q \in Scenes, NEW t \in Tasks, NEW u \in Tasks, SceneNow(s, t), Free(t),
         NEW item, NEW up, up = Around(s, t.open), Adds(s, q, item, up), item.kind = "step", item.status = "open",
         NEW mode \in {"off", "live", "deferred"}, NEW shown,
         NEW n, Draws(s, q, item, n, mode, shown), Len(q.byStep) = n,
         NEW flight \in Flights, NEW e, Begins(t, u, n, mode, shown, flight, e)
  PROVE  SceneNow(q, u)
<1>1. PICK open, open2, fails, told : open = t.open /\ open2 = u.open /\ fails = t.failed /\ told = t.told
  OBVIOUS
<1>2. /\ open \in Seq(Flights) /\ told \in Seq(Statuses) /\ s.status = "open" /\ open2 = Append(open, flight)
      /\ Calls(s, open) /\ Failures(s, open, fails) /\ TopsTold(s, open, told) /\ Counted(s, t)
  BY <1>1 DEF SceneNow, Tasks, Begins
<1>3. /\ up \in {0} \cup DOMAIN s.items /\ (up = 0 <=> open = <<>>) /\ up = Around(s, open) /\ q.status = "open"
  BY <1>1, <1>2, AroundIs DEF Adds
<1>4. n \in DOMAIN q.byStep /\ q.byStep[n] = Len(s.items) + 1
  BY DEF Draws
<1>5. Calls(q, open2) /\ Deeper(s, q, open, open2)
  <2>1. ShownLast(s, q, flight.step)
    BY <1>4 DEF ShownLast, Begins
  <2> QED
    <3>1. /\ s \in Scenes /\ q \in Scenes /\ Adds(s, q, item, up) /\ item.status = "open" /\ flight \in Flights
          /\ open \in Seq(Flights) /\ Calls(s, open) /\ up = Around(s, open) /\ open2 = Append(open, flight)
      BY <1>2, <1>3
    <3> QED
      BY ONLY <2>1, <3>1, AddCall
<1>6. open2 # <<>> /\ Len(open) \in Nat /\ \A d \in DOMAIN open : open2[d] = open[d]
  BY <1>2
<1>7. open2[Len(open) + 1] = flight
  BY <1>2
<1>8. Failures(q, open2, fails)
  <2>1. ~fails
    BY <1>1, <1>2 DEF Failures, Free
  <2>2. Admits(s, q, open, open2, item, up, fails)
    BY <1>5, <1>6, <1>7, <2>1 DEF Admits, Deeper, Begins
  <2> QED
    BY <1>2, <1>3, <2>2, AddFailures
<1>9. TopsTold(q, open2, told)
  <2>1. CASE open # <<>>
    <3>1. 1 \in DOMAIN open
      BY <1>2, <2>1
    <3>2. Shows(q, open2, 1) = Shows(s, open, 1)
      BY <1>5, <3>1 DEF Deeper
    <3> QED
      BY <1>2, <1>3, <1>6, <2>1, <3>2, AddBelowTold
  <2>2. CASE open = <<>>
    <3>1. Adds(s, q, item, 0) /\ TopsTold(s, <<>>, told) /\ Shows(q, open2, 1) = Len(s.items) + 1
      BY <1>2, <1>3, <1>5, <2>2 DEF Deeper
    <3>2. item.status = "open" /\ open2 # <<>> /\ Shows(q, open2, 1) = Len(s.items) + 1 => TopsTold(q, open2, told)
      BY <1>2, <3>1, AddTopTold
    <3> QED
      BY <1>6, <3>1, <3>2
  <2> QED
    BY <2>1, <2>2
<1>10. Counted(q, u)
  <2>1. Counted(s, t)
    BY <1>2
  <2> QED
    BY <2>1, CountedStarts
<1> QED
  BY <1>1, <1>3, <1>5, <1>8, <1>9, <1>10 DEF SceneNow, Begins

LEMMA StartTells ==
  ASSUME EvidenceInv, TellsInv, NEW f \in plan.files, NEW kind \in plan.kinds, NEW slots \in SUBSET {plan.values},
         StepStarts(f, kind, slots)
  PROVE  TellsInv'
<1>1. Records(f)
  BY StartRecords
<1>2. /\ f \in Files /\ run[f] \in Tasks /\ run'[f] \in Tasks /\ run \in [Files -> Tasks] /\ PathOf[f] \in Paths
      /\ run[f].at = "scenario" /\ ~run[f].flush /\ TraceTypes /\ kind \in {"leaf", "macro", "include"}
      /\ plan.values \subseteq Values /\ run[f].steps \in Nat /\ run[f].held \in Holdings
  BY <1>1, TaskFacts, TraceAssumption DEF TraceTypes, Tasks
<1>3. PICK step, mode, shown, more, v, events, flight, open, slotted, started, live, deferred :
        /\ step = run[f].steps + 1 /\ mode = Decide(f) /\ shown = {Mask(w, f) : w \in slots}
        /\ v = EventOf(f, "vars", [step |-> step, vars |-> shown])
        /\ events = (IF mode = "deferred" /\ slots # {} THEN Append(run[f].held.events, v) ELSE run[f].held.events)
        /\ flight = [step |-> step, kind |-> kind, mode |-> mode, failed |-> FALSE]
        /\ open = Append(run[f].open, flight)
        /\ slotted = (IF slots = {} THEN run[f].slotted ELSE run[f].slotted \cup {step})
        /\ started = run[f].started + 1
        /\ live = (IF mode = "live" THEN run[f].live + 1 ELSE run[f].live)
        /\ deferred = (IF mode = "deferred" THEN run[f].deferred + 1 ELSE run[f].deferred)
        /\ more = (IF mode = "live" THEN shown ELSE {})
  OBVIOUS
<1>4. /\ run'[f].steps = step /\ run'[f].started = started /\ run'[f].live = live /\ run'[f].deferred = deferred
      /\ run'[f].open = open /\ run'[f].slotted = slotted /\ run'[f].held.events = events
      /\ run'[f].told = run[f].told /\ run'[f].failed = run[f].failed /\ run'[f].at = run[f].at
      /\ run'[f].flush = run[f].flush
  <2>1. PICK held : held = [run[f].held EXCEPT !.events = events]
    OBVIOUS
  <2>2. held.events = events
    BY <1>2, <2>1 DEF Holdings
  <2>3. run' = [run EXCEPT ![f].steps = step, ![f].started = started, ![f].live = live, ![f].deferred = deferred,
                           ![f].open = open, ![f].slotted = slotted, ![f].held.events = events]
    BY <1>3 DEF StepStarts
  <2>4. run'[f] = [run[f] EXCEPT !.steps = step, !.started = started, !.live = live, !.deferred = deferred,
                                 !.open = open, !.slotted = slotted, !.held = held]
    BY ONLY <1>2, <2>1, <2>3 DEF Tasks
  <2> QED
    BY ONLY <1>2, <2>2, <2>4 DEF Tasks
<1>5. mode \in {"off", "live", "deferred"} /\ flight \in Flights /\ flight.mode = mode /\ flight.step = step /\ ~flight.failed
  <2>1. mode \in {"off", "live", "deferred"} /\ step \in Nat
    BY <1>2, <1>3 DEF Decide
  <2> QED
    BY ONLY <1>2, <1>3, <2>1 DEF Flights
<1>6. shown \in SUBSET SUBSET Values /\ (slots = {} <=> shown = {})
  BY <1>2, <1>3, MaskTyped
<1>7. v.type = "vars" /\ v.step = step /\ v.vars = shown
  <2>1. v = [type |-> "vars", file |-> PathOf[f], scenario |-> run[f].scenarios, step |-> step, vars |-> shown]
    BY <1>3, EventVars
  <2> QED
    BY <2>1
<1>8. PICK up, e, s, q : /\ up = Parent(f) /\ e = EventOf(f, "step_started", [parent |-> up, vars |-> more])
                         /\ s = Scene(f) /\ q = After(s, e)
  OBVIOUS
<1>9. e = [type |-> "step_started", file |-> PathOf[f], scenario |-> run[f].scenarios, parent |-> up, vars |-> more]
  BY <1>8, EventStart
<1>10. SceneEvent(e) /\ e.file = PathOf[f] /\ e.scenario = run[f].scenarios
  BY <1>2, <1>3, <1>6, <1>9 DEF SceneEvent, SceneKinds, Tasks
<1>11. Redrawn(f, q)
  <2>1. report' = Fold(report, e)
    BY <1>3, <1>8 DEF StepStarts, Tell
  <2> QED
    BY <1>8, <1>10, <2>1 DEF Redrawn
<1>12. Free(run[f])
  BY DEF StepStarts, BodyFailed, Innermost, Free
<1>13. ASSUME s \in Scenes, q \in Scenes, SceneNow(s, run[f]) PROVE SceneNow(q, run'[f])
  <2>1. Calls(s, run[f].open) /\ run[f].open \in Seq(Flights) /\ Len(s.byStep) = run[f].steps
    BY <1>2, <1>13 DEF SceneNow, Tasks
  <2>2. PICK item, at : item = ItemOf(e) /\ at = Under(s, e)
    OBVIOUS
  <2>3. at = Around(s, run[f].open)
    BY <1>8, <1>9, <1>13, <2>1, <2>2, ParentIs DEF Under
  <2>4. e.type = "step_started" /\ e.vars = more /\ e.type \in {"step_started", "step_skipped", "annotation"}
    BY <1>9
  <2>5. Grown(s, q, item, at, e)
    BY ONLY <1>8, <1>10, <1>13, <2>2, <2>4, ItemAdded
  <2>6. /\ Adds(s, q, item, at) /\ item.evidence = <<>> /\ item.attempts = 0
        /\ item.kind = "step" /\ item.status = "open" /\ item.vars = more
        /\ Len(q.byStep) = Len(s.byStep) + 1 /\ q.byStep[Len(s.byStep) + 1] = Len(s.items) + 1
    BY ONLY <2>4, <2>5 DEF Grown
  <2>7. step = Len(s.byStep) + 1 /\ Len(q.byStep) = step /\ q.byStep[step] = Len(s.items) + 1
    BY <1>3, <2>1, <2>6
  <2>8. /\ run'[f].open = Append(run[f].open, flight) /\ run'[f].started = run[f].started + 1
        /\ run'[f].failed = run[f].failed /\ run'[f].told = run[f].told
        /\ run'[f].live = IF mode = "live" THEN run[f].live + 1 ELSE run[f].live
        /\ run'[f].deferred = IF mode = "deferred" THEN run[f].deferred + 1 ELSE run[f].deferred
        /\ run'[f].slotted = IF shown = {} THEN run[f].slotted ELSE run[f].slotted \cup {step}
        /\ run'[f].held.events = IF mode = "deferred" /\ shown # {} THEN Append(run[f].held.events, v) ELSE run[f].held.events
        /\ item.vars = IF mode = "live" THEN shown ELSE {}
    BY ONLY <1>3, <1>4, <1>6, <2>6
  <2>9. run[f].at = "scenario" /\ run'[f].at = "scenario" /\ ~run[f].flush /\ ~run'[f].flush /\ run'[f].steps = step
    BY <1>2, <1>4
  <2>10. run[f] \in Tasks /\ run'[f] \in Tasks
    BY <1>2
  <2>11. Draws(s, q, item, step, mode, shown) /\ Len(q.byStep) = step
    <3>1. step \in DOMAIN q.byStep
      BY <1>13, <2>1, <2>7, SceneTyped
    <3> QED
      BY ONLY <2>6, <2>7, <2>8, <3>1 DEF Draws
  <2>12. Begins(run[f], run'[f], step, mode, shown, flight, v)
    BY ONLY <1>5, <1>7, <2>8, <2>9 DEF Begins
  <2>13. PICK t, u : t = run[f] /\ u = run'[f]
    OBVIOUS
  <2>14. SceneNow(s, t) /\ Free(t) /\ Begins(t, u, step, mode, shown, flight, v) /\ t \in Tasks /\ u \in Tasks /\ at = Around(s, t.open)
    BY ONLY <1>12, <1>13, <2>3, <2>10, <2>12, <2>13
  <2> QED
    BY ONLY <1>5, <1>13, <2>6, <2>11, <2>13, <2>14, StartedNow
<1> QED
  BY <1>1, <1>8, <1>11, <1>13, StepGoesOn

-----------------------------------------------------------------------------
\* The scenario is over, and what it held is told.
LEMMA ClosesTell ==
  ASSUME EvidenceInv, TellsInv, NEW f \in plan.files, ScenarioCloses(f)
  PROVE  TellsInv'
<1>1. /\ f \in Files /\ run \in [Files -> Tasks] /\ run[f] \in Tasks /\ ScenarioInv(f) /\ TraceTypes
      /\ run[f].at = "scenario" /\ run[f].open = <<>>
  BY FileFacts DEF ScenarioCloses
<1>2. PICK flush, held, u :
        /\ flush = Flushes(f) /\ held = (IF flush THEN run[f].held ELSE NoHeld)
        /\ u = [run[f] EXCEPT !.at = "closing", !.flush = flush, !.stopped = interrupted, !.held = held]
  OBVIOUS
<1>3. flush \in BOOLEAN /\ interrupted \in BOOLEAN /\ held \in Holdings
  <2>1. interrupted \in BOOLEAN /\ run[f].held \in Holdings /\ NoHeld \in Holdings
    BY <1>1 DEF TraceTypes, Tasks, NoHeld, Holdings
  <2>2. flush = (run[f].failed /\ ~interrupted)
    BY <1>2 DEF Flushes
  <2>3. held = run[f].held \/ held = NoHeld
    BY <1>2
  <2> QED
    BY <2>1, <2>2, <2>3
<1>4. /\ u \in Tasks /\ u.at = "closing" /\ u.flush = flush /\ u.held = held /\ u.open = run[f].open
      /\ u.failed = run[f].failed /\ u.told = run[f].told /\ u.steps = run[f].steps
      /\ u.live = run[f].live /\ u.deferred = run[f].deferred /\ u.started = run[f].started
      /\ u.slotted = run[f].slotted /\ u.done = run[f].done /\ u.scenarios = run[f].scenarios
  <2>1. run[f] \in Tasks /\ u = [run[f] EXCEPT !.at = "closing", !.flush = flush, !.stopped = interrupted, !.held = held]
    BY <1>1, <1>2
  <2> QED
    BY ONLY <1>3, <2>1 DEF Tasks
<1>5. /\ run' = [run EXCEPT ![f] = u]
      /\ UNCHANGED <<plan, result, counter, artifacts, lost, report, interrupted>>
  BY <1>1, <1>2 DEF ScenarioCloses
<1>6. run'[f] = u /\ run' = [run EXCEPT ![f] = run'[f]]
  BY <1>1, <1>5
<1>7. PICK s : s = Scene(f)
  OBVIOUS
<1>8. Redrawn(f, s)
  BY <1>5, <1>7 DEF Redrawn
<1>9. ASSUME s \in Scenes, SceneNow(s, run[f]) PROVE SceneNow(s, u)
  <2>1. Counted(s, run[f]) /\ ~run[f].flush
    BY <1>1, <1>9 DEF SceneNow, ScenarioInv
  <2>2. u.held = IF u.flush THEN run[f].held ELSE NoHeld
    BY ONLY <1>2, <1>4
  <2>3. PICK t : t = run[f]
    OBVIOUS
  <2>4. /\ t \in Tasks /\ Counted(s, t) /\ t.at = "scenario" /\ ~t.flush /\ u.held = IF u.flush THEN t.held ELSE NoHeld
        /\ u.live = t.live /\ u.deferred = t.deferred /\ u.started = t.started /\ u.slotted = t.slotted /\ u.open = t.open
    BY ONLY <1>1, <1>4, <2>1, <2>2, <2>3
  <2>5. Counted(s, u)
    BY ONLY <1>4, <1>9, <2>4, CountedCloses
  <2> QED
    BY <1>1, <1>4, <1>9, <2>5 DEF SceneNow
<1> QED
  BY <1>1, <1>4, <1>5, <1>6, <1>7, <1>8, <1>9, SceneGoesOn DEF AtWork

LEMMA WritesTell ==
  ASSUME EvidenceInv, TellsInv, NEW f \in plan.files, WriteHeld(f)
  PROVE  TellsInv'
<1>1. /\ f \in Files /\ run \in [Files -> Tasks] /\ run[f] \in Tasks /\ run[f].held \in Holdings
      /\ run[f].at = "closing" /\ Waiting(f) \in Seq([dir : Nat, shows : SUBSET Values]) /\ Waiting(f) # <<>>
  <2>1. run[f] \in Tasks
    BY FileFacts
  <2> QED
    BY <2>1, FileFacts DEF Tasks, WriteHeld, Waiting
<1>2. PICK rest, held, u : /\ rest = Tail(Waiting(f)) /\ held = [run[f].held EXCEPT !.files = rest]
                           /\ u = [run[f] EXCEPT !.held = held]
  OBVIOUS
<1>3. rest \in Seq([dir : Nat, shows : SUBSET Values])
  BY <1>1, <1>2
<1>4. held \in Holdings /\ held.events = run[f].held.events
  BY <1>1, <1>2, <1>3 DEF Holdings
<1>5. u \in Tasks /\ Same(run[f], u) /\ u.held = held /\ u.done = run[f].done /\ u.scenarios = run[f].scenarios
  <2>1. run[f] \in Tasks /\ u = [run[f] EXCEPT !.held = held]
    BY <1>1, <1>2
  <2> QED
    BY ONLY <1>4, <2>1 DEF Tasks, Same
<1>6. run' = [run EXCEPT ![f] = u] /\ result' = result /\ report' = report
  BY <1>1, <1>2 DEF WriteHeld, Waiting
<1>7. run'[f] = u /\ run' = [run EXCEPT ![f] = run'[f]]
  BY <1>1, <1>6
<1>8. artifacts \subseteq artifacts' /\ \A d \in artifacts' : d \in artifacts \/ d.file = f
  <2>1. PICK file, d : file = Head(run[f].held.files) /\ d = [Stored(f, file.dir, Mask(file.shows, f), TRUE) EXCEPT !.mode = "deferred"]
    OBVIOUS
  <2>2. d.file = f
    BY <2>1 DEF Stored
  <2>3. artifacts' = artifacts \cup {d} \/ artifacts' = artifacts
    BY <2>1 DEF WriteHeld
  <2> QED
    BY <2>2, <2>3
<1>9. PICK s : s = Scene(f)
  OBVIOUS
<1>10. Redrawn(f, s)
  BY <1>6, <1>9 DEF Redrawn
<1>11. ASSUME s \in Scenes, SceneNow(s, run[f]) PROVE SceneNow(s, u)
  <2>1. SameTree(s, s)
    BY DEF SameTree
  <2> QED
    BY <1>1, <1>4, <1>5, <1>11, <2>1, SceneStays
<1>12. u.at = "closing"
  BY <1>1, <1>5 DEF Same
<1> QED
  BY <1>1, <1>5, <1>6, <1>7, <1>8, <1>9, <1>10, <1>11, <1>12, SceneGoesOn DEF AtWork

\* A held event, masked again, is still the event it was.
LEMMA RemaskedIs ==
  ASSUME TraceTypes, NEW f \in Files, NEW old \in VarsEvents \cup ContentEvents, NEW e, e = Remasked(f, old)
  PROVE  /\ SceneEvent(e) /\ e.type = old.type /\ e.file = old.file /\ e.scenario = old.scenario /\ e.step = old.step
         /\ e.type \in {"vars", "evidence", "attempt"} /\ (e.type = "vars" /\ old.vars # {} => e.vars # {})
<1>1. CASE old \in VarsEvents
  <2>1. old.type = "vars" /\ old.vars \in SUBSET SUBSET Values
    BY <1>1 DEF VarsEvents
  <2>2. PICK all : all = {Mask(v, f) : v \in old.vars}
    OBVIOUS
  <2>3. all \in SUBSET SUBSET Values /\ (old.vars # {} => all # {})
    BY <2>1, <2>2, MaskTyped
  <2>4. e = [old EXCEPT !.vars = all]
    BY <2>1, <2>2 DEF Remasked
  <2>5. e \in VarsEvents /\ e.type = old.type /\ e.file = old.file /\ e.scenario = old.scenario /\ e.step = old.step /\ e.vars = all
    BY ONLY <1>1, <2>3, <2>4 DEF VarsEvents
  <2> QED
    BY <2>1, <2>3, <2>5 DEF VarsEvents, SceneEvent, SceneKinds
<1>2. CASE old \in ContentEvents
  <2>1. old.type \in {"evidence", "attempt"} /\ old.content \in Contents
    BY <1>2 DEF ContentEvents
  <2>2. PICK shows, content : /\ shows = Mask(old.content.shows, f)
                              /\ content = [old.content EXCEPT !.shows = shows]
    OBVIOUS
  <2>3. shows \in SUBSET Values
    BY <2>1, <2>2, MaskTyped DEF Contents
  <2>4. content \in Contents
    BY <2>1, <2>2, <2>3 DEF Contents
  <2>5. e = [old EXCEPT !.content = content]
    BY <2>1, <2>2 DEF Remasked
  <2>6. e \in ContentEvents /\ e.type = old.type /\ e.file = old.file /\ e.scenario = old.scenario /\ e.step = old.step
    BY ONLY <1>2, <2>4, <2>5 DEF ContentEvents
  <2> QED
    BY <2>1, <2>6 DEF ContentEvents, SceneEvent, SceneKinds
<1> QED
  BY <1>1, <1>2

LEMMA EmitsTell ==
  ASSUME EvidenceInv, TellsInv, NEW f \in plan.files, EmitHeld(f)
  PROVE  TellsInv'
<1>1. /\ f \in Files /\ TraceTypes /\ run \in [Files -> Tasks] /\ run[f] \in Tasks /\ run[f].held \in Holdings
      /\ ScenarioInv(f) /\ SecretsInv(f) /\ PathOf[f] \in Paths
      /\ Held(f) \in Seq(VarsEvents \cup ContentEvents) /\ run[f].at = "closing" /\ Held(f) # <<>>
  <2>1. run[f] \in Tasks
    BY FileFacts
  <2> QED
    BY <2>1, FileFacts DEF Tasks, EmitHeld, Held
<1>2. PICK old, rest, held, u, e :
        /\ old = Head(Held(f)) /\ rest = Tail(Held(f)) /\ held = [run[f].held EXCEPT !.events = rest]
        /\ u = [run[f] EXCEPT !.held = held] /\ e = Remasked(f, old)
  OBVIOUS
<1>3. /\ old \in VarsEvents \cup ContentEvents /\ rest \in Seq(VarsEvents \cup ContentEvents)
      /\ 1 \in DOMAIN Held(f) /\ old = Held(f)[1]
  BY <1>1, <1>2
<1>4. run[f].flush
  <2>1. run[f].held # NoHeld
    BY <1>1 DEF Held, NoHeld
  <2> QED
    BY <1>1, <2>1 DEF ScenarioInv
<1>5. held \in Holdings /\ held.events = rest
  BY <1>1, <1>2, <1>3 DEF Holdings
<1>6. u \in Tasks /\ Same(run[f], u) /\ u.held = held /\ u.done = run[f].done /\ u.scenarios = run[f].scenarios
  <2>1. run[f] \in Tasks /\ u = [run[f] EXCEPT !.held = held]
    BY <1>1, <1>2
  <2> QED
    BY ONLY <1>5, <2>1 DEF Tasks, Same
<1>7. run' = [run EXCEPT ![f] = u] /\ report' = Fold(report, e) /\ result' = result /\ artifacts' = artifacts
  BY <1>1, <1>2 DEF EmitHeld, Held, Tell
<1>8. run'[f] = u /\ run' = [run EXCEPT ![f] = run'[f]]
  BY <1>1, <1>7
<1>9. /\ SceneEvent(e) /\ e.type = old.type /\ e.file = old.file /\ e.scenario = old.scenario /\ e.step = old.step
      /\ e.type \in {"vars", "evidence", "attempt"} /\ (e.type = "vars" /\ old.vars # {} => e.vars # {})
  BY <1>1, <1>2, <1>3, RemaskedIs
<1>10. old.file = PathOf[f] /\ old.scenario = run[f].scenarios
  BY <1>1, <1>3 DEF SecretsInv
<1>11. PICK s, q : s = Scene(f) /\ q = After(s, e)
  OBVIOUS
<1>12. Redrawn(f, q)
  BY <1>7, <1>9, <1>10, <1>11 DEF Redrawn
<1>13. ASSUME s \in Scenes, q \in Scenes, SceneNow(s, run[f]) PROVE SceneNow(q, u)
  <2>1. Counted(s, run[f])
    BY <1>13 DEF SceneNow
  <2>2. old.type = "vars" => old.vars # {}
    BY <1>3, <2>1 DEF Counted, Held
  <2>3. /\ SameTree(s, q) /\ q.status = s.status
        /\ \A m \in DOMAIN s.byStep : m \in DOMAIN q.byStep /\ (Resolved(s, m) => Resolved(q, m))
        /\ e.type = "vars" /\ e.step \in DOMAIN s.byStep => Resolved(q, e.step)
    BY <1>9, <1>11, <1>13, <2>2, StepChanged
  <2>4. PICK t : t = run[f]
    OBVIOUS
  <2>5. /\ t \in Tasks /\ Counted(s, t) /\ t.flush /\ t.held.events # <<>> /\ u.held.events = Tail(t.held.events)
        /\ u.live = t.live /\ u.deferred = t.deferred /\ u.started = t.started /\ u.slotted = t.slotted
        /\ u.flush = t.flush /\ u.at = t.at /\ u.open = t.open
    BY <1>1, <1>2, <1>4, <1>5, <1>6, <2>1, <2>4 DEF Same, Held
  <2>6. Head(t.held.events) = old
    BY <1>2, <2>4 DEF Held
  <2>7. \A m \in DOMAIN s.byStep :
          /\ m \in DOMAIN q.byStep
          /\ Resolved(s, m) \/ (Head(t.held.events).type = "vars" /\ Head(t.held.events).step = m) => Resolved(q, m)
    BY <1>9, <2>3, <2>6
  <2>8. Counted(q, u)
    BY ONLY <1>6, <1>13, <2>5, <2>7, CountedEmits
  <2> QED
    BY <1>1, <1>6, <1>13, <2>3, <2>8, SceneKeeps DEF Same
<1>14. u.at = "closing"
  BY <1>1, <1>6 DEF Same
<1> QED
  BY <1>1, <1>6, <1>7, <1>8, <1>11, <1>12, <1>13, <1>14, SceneGoesOn DEF AtWork

-----------------------------------------------------------------------------
\* What the page says of a scenario that ends.
Closed(s, q, status, coverage) ==
  /\ q.items = s.items /\ q.parents = s.parents /\ q.byStep = s.byStep
  /\ q.status = status /\ q.coverage = coverage
Covers(t, coverage) ==
  LET recorded == t.live + (IF t.flush THEN t.deferred ELSE 0)
  IN  coverage = IF recorded = 0 THEN "none" ELSE IF recorded = t.started THEN "full" ELSE "partial"
Ended(q, t, status) == q.status = status /\ Explained(q) /\ SameSteps(q, t.told) /\ Honest(q, t.slotted)

LEMMA SceneOver ==
  ASSUME NEW s \in Scenes, NEW q \in Scenes, NEW t \in Tasks, SceneNow(s, t), t.at = "closing", t.held.events = <<>>,
         NEW status, status = IF t.failed THEN "failed" ELSE "passed",
         NEW coverage, Covers(t, coverage), Closed(s, q, status, coverage)
  PROVE  Ended(q, t, status)
<1>1. /\ q.items = s.items /\ q.parents = s.parents /\ q.byStep = s.byStep
      /\ q.status = status /\ q.coverage = coverage
  BY DEF Closed
<1>2. PICK open, fails, told : open = t.open /\ fails = t.failed /\ told = t.told
  OBVIOUS
<1>3. open = <<>> /\ Calls(s, open) /\ Failures(s, open, fails) /\ TopsTold(s, open, told) /\ Counted(s, t)
  BY <1>2 DEF SceneNow
<1>4. DOMAIN open = {} /\ fails \in BOOLEAN
  BY <1>2, <1>3 DEF Tasks
<1>5. \A i \in DOMAIN s.items : s.items[i].status # "open"
  BY <1>3, <1>4 DEF Calls
<1>6. Children(q, 0) = Children(s, 0) /\ \A i : Children(q, i) = Children(s, i)
  BY <1>1 DEF Children
<1>7. Explained(q)
  <2>1. ASSUME NEW i \in DOMAIN s.items, s.items[i].status = "failed"
        PROVE  IF s.parents[i] = 0 THEN status = "failed" ELSE s.items[s.parents[i]].status = "failed"
    <3>1. IF s.parents[i] = 0 THEN fails ELSE s.items[s.parents[i]].status = "failed"
      BY <1>3, <1>4, <2>1 DEF Failures
    <3> QED
      BY <1>2, <3>1
  <2>2. ASSUME NEW i \in DOMAIN s.items, s.items[i].status = "skipped"
        PROVE  \/ \E j \in Children(s, s.parents[i]) : j < i /\ s.items[j].status = "failed"
               \/ s.parents[i] = 0 /\ status = "failed"
                  /\ \A j \in Children(s, 0) : s.items[j].status \notin {"passed", "failed"}
    <3>1. \/ \E j \in DOMAIN s.items : j < i /\ FailedAt(s, j, s.parents[i])
          \/ s.parents[i] = 0 /\ fails /\ NothingRan(s)
      BY <1>3, <2>2 DEF Failures
    <3>2. CASE \E j \in DOMAIN s.items : j < i /\ FailedAt(s, j, s.parents[i])
      BY <3>2 DEF FailedAt, Children
    <3>3. CASE s.parents[i] = 0 /\ fails /\ NothingRan(s)
      BY <1>2, <3>3 DEF NothingRan, Children
    <3> QED
      BY <3>1, <3>2, <3>3
  <2> QED
    BY <1>1, <1>5, <1>6, <2>1, <2>2 DEF Explained
<1>8. SameSteps(q, told)
  <2>1. PICK tops : tops = Tops(s)
    OBVIOUS
  <2>2. tops = {i \in Children(q, 0) : q.items[i].kind = "step"} /\ tops \subseteq DOMAIN s.items
    BY <1>1, <1>6, <2>1 DEF Tops, Children
  <2>3. Len(told) \in Nat
    BY <1>2 DEF Tasks
  <2>4. Cardinality(tops) = Len(told)
    BY <1>3, <2>1, <2>3 DEF TopsTold
  <2>5. ASSUME NEW i \in tops PROVE q.items[i].status = told[Cardinality({j \in tops : j <= i})]
    <3>1. s.items[i].status # "open"
      BY <1>5, <2>2
    <3>2. s.items[i].status = told[Rank(s, i)]
      BY <1>3, <2>1, <3>1 DEF TopsTold
    <3>3. Rank(s, i) = Cardinality({j \in tops : j <= i})
      BY <2>1 DEF Rank
    <3> QED
      BY <1>1, <3>2, <3>3
  <2>6. Tops(q) = tops
    BY <2>2 DEF Tops
  <2>7. /\ Cardinality(Tops(q)) = Len(told)
        /\ \A i \in Tops(q) : q.items[i].status = told[Cardinality({j \in Tops(q) : j <= i})]
    BY <2>4, <2>5, <2>6
  <2> QED
    BY ONLY <2>7 DEF SameSteps, Tops
<1>9. t.live \in Nat /\ t.deferred \in Nat /\ t.started \in Nat /\ t.flush \in BOOLEAN
  BY DEF Tasks
<1>10. coverage = "none" => t.live = 0 /\ (t.flush => t.deferred = 0)
  <2>1. coverage = "none" => t.live + (IF t.flush THEN t.deferred ELSE 0) = 0
    BY DEF Covers
  <2> QED
    BY <1>9, <2>1
<1>11. coverage = "none" => \A i \in DOMAIN s.items : Bare(s.items[i])
  <2>1. (\E i \in DOMAIN s.items : ~Bare(s.items[i])) => t.live > 0 \/ (t.flush /\ t.deferred > 0)
    BY <1>3 DEF Counted
  <2> QED
    BY <1>9, <1>10, <2>1
<1>12. coverage = "full" => IF t.flush THEN t.live + t.deferred = t.started ELSE t.live = t.started
  <2>1. coverage = "full" => t.live + (IF t.flush THEN t.deferred ELSE 0) = t.started
    BY DEF Covers
  <2> QED
    BY <1>9, <2>1
<1>13. \A n : ~WaitsFor(t, n)
  BY DEF WaitsFor
<1>14. coverage = "full" => \A n \in t.slotted : Resolved(s, n)
  BY <1>3, <1>12, <1>13 DEF Counted
<1>15. Honest(q, t.slotted)
  BY <1>1, <1>11, <1>14 DEF Honest, Resolved
<1> QED
  BY <1>1, <1>2, <1>7, <1>8, <1>15 DEF Ended

LEMMA FinishesTell ==
  ASSUME EvidenceInv, TellsInv, NEW f \in plan.files, ScenarioFinishes(f)
  PROVE  TellsInv'
<1>1. /\ f \in Files /\ TraceTypes /\ run \in [Files -> Tasks] /\ run[f] \in Tasks /\ PathOf[f] \in Paths
      /\ ScenarioInv(f)
  BY FileFacts
<1>2. /\ run[f].at = "closing" /\ run[f].held.events = <<>>
      /\ UNCHANGED <<plan, result, counter, artifacts, lost, interrupted>>
  BY DEF ScenarioFinishes
<1>3. PICK status, outcome, done, coverage, e, u :
        /\ status = (IF run[f].failed THEN "failed" ELSE "passed") /\ coverage = Coverage(f)
        /\ outcome = [status |-> status, steps |-> run[f].told, shows |-> run[f].shows,
                      stopped |-> run[f].stopped, bytes |-> run[f].deferred_bytes]
        /\ done = Append(run[f].done, outcome)
        /\ e = EventOf(f, "scenario_finished", [status |-> status, coverage |-> coverage])
        /\ u = [run[f] EXCEPT !.at = "between", !.done = done]
  OBVIOUS
<1>4. /\ status \in {"passed", "failed"} /\ run[f].told \in Seq(Statuses) /\ run[f].shows \in SUBSET Values
      /\ run[f].stopped \in BOOLEAN /\ run[f].deferred_bytes \in Nat /\ run[f].done \in Seq(Outcomes)
      /\ run[f].scenarios \in Nat
  BY <1>1, <1>3 DEF Tasks
<1>5. outcome \in Outcomes /\ outcome.status = status /\ outcome.steps = run[f].told
  BY <1>3, <1>4 DEF Outcomes
<1>6. PICK n : n = run[f].scenarios
  OBVIOUS
<1>7. /\ n \in Nat /\ n > 0 /\ done \in Seq(Outcomes) /\ DOMAIN done = 1..n /\ done[n] = outcome
      /\ \A k \in 1..n : k # n => k \in DOMAIN run[f].done /\ done[k] = run[f].done[k]
      /\ \A k \in DOMAIN run[f].done : k \in 1..n /\ k # n
  <2>1. PICK old : old = run[f].done
    OBVIOUS
  <2>2. old \in Seq(Outcomes) /\ done = Append(old, outcome) /\ Len(old) + 1 = n /\ n \in Nat
    BY <1>1, <1>2, <1>3, <1>4, <1>6, <2>1 DEF ScenarioInv
  <2>3. /\ n > 0 /\ done \in Seq(Outcomes) /\ DOMAIN done = 1..n /\ done[n] = outcome
        /\ \A k \in 1..n : k # n => k \in DOMAIN old /\ done[k] = old[k]
        /\ \A k \in DOMAIN old : k \in 1..n /\ k # n
    BY ONLY <1>5, <2>2
  <2> QED
    BY <2>1, <2>2, <2>3
<1>8. /\ u \in Tasks /\ u.at = "between" /\ u.scenarios = n /\ u.done = done /\ u.slotted = run[f].slotted
  <2>1. run[f] \in Tasks /\ u = [run[f] EXCEPT !.at = "between", !.done = done]
    BY <1>1, <1>3
  <2> QED
    BY ONLY <1>6, <1>7, <2>1 DEF Tasks
<1>9. run' = [run EXCEPT ![f] = u] /\ report' = Fold(report, e)
  BY <1>1, <1>3 DEF ScenarioFinishes, Tell
<1>10. run'[f] = u /\ Only(f)
  BY <1>1, <1>2, <1>9 DEF Only, TraceTypes
<1>11. e = [type |-> "scenario_finished", file |-> PathOf[f], scenario |-> run[f].scenarios,
            status |-> status, coverage |-> coverage]
  BY <1>3, EventOutcome
<1>12. SceneEvent(e) /\ e.file = PathOf[f] /\ e.scenario = run[f].scenarios
  <2>1. coverage \in Coverages
    BY <1>3 DEF Coverage, Coverages
  <2> QED
    BY <1>1, <1>4, <1>11, <2>1 DEF SceneEvent, SceneKinds, Statuses
<1>13. PICK s, q : s = Scene(f) /\ q = After(s, e)
  OBVIOUS
<1>14. Redrawn(f, q)
  BY <1>9, <1>12, <1>13 DEF Redrawn
<1>15. q = [s EXCEPT !.status = status, !.coverage = coverage]
  BY <1>11, <1>13 DEF After
<1>16. InProgress(f)
  BY <1>2 DEF InProgress
<1>17. ASSUME Distinct PROVE Aside(f) /\ (FileTells(f))'
  <2>1. /\ s \in Scenes /\ q \in Scenes /\ OnlyPage(f)
        /\ DOMAIN InReport(f)'.scenarios = 1..n
        /\ \A m \in 1..n : m # n => InReport(f)'.scenarios[m] = InReport(f).scenarios[m]
        /\ InReport(f)'.scenarios[n] = q
    BY <1>6, <1>7, <1>13, <1>14, <1>16, <1>17, PageRedrawn
  <2>2. FileTells(f)
    BY <1>1, <1>16, <1>17, WorkFacts DEF TellsInv
  <2>3. SceneNow(s, run[f])
    BY <1>2, <1>13, <2>2 DEF FileTells
  <2>4. PICK t : t = run[f]
    OBVIOUS
  <2>5. Covers(t, coverage) /\ Closed(s, q, status, coverage)
    <3>1. Covers(t, coverage)
      BY <1>3, <2>4 DEF Coverage, Covers
    <3>2. Closed(s, q, status, coverage)
      BY ONLY <1>15, <2>1 DEF Scenes, SceneRecords, Closed
    <3> QED
      BY <3>1, <3>2
  <2>6. /\ t \in Tasks /\ SceneNow(s, t) /\ t.at = "closing" /\ t.held.events = <<>>
        /\ status = IF t.failed THEN "failed" ELSE "passed"
    BY <1>1, <1>2, <1>3, <2>3, <2>4
  <2>7. q.status = status /\ Explained(q) /\ SameSteps(q, t.told) /\ Honest(q, t.slotted)
    <3>1. Ended(q, t, status)
      BY ONLY <2>1, <2>5, <2>6, SceneOver
    <3> QED
      BY <3>1 DEF Ended
  <2>8. Told(f)' = done /\ Told(f) = run[f].done /\ result' = result
    BY <1>2, <1>8, <1>10 DEF Told
  <2>9. DOMAIN InReport(f).scenarios = 1..n
    BY <1>6, <1>16, <1>17, OwnScenes
  <2>10. (ClosedTell(f))'
    <3> SUFFICES ASSUME NEW k \in DOMAIN InReport(f)'.scenarios, NEW p, p = InReport(f)'.scenarios[k],
                        p.status # "open"
                 PROVE  /\ Explained(p)
                        /\ ~result'[f].panicked => /\ k \in DOMAIN Told(f)' /\ p.status = (Told(f)')[k].status
                                                   /\ SameSteps(p, (Told(f)')[k].steps)
      BY DEF ClosedTell
    <3>1. k \in 1..n
      BY <2>1
    <3>2. CASE k = n
      BY <1>5, <1>7, <2>1, <2>4, <2>7, <2>8, <3>1, <3>2
    <3>3. CASE k # n
      <4>1. p = InReport(f).scenarios[k] /\ done[k] = run[f].done[k]
        BY <1>7, <2>1, <3>1, <3>3
      <4> QED
        BY <1>7, <2>2, <2>8, <2>9, <3>1, <4>1 DEF FileTells, ClosedTell
    <3> QED
      BY <3>2, <3>3
  <2>11. \A k \in DOMAIN done : InReport(f)'.scenarios[k].status # "open"
    <3> SUFFICES ASSUME NEW k \in 1..n PROVE InReport(f)'.scenarios[k].status # "open"
      BY <1>7
    <3>1. CASE k = n
      BY <1>4, <2>1, <2>7, <3>1
    <3>2. CASE k # n
      <4>1. k \in DOMAIN run[f].done
        BY <1>7, <3>2
      <4> QED
        BY <1>2, <2>1, <2>2, <3>2, <4>1 DEF FileTells
    <3> QED
      BY <3>1, <3>2
  <2>12. Scene(f)' = q
    BY <1>8, <1>10, <2>1 DEF Scene
  <2>13. Honest(q, run'[f].slotted)
    BY <1>8, <1>10, <2>4, <2>7
  <2>14. (FileTells(f))'
    BY <1>8, <1>10, <2>10, <2>11, <2>12, <2>13 DEF FileTells
  <2> QED
    BY <1>1, <1>10, <1>17, <2>1, <2>14, OnlyAside
<1> QED
  BY <1>1, <1>17, AsideTells

-----------------------------------------------------------------------------
\* A file and its scenarios begin with nothing told.
LEMMA FileStartTells ==
  ASSUME EvidenceInv, TellsInv, NEW f \in plan.files, FileStarts(f)
  PROVE  TellsInv'
<1>1. /\ f \in Files /\ TraceTypes /\ run \in [Files -> Tasks] /\ run[f] \in Tasks /\ PathOf[f] \in Paths
      /\ ScenarioInv(f)
  BY FileFacts
<1>2. PICK u : u = [run[f] EXCEPT !.at = "between"]
  OBVIOUS
<1>3. u.at = "between" /\ u.done = run[f].done
  BY <1>1, <1>2 DEF Tasks
<1>4. /\ run' = [run EXCEPT ![f] = u] /\ run[f].at = "idle" /\ ~interrupted /\ result' = result
      /\ report' = Fold(report, [type |-> "file_started", file |-> PathOf[f]])
  BY <1>1, <1>2 DEF FileStarts, Tell
<1>5. run'[f] = u /\ \A g \in Files : g # f => run'[g] = run[g]
  BY <1>1, <1>4
<1>6. run[f].done = <<>>
  <2>1. run[f].done \in Seq(Outcomes) /\ Len(run[f].done) = 0
    BY <1>1, <1>4 DEF ScenarioInv, Tasks
  <2> QED
    BY <2>1
<1>7. report.incomplete /\ report \in Reports /\ report \in Trees
  BY <1>1, <1>4, StreamOpen DEF TraceTypes, Reports
<1>8. PICK n, q : n = Len(report.files) /\ q = report'
  OBVIOUS
<1>9. /\ Len(q.files) = n + 1 /\ q.index = [report.index EXCEPT ![PathOf[f]] = n + 1]
      /\ \A i \in DOMAIN report.files : q.files[i] = report.files[i]
      /\ q.files[Len(q.files)] = NewFile
  BY <1>1, <1>4, <1>7, <1>8, FoldsStart, SMTT(30)
<1>10. q.index[PathOf[f]] = n + 1 /\ \A p \in Paths : p # PathOf[f] => q.index[p] = report.index[p]
  BY <1>1, <1>7, <1>9 DEF Trees
<1>11. ASSUME Distinct PROVE Aside(f)
  <2> SUFFICES ASSUME NEW g \in Files, g # f
               PROVE  /\ run'[g] = run[g] /\ result'[g] = result[g]
                      /\ Started(g)' => Started(g) /\ InReport(g)' = InReport(g)
    BY DEF Aside
  <2>1. PathOf[g] \in Paths /\ PathOf[g] # PathOf[f]
    BY <1>1, <1>11, TraceAssumption DEF Distinct
  <2>2. q.index[PathOf[g]] = report.index[PathOf[g]]
    BY <1>10, <2>1
  <2>3. Started(g)' => Started(g)
    BY <1>5, <1>8, <2>2 DEF Started
  <2>4. ASSUME Started(g) PROVE InReport(g)' = InReport(g)
    <3>1. report.index[PathOf[g]] \in DOMAIN report.files
      BY <1>7, <2>1, <2>4, PageIn DEF Started
    <3> QED
      BY <1>8, <1>9, <2>2, <3>1 DEF InReport
  <2> QED
    BY <1>4, <1>5, <2>3, <2>4
<1>12. (FileTells(f))'
  <2>1. InReport(f)' = NewFile
    BY <1>8, <1>9, <1>10 DEF InReport
  <2>2. DOMAIN NewFile.scenarios = {}
    BY DEF NewFile
  <2>3. (ClosedTell(f))'
    BY <2>1, <2>2 DEF ClosedTell
  <2>4. DOMAIN u.done = {} /\ u.done = <<>>
    BY <1>3, <1>6
  <2> QED
    BY <1>3, <1>5, <2>3, <2>4 DEF FileTells
<1> QED
  BY <1>1, <1>11, <1>12, AsideTells

Fresh(u) ==
  /\ u.at = "scenario" /\ u.open = <<>> /\ u.told = <<>> /\ u.steps = 0 /\ u.held = NoHeld
  /\ u.started = 0 /\ u.live = 0 /\ u.deferred = 0 /\ u.slotted = {} /\ u.failed \in BOOLEAN

LEMMA FreshNow ==
  ASSUME NEW u, Fresh(u)
  PROVE  SceneNow(NewScenario, u)
<1>1. PICK s : s = NewScenario
  OBVIOUS
<1>2. /\ DOMAIN s.items = {} /\ DOMAIN s.byStep = {} /\ Len(s.byStep) = 0 /\ s.status = "open"
      /\ s.items = <<>> /\ s.byStep = <<>>
  BY <1>1 DEF NewScenario
<1>3. DOMAIN u.open = {} /\ u.held.events = <<>> /\ DOMAIN u.held.events = {}
  BY DEF Fresh, NoHeld
<1>4. Calls(s, u.open)
  BY <1>2, <1>3 DEF Calls
<1>5. Failures(s, u.open, u.failed)
  BY <1>2, <1>3 DEF Failures, NothingRan, Fresh
<1>6. TopsTold(s, u.open, u.told)
  <2>1. Tops(s) = {} /\ Cardinality({}) = 0
    BY <1>2, FS_EmptySet DEF Tops, Children
  <2>2. Len(u.told) = 0 /\ u.open = <<>>
    BY DEF Fresh
  <2> QED
    BY <2>1, <2>2 DEF TopsTold
<1>7. Counted(s, u)
  BY <1>2, <1>3 DEF Counted, Fresh
<1> QED
  BY <1>1, <1>2, <1>4, <1>5, <1>6, <1>7 DEF SceneNow, Fresh

LEMMA ScenarioStartTells ==
  ASSUME EvidenceInv, TellsInv, NEW f \in plan.files, ScenarioStarts(f)
  PROVE  TellsInv'
<1>1. /\ f \in Files /\ TraceTypes /\ run \in [Files -> Tasks] /\ run[f] \in Tasks /\ PathOf[f] \in Paths
      /\ ScenarioInv(f)
  BY FileFacts
<1>2. PICK tagged \in BOOLEAN, resetFailed \in BOOLEAN :
        run' = [run EXCEPT ![f] =
                  [Idle EXCEPT !.at = "scenario", !.secrets = Idle.secrets \cup run[f].secrets,
                     !.done = run[f].done, !.effects = run[f].effects, !.scenarios = run[f].scenarios + 1,
                     !.tagged = tagged, !.failed = resetFailed]]
  BY DEF ScenarioStarts
<1>3. PICK n, set, done, effects, u :
        /\ n = run[f].scenarios + 1 /\ set = Idle.secrets \cup run[f].secrets
        /\ done = run[f].done /\ effects = run[f].effects
        /\ u = [Idle EXCEPT !.at = "scenario", !.secrets = set, !.done = done,
                            !.effects = effects, !.scenarios = n, !.tagged = tagged, !.failed = resetFailed]
  OBVIOUS
<1>4. u.scenarios = n /\ u.done = done /\ Fresh(u)
  BY <1>3 DEF Idle, Fresh
<1>5. /\ run' = [run EXCEPT ![f] = u] /\ run[f].at = "between" /\ result' = result
      /\ UNCHANGED <<plan, result, counter, artifacts, lost, interrupted>>
      /\ report' = Fold(report, EventOf(f, "scenario_started", <<>>))
  BY <1>2, <1>3 DEF ScenarioStarts, Tell
<1>6. run'[f] = u /\ Only(f)
  BY <1>1, <1>5 DEF Only, TraceTypes
<1>7. report.incomplete /\ report \in Reports /\ InProgress(f)
  BY <1>1, <1>5, StreamOpen DEF InProgress, TraceTypes
<1>8. PICK e : e = [type |-> "scenario_started", file |-> PathOf[f], scenario |-> run[f].scenarios]
  OBVIOUS
<1>9. report' = Fold(report, e) /\ e.type = "scenario_started" /\ e.file = PathOf[f]
  BY <1>5, <1>8, EventPlace
<1>10. ASSUME Distinct PROVE Aside(f) /\ (FileTells(f))'
  <2>1. PICK i, m : i = report.index[PathOf[f]] /\ m = run[f].scenarios
    OBVIOUS
  <2>2. i # 0 /\ Started(f) /\ m \in Nat /\ n = m + 1
    BY <1>3, <1>7, <1>10, <2>1, WorkFacts DEF Started
  <2>3. Opened(report, report', i)
    BY <1>1, <1>7, <1>9, <2>1, <2>2, FoldsScenario
  <2>4. OnlyPage(f)
    BY <2>1, <2>3 DEF Opened, OnlyPage
  <2>5. PICK old, list : old = InReport(f).scenarios /\ list = InReport(f)'.scenarios
    OBVIOUS
  <2>6. old \in Seq(Scenes) /\ DOMAIN old = 1..m
    <3>1. InReport(f) \in Pages /\ DOMAIN InReport(f).scenarios = 1..m
      BY <1>7, <1>10, <2>1, OwnScenes
    <3> QED
      BY <2>5, <3>1 DEF Pages
  <2>7. list = Append(old, NewScenario)
    <3>1. InReport(f) = report.files[i] /\ InReport(f)' = report'.files[i]
      BY <2>1, <2>3 DEF Opened, InReport
    <3> QED
      BY <2>3, <2>5, <3>1 DEF Opened
  <2>8. /\ DOMAIN list = 1..n /\ list[n] = NewScenario
        /\ \A k \in 1..n : k # n => k \in DOMAIN old /\ list[k] = old[k]
        /\ \A k \in DOMAIN old : k \in DOMAIN list /\ list[k] = old[k]
    <3>1. Len(old) = m
      BY <2>2, <2>6
    <3> QED
      BY ONLY <2>2, <2>6, <2>7, <3>1
  <2>9. FileTells(f)
    BY <1>1, <1>10, <2>2 DEF TellsInv
  <2>10. Told(f)' = done /\ Told(f) = done
    BY <1>3, <1>4, <1>5, <1>6 DEF Told, Fresh
  <2>11. (ClosedTell(f))'
    <3> SUFFICES ASSUME NEW k \in DOMAIN list, NEW p, p = list[k], p.status # "open"
                 PROVE  /\ Explained(p)
                        /\ ~result'[f].panicked => /\ k \in DOMAIN Told(f)' /\ p.status = (Told(f)')[k].status
                                                   /\ SameSteps(p, (Told(f)')[k].steps)
      BY <2>5 DEF ClosedTell
    <3>1. k # n
      BY <2>8 DEF NewScenario
    <3>2. k \in DOMAIN old /\ p = old[k]
      BY <2>8, <3>1
    <3> QED
      BY <1>5, <2>5, <2>9, <2>10, <3>2 DEF FileTells, ClosedTell
  <2>12. Scene(f)' = NewScenario
    BY <1>4, <1>6, <2>5, <2>8 DEF Scene
  <2>13. SceneNow(NewScenario, u)
    BY <1>4, FreshNow
  <2>14. \A k \in DOMAIN done : list[k].status # "open"
    <3> SUFFICES ASSUME NEW k \in DOMAIN done PROVE list[k].status # "open"
      OBVIOUS
    <3>1. done \in Seq(Outcomes) /\ Len(done) = m
      BY <1>1, <1>3, <1>5, <2>1 DEF ScenarioInv, Tasks
    <3>2. k \in DOMAIN old
      BY <2>6, <3>1
    <3>3. old[k].status # "open"
      BY <1>3, <1>5, <2>5, <2>9 DEF FileTells
    <3> QED
      BY <2>8, <3>2, <3>3
  <2>15. u.at = "scenario"
    BY <1>4 DEF Fresh
  <2>16. (FileTells(f))'
    BY <1>4, <1>6, <2>5, <2>11, <2>12, <2>13, <2>14, <2>15 DEF FileTells
  <2> QED
    BY <1>1, <1>6, <1>10, <2>4, <2>16, OnlyAside
<1> QED
  BY <1>1, <1>10, AsideTells

-----------------------------------------------------------------------------
\* The file ends, or the run.
LEMMA EndsTell ==
  ASSUME EvidenceInv, TellsInv, NEW f \in plan.files, InProgress(f), NEW panicked \in BOOLEAN,
         NEW scenarios \in Seq(Outcomes), Ends(f, panicked, scenarios),
         ~panicked => /\ DOMAIN scenarios = DOMAIN run[f].done /\ run[f].at = "between"
                      /\ \A k \in DOMAIN scenarios :
                           /\ scenarios[k].status = run[f].done[k].status
                           /\ scenarios[k].steps = run[f].done[k].steps
  PROVE  TellsInv'
<1>1. /\ f \in Files /\ TraceTypes /\ run \in [Files -> Tasks] /\ run[f] \in Tasks /\ PathOf[f] \in Paths
      /\ ScenarioInv(f) /\ PassingInv(f)
  BY FileFacts
<1>2. PICK u : u = [Idle EXCEPT !.at = "done", !.secrets = run[f].secrets]
  OBVIOUS
<1>3. u.at = "done"
  BY <1>2 DEF Idle
<1>4. /\ run' = [run EXCEPT ![f] = u] /\ UNCHANGED <<plan, counter, artifacts, lost, interrupted>>
      /\ report' = Fold(report, [type |-> "file_finished", file |-> PathOf[f], panicked |-> panicked])
  BY <1>2 DEF Ends, Tell
<1>5. /\ result'[f].panicked = panicked /\ result'[f].scenarios = scenarios
      /\ result' = [result EXCEPT ![f] = result'[f]]
  <2>1. result \in [Files -> [panicked : BOOLEAN, scenarios : Seq(Outcomes)]]
    BY <1>1 DEF TraceTypes
  <2>2. result' = [result EXCEPT ![f].panicked = panicked, ![f].scenarios = scenarios]
    BY DEF Ends
  <2>3. f \in Files /\ panicked \in BOOLEAN /\ scenarios \in Seq(Outcomes)
    BY <1>1
  <2> QED
    BY ONLY <2>1, <2>2, <2>3
<1>6. run'[f] = u /\ Only(f)
  BY <1>1, <1>4, <1>5 DEF Only
<1>7. PICK q, i : q = report' /\ i = report.index[PathOf[f]]
  OBVIOUS
<1>8. report \in Reports /\ report.incomplete
  BY <1>1, StreamOpen DEF TraceTypes
<1>9. /\ q \in Reports /\ q.incomplete /\ q.index = report.index /\ DOMAIN q.files = DOMAIN report.files
      /\ \A j \in DOMAIN report.files : /\ q.files[j].scenarios = report.files[j].scenarios
                                        /\ j # i => q.files[j] = report.files[j]
      /\ i # 0 => q.files[i].panicked = panicked
  BY <1>1, <1>4, <1>7, <1>8, FoldsFinish
<1>10. ~result[f].panicked /\ Told(f) = run[f].done /\ Told(f)' = scenarios
  BY <1>1, <1>3, <1>5, <1>6 DEF PassingInv, Told, InProgress
<1>11. ASSUME Distinct PROVE Aside(f) /\ (FileTells(f))'
  <2>1. OnlyPage(f)
    BY <1>7, <1>9 DEF OnlyPage
  <2>2. /\ FileTells(f) /\ i \in DOMAIN report.files /\ i # 0
        /\ DOMAIN InReport(f).scenarios = 1..run[f].scenarios /\ run[f].scenarios \in Nat /\ OwnPage(f)
    BY <1>1, <1>7, <1>11, WorkFacts, OwnScenes DEF TellsInv, OwnPage
  <2>3. InReport(f)'.scenarios = InReport(f).scenarios /\ InReport(f)'.panicked = panicked
    BY <1>7, <1>9, <2>2 DEF InReport
  <2>4. (ClosedTell(f))'
    <3> SUFFICES ASSUME NEW k \in DOMAIN InReport(f).scenarios, NEW p, p = InReport(f).scenarios[k],
                        p.status # "open"
                 PROVE  /\ Explained(p)
                        /\ ~panicked => /\ k \in DOMAIN scenarios /\ p.status = scenarios[k].status
                                        /\ SameSteps(p, scenarios[k].steps)
      BY <1>5, <1>10, <2>3 DEF ClosedTell
    <3>1. Explained(p) /\ k \in DOMAIN run[f].done /\ p.status = run[f].done[k].status /\ SameSteps(p, run[f].done[k].steps)
      BY <1>10, <2>2 DEF FileTells, ClosedTell
    <3> QED
      BY <3>1
  <2>5. ASSUME ~panicked
        PROVE  /\ Len(InReport(f).scenarios) = Len(scenarios)
               /\ \A k \in DOMAIN scenarios : InReport(f).scenarios[k].status # "open"
    <3>1. Len(run[f].done) = run[f].scenarios /\ Len(InReport(f).scenarios) = run[f].scenarios
      BY <1>1, <2>2, <2>5 DEF ScenarioInv, OwnPage
    <3>2. Len(scenarios) = Len(run[f].done)
      <4>1. PICK done : done = run[f].done
        OBVIOUS
      <4>2. done \in Seq(Outcomes) /\ scenarios \in Seq(Outcomes) /\ DOMAIN scenarios = DOMAIN done
        BY <1>1, <2>5, <4>1 DEF Tasks
      <4>3. DOMAIN done = 1..Len(done) /\ DOMAIN scenarios = 1..Len(scenarios) /\ Len(done) \in Nat /\ Len(scenarios) \in Nat
        BY ONLY <4>2
      <4>4. Len(scenarios) = Len(done)
        BY ONLY <4>2, <4>3
      <4> QED
        BY <4>1, <4>4
    <3> QED
      BY <2>2, <2>5, <3>1, <3>2 DEF FileTells
  <2>6. (FileTells(f))'
    BY <1>3, <1>5, <1>6, <1>10, <2>3, <2>4, <2>5 DEF FileTells
  <2> QED
    BY <1>1, <1>6, <1>11, <2>1, <2>6, OnlyAside
<1> QED
  BY <1>1, <1>11, AsideTells

LEMMA FileEndTells ==
  ASSUME EvidenceInv, TellsInv, NEW f \in plan.files, FileEnds(f)
  PROVE  TellsInv'
<1>1. /\ f \in Files /\ TraceTypes /\ run[f] \in Tasks
  BY FileFacts
<1>2. PICK done, scenarios : done = run[f].done /\ scenarios = FinalTexts(f)
  OBVIOUS
<1>3. done \in Seq(Outcomes)
  BY <1>1, <1>2 DEF Tasks
<1>4. scenarios = [k \in DOMAIN done |-> [done[k] EXCEPT !.shows = Mask(done[k].shows, f)]]
  BY <1>2 DEF FinalTexts
<1>5. ASSUME NEW k \in DOMAIN done
      PROVE  /\ scenarios[k] \in Outcomes /\ scenarios[k].status = done[k].status
             /\ scenarios[k].steps = done[k].steps
  <2>1. PICK one, shows, new : one = done[k] /\ shows = Mask(one.shows, f) /\ new = [one EXCEPT !.shows = shows]
    OBVIOUS
  <2>2. scenarios[k] = new /\ one \in Outcomes
    BY <1>3, <1>4, <1>5, <2>1
  <2>3. shows \in SUBSET Values
    BY <1>1, <2>1, <2>2, MaskTyped DEF Outcomes
  <2>4. new \in Outcomes /\ new.status = one.status /\ new.steps = one.steps
    BY ONLY <2>1, <2>2, <2>3 DEF Outcomes
  <2> QED
    BY <2>1, <2>2, <2>4
<1>6. PICK n : n = Len(done) /\ n \in Nat /\ DOMAIN done = 1..n
  BY <1>3
<1>7. DOMAIN scenarios = 1..n /\ scenarios \in [1..n -> Outcomes]
  BY <1>4, <1>5, <1>6
<1>8. scenarios \in Seq(Outcomes)
  BY <1>6, <1>7
<1>9. run[f].at = "between" /\ Ends(f, FALSE, scenarios) /\ InProgress(f)
  BY <1>2 DEF FileEnds, InProgress
<1> QED
  BY <1>2, <1>5, <1>6, <1>7, <1>8, <1>9, EndsTell

LEMMA PanicTells ==
  ASSUME EvidenceInv, TellsInv, NEW f \in plan.files, Panics(f)
  PROVE  TellsInv'
<1>1. Aborted \in Outcomes
  BY DEF Aborted, Outcomes
<1>2. <<Aborted>> \in Seq(Outcomes)
  BY <1>1
<1>3. InProgress(f) /\ Ends(f, TRUE, <<Aborted>>)
  BY DEF Panics, InProgress
<1> QED
  BY <1>2, <1>3, EndsTell

LEMMA QuietTells ==
  ASSUME TellsInv, UNCHANGED <<run, result, report>>
  PROVE  TellsInv'
<1>1. Distinct' <=> Distinct
  BY DEF Distinct
<1>2. ASSUME Distinct, NEW g \in Files, Started(g)' PROVE (FileTells(g))'
  <2>1. Started(g) /\ FileTells(g)
    BY <1>2 DEF Started, TellsInv
  <2>2. InReport(g)' = InReport(g) /\ Told(g)' = Told(g)
    BY DEF InReport, Told
  <2>3. Scene(g)' = Scene(g)
    BY <2>2 DEF Scene
  <2> QED
    BY <2>1, <2>2, <2>3 DEF FileTells, ClosedTell
<1> QED
  BY <1>1, <1>2 DEF TellsInv

LEMMA RunEndTells ==
  ASSUME EvidenceInv, TellsInv, RunFinishes
  PROVE  TellsInv'
<1>1. /\ TraceTypes /\ run \in [Files -> Tasks] /\ report \in Reports
  BY DEF EvidenceInv, TraceTypes
<1>2. /\ run' = [f \in Files |-> IF run[f].at \in {"idle", "done"} THEN run[f] ELSE [run[f] EXCEPT !.at = "cut"]]
      /\ report' = Fold(report, [type |-> "run_finished"]) /\ result' = result
  BY DEF RunFinishes, Tell
<1>3. report'.index = report.index /\ report'.files = report.files
  BY <1>1, <1>2, FoldsRun
<1>4. Distinct' <=> Distinct
  BY DEF Distinct
<1>5. ASSUME Distinct, NEW g \in Files, Started(g)' PROVE (FileTells(g))'
  <2>1. run[g] \in Tasks /\ run'[g] = IF run[g].at \in {"idle", "done"} THEN run[g] ELSE [run[g] EXCEPT !.at = "cut"]
    BY <1>1, <1>2
  <2>2. InReport(g)' = InReport(g)
    BY <1>3 DEF InReport
  <2>3. CASE run[g].at \in {"idle", "done"}
    <3>1. run'[g] = run[g]
      BY <2>1, <2>3
    <3>2. Started(g) /\ FileTells(g)
      BY <1>3, <1>5, <3>1 DEF Started, TellsInv
    <3>3. Told(g)' = Told(g) /\ Scene(g)' = Scene(g)
      BY <1>2, <2>2, <3>1 DEF Told, Scene
    <3> QED
      BY <1>2, <2>2, <3>1, <3>2, <3>3 DEF FileTells, ClosedTell
  <2>4. CASE run[g].at \notin {"idle", "done"}
    <3>1. run'[g].at = "cut" /\ run'[g].done = run[g].done
      BY <2>1, <2>4 DEF Tasks
    <3>2. Started(g) /\ FileTells(g)
      BY <1>3, <1>5, <2>4 DEF Started, TellsInv
    <3>3. Told(g)' = Told(g)
      BY <2>4, <3>1 DEF Told
    <3>4. (ClosedTell(g))'
      BY <1>2, <2>2, <3>2, <3>3 DEF FileTells, ClosedTell
    <3> QED
      BY <3>1, <3>4 DEF FileTells
  <2> QED
    BY <2>3, <2>4
<1> QED
  BY <1>4, <1>5 DEF TellsInv

LEMMA TellsNext == EvidenceInv /\ TellsInv /\ [Next]_vars => TellsInv'
<1> SUFFICES ASSUME EvidenceInv, TellsInv, [Next]_vars PROVE TellsInv'
  OBVIOUS
<1>1. CASE UNCHANGED vars
  BY <1>1, QuietTells DEF vars
<1>2. CASE Interrupt \/ RunFinishes
  BY <1>2, QuietTells, RunEndTells DEF Interrupt
<1>3. ASSUME NEW f \in plan.files,
             FileStarts(f) \/ ScenarioStarts(f) \/ ScenarioCloses(f) \/ WriteHeld(f) \/ EmitHeld(f)
               \/ ScenarioFinishes(f) \/ FileEnds(f) \/ Panics(f)
      PROVE  TellsInv'
  BY <1>3, FileStartTells, ScenarioStartTells, ClosesTell, WritesTell, EmitsTell, FinishesTell, FileEndTells, PanicTells
<1>4. ASSUME NEW f \in plan.files, Annotation(f) \/ StepSkipped(f) \/ Attempt(f) \/ PluginFile(f, plan.values)
      PROVE  TellsInv'
  BY <1>4, AnnotationTells, SkipTells, AttemptTells, PluginTells
<1>5. ASSUME NEW f \in plan.files, NEW kind \in plan.kinds, NEW slots \in SUBSET {plan.values}, StepStarts(f, kind, slots)
      PROVE  TellsInv'
  BY <1>5, StartTells
<1>6. ASSUME NEW f \in plan.files, NEW shows \in SUBSET plan.values,
             \/ InlineEvidence(f, shows) \/ HoldLong(f, shows) \/ WriteLong(f, shows)
             \/ \E ok \in BOOLEAN : StepFinishes(f, ok, shows)
      PROVE  TellsInv'
  BY <1>6, EvidenceTells, FinishTells
<1>7. ASSUME NEW f \in plan.files, \/ \E v \in plan.values : Register(f, v)
                                   \/ \E on \in BOOLEAN : MarkSteps(f, on)
      PROVE  TellsInv'
  BY <1>7, SetsTell
<1> QED
  BY <1>1, <1>2, <1>3, <1>4, <1>5, <1>6, <1>7 DEF Next

LEMMA PageMeans == EvidenceInv /\ TellsInv => PageTells
<1> SUFFICES ASSUME EvidenceInv, TellsInv PROVE PageTells
  OBVIOUS
<1>1. ASSUME Distinct, NEW f \in Files, Started(f) PROVE FileTells(f)
  BY <1>1 DEF TellsInv
<1>2. ReportTellsResults
  <2> SUFFICES ASSUME Distinct, NEW f \in Files, Started(f)
               PROVE  /\ ~result[f].panicked => \A k \in DOMAIN InReport(f).scenarios :
                           InReport(f).scenarios[k].status # "open" =>
                             /\ InReport(f).scenarios[k].status = Told(f)[k].status
                             /\ SameSteps(InReport(f).scenarios[k], Told(f)[k].steps)
                      /\ run[f].at = "done" =>
                           /\ InReport(f).panicked = result[f].panicked
                           /\ ~InReport(f).panicked =>
                                /\ Len(InReport(f).scenarios) = Len(Told(f))
                                /\ \A k \in DOMAIN Told(f) : InReport(f).scenarios[k].status # "open"
    BY DEF ReportTellsResults
  <2> QED
    BY <1>1 DEF FileTells, ClosedTell
<1>3. FailureShown
  <2> SUFFICES ASSUME Distinct, NEW f \in Files, Started(f), NEW k \in DOMAIN InReport(f).scenarios,
                      InReport(f).scenarios[k].status # "open"
               PROVE  Explained(InReport(f).scenarios[k])
    BY DEF FailureShown, Explained
  <2> QED
    BY <1>1 DEF FileTells, ClosedTell
<1>4. CoverageHonest
  <2> SUFFICES ASSUME Distinct, NEW f \in Files, run[f].at = "between" /\ run[f].done # <<>>
               PROVE  Honest(Scene(f), run[f].slotted)
    BY DEF CoverageHonest, Honest, Scene, Bare
  <2>1. Started(f)
    BY DEF EvidenceInv, PageInv, InProgress, OwnPage, Started
  <2> QED
    BY <1>1, <2>1 DEF FileTells
<1> QED
  BY <1>2, <1>3, <1>4 DEF PageTells

\* The page of a file tells what its run did, and no more: each scenario that
\* is over has on it the status and the steps of the FileResult, a failure is
\* shown with what it failed and what was skipped after it, and the evidence it
\* claims is there (events.rs Trace.open and scenario_finished, model.rs push
\* and nest, runner.rs run_file and run_all), for every plan and bound,
\* whatever fails, panics or is interrupted.
THEOREM PageTellsTheRun == Spec => []PageTells
<1>1. Init => EvidenceInv
  BY TraceStart
<1>2. Init => TellsInv
  BY DEF Init, TellsInv, Started, Idle
<1>3. EvidenceInv /\ [Next]_vars => EvidenceInv'
  BY EvidenceStep
<1>4. EvidenceInv /\ TellsInv /\ [Next]_vars => TellsInv'
  BY TellsNext
<1>5. EvidenceInv /\ TellsInv => PageTells
  BY PageMeans
<1> QED
  BY <1>1, <1>2, <1>3, <1>4, <1>5, PTL DEF Spec
=============================================================================
