------------------------------ MODULE Validation ------------------------------
(***************************************************************************)
(* What a run refuses before its first request (steps/mod.rs:              *)
(* validate_macros; validate.rs: check), and what its scenarios then meet  *)
(* (runner.rs: resolve, run_step, run_include).  Both walk the same graph: *)
(* the check follows includes and not macros, the run follows both.        *)
(*                                                                         *)
(* A step is [kind, to]: "known" (one definition matches it), "bad" (none  *)
(* or several do, or its doc string, table, attached file or plugin is     *)
(* refused), "lost" (an include that cannot be resolved), "macro" (to is   *)
(* the definition's index) or "include" (to is a scenario).  A row of an   *)
(* outline is a scenario of its own.                                       *)
(***************************************************************************)
EXTENDS Naturals, Sequences, SequencesExt

CONSTANTS Suites,     \* the suites a run may be given
          MaxDepth    \* how deep macros and includes nest (16 in the code)

\* Every step of a suite s: a call leads to a macro or a scenario there is.
StepsOf(s) ==
  [kind : {"known", "bad", "lost"}]
    \cup [kind : {"macro"}, to : DOMAIN s.macros] \cup [kind : {"include"}, to : DOMAIN s.own]

(***************************************************************************)
(* macros: the bodies of the catalog.  own: the steps a scenario is        *)
(* written with; blocks: its feature, then its rule if it has one;         *)
(* background: a block's Background.  selected: what the tags leave.       *)
(***************************************************************************)
ASSUME ValidationAssumption ==
  /\ MaxDepth \in Nat \ {0}
  /\ \A s \in Suites :
       /\ DOMAIN s = {"macros", "own", "blocks", "background", "selected"}
       /\ s.macros \in Seq(Seq(StepsOf(s))) /\ s.selected \in Seq(DOMAIN s.own)
       /\ \A sc \in DOMAIN s.own :
            s.own[sc] \in Seq(StepsOf(s)) /\ s.blocks[sc] \in Seq(DOMAIN s.background)
       /\ \A b \in DOMAIN s.background : s.background[b] \in Seq(StepsOf(s))

VARIABLES suite, phase,
          visited, path,         \* visit: the macros done, and the way to the one in hand
          at, stack, problems,   \* check: top-level steps done, includes open, steps refused
          left, calls,           \* run: scenarios left, bodies in progress
          met                    \* history: what the check would have refused, met by a step

checking == <<at, stack, problems>>
building == <<visited, path>>
running == <<left, calls, met>>
suiteVars == <<suite, phase, visited, path, at, stack, problems, left, calls, met>>

\* Every step of a body, its Backgrounds first.
Backgrounds(blocks) == FlattenSeq([i \in DOMAIN blocks |-> suite.background[blocks[i]]])
Steps(scenario) == Backgrounds(suite.blocks[scenario]) \o suite.own[scenario]

\* Slip: a scenario's rule is not asked for its Background.
SlipSelectedSteps ==
  LET open(i) == {suite.blocks[suite.selected[i]][1]}
      blocks == SetToSeq(UNION {open(i) : i \in DOMAIN suite.selected})
  IN  Backgrounds(blocks)
        \o FlattenSeq([i \in DOMAIN suite.selected |-> suite.own[suite.selected[i]]])

\* What a run would execute: a Background counts when a scenario under it will run.
SelectedSteps ==
  LET open(i) == ToSet(suite.blocks[suite.selected[i]])
      blocks == SetToSeq(UNION {open(i) : i \in DOMAIN suite.selected})
  IN  Backgrounds(blocks)
        \o FlattenSeq([i \in DOMAIN suite.selected |-> suite.own[suite.selected[i]]])

SuiteInit ==
  /\ suite \in Suites /\ phase = "bodies"
  /\ visited = {} /\ path = <<>>
  /\ at = 0 /\ stack = <<>> /\ problems = {}
  /\ left = <<>> /\ calls = <<>> /\ met = {}
-----------------------------------------------------------------------------
\* Where a body calls macros, and which.
CallsIn(macro) == {i \in DOMAIN suite.macros[macro] : suite.macros[macro][i].kind = "macro"}
Called(macro) == {suite.macros[macro][i].to : i \in CallsIn(macro)}

\* Every body step must have one definition; where an include leads is not asked.
ReadsBodies ==
  /\ phase = "bodies"
  /\ phase' = IF \E m \in DOMAIN suite.macros : \E s \in ToSet(suite.macros[m]) : s.kind = "bad"
              THEN "unbuilt" ELSE "visiting"
  /\ UNCHANGED <<suite, building, checking, running>>

Visits ==
  /\ phase = "visiting" /\ path = <<>>
  /\ \E m \in DOMAIN suite.macros \ visited :
       /\ \A n \in 1..(m - 1) : n \in visited
       /\ path' = <<[macro |-> m, left |-> CallsIn(m)]>>
  /\ UNCHANGED <<suite, phase, visited, checking, running>>

FollowsCall ==
  /\ phase = "visiting" /\ path # <<>> /\ Last(path).left # {}
  /\ LET first == Min(Last(path).left)
         child == suite.macros[Last(path).macro][first].to
         rest == [path EXCEPT ![Len(path)].left = @ \ {first}]
     IN  IF \E i \in DOMAIN path : path[i].macro = child
         THEN phase' = "unbuilt" /\ UNCHANGED path
         ELSE /\ path' = IF child \in visited THEN rest
                         ELSE Append(rest, [macro |-> child, left |-> CallsIn(child)])
              /\ UNCHANGED phase
  /\ UNCHANGED <<suite, visited, checking, running>>

Leaves ==
  /\ phase = "visiting" /\ path # <<>> /\ Last(path).left = {}
  /\ visited' = visited \cup {Last(path).macro}
  /\ path' = Front(path)
  /\ UNCHANGED <<suite, phase, checking, running>>

\* Slip: a macro the walk had been to before counts for nothing.
SlipDepths ==
  LET depth[m \in DOMAIN suite.macros] ==
        1 + Max({0} \cup {depth[c] : c \in {d \in Called(m) : d > m}})
  IN  depth

\* Only an acyclic catalog comes this far.
Depths ==
  LET depth[m \in DOMAIN suite.macros] == 1 + Max({0} \cup {depth[c] : c \in Called(m)})
  IN  depth

Measures ==
  /\ phase = "visiting" /\ path = <<>> /\ visited = DOMAIN suite.macros
  /\ phase' = IF \E m \in visited : Depths[m] > MaxDepth THEN "unbuilt" ELSE "checking"
  /\ UNCHANGED <<suite, building, checking, running>>
-----------------------------------------------------------------------------
\* The step in hand: a top-level one, or one of the innermost include's.
Unread ==
  /\ phase = "checking"
  /\ IF stack = <<>> THEN at < Len(SelectedSteps) ELSE Last(stack).left # <<>>
Step == IF stack = <<>> THEN SelectedSteps[at + 1] ELSE Head(Last(stack).left)
Rest == [i \in DOMAIN stack |->
           IF i = Len(stack) THEN [stack[i] EXCEPT !.left = Tail(@)] ELSE stack[i]]

\* A macro's body is not walked: the registry has read it.
Accepts ==
  /\ Unread /\ Step.kind \in {"known", "macro"}
  /\ stack' = Rest
  /\ at' = IF stack = <<>> THEN at + 1 ELSE at
  /\ UNCHANGED <<suite, phase, building, problems, running>>

Follows ==
  /\ Step.kind = "include" /\ Len(stack) < MaxDepth
  /\ \A i \in DOMAIN stack : stack[i].scenario # Step.to

Descends ==
  /\ Unread /\ Follows
  /\ stack' = Append(Rest, [scenario |-> Step.to, left |-> Steps(Step.to)])
  /\ UNCHANGED <<suite, phase, building, at, problems, running>>

\* A problem ends every include that is open, and is the top-level step's.
Reports ==
  /\ Unread /\ Step.kind \notin {"known", "macro"} /\ ~Follows
  /\ problems' = problems \cup {at + 1}
  /\ at' = at + 1 /\ stack' = <<>>
  /\ UNCHANGED <<suite, phase, building, running>>

Returns ==
  /\ phase = "checking" /\ stack # <<>> /\ Last(stack).left = <<>>
  /\ stack' = Front(stack)
  /\ at' = IF Len(stack) = 1 THEN at + 1 ELSE at
  /\ UNCHANGED <<suite, phase, building, problems, running>>

\* Exit 2 with every problem, or the run.
Decides ==
  /\ phase = "checking" /\ stack = <<>> /\ at = Len(SelectedSteps)
  /\ phase' = IF problems = {} THEN "running" ELSE "refused"
  /\ left' = IF problems = {} THEN suite.selected ELSE <<>>
  /\ UNCHANGED <<suite, building, checking, calls, met>>
-----------------------------------------------------------------------------
Body(kind, steps) == [kind |-> kind, left |-> steps]
Depth == Len(calls) - 1
Now == Head(Last(calls).left)
Executes ==
  /\ phase = "running" /\ calls # <<>> /\ Last(calls).left # <<>>
  /\ UNCHANGED <<suite, phase, building, checking>>
Advanced == [calls EXCEPT ![Len(calls)].left = Tail(@)]

ScenarioStarts ==
  /\ phase = "running" /\ calls = <<>> /\ left # <<>>
  /\ calls' = <<Body("scenario", Steps(Head(left)))>>
  /\ UNCHANGED <<suite, phase, building, checking, left, met>>

ScenarioFails == calls' = <<>> /\ left' = Tail(left)

\* What a step does may fail: the end of its scenario.
StepEnds ==
  /\ Executes /\ Now.kind = "known"
  /\ \/ calls' = Advanced /\ UNCHANGED left
     \/ ScenarioFails
  /\ UNCHANGED met

Calls ==
  /\ Executes /\ Now.kind \in {"macro", "include"} /\ Depth < MaxDepth
  /\ calls' = Append(Advanced,
                IF Now.kind = "macro" THEN Body("macro", suite.macros[Now.to])
                ELSE Body("include", Steps(Now.to)))
  /\ UNCHANGED <<left, met>>

\* Macros and includes count towards one depth; it is looked at before the file.
Refusal ==
  IF Now.kind = "bad" THEN "bad"
  ELSE IF Depth >= MaxDepth /\ Now.kind # "known" THEN "deep"
  ELSE IF Now.kind = "lost" THEN "lost" ELSE "none"

\* unread: the step was written in a file that only a macro includes, or is
\* such an include; mixed: macros and includes are both on the way to it.
Meets ==
  /\ Executes /\ Refusal # "none"
  /\ LET way == Append([i \in DOMAIN calls |-> calls[i].kind], Now.kind)
     IN  met' = met \cup
           {[what |-> Refusal,
             unread |-> \E i, j \in DOMAIN way :
                          i < j /\ way[i] = "macro" /\ way[j] \in {"include", "lost"},
             mixed |-> {"macro", "include"} \subseteq ToSet(way)]}
  /\ ScenarioFails

BodyEnds ==
  /\ phase = "running" /\ calls # <<>> /\ Last(calls).left = <<>>
  /\ calls' = Front(calls)
  /\ left' = IF Len(calls) = 1 THEN Tail(left) ELSE left
  /\ UNCHANGED <<suite, phase, building, checking, met>>

Ends ==
  /\ phase = "running" /\ calls = <<>> /\ left = <<>>
  /\ phase' = "done"
  /\ UNCHANGED <<suite, building, checking, running>>

SuiteNext ==
  \/ ReadsBodies \/ Visits \/ FollowsCall \/ Leaves \/ Measures
  \/ Accepts \/ Descends \/ Reports \/ Returns \/ Decides
  \/ ScenarioStarts \/ StepEnds \/ Calls \/ Meets \/ BodyEnds \/ Ends

SuiteSpec == SuiteInit /\ [][SuiteNext]_suiteVars
-----------------------------------------------------------------------------
\* What the two walks should find, by unrolling every call as a run would:
\* Doomed[n][s], a step of scenario s is refused or nests deeper than n
\* includes; TooDeep[n][m], macro m does not fit in n levels.
Doomed ==
  LET doomed[n \in 0..MaxDepth] ==
        [s \in DOMAIN suite.own |->
           n = 0 \/ \E step \in ToSet(Steps(s)) :
                      \/ step.kind \in {"bad", "lost"}
                      \/ step.kind = "include" /\ doomed[n - 1][step.to]]
  IN  doomed

TooDeep ==
  LET deep[n \in 0..MaxDepth] ==
        [m \in DOMAIN suite.macros |->
           n = 0 \/ \E step \in ToSet(suite.macros[m]) :
                      step.kind = "macro" /\ deep[n - 1][step.to]]
  IN  deep

\* The registry is refused exactly for a macro with a bad step or one that
\* cannot run within the depth: the walk that goes over each macro once loses
\* no cycle, and no chain through macros it had seen.
RegistryExact ==
  LET refusable == \E m \in DOMAIN suite.macros :
        TooDeep[MaxDepth][m] \/ \E s \in ToSet(suite.macros[m]) : s.kind = "bad"
  IN  /\ phase = "unbuilt" => refusable
      /\ phase \notin {"bodies", "visiting", "unbuilt"} => ~refusable

\* The check reports exactly the top-level steps that could not run, every
\* one of them, through includes, their Backgrounds and their rules'.
ProblemsExact ==
  at = Len(SelectedSteps) /\ stack = <<>> /\ phase \notin {"bodies", "visiting", "unbuilt"} =>
    problems = {i \in DOMAIN SelectedSteps :
                  LET step == SelectedSteps[i]
                  IN  \/ step.kind \in {"bad", "lost"}
                      \/ step.kind = "include" /\ Doomed[MaxDepth][step.to]}

\* A step of a run that started meets none of what the check refuses, but in
\* a file that only a macro includes, or where includes and macros together
\* nest deeper than either does.
MetBeyondCheck ==
  \A m \in met : m.unread \/ (m.what = "deep" /\ m.mixed)

\* What is refused before the first request is exactly what could not run, and
\* a run that started meets nothing of it where the checks looked.
ChecksExact == RegistryExact /\ ProblemsExact /\ MetBeyondCheck
=============================================================================
