-------------------------------- MODULE Steps --------------------------------
(***************************************************************************)
(* One feature file runs its scenarios (runner.rs: run_file, execute_step, *)
(* run_step, run_include) with one VarStack.  A macro pushes a frame on    *)
(* it; an include puts it aside and works on a fresh one.  The step that   *)
(* runs next is any step a suite could have there.                         *)
(***************************************************************************)
EXTENDS VarStack

CONSTANTS ArgLists, ExportLists,
          MaxDepth,       \* how deep macros and includes nest (16 in the code)
          StepLimit,      \* bound: steps a scenario executes, at every depth
          ScenarioLimit   \* bound: scenarios of the file

ASSUME StepsAssumption ==
  /\ ArgLists \subseteq UNION {[d -> Names \cup Values] : d \in SUBSET Names}
  /\ ExportLists \subseteq SUBSET Exports
  /\ MaxDepth \in Nat /\ StepLimit \in Nat /\ ScenarioLimit \in Nat

VARIABLES stack,      \* world.vars
          calls,      \* the bodies in progress: the scenario's, then macros and includes
          returned,   \* what execute_step has just returned to the innermost body
          running,    \* a scenario runs
          verdict,    \* how the last scenario ended
          steps,      \* executed steps of the scenario
          scenarios,  \* scenarios begun
          broken      \* history: something has failed in this scenario

vars == <<stack, calls, returned, running, verdict, steps, scenarios, broken>>

\* saved is the caller's VarStack while an include runs; failed, the error its
\* body (or the scenario's) ended with: the rest of that body is skipped.
Body(kind, saved, exports, prefixed, failed) ==
  [kind |-> kind, saved |-> saved, exports |-> exports, prefixed |-> prefixed,
   failed |-> failed]
Scenario(failed) == Body("file", New, {}, FALSE, failed)

Depth == Len(calls)
Top == calls[Depth]
Callers == SubSeq(calls, 1, Depth - 1)

Init ==
  /\ stack = New
  /\ calls = <<Scenario(FALSE)>>
  /\ returned = "none" /\ running = FALSE /\ verdict = "none"
  /\ steps = 0 /\ scenarios = 0 /\ broken = FALSE

\* The scenario boundary: the variables stay, and a plugin's reset may fail.
ScenarioStarts ==
  /\ ~running /\ scenarios < ScenarioLimit
  /\ \E failed \in BOOLEAN : calls' = <<Scenario(failed)>> /\ broken' = failed
  /\ running' = TRUE /\ steps' = 0 /\ scenarios' = scenarios + 1
  /\ UNCHANGED <<stack, returned, verdict>>

\* The loop over a body reaches its next step: it is executed only while no
\* step of that body has failed.
Executes ==
  /\ running /\ returned = "none" /\ ~Top.failed /\ steps < StepLimit
  /\ steps' = steps + 1
  /\ UNCHANGED <<running, verdict, scenarios>>

Fails == returned' = "err" /\ broken' = TRUE /\ UNCHANGED <<stack, calls>>
Passes == returned' = "ok" /\ UNCHANGED broken

\* The steps that write a variable; so does a plugin step that passed.
SetVariable(args, global) ==
  /\ Executes
  /\ IF ~Resolves(stack, args) THEN Fails
     ELSE /\ stack' = IF global THEN SetGlobal(stack, Resolve(stack, args))
                      ELSE SetAll(stack, Resolve(stack, args))
          /\ Passes /\ UNCHANGED calls

\* Every other way for a step to fail: unknown, refused, an assertion.
StepFails == Executes /\ Fails

CallMacro(args, exports) ==
  /\ Executes
  /\ IF Depth > MaxDepth \/ ~Resolves(stack, args) THEN Fails
     ELSE /\ stack' = SetAll(PushFrame(stack), Resolve(stack, args))
          /\ calls' = Append(calls, Body("macro", New, exports, FALSE, FALSE))
          /\ UNCHANGED <<returned, broken>>

\* The `with:` cells are read in the caller's scope, before the swap.  Bound:
\* a prefixed name of a prefixed name is not among Names.
Include(args, exports, prefixed) ==
  /\ Executes
  /\ prefixed => \A e \in exports : e.names \subseteq DOMAIN Prefixed
  /\ IF Depth > MaxDepth \/ ~Resolves(stack, args) THEN Fails
     ELSE /\ stack' = SetAll(New, Resolve(stack, args))
          /\ calls' = Append(calls, Body("include", stack, exports, prefixed, FALSE))
          /\ UNCHANGED <<returned, broken>>

\* Slip: the frame of a failed macro stays on the stack.
SlipMacroFails ==
  /\ Top.kind = "macro" /\ returned = "err"
  /\ calls' = Callers
  /\ UNCHANGED <<stack, returned, running, verdict, steps, scenarios, broken>>

\* A failed step ends its macro at once: the frame goes, nothing is exported.
MacroFails ==
  /\ Top.kind = "macro" /\ returned = "err"
  /\ stack' = PopFrame(stack, {}).stack
  /\ calls' = Callers
  /\ UNCHANGED <<returned, running, verdict, steps, scenarios, broken>>


StepReturns ==
  /\ returned = "ok" \/ (returned = "err" /\ Top.kind # "macro")
  /\ returned' = "none"
  /\ calls' = [calls EXCEPT ![Depth].failed = (returned = "err")]
  /\ UNCHANGED <<stack, running, verdict, steps, scenarios, broken>>

\* The body has no further step; skipped ones count for nothing.
BodyEnds(kind) ==
  /\ running /\ returned = "none" /\ Top.kind = kind
  /\ UNCHANGED <<verdict, steps, scenarios>>

MacroEnds ==
  /\ BodyEnds("macro")
  /\ LET popped == PopFrame(stack, Top.exports)
     IN  /\ stack' = popped.stack
         /\ returned' = IF popped.ok THEN "ok" ELSE "err"
         /\ broken' = (broken \/ ~popped.ok)
  /\ calls' = Callers
  /\ UNCHANGED running

\* Slip: what the exports say decides, the error of the body is dropped.
SlipIncludeEnds ==
  /\ BodyEnds("include")
  /\ LET values == [n \in Names |-> Get(stack, n)]
         ok == ~Missing(values, Top.exports)
     IN  /\ stack' = IF ok THEN SetAll(Top.saved, Renamed(Found(values, Top.exports), Top.prefixed))
                     ELSE Top.saved
         /\ returned' = IF ok THEN "ok" ELSE "err"
         /\ broken' = (broken \/ ~ok)
  /\ calls' = Callers
  /\ UNCHANGED running

IncludeEnds ==
  /\ BodyEnds("include")
  /\ LET values == [n \in Names |-> Get(stack, n)]
         ok == ~Top.failed /\ ~Missing(values, Top.exports)
     IN  /\ stack' = IF ok THEN SetAll(Top.saved, Renamed(Found(values, Top.exports), Top.prefixed))
                     ELSE Top.saved
         /\ returned' = IF ok THEN "ok" ELSE "err"
         /\ broken' = (broken \/ ~ok)
  /\ calls' = Callers
  /\ UNCHANGED running

ScenarioEnds ==
  /\ running /\ returned = "none" /\ Top.kind = "file"
  /\ verdict' = IF Top.failed THEN "failed" ELSE "passed"
  /\ running' = FALSE
  /\ UNCHANGED <<stack, calls, returned, steps, scenarios, broken>>

Next ==
  \/ ScenarioStarts \/ StepFails \/ MacroFails \/ StepReturns
  \/ MacroEnds \/ IncludeEnds \/ ScenarioEnds
  \/ \E args \in ArgLists, global \in BOOLEAN : SetVariable(args, global)
  \/ \E args \in ArgLists, exports \in ExportLists : CallMacro(args, exports)
  \/ \E args \in ArgLists, exports \in ExportLists, prefixed \in BOOLEAN :
       Include(args, exports, prefixed)

Spec == Init /\ [][Next]_vars
-----------------------------------------------------------------------------
Bodies ==
  [kind : {"file", "macro", "include"}, saved : VarStack, exports : ExportLists \cup {{}},
   prefixed : BOOLEAN, failed : BOOLEAN]

StepsTypeOK ==
  /\ stack \in VarStack
  /\ calls \in Seq(Bodies)
  /\ Depth \in 1..(MaxDepth + 1)
  /\ returned \in {"none", "ok", "err"}
  /\ running \in BOOLEAN /\ broken \in BOOLEAN /\ verdict \in {"none", "passed", "failed"}
  /\ steps \in 0..StepLimit /\ scenarios \in 0..ScenarioLimit

\* Each body in progress as a scope of its own.  A body runs on the stack of
\* its home, the file's scenario or the innermost included one around it: the
\* one in use, or the one the next include has put aside; and in that stack it
\* has the frame that was pushed for it.
Home(bodies, i) == Max({j \in 1..i : bodies[j].kind # "macro"})
StackOf(bodies, innermost, i) ==
  LET later == {j \in (i + 1)..Len(bodies) : bodies[j].kind = "include"}
  IN  IF later = {} THEN innermost ELSE bodies[Min(later)].saved
ScopesOf(bodies, innermost) ==
  [i \in 1..Len(bodies) |->
     [kind |-> bodies[i].kind,
      own |-> StackOf(bodies, innermost, i).frames[i - Home(bodies, i) + 1],
      globals |-> IF bodies[i].kind = "macro" THEN NoVars
                  ELSE StackOf(bodies, innermost, i).globals,
      exports |-> bodies[i].exports,
      prefixed |-> bodies[i].prefixed,
      failed |-> bodies[i].failed]]

\* Variables are scoped as Scopes.tla says: what run_include puts aside and
\* puts back and what macros push and pop is, on every path out of a call, as
\* if each call had a scope of its own.
SC == INSTANCE Scopes WITH scopes <- ScopesOf(calls, stack), outcome <- returned
ImplementsScopes == SC!Spec

\* A failure at any depth ends its scenario: the scenario is reported failed
\* exactly when something failed in it, and nothing is executed after it.
FailureEndsScenario ==
  [][/\ running /\ ~running' => verdict' = (IF broken THEN "failed" ELSE "passed")
     /\ broken /\ broken' /\ running => steps' = steps]_vars
=============================================================================
