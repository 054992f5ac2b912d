------------------------------- MODULE Scopes --------------------------------
(***************************************************************************)
(* What macros and includes promise about variables, without the stack     *)
(* that is swapped, pushed and popped: every call has a scope of its own.  *)
(* A macro sees its callers' variables up to the file or the included      *)
(* scenario it was called from, an included scenario sees none of its      *)
(* caller's.  A call that fails gives nothing back; one that succeeds      *)
(* gives back what it declares, and all of it.                             *)
(***************************************************************************)
EXTENDS VarStack

CONSTANTS ArgLists,     \* bound: what calls and writes are given
          ExportLists   \* bound: what macros and scenarios declare

VARIABLES scopes,   \* one scope per call in progress, the file's own first
          outcome   \* what the innermost call has just been told by a step of its

vars == <<scopes, outcome>>

\* The file or the included scenario the innermost of these scopes belongs to.
Home(ss) == Max({j \in DOMAIN ss : ss[j].kind # "macro"})

Sees(ss, n) ==
  LET holders == {j \in Home(ss)..Len(ss) : ss[j].own[n] # Unset}
  IN  IF holders = {} THEN ss[Home(ss)].globals[n] ELSE ss[Max(holders)].own[n]

Given(ss, args) ==
  [n \in DOMAIN args |-> IF args[n] \in Names THEN Sees(ss, args[n]) ELSE args[n]]
Complete(g) == \A n \in DOMAIN g : g[n] # Unset

Scope(kind, own, exports, prefixed) ==
  [kind |-> kind, own |-> own, globals |-> NoVars, exports |-> exports,
   prefixed |-> prefixed, failed |-> FALSE]

\* What a scope gives back: a macro what its own frame holds, an included
\* scenario what it can see.
Result(ss) == IF ss[Len(ss)].kind = "macro" THEN ss[Len(ss)].own
              ELSE [n \in Names |-> Sees(ss, n)]
Incomplete(ss) == Missing(Result(ss), ss[Len(ss)].exports)
Exported(ss) ==
  Renamed(Found(Result(ss), ss[Len(ss)].exports), ss[Len(ss)].prefixed)

Callers(ss) == SubSeq(ss, 1, Len(ss) - 1)
Inner(ss) == ss[Len(ss)]

Init == /\ scopes = <<Scope("file", NoVars, {}, FALSE)>>
        /\ outcome = "none"

Write(args, global) ==
  /\ outcome = "none" /\ outcome' = "ok"
  /\ LET ss == scopes
         given == Given(ss, args)
     IN  /\ ~Inner(ss).failed /\ Complete(given)
         /\ scopes' = IF global THEN [ss EXCEPT ![Home(ss)].globals = Put(@, given)]
                      ELSE [ss EXCEPT ![Len(ss)].own = Put(@, given)]

\* A step fails, for whatever reason of its own.
Fail == /\ outcome = "none" /\ outcome' = "err"
        /\ ~Inner(scopes).failed
        /\ UNCHANGED scopes

Call(args) ==
  /\ outcome = "none" /\ outcome' = "none"
  /\ LET ss == scopes
         given == Given(ss, args)
         Opens(ts) == \E kind \in {"macro", "include"}, exports \in ExportLists,
                         prefixed \in BOOLEAN :
                        ts = Append(ss, Scope(kind, Put(NoVars, given), exports, prefixed))
     IN  ~Inner(ss).failed /\ Complete(given) /\ Opens(scopes')

Told == /\ outcome # "none" /\ outcome' = "none"
        /\ scopes' = [scopes EXCEPT ![Len(scopes)].failed = (outcome = "err")]

ReturnOk ==
  /\ outcome = "none" /\ outcome' = "ok"
  /\ LET ss == scopes
     IN  /\ Len(ss) > 1 /\ ~Inner(ss).failed /\ ~Incomplete(ss)
         /\ scopes' = [Callers(ss) EXCEPT ![Len(ss) - 1].own = Put(@, Exported(ss))]

ReturnErr ==
  /\ outcome \in {"none", "err"} /\ outcome' = "err"
  /\ LET ss == scopes
     IN  /\ Len(ss) > 1
         /\ outcome = "err" \/ Inner(ss).failed \/ Incomplete(ss)
         /\ scopes' = Callers(ss)

\* A scenario begins, after a reset that may have failed: variables stay.
Begin == /\ outcome = "none" /\ outcome' = "none"
         /\ Len(scopes) = 1
         /\ \E failed \in BOOLEAN : scopes' = [scopes EXCEPT ![1].failed = failed]

Next ==
  \/ \E args \in ArgLists : Call(args) \/ \E global \in BOOLEAN : Write(args, global)
  \/ Fail \/ Told \/ ReturnOk \/ ReturnErr \/ Begin

Spec == Init /\ [][Next]_vars
=============================================================================
