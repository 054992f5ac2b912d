------------------------------ MODULE VarStack -------------------------------
(***************************************************************************)
(* The variables of one feature file (vars.rs): a stack of frames over one *)
(* table of globals.  A read looks from the top frame down and then at the *)
(* globals; a write goes to the top frame.                                 *)
(***************************************************************************)
EXTENDS Naturals, Sequences, FiniteSetsExt

CONSTANTS Names,     \* the variable names
          Values,    \* what a step writes
          Unset,     \* no variable of that name
          Prefixed   \* the name `with prefix` gives to a name: a partial function

ASSUME VarStackAssumption ==
  /\ Unset \notin Values
  /\ Names \cap (Values \cup {Unset}) = {}
  /\ DOMAIN Prefixed \subseteq Names
  /\ \A n \in DOMAIN Prefixed : Prefixed[n] \in Names
  /\ \A m, n \in DOMAIN Prefixed : Prefixed[m] = Prefixed[n] => m = n

Frame == [Names -> Values \cup {Unset}]
VarStack == [frames : Seq(Frame), globals : Frame]
NoVars == [n \in Names |-> Unset]

\* f with the variables of g, a function on some of the names, in it.
Put(f, g) == [n \in Names |-> IF n \in DOMAIN g THEN g[n] ELSE f[n]]

New == [frames |-> <<NoVars>>, globals |-> NoVars]

\* What `<<n>>` reads.
Get(s, n) ==
  LET holders == {i \in DOMAIN s.frames : s.frames[i][n] # Unset}
  IN  IF holders = {} THEN s.globals[n] ELSE s.frames[Max(holders)][n]

SetAll(s, g) == [s EXCEPT !.frames[Len(s.frames)] = Put(@, g)]
SetGlobal(s, g) == [s EXCEPT !.globals = Put(@, g)]
PushFrame(s) == [s EXCEPT !.frames = Append(@, NoVars)]
DropFrame(s) == [s EXCEPT !.frames = SubSeq(@, 1, Len(@) - 1)]

\* A declared export is one name, or a glob: the names it matches.
Exports == [glob : BOOLEAN, names : SUBSET Names]

\* An argument is a literal or one slot, a name; the value it has in s.
Value(s, c) == IF c \in Names THEN Get(s, c) ELSE c
Resolve(s, args) == [n \in DOMAIN args |-> Value(s, args[n])]
Resolves(s, args) == \A n \in DOMAIN args : Value(s, args[n]) # Unset

\* The exports of a scope in which the variables have these values: all the
\* named ones must be set, a glob gives those that are.
Missing(values, exports) ==
  \E e \in exports : ~e.glob /\ \E n \in e.names : values[n] = Unset
Found(values, exports) ==
  LET names == {n \in UNION {e.names : e \in exports} : values[n] # Unset}
  IN  [n \in names |-> values[n]]

\* Every name of g as the caller asked for it.
Renamed(g, prefixed) ==
  IF ~prefixed THEN g
  ELSE LET of(p) == CHOOSE n \in DOMAIN g : Prefixed[n] = p
       IN  [p \in {Prefixed[n] : n \in DOMAIN g} |-> g[of(p)]]

\* A macro's exports are read from its own frame only; the frame goes even
\* when one of them is missing.
PopFrame(s, exports) ==
  LET top == s.frames[Len(s.frames)]
  IN  CASE Len(s.frames) <= 1 -> [stack |-> s, ok |-> FALSE]
        [] Len(s.frames) > 1 /\ Missing(top, exports) ->
             [stack |-> DropFrame(s), ok |-> FALSE]
        [] OTHER -> [stack |-> SetAll(DropFrame(s), Found(top, exports)), ok |-> TRUE]
=============================================================================
