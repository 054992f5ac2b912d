----------------------------- MODULE WorldProofs -----------------------------
(***************************************************************************)
(* What the World of a feature file (steps/mod.rs) keeps while its steps   *)
(* run, in three independent parts: the rows and ids its database          *)
(* statements leave (Database), the scopes of its variables (Steps), and   *)
(* the texts it shows without the values it holds secret (Masking).        *)
(***************************************************************************)
EXTENDS Database, Steps, Masking, SequenceTheorems, FiniteSetTheorems, WellFoundedInduction, TLAPS

-----------------------------------------------------------------------------
(***************************************************************************)
(* Where a statement goes and what a variable names, for every set of      *)
(* files, connections and steps, and with any number of faults.            *)
(*                                                                         *)
(* FileInv is about the share of one file alone: its current connection    *)
(* is the last one its scenario chose, a statement in flight was sent and  *)
(* shown over the connection of its reference, and the rows made so far    *)
(* are the ones told.  CacheInv is about what the files share: each key    *)
(* holds the schema of the very table it names.  A step of a file changes  *)
(* its own share only, so SharesKept carries FileInv for all the others.   *)
(***************************************************************************)
\* What the proofs call the parts of a file's share `it`.
RefOf(it) == it.step.refs[it.at]
ConnOf(it) == IF RefOf(it).conn = NoPrefix THEN it.current ELSE RefOf(it).conn
NameOf(it, k) == <<"id", it.step.refs[k].table, IF it.step.indexed THEN k ELSE 0>>
ChosenBy(it) == IF it.used = <<>> THEN DefaultConnection ELSE Last(it.used)

Kinds == {"use", "have", "update", "delete", "clear", "extract", "exists", "absent", "sequence", "call"}
Busy == {"resolve", "introspect", "sent", "answer"}

ShareType(it) ==
  it \in [current : Connections, vars : {it.vars}, step : Menu \cup {NoStep}, done : {it.done},
          at : Nat, pc : Busy \cup {"over"}, result : {it.result}, schema : {it.schema},
          sent : Seq(Connections), shown : Seq(Connections), made : Seq(Nat), touched : {it.touched},
          attempt : {it.attempt}, used : Seq(Connections)]

\* A statement that is out went where its reference says, shown as it went.
SentInv(it) ==
  /\ it.current = ChosenBy(it)
  /\ it.pc \in Busy => it.step \in Menu /\ it.step.kind # "use" /\ it.result = "running"
  /\ it.pc \in {"introspect", "sent", "answer"} => ConnOf(it) \in Connections
  /\ it.pc = "introspect" => NeedsSchema(it.step)
  /\ it.pc \in {"sent", "answer"} =>
       /\ it.sent # <<>> /\ Last(it.sent) = ConnOf(it)
       /\ it.shown # <<>> /\ Last(it.shown) = ConnOf(it)
       /\ NeedsSchema(it.step) => it.schema = <<ConnOf(it), RefOf(it).table>>

\* The first n rows of the step are in the variables, save those whose name a
\* later one of them took.
RowsTold(it, n) ==
  \A k \in 1..n : (\A j \in 1..n : j > k => NameOf(it, j) # NameOf(it, k)) =>
    NameOf(it, k) \in DOMAIN it.vars /\ it.vars[NameOf(it, k)] = it.made[k]

\* How far a step that makes rows has come.
MadeInv(it) ==
  it.step.kind = "have" =>
    LET told == IF it.pc = "answer" \/ (it.result \in Unreadable /\ Len(it.made) = it.at)
                THEN it.at - 1 ELSE Len(it.made)
    IN  /\ it.pc \in Busy => it.at \in 1..Len(it.step.refs)
        /\ it.pc \in Busy \ {"answer"} => Len(it.made) = it.at - 1
        /\ it.pc = "answer" => Len(it.made) = it.at
        /\ it.pc = "over" /\ it.result = "passed" => Len(it.made) = Len(it.step.refs)
        /\ it.pc = "over" /\ it.result # "passed" =>
             Len(it.made) = it.at - 1 \/ (it.result \in Unreadable /\ Len(it.made) = it.at)
        /\ RowsTold(it, told)

FileInv(it) == ShareType(it) /\ SentInv(it) /\ MadeInv(it)
CacheInv == /\ nextId \in [Connections -> Nat]
            /\ \A k \in DOMAIN cache : cache[k] = k
SharesInv == \A f \in Files : FileInv(file[f])
DbInv == /\ file = [f \in Files |-> file[f]]
         /\ SharesInv /\ CacheInv
-----------------------------------------------------------------------------
\* The menu has steps of the known kinds, and those that make rows list them.
LEMMA MenuTyped ==
  ASSUME NEW step \in Menu
  PROVE  /\ step.kind \in Kinds
         /\ step.kind = "have" => step.refs \in Seq(Ref)
  BY DatabaseAssumption DEF Use, Have, Ask, Routine, Kinds

\* A step of one file leaves the shares of the others as they were.
LEMMA SharesKept ==
  ASSUME DbInv, NEW f \in Files, NEW it, file' = [file EXCEPT ![f] = it], FileInv(it), CacheInv'
  PROVE  DbInv'
<1>1. \A g \in Files : file'[g] = IF g = f THEN it ELSE file[g]
  BY DEF DbInv
<1>2. \A g \in Files : FileInv(file'[g])
  BY <1>1 DEF DbInv, SharesInv
<1>3. file' = [g \in Files |-> file'[g]]
  BY DEF DbInv
<1> QED
  BY <1>2, <1>3 DEF DbInv, SharesInv

\* The last of a sequence that something was appended to is that.
LEMMA LastAppended ==
  ASSUME NEW S, NEW s \in Seq(S), NEW e \in S
  PROVE  /\ Append(s, e) # <<>> /\ Last(Append(s, e)) = e
         /\ Append(s, e) \in Seq(S) /\ Len(Append(s, e)) = Len(s) + 1
         /\ Append(s, e)[Len(s) + 1] = e
         /\ \A k \in 1..Len(s) : Append(s, e)[k] = s[k]
  BY DEF Last
-----------------------------------------------------------------------------
\* Before the first step no file has done anything.
LEMMA InitShares == ASSUME DbInit PROVE DbInv
<1> DEFINE it == [current |-> DefaultConnection, vars |-> [n \in {} |-> NoId],
                  step |-> NoStep, done |-> 0, at |-> 0, pc |-> "over", result |-> "passed",
                  schema |-> <<>>, sent |-> <<>>, shown |-> <<>>, made |-> <<>>, touched |-> 0,
                  attempt |-> 0, used |-> <<>>]
<1>1. \A f \in Files : file[f] = it
  BY DEF DbInit
<1>2. ShareType(it) /\ SentInv(it)
  BY DatabaseAssumption DEF ShareType, SentInv, ChosenBy, Busy
<1>3. MadeInv(it)
  BY DEF MadeInv, NoStep
<1>4. CacheInv
  BY DEF DbInit, CacheInv
<1> QED
  BY <1>1, <1>2, <1>3, <1>4 DEF DbInit, DbInv, SharesInv, FileInv

\* A share keeps its type when a step begins.
Fresh(it, c, uses, step, sent, made) ==
  [it EXCEPT !.current = c, !.used = uses, !.step = step, !.at = 1, !.pc = "resolve",
             !.result = "running", !.schema = <<>>, !.sent = sent, !.shown = sent,
             !.made = made, !.touched = 0, !.attempt = 1]

LEMMA FreshTyped ==
  ASSUME NEW it, ShareType(it), NEW c \in Connections, NEW step \in Menu, NEW uses \in Seq(Connections),
         NEW sent \in Seq(Connections), NEW made \in Seq(Nat)
  PROVE  ShareType(Fresh(it, c, uses, step, sent, made))
  BY DEF ShareType, Busy, Fresh

\* A step that begins is at its first row, with its connection chosen.
LEMMA BeginStep ==
  ASSUME DbInv, NEW f \in Files, NEW step \in Menu, NEW fresh \in BOOLEAN, Begin(f, step, fresh)
  PROVE  DbInv'
<1> DEFINE current == IF fresh THEN DefaultConnection ELSE file[f].current
           used == IF fresh THEN <<>> ELSE file[f].used
           known == step.kind = "use" /\ step.name \in Connections
           atOnce == step.kind = "use" \/ (step.kind = "have" /\ step.refs = <<>>)
           chosen == IF known THEN step.name ELSE current
           uses == IF known THEN Append(used, step.name) ELSE used
           begun == [file[f] EXCEPT !.current = chosen, !.used = uses,
                       !.step = step, !.at = 1, !.pc = "resolve", !.result = "running", !.schema = <<>>,
                       !.sent = <<>>, !.shown = <<>>, !.made = <<>>, !.touched = 0, !.attempt = 1]
           over == [begun EXCEPT !.pc = "over", !.done = @ + 1,
                      !.result = IF step.kind = "use" /\ ~known THEN "input" ELSE "passed"]
<1>1. file' = [file EXCEPT ![f] = IF atOnce THEN over ELSE begun] /\ UNCHANGED <<nextId, cache>>
  BY DEF Begin
<1>2. ShareType(file[f]) /\ SentInv(file[f])
  BY DEF DbInv, SharesInv, FileInv
<1>3. /\ begun.current = chosen /\ begun.used = uses
      /\ begun.step = step /\ begun.at = 1 /\ begun.pc = "resolve" /\ begun.result = "running"
      /\ begun.made = <<>>
      /\ over.step = step /\ over.at = 1 /\ over.pc = "over" /\ over.made = <<>>
      /\ over.current = begun.current /\ over.used = begun.used
      /\ over.result = (IF step.kind = "use" /\ ~known THEN "input" ELSE "passed")
  BY <1>2 DEF ShareType
<1> HIDE DEF begun, over
<1>5. /\ chosen \in Connections /\ uses \in Seq(Connections)
      /\ chosen = IF uses = <<>> THEN DefaultConnection ELSE Last(uses)
  <2>1. used \in Seq(Connections) /\ current \in Connections
    BY <1>2, DatabaseAssumption DEF ShareType
  <2>2. CASE known
    <3> DEFINE name == step.name
    <3>1. name \in Connections /\ uses = Append(used, name) /\ chosen = name
      BY <2>2
    <3> HIDE DEF name, used, chosen, uses
    <3> QED
      BY <2>1, <3>1, LastAppended
  <2>3. CASE ~known
    BY <1>2, <2>1, <2>3, DatabaseAssumption DEF ShareType, SentInv, ChosenBy
  <2> QED
    BY <2>2, <2>3
<1>4. ShareType(begun) /\ ShareType(over)
  <2> HIDE DEF known
  <2>1. ShareType(begun)
    <3> DEFINE none == <<>>
               it == Fresh(file[f], chosen, uses, step, none, none)
    <3>1. none \in Seq(Connections) /\ none \in Seq(Nat)
      OBVIOUS
    <3>2. ShareType(it)
      <4> HIDE DEF chosen, uses, none
      <4> QED
        BY <1>2, <1>5, <3>1, FreshTyped
    <3>3. it = begun
      BY DEF begun, Fresh
    <3> HIDE DEF it
    <3> QED
      BY <3>2, <3>3
  <2>2. ShareType(over)
    BY <2>1 DEF ShareType, Busy, over
  <2> QED
    BY <2>1, <2>2
<1> HIDE DEF chosen, uses
<1>6. CASE atOnce
  <2>1. SentInv(over)
    BY <1>3, <1>5, DatabaseAssumption DEF SentInv, ChosenBy, Busy
  <2>2. MadeInv(over)
    BY <1>3, <1>6 DEF MadeInv, RowsTold, Busy
  <2> QED
    BY <1>1, <1>4, <1>6, <2>1, <2>2, SharesKept DEF FileInv, DbInv, CacheInv
<1>7. CASE ~atOnce
  <2>1. SentInv(begun)
    BY <1>3, <1>5, <1>7 DEF SentInv, ChosenBy, Busy
  <2>2. MadeInv(begun)
    <3>1. step.kind = "have" => 1 \in 1..Len(step.refs)
      BY <1>7, MenuTyped
    <3> QED
      BY <1>3, <3>1 DEF MadeInv, RowsTold, Busy
  <2> QED
    BY <1>1, <1>4, <1>7, <2>1, <2>2, SharesKept DEF FileInv, DbInv, CacheInv
<1> QED
  BY <1>6, <1>7

\* A statement that goes out goes where its reference says, shown as it goes.
LEMMA SendsKeeps ==
  ASSUME DbInv, CacheInv', NEW f \in Files, file[f].pc \in {"resolve", "introspect"},
         ConnOf(file[f]) \in Connections, NEW schema,
         NeedsSchema(file[f].step) => schema = <<ConnOf(file[f]), RefOf(file[f]).table>>,
         file' = Sends(f, schema)
  PROVE  DbInv'
<1> DEFINE was == file[f]
           conn == ConnOf(was)
           it == [was EXCEPT !.pc = "sent", !.schema = schema, !.sent = Append(@, conn),
                             !.shown = Append(@, conn)]
<1>1. file' = [file EXCEPT ![f] = it]
  BY DEF Sends, ConnectionOf, CurrentRef, ConnOf, RefOf
<1>2. ShareType(was) /\ SentInv(was) /\ MadeInv(was)
  BY DEF DbInv, SharesInv, FileInv
<1> DEFINE sent == Append(was.sent, conn)
           shown == Append(was.shown, conn)
<1>3. /\ sent \in Seq(Connections) /\ sent # <<>> /\ Last(sent) = conn
      /\ shown \in Seq(Connections) /\ shown # <<>> /\ Last(shown) = conn
  <2>1. was.sent \in Seq(Connections) /\ was.shown \in Seq(Connections) /\ conn \in Connections
    BY <1>2 DEF ShareType
  <2> HIDE DEF was, conn
  <2> QED
    BY <2>1, LastAppended
<1>4. it = [was EXCEPT !.pc = "sent", !.schema = schema, !.sent = sent, !.shown = shown]
  OBVIOUS
<1> HIDE DEF sent, shown, conn, it
<1>5. /\ it.pc = "sent" /\ it.schema = schema /\ it.sent = sent /\ it.shown = shown
      /\ it.step = was.step /\ it.at = was.at /\ it.current = was.current /\ it.used = was.used
      /\ it.made = was.made /\ it.vars = was.vars /\ it.result = was.result
  BY <1>2, <1>4 DEF ShareType
<1>6. ShareType(it)
  BY <1>2, <1>3, <1>4 DEF ShareType, Busy
<1>7. conn = ConnOf(it) /\ RefOf(it) = RefOf(was)
  BY <1>5 DEF conn, ConnOf, RefOf
<1>8. SentInv(it)
  BY <1>2, <1>3, <1>5, <1>7 DEF SentInv, ChosenBy, Busy, conn
<1>9. MadeInv(it)
  <2>1. \A n : RowsTold(was, n) => RowsTold(it, n)
    BY <1>5 DEF RowsTold, NameOf
  <2>2. was.result = "running" /\ was.pc \in Busy \ {"answer"}
    BY <1>2 DEF SentInv, Busy
  <2> HIDE DEF was
  <2> QED
    BY <1>2, <1>5, <2>1, <2>2 DEF MadeInv, Busy
<1> QED
  BY <1>1, <1>6, <1>8, <1>9, SharesKept DEF FileInv

\* A step that fails leaves the variables as they are.
LEMMA FailsKeeps ==
  ASSUME DbInv, CacheInv', NEW f \in Files, file[f].pc \in Busy, NEW result, result # "passed",
         file[f].pc = "answer" /\ file[f].step.kind = "have" => result \in Unreadable,
         file' = Settles(f, result)
  PROVE  DbInv'
<1> DEFINE was == file[f]
           it == [was EXCEPT !.pc = "over", !.result = result, !.done = @ + 1]
<1>1. file' = [file EXCEPT ![f] = it]
  BY DEF Settles
<1>2. ShareType(was) /\ SentInv(was) /\ MadeInv(was)
  BY DEF DbInv, SharesInv, FileInv
<1>3. /\ it.pc = "over" /\ it.result = result
      /\ it.step = was.step /\ it.at = was.at /\ it.current = was.current /\ it.used = was.used
      /\ it.made = was.made /\ it.vars = was.vars
  BY <1>2 DEF ShareType
<1>4. ShareType(it)
  BY <1>2 DEF ShareType, Busy
<1> HIDE DEF it
<1>5. SentInv(it)
  BY <1>2, <1>3 DEF SentInv, ChosenBy, Busy
<1>6. MadeInv(it)
  <2>1. CASE was.pc = "answer"
    <3> SUFFICES ASSUME was.step.kind = "have" PROVE MadeInv(it)
      BY <1>3 DEF MadeInv
    <3>1. Len(was.made) = was.at /\ RowsTold(was, was.at - 1)
      BY <1>2, <2>1 DEF MadeInv, Busy
    <3>2. RowsTold(it, was.at - 1)
      BY <1>3, <3>1 DEF RowsTold, NameOf
    <3>3. result \in Unreadable
      BY <2>1
    <3> HIDE DEF was
    <3> QED
      BY <1>3, <3>1, <3>2, <3>3 DEF MadeInv, Busy
  <2>2. CASE was.pc # "answer"
    <3>1. was.step.kind = "have" => Len(was.made) = was.at - 1 /\ was.at \in Nat
      BY <1>2, <2>2 DEF MadeInv, Busy
    <3>2. \A n : RowsTold(was, n) => RowsTold(it, n)
      BY <1>3 DEF RowsTold, NameOf
    <3>3. was.result = "running" /\ was.pc \in Busy \ {"answer"}
      BY <1>2, <2>2 DEF SentInv, Busy
    <3> HIDE DEF was
    <3> QED
      BY <1>2, <1>3, <3>1, <3>2, <3>3 DEF MadeInv, Busy
  <2> QED
    BY <2>1, <2>2
<1> QED
  BY <1>1, <1>4, <1>5, <1>6, SharesKept DEF FileInv
-----------------------------------------------------------------------------
LEMMA ReadSchemaStep == ASSUME DbInv, NEW f \in Files, ReadSchema(f) PROVE DbInv'
<1> DEFINE conn == ConnectionOf(f)
           key == CacheKey(conn, CurrentRef(f).table)
<1>1. file[f].pc = "resolve" /\ file[f].pc \in Busy /\ UNCHANGED <<nextId, cache>>
  BY DEF ReadSchema, Busy
<1>2. CacheInv /\ CacheInv' /\ conn = ConnOf(file[f]) /\ key = <<conn, RefOf(file[f]).table>>
  BY <1>1 DEF DbInv, CacheInv, ConnectionOf, CurrentRef, ConnOf, RefOf, CacheKey
<1>3. CASE file' = Settles(f, "input") \/ Refuses(f)
  BY <1>1, <1>2, <1>3, FailsKeeps DEF Refuses
<1>4. CASE conn \in Connections /\ ~NeedsSchema(file[f].step) /\ file' = Sends(f, <<>>)
  BY <1>1, <1>2, <1>4, SendsKeeps
<1>5. CASE conn \in Connections /\ key \in DOMAIN cache /\ file' = Sends(f, cache[key])
  <2>1. cache[key] = <<conn, RefOf(file[f]).table>>
    BY <1>2, <1>5 DEF CacheInv
  <2> QED
    BY <1>1, <1>2, <1>5, <2>1, SendsKeeps
<1>6. CASE /\ conn \in Connections /\ NeedsSchema(file[f].step)
           /\ file' = [file EXCEPT ![f].pc = "introspect"]
  <2> DEFINE was == file[f]
             it == [was EXCEPT !.pc = "introspect"]
  <2>1. file' = [file EXCEPT ![f] = it]
    BY <1>6
  <2>2. ShareType(was) /\ SentInv(was) /\ MadeInv(was)
    BY DEF DbInv, SharesInv, FileInv
  <2>3. /\ it.pc = "introspect" /\ it.result = was.result
        /\ it.step = was.step /\ it.at = was.at /\ it.current = was.current /\ it.used = was.used
        /\ it.made = was.made /\ it.vars = was.vars
    BY <2>2 DEF ShareType
  <2>4. ShareType(it)
    BY <2>2 DEF ShareType, Busy
  <2>5. SentInv(it)
    BY <1>1, <1>2, <1>6, <2>2, <2>3 DEF SentInv, ChosenBy, Busy, ConnOf, RefOf
  <2>6. MadeInv(it)
    BY <1>1, <2>2, <2>3 DEF MadeInv, RowsTold, NameOf, Busy
  <2> QED
    BY <1>2, <2>1, <2>4, <2>5, <2>6, SharesKept DEF FileInv
<1> QED
  BY <1>3, <1>4, <1>5, <1>6 DEF ReadSchema

LEMMA IntrospectedStep == ASSUME DbInv, NEW f \in Files, Introspected(f) PROVE DbInv'
<1> DEFINE conn == ConnectionOf(f)
           found == <<conn, CurrentRef(f).table>>
           kept == [k \in DOMAIN cache \cup {found} |-> IF k = found THEN found ELSE cache[k]]
<1>1. /\ file[f].pc = "introspect" /\ file[f].pc \in Busy
      /\ UNCHANGED nextId /\ (cache' = cache \/ cache' = kept)
  BY DEF Introspected, Busy, CacheKey
<1>2. CacheInv' /\ conn = ConnOf(file[f]) /\ conn \in Connections
  <2>1. conn = ConnOf(file[f]) /\ SentInv(file[f]) /\ CacheInv
    BY DEF DbInv, SharesInv, FileInv, ConnectionOf, CurrentRef, ConnOf, RefOf
  <2>2. conn \in Connections
    BY <1>1, <2>1 DEF SentInv
  <2> HIDE DEF conn
  <2> QED
    BY <1>1, <2>1, <2>2 DEF CacheInv
<1>3. CASE \E class \in {"db_connection", "db_statement", "input"} : file' = Settles(f, class)
  BY <1>1, <1>2, <1>3, FailsKeeps
<1>4. CASE file' = Sends(f, found)
  <2>1. found = <<ConnOf(file[f]), RefOf(file[f]).table>>
    BY <1>2 DEF CurrentRef, RefOf
  <2> QED
    BY <1>1, <1>2, <1>4, <2>1, SendsKeeps
<1> QED
  BY <1>3, <1>4 DEF Introspected, Refuses

\* An answer brings at most one row, and brings one when the step makes rows.
LEMMA AnswersKeeps ==
  ASSUME DbInv, CacheInv', NEW f \in Files, file[f].pc = "sent", NEW made \in Seq(Nat), NEW touched,
         file[f].step.kind = "have" => Len(made) = 1,
         file' = [file EXCEPT ![f] = [file[f] EXCEPT !.pc = "answer", !.made = @ \o made, !.touched = touched]]
  PROVE  DbInv'
<1> DEFINE was == file[f]
           all == was.made \o made
           it == [was EXCEPT !.pc = "answer", !.made = all, !.touched = touched]
<1>1. file' = [file EXCEPT ![f] = it]
  OBVIOUS
<1>2. ShareType(was) /\ SentInv(was) /\ MadeInv(was)
  BY DEF DbInv, SharesInv, FileInv
<1>3. /\ all \in Seq(Nat) /\ Len(all) = Len(was.made) + Len(made)
      /\ \A k \in 1..Len(was.made) : all[k] = was.made[k]
  <2>1. was.made \in Seq(Nat)
    BY <1>2 DEF ShareType
  <2> HIDE DEF was
  <2> QED
    BY <2>1
<1> HIDE DEF all
<1>4. /\ it.pc = "answer" /\ it.result = was.result /\ it.made = all
      /\ it.step = was.step /\ it.at = was.at /\ it.current = was.current /\ it.used = was.used
      /\ it.sent = was.sent /\ it.shown = was.shown /\ it.schema = was.schema /\ it.vars = was.vars
  BY <1>2 DEF ShareType
<1>5. ShareType(it)
  BY <1>2, <1>3 DEF ShareType, Busy
<1> HIDE DEF it
<1>6. SentInv(it)
  BY <1>2, <1>4 DEF SentInv, ChosenBy, Busy, ConnOf, RefOf
<1>7. MadeInv(it)
  <2> SUFFICES ASSUME was.step.kind = "have" PROVE MadeInv(it)
    BY <1>4 DEF MadeInv
  <2>1. was.at \in 1..Len(was.step.refs) /\ Len(was.made) = was.at - 1 /\ RowsTold(was, was.at - 1)
    BY <1>2 DEF MadeInv, SentInv, Busy
  <2>2. RowsTold(it, was.at - 1)
    BY <1>3, <1>4, <2>1 DEF RowsTold, NameOf
  <2>3. Len(all) = was.at
    <3>1. Len(made) = 1 /\ was.at \in Nat
      BY <1>2 DEF ShareType
    <3> HIDE DEF was
    <3> QED
      BY <1>3, <2>1, <3>1
  <2> QED
    BY <1>4, <2>1, <2>2, <2>3 DEF MadeInv, Busy
<1> QED
  BY <1>1, <1>5, <1>6, <1>7, SharesKept DEF FileInv

LEMMA ServeStep == ASSUME DbInv, NEW f \in Files, Serve(f) PROVE DbInv'
<1> DEFINE conn == ConnectionOf(f)
           kind == file[f].step.kind
           answers(made, touched) ==
             file' = [file EXCEPT ![f] = [file[f] EXCEPT !.pc = "answer", !.made = @ \o made, !.touched = touched]]
<1>1. file[f].pc = "sent" /\ file[f].pc \in Busy /\ UNCHANGED cache
  BY DEF Serve, Busy
<1>2. CacheInv /\ conn \in Connections
  <2>1. conn = ConnOf(file[f]) /\ SentInv(file[f]) /\ CacheInv
    BY DEF DbInv, SharesInv, FileInv, ConnectionOf, CurrentRef, ConnOf, RefOf
  <2> QED
    BY <1>1, <2>1 DEF SentInv
<1>3. CASE /\ kind \in {"have", "sequence"}
           /\ nextId' = [nextId EXCEPT ![conn] = @ + 1] /\ answers(<<nextId[conn]>>, 1)
  <2>1. nextId[conn] \in Nat /\ CacheInv'
    <3> HIDE DEF conn
    <3> QED
      BY <1>1, <1>2, <1>3 DEF CacheInv
  <2> DEFINE made == <<nextId[conn]>>
  <2>2. made \in Seq(Nat) /\ Len(made) = 1
    BY <2>1
  <2>3. answers(made, 1)
    BY <1>3
  <2> HIDE DEF made
  <2> QED
    BY <1>1, <2>1, <2>2, <2>3, AnswersKeeps
<1>4. CASE kind \notin {"have", "sequence"} /\ UNCHANGED nextId /\ \E touched : answers(<<>>, touched)
  <2>1. CacheInv'
    BY <1>1, <1>2, <1>4 DEF CacheInv
  <2> DEFINE made == <<>>
  <2>2. made \in Seq(Nat)
    OBVIOUS
  <2>3. PICK touched : answers(made, touched)
    BY <1>4
  <2> HIDE DEF made
  <2> QED
    BY <1>1, <1>4, <2>1, <2>2, <2>3, AnswersKeeps
<1>5. CASE UNCHANGED nextId /\ \E class \in {"db_connection", "db_statement"} : file' = Settles(f, class)
  <2>1. CacheInv'
    BY <1>1, <1>2, <1>5 DEF CacheInv
  <2> QED
    BY <1>1, <1>5, <2>1, FailsKeeps
<1> QED
  BY <1>3, <1>4, <1>5 DEF Serve
-----------------------------------------------------------------------------
\* Where a row's id goes: the names before it stand unless it took one.
LEMMA PutNames ==
  ASSUME NEW names, NEW name, NEW value
  PROVE  LET put == Assigned(names, name, value)
         IN  /\ name \in DOMAIN put /\ put[name] = value
             /\ \A n \in DOMAIN names : n \in DOMAIN put /\ (n # name => put[n] = names[n])
  BY DEF Assigned

\* The row that was just answered joins those told.
LEMMA RowNamedNext ==
  ASSUME DbInv, NEW f \in Files, file[f].pc = "answer", file[f].step.kind = "have",
         NEW it, it.step = file[f].step, it.made = file[f].made,
         it.vars = Assigned(file[f].vars, Variable("id", f), IdRead(f))
  PROVE  RowsTold(it, file[f].at)
<1> DEFINE was == file[f]
           name == NameOf(was, was.at)
<1>1. ShareType(was) /\ MadeInv(was)
  BY DEF DbInv, SharesInv, FileInv
<1>2. was.at \in Nat /\ was.made \in Seq(Nat) /\ Len(was.made) = was.at /\ was.at \in 1..Len(was.step.refs)
  BY <1>1 DEF ShareType, MadeInv, Busy
<1>3. RowsTold(was, was.at - 1)
  BY <1>1 DEF MadeInv
<1>4. name = Variable("id", f)
  BY DEF NameOf, Variable, CurrentRef
<1>5. IdRead(f) = was.made[was.at]
  BY <1>2 DEF IdRead, Last
<1>6. \A k : NameOf(it, k) = NameOf(was, k)
  BY DEF NameOf
<1> HIDE DEF was, name
<1>7. it.vars = Assigned(was.vars, name, was.made[was.at]) /\ it.made = was.made
  BY <1>4, <1>5 DEF was
<1>8. ASSUME NEW k \in 1..was.at, \A j \in 1..was.at : j > k => NameOf(it, j) # NameOf(it, k)
      PROVE  NameOf(it, k) \in DOMAIN it.vars /\ it.vars[NameOf(it, k)] = it.made[k]
  <2>1. CASE k = was.at
    BY <1>6, <1>7, <2>1, PutNames DEF name
  <2>2. CASE k # was.at
    <3>1. k \in 1..(was.at - 1) /\ was.at > k
      BY <1>2, <2>2
    <3>2. NameOf(was, k) # name
      BY <1>2, <1>6, <1>8, <3>1 DEF name
    <3>3. NameOf(was, k) \in DOMAIN was.vars /\ was.vars[NameOf(was, k)] = was.made[k]
      BY <1>2, <1>3, <1>6, <1>8, <3>1 DEF RowsTold
    <3> QED
      BY <1>6, <1>7, <3>2, <3>3, PutNames
  <2> QED
    BY <2>1, <2>2
<1> QED
  BY <1>8 DEF RowsTold, was

\* A step that passes has told every row it made.
LEMMA PassesKeeps ==
  ASSUME DbInv, CacheInv', NEW f \in Files, file[f].pc = "answer", NEW names,
         file[f].step.kind = "have" =>
           file[f].at = Len(file[f].step.refs) /\ names = Assigned(file[f].vars, Variable("id", f), IdRead(f)),
         file' = [Settles(f, "passed") EXCEPT ![f].vars = names]
  PROVE  DbInv'
<1> DEFINE was == file[f]
           it == [was EXCEPT !.pc = "over", !.result = "passed", !.done = @ + 1, !.vars = names]
<1>1. file' = [file EXCEPT ![f] = it]
  <2>1. f \in DOMAIN file
    BY DEF DbInv
  <2> QED
    BY <2>1 DEF Settles
<1>2. ShareType(was) /\ SentInv(was) /\ MadeInv(was)
  BY DEF DbInv, SharesInv, FileInv
<1>3. /\ it.pc = "over" /\ it.result = "passed" /\ it.vars = names
      /\ it.step = was.step /\ it.at = was.at /\ it.current = was.current /\ it.used = was.used
      /\ it.made = was.made
  BY <1>2 DEF ShareType
<1>4. ShareType(it)
  BY <1>2 DEF ShareType, Busy
<1> HIDE DEF it
<1>5. SentInv(it)
  BY <1>2, <1>3 DEF SentInv, ChosenBy, Busy
<1>6. MadeInv(it)
  <2> SUFFICES ASSUME was.step.kind = "have" PROVE MadeInv(it)
    BY <1>3 DEF MadeInv
  <2>1. RowsTold(it, was.at)
    BY <1>3, RowNamedNext
  <2>2. Len(was.made) = was.at
    BY <1>2 DEF MadeInv, Busy
  <2> QED
    BY <1>3, <2>1, <2>2 DEF MadeInv, Busy, Unreadable
<1> QED
  BY <1>1, <1>4, <1>5, <1>6, SharesKept DEF FileInv

\* A step that goes on, to its next row or its next attempt, resolves again.
LEMMA GoesOnKeeps ==
  ASSUME DbInv, CacheInv', NEW f \in Files, file[f].pc = "answer", NEW it, ShareType(it),
         /\ it.pc = "resolve" /\ it.result = file[f].result /\ it.step = file[f].step
         /\ it.current = file[f].current /\ it.used = file[f].used /\ it.made = file[f].made,
         file[f].step.kind = "have" =>
           /\ it.at = file[f].at + 1 /\ file[f].at # Len(file[f].step.refs)
           /\ it.vars = Assigned(file[f].vars, Variable("id", f), IdRead(f)),
         file' = [file EXCEPT ![f] = it]
  PROVE  DbInv'
<1> DEFINE was == file[f]
<1>1. ShareType(was) /\ SentInv(was) /\ MadeInv(was)
  BY DEF DbInv, SharesInv, FileInv
<1>2. SentInv(it)
  BY <1>1 DEF SentInv, ChosenBy, Busy
<1>3. MadeInv(it)
  <2> SUFFICES ASSUME was.step.kind = "have" PROVE MadeInv(it)
    BY DEF MadeInv
  <2>1. RowsTold(it, was.at)
    BY RowNamedNext
  <2>2. Len(was.made) = was.at /\ was.at \in 1..Len(was.step.refs) /\ was.step.refs \in Seq(Ref)
    BY <1>1, MenuTyped DEF MadeInv, SentInv, Busy
  <2>3. it.at \in 1..Len(it.step.refs) /\ Len(it.made) = it.at - 1
    BY <2>2
  <2>4. it.result = "running"
    BY <1>1 DEF SentInv, Busy
  <2> QED
    BY <2>1, <2>2, <2>3, <2>4 DEF MadeInv, Busy
<1> QED
  BY <1>2, <1>3, SharesKept DEF FileInv

LEMMA ConcludeStep == ASSUME DbInv, NEW f \in Files, Conclude(f) PROVE DbInv'
<1> DEFINE it == file[f]
           kind == it.step.kind
           passes(names) == file' = [Settles(f, "passed") EXCEPT ![f].vars = names]
           named == Assigned(it.vars, Variable("id", f), IdRead(f))
<1>1. /\ it.pc = "answer" /\ it.pc \in Busy /\ UNCHANGED <<nextId, cache>>
      /\ it.at \in Nat /\ ShareType(it)
  BY DEF Conclude, Busy, DbInv, SharesInv, FileInv, ShareType
<1>2. CacheInv'
  BY <1>1 DEF DbInv, CacheInv
<1>3. CASE kind = "have" /\ it.at = Len(it.step.refs) /\ passes(named)
  BY <1>1, <1>2, <1>3, PassesKeeps
<1>4. CASE /\ kind = "have" /\ it.at # Len(it.step.refs)
           /\ file' = [file EXCEPT ![f] = [it EXCEPT !.vars = named, !.at = @ + 1, !.pc = "resolve"]]
  <2> DEFINE next == [it EXCEPT !.vars = named, !.at = @ + 1, !.pc = "resolve"]
  <2> HIDE DEF named
  <2>1. /\ ShareType(next) /\ next.pc = "resolve" /\ next.result = it.result /\ next.step = it.step
        /\ next.current = it.current /\ next.used = it.used /\ next.made = it.made
        /\ next.at = it.at + 1 /\ next.vars = named
    <3> DEFINE at == it.at + 1
    <3>1. at \in Nat /\ next = [it EXCEPT !.vars = named, !.at = at, !.pc = "resolve"]
      BY <1>1
    <3> HIDE DEF at, it
    <3>2. /\ next.pc = "resolve" /\ next.result = it.result /\ next.step = it.step
          /\ next.current = it.current /\ next.used = it.used /\ next.made = it.made
          /\ next.at = at /\ next.vars = named
      BY <1>1, <3>1 DEF ShareType
    <3>3. ShareType(next)
      BY <1>1, <3>1 DEF ShareType, Busy
    <3> QED
      BY <3>2, <3>3 DEF at
  <2>2. file' = [file EXCEPT ![f] = next]
    BY <1>4
  <2> HIDE DEF next
  <2> QED
    BY <1>1, <1>2, <1>4, <2>1, <2>2, GoesOnKeeps DEF named
<1>5. CASE kind # "have" /\ \E names : passes(names)
  BY <1>1, <1>2, <1>5, PassesKeeps
<1>6. CASE /\ kind # "have"
           /\ file' = [file EXCEPT ![f] = [it EXCEPT !.attempt = @ + 1, !.pc = "resolve"]]
  <2> DEFINE next == [it EXCEPT !.attempt = @ + 1, !.pc = "resolve"]
  <2>1. /\ ShareType(next) /\ next.pc = "resolve" /\ next.result = it.result /\ next.step = it.step
        /\ next.current = it.current /\ next.used = it.used /\ next.made = it.made
    BY <1>1 DEF ShareType, Busy
  <2>2. file' = [file EXCEPT ![f] = next]
    BY <1>6
  <2> HIDE DEF next
  <2> QED
    BY <1>1, <1>2, <1>6, <2>1, <2>2, GoesOnKeeps
<1>7. CASE kind # "have" /\ file' = Settles(f, "assertion")
  BY <1>1, <1>2, <1>7, FailsKeeps
<1>8. CASE \E class \in Unreadable : file' = Settles(f, class)
  <2>1. PICK class \in Unreadable : file' = Settles(f, class)
    BY <1>8
  <2>2. class # "passed"
    BY DEF Unreadable
  <2> QED
    BY <1>1, <1>2, <2>1, <2>2, FailsKeeps
<1> QED
  BY <1>3, <1>4, <1>5, <1>6, <1>7, <1>8 DEF Conclude
-----------------------------------------------------------------------------
LEMMA DbInvKept == ASSUME DbInv, [DbNext]_dbVars PROVE DbInv'
<1>1. CASE UNCHANGED dbVars
  BY <1>1 DEF dbVars, DbInv, SharesInv, CacheInv
<1>2. CASE DbNext
  <2>1. PICK f \in Files :
          \/ \E step \in Menu, fresh \in BOOLEAN : Begin(f, step, fresh)
          \/ ReadSchema(f) \/ Introspected(f) \/ Serve(f) \/ Conclude(f)
    BY <1>2 DEF DbNext
  <2> QED
    BY <2>1, BeginStep, ReadSchemaStep, IntrospectedStep, ServeStep, ConcludeStep
<1> QED
  BY <1>1, <1>2

\* What the invariant says of a statement in flight and of a step that is over.
LEMMA DbInvSuffices == ASSUME DbInv PROVE StatementsLand
<1>1. ASSUME NEW f \in Files PROVE FileInv(file[f])
  BY DEF DbInv, SharesInv
<1>2. OnItsConnection
  BY <1>1 DEF OnItsConnection, FileInv, SentInv, ChosenBy, ConnOf, RefOf, CurrentRef, Busy
<1>3. RowsNamed
  BY <1>1 DEF RowsNamed, FileInv, MadeInv, RowsTold, NameOf
<1> QED
  BY <1>2, <1>3 DEF StatementsLand

\* Whatever the steps of other files do, however the introspections of one
\* schema overlap and wherever a connection is lost, a statement is sent over
\* the connection its reference names or its scenario chose last, is shown
\* there, and is built with the schema of its table there; and the variables a
\* step leaves name the rows it made.
THEOREM StatementsDoLand == DbSpec => []StatementsLand
<1>1. DbInit => DbInv
  BY InitShares
<1>2. DbInv /\ [DbNext]_dbVars => DbInv'
  BY DbInvKept
<1>3. DbInv => StatementsLand
  BY DbInvSuffices
<1> QED
  BY <1>1, <1>2, <1>3, PTL DEF DbSpec

-----------------------------------------------------------------------------
(***************************************************************************)
(* Steps: every call in progress as a scope of its own, at any depth and   *)
(* for any names, values and bodies.                                       *)
(*                                                                         *)
(* StepsInv says that the calls nest (Nest), that the stack in use and the *)
(* ones put aside have exactly the frames their bodies need (Fits), and    *)
(* where a failure may be (CallsOK, BrokenInv).  ScopesOf reads the scopes *)
(* of Scopes.tla from these stacks; each lemma about a stack operation     *)
(* says what it does to ScopesOf, and each lemma about an action puts them *)
(* together into the one step of Scopes that the action is.                *)
(***************************************************************************)
\* A set of numbers has a smallest one, and one with a bound a largest.
LEMMA LeastIs ==
  ASSUME NEW S, S \subseteq Nat, S # {}
  PROVE  Min(S) \in S /\ \A y \in S : Min(S) <= y
<1> DEFINE R == OpToRel(<, Nat)
<1>1. IsWellFoundedOn(R, Nat)
  BY NatLessThanWellFounded
<1>2. \A x, y \in Nat : x < y => <<x, y>> \in R
  BY DEF OpToRel
<1> HIDE DEF R
<1>3. \E x \in S : \A y \in S : ~(<<y, x>> \in R)
  BY <1>1, WFMin, Zenon
<1>4. PICK x \in S : \A y \in S : ~(<<y, x>> \in R)
  BY <1>3
<1>5. ASSUME NEW y \in S PROVE x <= y
  <2>1. x \in Nat /\ y \in Nat
    OBVIOUS
  <2>2. ~(y < x)
    BY <1>2, <1>4, <2>1
  <2> QED
    BY <2>1, <2>2
<1> QED
  BY <1>4, <1>5 DEF Min

LEMMA LargestIs ==
  ASSUME NEW n \in Nat, NEW S, S \subseteq 1..n, S # {}
  PROVE  Max(S) \in S /\ \A y \in S : Max(S) >= y
<1> DEFINE T == {n - x : x \in S}
<1>1. T \subseteq Nat /\ T # {}
  <2>1. \A x \in S : n - x \in Nat
    OBVIOUS
  <2> QED
    BY <2>1
<1>2. Min(T) \in T /\ \A y \in T : Min(T) <= y
  BY <1>1, LeastIs
<1>3. PICK x \in S : Min(T) = n - x
  BY <1>2
<1>4. \A y \in S : x >= y
  <2> TAKE y \in S
  <2>1. n - y \in T
    OBVIOUS
  <2>2. n - x <= n - y
    BY <1>2, <1>3, <2>1
  <2> QED
    BY <2>2
<1> QED
  BY <1>4 DEF Max

-----------------------------------------------------------------------------
(***************************************************************************)
(* A body's home and its stack, as bodies are begun and end.               *)
(***************************************************************************)
Nest == {bodies \in Seq(Bodies) :
           /\ Len(bodies) > 0 /\ bodies[1].kind = "file"
           /\ \A i \in 2..Len(bodies) : bodies[i].kind # "file"}

LEMMA HomeIs ==
  ASSUME NEW bodies \in Nest, NEW i \in 1..Len(bodies)
  PROVE  /\ Home(bodies, i) \in 1..i /\ bodies[Home(bodies, i)].kind # "macro"
         /\ \A j \in (Home(bodies, i) + 1)..i : bodies[j].kind = "macro"
<1> DEFINE S == {j \in 1..i : bodies[j].kind # "macro"}
<1>1. i \in Nat /\ 1 \in S /\ S \subseteq 1..i
  BY DEF Nest
<1>2. Max(S) \in S /\ \A y \in S : Max(S) >= y
  BY <1>1, LargestIs
<1>3. Home(bodies, i) = Max(S)
  BY DEF Home
<1> HIDE DEF S
<1>4. Home(bodies, i) \in S /\ \A y \in S : Home(bodies, i) >= y
  BY <1>2, <1>3
<1>5. Home(bodies, i) \in 1..i /\ bodies[Home(bodies, i)].kind # "macro"
  BY <1>4 DEF S
<1>6. ASSUME NEW j \in (Home(bodies, i) + 1)..i PROVE bodies[j].kind = "macro"
  <2>1. j \in 1..i /\ ~(Home(bodies, i) >= j)
    BY <1>1, <1>5
  <2>2. j \notin S
    BY <1>4, <2>1
  <2> QED
    BY <2>1, <2>2 DEF S
<1> QED
  BY <1>5, <1>6

LEMMA HomeOnly ==
  ASSUME NEW bodies \in Nest, NEW i \in 1..Len(bodies), NEW h \in 1..i,
         bodies[h].kind # "macro", \A j \in (h + 1)..i : bodies[j].kind = "macro"
  PROVE  Home(bodies, i) = h
<1>1. /\ Home(bodies, i) \in 1..i /\ bodies[Home(bodies, i)].kind # "macro"
      /\ \A j \in (Home(bodies, i) + 1)..i : bodies[j].kind = "macro"
  BY HomeIs
<1>2. Len(bodies) \in Nat
  BY DEF Nest
<1>3. ~(Home(bodies, i) < h)
  BY <1>1, <1>2
<1>4. ~(h < Home(bodies, i))
  BY <1>1, <1>2
<1> QED
  BY <1>1, <1>2, <1>3, <1>4

\* Where no include follows, a body runs on the innermost stack; where one
\* does, whatever is innermost is not its.
LEMMA StackIs ==
  ASSUME NEW bodies \in Nest, NEW innermost, NEW i \in 1..Len(bodies)
  PROVE  /\ (\A j \in (i + 1)..Len(bodies) : bodies[j].kind # "include") =>
              StackOf(bodies, innermost, i) = innermost
         /\ \A m \in (i + 1)..Len(bodies) :
              bodies[m].kind = "include" /\ (\A j \in (i + 1)..(m - 1) : bodies[j].kind # "include") =>
                StackOf(bodies, innermost, i) = bodies[m].saved
<1> DEFINE later == {j \in (i + 1)..Len(bodies) : bodies[j].kind = "include"}
<1>0. StackOf(bodies, innermost, i) = IF later = {} THEN innermost ELSE bodies[Min(later)].saved
  BY DEF StackOf
<1>1. Len(bodies) \in Nat /\ later \subseteq Nat
  BY DEF Nest
<1>2. ASSUME \A j \in (i + 1)..Len(bodies) : bodies[j].kind # "include"
      PROVE  StackOf(bodies, innermost, i) = innermost
  <2>1. later = {}
    BY <1>2
  <2> QED
    BY <1>0, <2>1
<1>3. ASSUME NEW m \in (i + 1)..Len(bodies), bodies[m].kind = "include",
             \A j \in (i + 1)..(m - 1) : bodies[j].kind # "include"
      PROVE  StackOf(bodies, innermost, i) = bodies[m].saved
  <2>1. m \in later
    BY <1>3
  <2>2. Min(later) \in later /\ \A y \in later : Min(later) <= y
    BY <1>1, <2>1, LeastIs
  <2>3. PICK k : k = Min(later)
    OBVIOUS
  <2>4. k \in (i + 1)..Len(bodies) /\ bodies[k].kind = "include" /\ k <= m
    BY <2>1, <2>2, <2>3
  <2>5. k = m
    BY <1>1, <1>3, <2>4
  <2> QED
    BY <1>0, <2>1, <2>3, <2>5
<1> QED
  BY <1>2, <1>3

\* The first include after a body, if there is one.
LEMMA NextInclude ==
  ASSUME NEW bodies \in Nest, NEW i \in 1..Len(bodies)
  PROVE  \/ \A j \in (i + 1)..Len(bodies) : bodies[j].kind # "include"
         \/ \E m \in (i + 1)..Len(bodies) :
              bodies[m].kind = "include" /\ \A j \in (i + 1)..(m - 1) : bodies[j].kind # "include"
<1> DEFINE later == {j \in (i + 1)..Len(bodies) : bodies[j].kind = "include"}
<1>1. Len(bodies) \in Nat /\ later \subseteq Nat
  BY DEF Nest
<1>2. CASE later = {}
  BY <1>2
<1>3. CASE later # {}
  <2>0. PICK m : m = Min(later)
    OBVIOUS
  <2>1. m \in later /\ \A y \in later : m <= y
    BY <1>1, <1>3, <2>0, LeastIs
  <2>2. m \in (i + 1)..Len(bodies) /\ bodies[m].kind = "include"
    BY <2>1
  <2>3. \A j \in (i + 1)..(m - 1) : j \in (i + 1)..Len(bodies) /\ ~(m <= j)
    BY <1>1, <2>2
  <2>4. \A j \in (i + 1)..(m - 1) : bodies[j].kind # "include"
    BY <2>1, <2>3
  <2> QED
    BY <2>2, <2>4
<1> QED
  BY <1>2, <1>3

\* The bodies from the last home on run on the innermost stack, and no other.
LEMMA InnermostIs ==
  ASSUME NEW bodies \in Nest, NEW innermost, NEW n, n = Len(bodies), NEW h, h = Home(bodies, n)
  PROVE  /\ h \in 1..n
         /\ \A i \in h..n : Home(bodies, i) = h /\ StackOf(bodies, innermost, i) = innermost
         /\ \A i \in 1..(h - 1) : \A other : StackOf(bodies, innermost, i) = StackOf(bodies, other, i)
<1>0. n \in Nat \ {0} /\ n \in 1..Len(bodies)
  BY DEF Nest
<1>1. h \in 1..n /\ bodies[h].kind # "macro" /\ \A j \in (h + 1)..n : bodies[j].kind = "macro"
  BY <1>0, HomeIs
<1>2. ASSUME NEW i \in h..n
      PROVE  Home(bodies, i) = h /\ StackOf(bodies, innermost, i) = innermost
  <2>1. i \in 1..Len(bodies) /\ h \in 1..i
    BY <1>0, <1>1
  <2>2. \A j \in (h + 1)..i : bodies[j].kind = "macro"
    BY <1>0, <1>1
  <2>3. \A j \in (i + 1)..Len(bodies) : bodies[j].kind # "include"
    BY <1>0, <1>1, <2>1
  <2> QED
    BY <1>1, <2>1, <2>2, <2>3, HomeOnly, StackIs
<1>3. ASSUME NEW i \in 1..(h - 1), NEW other
      PROVE  StackOf(bodies, innermost, i) = StackOf(bodies, other, i)
  <2>1. i \in 1..Len(bodies) /\ h \in (i + 1)..Len(bodies) /\ h \in 2..Len(bodies)
    BY <1>0, <1>1
  <2>2. bodies[h].kind = "include"
    <3>1. bodies[h] \in Bodies /\ bodies[h].kind # "file"
      BY <2>1 DEF Nest
    <3> QED
      BY <1>1, <3>1 DEF Bodies
  <2>3. PICK m \in (i + 1)..Len(bodies) :
          bodies[m].kind = "include" /\ \A j \in (i + 1)..(m - 1) : bodies[j].kind # "include"
    BY <2>1, <2>2, NextInclude
  <2> QED
    BY <2>1, <2>3, StackIs
<1> QED
  BY <1>1, <1>2, <1>3

\* all is one body more than bodies.
Behind(all, bodies, body) ==
  /\ all \in Seq(Bodies) /\ Len(all) = Len(bodies) + 1
  /\ \A i \in 1..Len(bodies) : all[i] = bodies[i]
  /\ all[Len(bodies) + 1] = body

LEMMA AppendIsBehind ==
  ASSUME NEW bodies \in Nest, NEW body \in Bodies
  PROVE  Behind(Append(bodies, body), bodies, body)
BY AppendProperties DEF Nest, Behind

\* A body is begun behind the others, or has ended: they keep their homes, and
\* their stacks, the innermost one being put aside by an include.
LEMMA BehindIs ==
  ASSUME NEW bodies \in Nest, NEW body \in Bodies, body.kind # "file",
         NEW all, Behind(all, bodies, body)
  PROVE  /\ all \in Nest
         /\ \A i \in 1..Len(bodies) : Home(all, i) = Home(bodies, i)
         /\ body.kind = "macro" => Home(all, Len(all)) = Home(bodies, Len(bodies))
         /\ body.kind # "macro" => Home(all, Len(all)) = Len(all)
<1> DEFINE n == Len(bodies)
<1>0. n \in Nat \ {0} /\ bodies \in Seq(Bodies)
  BY DEF Nest
<1>1. all \in Seq(Bodies) /\ Len(all) = n + 1 /\ all[n + 1] = body /\ \A i \in 1..n : all[i] = bodies[i]
  BY DEF Behind
<1>2. all \in Nest
  <2>1. Len(all) > 0 /\ all[1].kind = "file"
    BY <1>0, <1>1 DEF Nest
  <2>2. ASSUME NEW i \in 2..(n + 1) PROVE all[i].kind # "file"
    <3>1. CASE i = n + 1
      BY <1>1, <3>1
    <3>2. CASE i \in 2..n
      BY <1>0, <1>1, <3>2 DEF Nest
    <3> QED
      BY <1>0, <3>1, <3>2
  <2> QED
    BY <1>1, <2>1, <2>2 DEF Nest
<1>3. ASSUME NEW i \in 1..n PROVE Home(all, i) = Home(bodies, i)
  <2>1. /\ Home(bodies, i) \in 1..i /\ bodies[Home(bodies, i)].kind # "macro"
        /\ \A j \in (Home(bodies, i) + 1)..i : bodies[j].kind = "macro"
    BY <1>0, HomeIs
  <2>2. Home(bodies, i) \in 1..n /\ \A j \in (Home(bodies, i) + 1)..i : j \in 1..n
    BY <1>0, <2>1
  <2>3. i \in 1..Len(all)
    BY <1>0, <1>1
  <2>4. all[Home(bodies, i)].kind # "macro" /\ \A j \in (Home(bodies, i) + 1)..i : all[j].kind = "macro"
    BY <1>1, <2>1, <2>2
  <2> QED
    BY <1>2, <2>1, <2>3, <2>4, HomeOnly
<1>4. Home(all, n + 1) = IF body.kind = "macro" THEN Home(bodies, n) ELSE n + 1
  <2>1. CASE body.kind # "macro"
    <3>1. n + 1 \in 1..Len(all) /\ n + 1 \in 1..(n + 1)
      BY <1>0, <1>1
    <3>2. \A j \in ((n + 1) + 1)..(n + 1) : all[j].kind = "macro"
      BY <1>0
    <3>3. all[n + 1].kind # "macro"
      BY <1>1, <2>1
    <3>4. Home(all, n + 1) = n + 1
      BY ONLY <1>2, <3>1, <3>2, <3>3, HomeOnly
    <3> QED
      BY <2>1, <3>4
  <2>2. CASE body.kind = "macro"
    <3>0. n \in 1..Len(bodies)
      BY <1>0
    <3>1. /\ Home(bodies, n) \in 1..n /\ bodies[Home(bodies, n)].kind # "macro"
          /\ \A j \in (Home(bodies, n) + 1)..n : bodies[j].kind = "macro"
      BY <3>0, HomeIs
    <3>2. ASSUME NEW j \in (Home(bodies, n) + 1)..(n + 1) PROVE all[j].kind = "macro"
      <4>1. CASE j = n + 1
        BY <1>1, <2>2, <4>1
      <4>2. CASE j # n + 1
        <5>1. j \in (Home(bodies, n) + 1)..n /\ j \in 1..n
          BY <1>0, <3>1, <4>2
        <5> QED
          BY <1>1, <3>1, <5>1
      <4> QED
        BY <4>1, <4>2
    <3>3. n + 1 \in 1..Len(all) /\ Home(bodies, n) \in 1..(n + 1)
      BY <1>0, <1>1, <3>1
    <3>4. all[Home(bodies, n)].kind # "macro"
      BY <1>1, <3>1
    <3> QED
      BY <1>2, <2>2, <3>2, <3>3, <3>4, HomeOnly
  <2> QED
    BY <2>1, <2>2
<1> QED
  BY <1>1, <1>2, <1>3, <1>4

\* The stack of the body before it.
Under(body, innermost) == IF body.kind = "macro" THEN innermost ELSE body.saved

LEMMA BehindStack ==
  ASSUME NEW bodies \in Nest, NEW body \in Bodies, body.kind # "file",
         NEW all, Behind(all, bodies, body), NEW innermost
  PROVE  /\ StackOf(all, innermost, Len(all)) = innermost
         /\ \A i \in 1..Len(bodies) :
              StackOf(all, innermost, i) = StackOf(bodies, Under(body, innermost), i)
<1> DEFINE n == Len(bodies)
<1>0. n \in Nat \ {0} /\ bodies \in Seq(Bodies)
  BY DEF Nest
<1>1. all \in Seq(Bodies) /\ Len(all) = n + 1 /\ all[n + 1] = body /\ \A i \in 1..n : all[i] = bodies[i]
  BY DEF Behind
<1>2. all \in Nest
  BY BehindIs
<1>5. StackOf(all, innermost, n + 1) = innermost
  <2>1. n + 1 \in 1..Len(all)
    BY <1>0, <1>1
  <2>2. \A j \in ((n + 1) + 1)..Len(all) : all[j].kind # "include"
    BY <1>0, <1>1
  <2> QED
    BY <1>2, <2>1, <2>2, StackIs
<1>6. ASSUME NEW i \in 1..n, NEW own, own = Under(body, innermost)
      PROVE  StackOf(all, innermost, i) = StackOf(bodies, own, i)
  <2>0. i \in 1..Len(all) /\ i \in 1..Len(bodies)
    BY <1>0, <1>1
  <2>1. ASSUME NEW m \in (i + 1)..n, bodies[m].kind = "include",
               \A j \in (i + 1)..(m - 1) : bodies[j].kind # "include"
        PROVE  StackOf(all, innermost, i) = StackOf(bodies, own, i)
    <3>1. m \in (i + 1)..Len(all) /\ m \in 1..n /\ \A j \in (i + 1)..(m - 1) : j \in 1..n
      BY <1>0, <1>1
    <3>2. all[m] = bodies[m] /\ \A j \in (i + 1)..(m - 1) : all[j].kind # "include"
      BY <1>1, <2>1, <3>1
    <3>3. StackOf(all, innermost, i) = all[m].saved
      <4>1. all[m].kind = "include"
        BY <2>1, <3>2
      <4> QED
        BY ONLY <1>2, <2>0, <3>1, <3>2, <4>1, StackIs
    <3>4. StackOf(bodies, own, i) = bodies[m].saved
      BY <2>0, <2>1, StackIs
    <3> QED
      BY <3>2, <3>3, <3>4
  <2>2. ASSUME \A j \in (i + 1)..n : bodies[j].kind # "include"
        PROVE  StackOf(all, innermost, i) = StackOf(bodies, own, i)
    <3>1. StackOf(bodies, own, i) = own
      BY <2>0, <2>2, StackIs
    <3>2. \A j \in (i + 1)..n : all[j].kind # "include"
      BY <1>0, <1>1, <2>2
    <3>3. CASE body.kind = "macro"
      <4>1. \A j \in (i + 1)..Len(all) : all[j].kind # "include"
        <5> TAKE j \in (i + 1)..Len(all)
        <5>1. CASE j = n + 1
          BY <1>1, <3>3, <5>1
        <5>2. CASE j # n + 1
          BY <1>0, <1>1, <3>2, <5>2
        <5> QED
          BY <5>1, <5>2
      <4> QED
        BY <1>2, <1>6, <2>0, <3>1, <3>3, <4>1, StackIs DEF Under
    <3>4. CASE body.kind # "macro"
      <4>1. body.kind = "include"
        BY <3>4 DEF Bodies
      <4>2. n + 1 \in (i + 1)..Len(all) /\ \A j \in (i + 1)..((n + 1) - 1) : all[j].kind # "include"
        BY <1>0, <1>1, <3>2
      <4>3. StackOf(all, innermost, i) = all[n + 1].saved
        <5>1. all[n + 1].kind = "include"
          BY <1>1, <4>1
        <5> QED
          BY ONLY <1>2, <2>0, <4>2, <5>1, StackIs
      <4> QED
        BY <1>1, <1>6, <3>1, <3>4, <4>3 DEF Under
    <3> QED
      BY <3>3, <3>4
  <2> QED
    BY <2>0, <2>1, <2>2, NextInclude
<1> QED
  BY <1>1, <1>5, <1>6

-----------------------------------------------------------------------------
(***************************************************************************)
(* The scopes.  Fits says that the stack in use, and every one put aside,  *)
(* has a frame for each of the bodies that run on it; then the scopes from *)
(* the last home on show the frames of the stack in use, one each.         *)
(***************************************************************************)
FitsHome(bodies, i, s) == Len(s.frames) = i - Home(bodies, i) + 1
Fits(bodies, innermost) ==
  /\ innermost \in VarStack /\ FitsHome(bodies, Len(bodies), innermost)
  /\ \A i \in 2..Len(bodies) :
       bodies[i].kind = "include" => FitsHome(bodies, i - 1, bodies[i].saved)

\* The scope of a body, with these variables.
ScopeOf(body, own, globals) ==
  [kind |-> body.kind, own |-> own, globals |-> globals,
   exports |-> body.exports, prefixed |-> body.prefixed, failed |-> body.failed]

LEMMA ScopeOfIs ==
  ASSUME NEW body, NEW own, NEW globals, NEW x
  PROVE  /\ ScopeOf(body, own, globals).own = own /\ ScopeOf(body, own, globals).globals = globals
         /\ ScopeOf(body, own, globals).kind = body.kind
         /\ ScopeOf(body, own, globals).exports = body.exports
         /\ ScopeOf(body, own, globals).prefixed = body.prefixed
         /\ (ScopeOf(body, own, globals).failed <=> body.failed)
         /\ [ScopeOf(body, own, globals) EXCEPT !.own = x] = ScopeOf(body, x, globals)
         /\ [ScopeOf(body, own, globals) EXCEPT !.globals = x] = ScopeOf(body, own, x)
BY DEF ScopeOf

LEMMA LargestSame == \A S : SC!Max(S) = Max(S)
BY DEF SC!Max, Max

LEMMA ScopesAreAll ==
  ASSUME NEW bodies, NEW n, n = Len(bodies), NEW innermost, NEW ss, ss = ScopesOf(bodies, innermost)
  PROVE  ss = [i \in 1..n |-> ss[i]]
BY DEF ScopesOf

LEMMA ScopesAre ==
  ASSUME NEW bodies \in Nest, NEW n, n = Len(bodies), NEW h, h = Home(bodies, n),
         NEW innermost, Fits(bodies, innermost), NEW ss, ss = ScopesOf(bodies, innermost)
  PROVE  /\ DOMAIN ss = 1..n /\ Len(ss) = n /\ n \in Nat \ {0} /\ h \in 1..n
         /\ Len(innermost.frames) = n - h + 1
         /\ \A i \in 1..n : ss[i] = ScopeOf(bodies[i], ss[i].own, ss[i].globals)
         /\ \A i \in 1..n : bodies[i].kind = "macro" => ss[i].globals = NoVars
         /\ ss[h] = ScopeOf(bodies[h], innermost.frames[1], innermost.globals)
         /\ \A i \in (h + 1)..n : ss[i] = ScopeOf(bodies[i], innermost.frames[i - h + 1], NoVars)
         /\ \A i \in h..n : ss[i].own = innermost.frames[i - h + 1]
         /\ ss[h].globals = innermost.globals
         /\ SC!Home(ss) = h
<1>0. n \in Nat \ {0} /\ n \in 1..Len(bodies)
  BY DEF Nest
<1>1. /\ h \in 1..n
      /\ \A i \in h..n : Home(bodies, i) = h /\ StackOf(bodies, innermost, i) = innermost
  BY InnermostIs
<1>2. bodies[h].kind # "macro" /\ \A j \in (h + 1)..n : bodies[j].kind = "macro"
  BY <1>0, HomeIs
<1>3. /\ DOMAIN ss = 1..n
      /\ \A i \in 1..n :
           ss[i] = [kind |-> bodies[i].kind,
                    own |-> StackOf(bodies, innermost, i).frames[i - Home(bodies, i) + 1],
                    globals |-> IF bodies[i].kind = "macro" THEN NoVars
                                ELSE StackOf(bodies, innermost, i).globals,
                    exports |-> bodies[i].exports,
                    prefixed |-> bodies[i].prefixed,
                    failed |-> bodies[i].failed]
  BY DEF ScopesOf
<1>b. \A i \in 1..n : ss[i] = ScopeOf(bodies[i], ss[i].own, ss[i].globals)
  BY <1>3 DEF ScopeOf
<1>c. ss[h] = ScopeOf(bodies[h], innermost.frames[1], innermost.globals)
  <2>1. h \in 1..n /\ h - h + 1 = 1
    BY <1>1, <1>0
  <2>2. Home(bodies, h) = h /\ StackOf(bodies, innermost, h) = innermost
    BY <1>0, <1>1
  <2> QED
    BY <1>2, <1>3, <2>1, <2>2 DEF ScopeOf
<1>d. \A i \in (h + 1)..n : ss[i] = ScopeOf(bodies[i], innermost.frames[i - h + 1], NoVars)
  <2> TAKE i \in (h + 1)..n
  <2>1. i \in 1..n /\ i \in h..n
    BY <1>0, <1>1
  <2>2. Home(bodies, i) = h /\ StackOf(bodies, innermost, i) = innermost /\ bodies[i].kind = "macro"
    BY <1>1, <1>2, <2>1
  <2> QED
    BY <1>3, <2>1, <2>2 DEF ScopeOf
<1>4. Len(ss) = n
  <2> DEFINE T == {ss[i] : i \in 1..n}
  <2>1. \A i \in 1..n : ss[i] \in T
    OBVIOUS
  <2> HIDE DEF T
  <2>2. ss \in [1..n -> T]
    BY <2>1 DEF ScopesOf
  <2>3. ss \in Seq(T)
    BY ONLY <1>0, <2>2, IsASeq
  <2> QED
    BY ONLY <1>0, <1>3, <2>3, LenProperties
<1>5. Len(innermost.frames) = n - h + 1
  BY DEF Fits, FitsHome
<1>6. \A i \in h..n : ss[i].own = innermost.frames[i - h + 1]
  <2> TAKE i \in h..n
  <2>1. i \in 1..n
    BY <1>0, <1>1
  <2> QED
    BY <1>1, <1>3, <2>1
<1>7. ss[h].globals = innermost.globals
  BY <1>0, <1>1, <1>2, <1>3
<1>8. SC!Home(ss) = h
  <2> DEFINE S == {j \in 1..n : ss[j].kind # "macro"}
  <2>1. S = {j \in 1..n : bodies[j].kind # "macro"}
    BY <1>3
  <2>2. Home(bodies, n) = Max(S)
    BY <2>1 DEF Home
  <2>3. SC!Home(ss) = Max(S)
    BY <1>3, LargestSame DEF SC!Home
  <2> QED
    BY <2>2, <2>3
<1>9. DOMAIN ss = 1..n /\ \A i \in 1..n : bodies[i].kind = "macro" => ss[i].globals = NoVars
  BY <1>3
<1> QED
  BY ONLY <1>0, <1>1, <1>b, <1>c, <1>d, <1>4, <1>5, <1>6, <1>7, <1>8, <1>9

\* What a stack says a name is, its scopes say.
LEMMA SeesIs ==
  ASSUME NEW bodies \in Nest, NEW innermost, Fits(bodies, innermost), NEW name \in Names
  PROVE  SC!Sees(ScopesOf(bodies, innermost), name) = Get(innermost, name)
<1> DEFINE n == Len(bodies)
           h == Home(bodies, n)
           ss == ScopesOf(bodies, innermost)
           frames == innermost.frames
           inScopes == {j \in h..n : ss[j].own[name] # Unset}
           inFrames == {i \in DOMAIN frames : frames[i][name] # Unset}
<1>1. /\ DOMAIN ss = 1..n /\ Len(ss) = n /\ n \in Nat \ {0} /\ h \in 1..n
      /\ Len(frames) = n - h + 1
      /\ \A i \in h..n : ss[i].own = frames[i - h + 1]
      /\ ss[h].globals = innermost.globals /\ SC!Home(ss) = h
  BY ScopesAre
<1>2. DOMAIN frames = 1..(n - h + 1)
  BY <1>1 DEF Fits, VarStack
<1>3. SC!Sees(ss, name) = IF inScopes = {} THEN ss[h].globals[name] ELSE ss[Max(inScopes)].own[name]
  BY <1>1, LargestSame DEF SC!Sees
<1>4. Get(innermost, name) =
        IF inFrames = {} THEN innermost.globals[name] ELSE frames[Max(inFrames)][name]
  BY DEF Get
<1> HIDE DEF ss, n, h, frames
<1>5. \A j \in h..n : j \in inScopes <=> (j - h + 1) \in inFrames
  BY <1>1, <1>2
<1>6. \A i \in inFrames : (i + h - 1) \in h..n /\ (i + h - 1) - h + 1 = i
  BY <1>1, <1>2
<1>7. inScopes = {} <=> inFrames = {}
  <2>1. ASSUME NEW i \in inFrames PROVE inScopes # {}
    <3>1. i + h - 1 \in inScopes
      BY <1>5, <1>6
    <3> QED
      BY ONLY <3>1
  <2>2. ASSUME NEW j \in inScopes PROVE inFrames # {}
    <3>1. j - h + 1 \in inFrames
      BY <1>5
    <3> QED
      BY ONLY <3>1
  <2> QED
    BY ONLY <2>1, <2>2
<1>8. CASE inFrames = {}
  BY <1>1, <1>3, <1>4, <1>7, <1>8 DEF ss
<1>9. CASE inFrames # {}
  <2>1. PICK k : k = Max(inFrames)
    OBVIOUS
  <2>2. k \in inFrames /\ (\A y \in inFrames : k >= y) /\ k \in 1..(n - h + 1)
    <3>1. n - h + 1 \in Nat /\ inFrames \subseteq 1..(n - h + 1)
      BY <1>1, <1>2
    <3>2. Max(inFrames) \in inFrames /\ \A y \in inFrames : Max(inFrames) >= y
      BY ONLY <1>9, <3>1, LargestIs
    <3> QED
      BY ONLY <2>1, <3>1, <3>2
  <2>3. PICK m : m = Max(inScopes)
    OBVIOUS
  <2>4. m \in inScopes /\ (\A y \in inScopes : m >= y) /\ m \in h..n
    <3>1. inScopes \subseteq 1..n /\ inScopes # {}
      BY <1>1, <1>7, <1>9
    <3> QED
      BY <1>1, <2>3, <3>1, LargestIs
  <2>5. m - h + 1 \in inFrames /\ k + h - 1 \in inScopes
    BY <1>5, <1>6, <2>2, <2>4
  <2>6. m - h + 1 = k
    BY <1>1, <2>2, <2>4, <2>5
  <2>7. ss[m].own = frames[k]
    BY <1>1, <2>4, <2>6
  <2> QED
    BY <1>3, <1>4, <1>7, <1>9, <2>1, <2>3, <2>7 DEF ss
<1> QED
  BY <1>8, <1>9 DEF ss

-----------------------------------------------------------------------------
(***************************************************************************)
(* The stack: what is written is a value under a name, and each operation  *)
(* leaves a stack with as many frames as it should have.                   *)
(***************************************************************************)
\* Some of the names, each with a value.
Given == UNION {[d -> Values] : d \in SUBSET Names}

LEMMA PutIs ==
  ASSUME NEW f \in Frame, NEW g \in Given
  PROVE  Put(f, g) \in Frame
<1>1. PICK d \in SUBSET Names : g \in [d -> Values]
  BY DEF Given
<1>2. \A n \in Names : (IF n \in DOMAIN g THEN g[n] ELSE f[n]) \in Values \cup {Unset}
  BY <1>1 DEF Frame
<1> QED
  BY <1>2 DEF Put, Frame

LEMMA NoVarsIs == NoVars \in Frame /\ New \in VarStack /\ Len(New.frames) = 1
<1>1. NoVars \in Frame
  BY DEF NoVars, Frame
<1>2. <<NoVars>> \in Seq(Frame) /\ Len(<<NoVars>>) = 1
  BY <1>1
<1> QED
  BY <1>1, <1>2 DEF New, VarStack

LEMMA SetAllIs ==
  ASSUME NEW s \in VarStack, Len(s.frames) > 0, NEW g \in Given
  PROVE  /\ SetAll(s, g) \in VarStack /\ Len(SetAll(s, g).frames) = Len(s.frames)
         /\ SetAll(s, g).globals = s.globals
         /\ \A i \in 1..Len(s.frames) : SetAll(s, g).frames[i] =
              IF i = Len(s.frames) THEN Put(s.frames[i], g) ELSE s.frames[i]
<1> DEFINE n == Len(s.frames)
           frames == [s.frames EXCEPT ![n] = Put(s.frames[n], g)]
<1>1. s = [frames |-> s.frames, globals |-> s.globals] /\ s.frames \in Seq(Frame) /\ s.globals \in Frame
  BY DEF VarStack
<1>2. SetAll(s, g) = [frames |-> frames, globals |-> s.globals]
  BY <1>1 DEF SetAll
<1>3. n \in Nat /\ n \in 1..n /\ DOMAIN s.frames = 1..n /\ \A i \in 1..n : s.frames[i] \in Frame
  BY <1>1
<1>4. Put(s.frames[n], g) \in Frame
  BY <1>3, PutIs
<1>5. frames \in [1..n -> Frame]
  BY <1>1, <1>3, <1>4
<1> HIDE DEF frames, n
<1>6. frames \in Seq(Frame) /\ Len(frames) = n
  <2>1. frames \in Seq(Frame)
    BY ONLY <1>3, <1>5, IsASeq
  <2> QED
    BY ONLY <1>3, <1>5, <2>1, LenProperties
<1>7. \A i \in 1..n : frames[i] = IF i = n THEN Put(s.frames[i], g) ELSE s.frames[i]
  BY <1>3 DEF frames
<1> QED
  BY <1>1, <1>2, <1>6, <1>7 DEF n, VarStack

LEMMA SetGlobalIs ==
  ASSUME NEW s \in VarStack, NEW g \in Given
  PROVE  /\ SetGlobal(s, g) \in VarStack /\ SetGlobal(s, g).frames = s.frames
         /\ SetGlobal(s, g).globals = Put(s.globals, g)
<1>1. s = [frames |-> s.frames, globals |-> s.globals] /\ s.frames \in Seq(Frame) /\ s.globals \in Frame
  BY DEF VarStack
<1>2. SetGlobal(s, g) = [frames |-> s.frames, globals |-> Put(s.globals, g)]
  BY <1>1 DEF SetGlobal
<1>3. Put(s.globals, g) \in Frame
  BY <1>1, PutIs
<1> QED
  BY <1>1, <1>2, <1>3 DEF VarStack

LEMMA PushFrameIs ==
  ASSUME NEW s \in VarStack
  PROVE  /\ PushFrame(s) \in VarStack /\ Len(PushFrame(s).frames) = Len(s.frames) + 1
         /\ PushFrame(s).globals = s.globals /\ Len(s.frames) \in Nat
         /\ \A i \in 1..(Len(s.frames) + 1) : PushFrame(s).frames[i] =
              IF i = Len(s.frames) + 1 THEN NoVars ELSE s.frames[i]
<1>1. s = [frames |-> s.frames, globals |-> s.globals] /\ s.frames \in Seq(Frame) /\ s.globals \in Frame
  BY DEF VarStack
<1>2. PushFrame(s) = [frames |-> Append(s.frames, NoVars), globals |-> s.globals]
  <2>1. PICK pushed : pushed = Append(s.frames, NoVars)
    OBVIOUS
  <2>2. PushFrame(s) = [s EXCEPT !.frames = pushed]
    BY <2>1 DEF PushFrame
  <2>3. [s EXCEPT !.frames = pushed] = [frames |-> pushed, globals |-> s.globals]
    BY <1>1
  <2> QED
    BY ONLY <2>1, <2>2, <2>3
<1>3. /\ Append(s.frames, NoVars) \in Seq(Frame) /\ Len(Append(s.frames, NoVars)) = Len(s.frames) + 1
      /\ \A i \in 1..Len(s.frames) : Append(s.frames, NoVars)[i] = s.frames[i]
      /\ Append(s.frames, NoVars)[Len(s.frames) + 1] = NoVars /\ Len(s.frames) \in Nat
  BY <1>1, NoVarsIs, AppendProperties
<1> QED
  BY <1>1, <1>2, <1>3 DEF VarStack

LEMMA DropFrameIs ==
  ASSUME NEW s \in VarStack, Len(s.frames) > 0
  PROVE  /\ DropFrame(s) \in VarStack /\ Len(DropFrame(s).frames) = Len(s.frames) - 1
         /\ DropFrame(s).globals = s.globals /\ Len(s.frames) \in Nat
         /\ \A i \in 1..(Len(s.frames) - 1) : DropFrame(s).frames[i] = s.frames[i]
<1>1. s = [frames |-> s.frames, globals |-> s.globals] /\ s.frames \in Seq(Frame) /\ s.globals \in Frame
  BY DEF VarStack
<1>2. PICK old, n : old = s.frames /\ n = Len(old)
  OBVIOUS
<1>3. old \in Seq(Frame) /\ n \in Nat /\ n > 0
  BY <1>1, <1>2
<1> DEFINE frames == SubSeq(old, 1, n - 1)
<1>4. frames = SubSeq(old, 1, n - 1)
  OBVIOUS
<1> HIDE DEF frames
<1>5. DropFrame(s) = [frames |-> frames, globals |-> s.globals]
  <2>1. DropFrame(s) = [s EXCEPT !.frames = SubSeq(s.frames, 1, Len(s.frames) - 1)]
    BY DEF DropFrame
  <2>2. DropFrame(s) = [s EXCEPT !.frames = frames]
    BY ONLY <1>2, <1>4, <2>1
  <2> QED
    BY ONLY <1>1, <2>2
<1>6. frames \in Seq(Frame) /\ Len(frames) = n - 1 /\ \A i \in 1..(n - 1) : frames[i] = old[i]
  <2>1. \A i \in 1..(n - 1) : i \in 1..n
    BY <1>3
  <2>2. \A i \in 1..(n - 1) : old[i] \in Frame
    BY <1>2, <1>3, <2>1
  <2>3. frames \in Seq(Frame)
    BY ONLY <1>2, <1>3, <1>4, <2>2, SubSeqProperties
  <2>4. Len(frames) = n - 1
    BY ONLY <1>2, <1>3, <1>4, SubSeqProperties
  <2>5. \A i \in 1..(n - 1) : frames[i] = old[i]
    BY ONLY <1>2, <1>3, <1>4, SubSeqProperties
  <2> QED
    BY <2>3, <2>4, <2>5
<1> QED
  BY <1>1, <1>2, <1>3, <1>5, <1>6 DEF VarStack

LEMMA GetIs ==
  ASSUME NEW s \in VarStack, NEW n \in Names
  PROVE  Get(s, n) \in Values \cup {Unset}
<1> DEFINE holders == {i \in DOMAIN s.frames : s.frames[i][n] # Unset}
<1>1. s.frames \in Seq(Frame) /\ s.globals \in Frame
  BY DEF VarStack
<1>2. Get(s, n) = IF holders = {} THEN s.globals[n] ELSE s.frames[Max(holders)][n]
  BY DEF Get
<1>3. Len(s.frames) \in Nat /\ holders \subseteq 1..Len(s.frames)
  BY <1>1
<1>4. CASE holders = {}
  BY <1>1, <1>2, <1>4 DEF Frame
<1>5. CASE holders # {}
  <2>1. PICK k : k = Max(holders)
    OBVIOUS
  <2>2. k \in holders
    BY ONLY <1>3, <1>5, <2>1, LargestIs
  <2>3. k \in 1..Len(s.frames)
    BY ONLY <1>3, <2>2
  <2>4. s.frames[k] \in Frame
    BY ONLY <1>1, <2>3
  <2> QED
    BY <1>2, <1>5, <2>1, <2>4 DEF Frame
<1> QED
  BY <1>4, <1>5

\* What a step or a call is given is what its caller sees.
LEMMA GivenIs ==
  ASSUME NEW bodies \in Nest, NEW innermost, Fits(bodies, innermost), NEW args \in ArgLists
  PROVE  /\ SC!Given(ScopesOf(bodies, innermost), args) = Resolve(innermost, args)
         /\ SC!Complete(SC!Given(ScopesOf(bodies, innermost), args)) <=> Resolves(innermost, args)
         /\ Resolves(innermost, args) => Resolve(innermost, args) \in Given
<1>1. PICK d \in SUBSET Names : args \in [d -> Names \cup Values]
  BY StepsAssumption DEF StepsAssumption
<1>2. \A n \in d : /\ args[n] \in Names \cup Values
                   /\ args[n] \in Names => SC!Sees(ScopesOf(bodies, innermost), args[n]) = Get(innermost, args[n])
                   /\ args[n] \in Names => Get(innermost, args[n]) \in Values \cup {Unset}
  BY <1>1, SeesIs, GetIs DEF Fits
<1>3. SC!Given(ScopesOf(bodies, innermost), args) = Resolve(innermost, args)
  BY <1>1, <1>2 DEF SC!Given, Resolve, Value
<1>4. SC!Complete(SC!Given(ScopesOf(bodies, innermost), args)) <=> Resolves(innermost, args)
  BY <1>3 DEF SC!Complete, Resolve, Resolves
<1>5. ASSUME Resolves(innermost, args) PROVE Resolve(innermost, args) \in Given
  <2>1. \A n \in d : Value(innermost, args[n]) \in Values
    BY <1>1, <1>2, <1>5 DEF Resolves, Value
  <2>2. Resolve(innermost, args) \in [d -> Values]
    BY <1>1, <2>1 DEF Resolve
  <2> QED
    BY <2>2 DEF Given
<1> QED
  BY <1>3, <1>4, <1>5

\* What exports give back is some names with values, renamed or not.
LEMMA FoundIs ==
  ASSUME NEW values \in Frame, NEW exports \in SUBSET Exports, NEW prefixed \in BOOLEAN,
         prefixed => \A e \in exports : e.names \subseteq DOMAIN Prefixed
  PROVE  Renamed(Found(values, exports), prefixed) \in Given
<1> DEFINE names == {n \in UNION {e.names : e \in exports} : values[n] # Unset}
           g == [n \in names |-> values[n]]
<1>1. names \subseteq Names
  BY DEF Exports
<1>2. Found(values, exports) = g /\ DOMAIN g = names
  BY DEF Found
<1>3. \A n \in names : g[n] \in Values
  BY <1>1 DEF Frame
<1>4. CASE ~prefixed
  <2>1. g \in [names -> Values]
    BY <1>3
  <2> QED
    BY <1>1, <1>2, <1>4, <2>1 DEF Renamed, Given
<1>5. CASE prefixed
  <2> DEFINE renamed == {Prefixed[n] : n \in names}
             of(p) == CHOOSE n \in names : Prefixed[n] = p
  <2>1. Renamed(Found(values, exports), prefixed) = [p \in renamed |-> g[of(p)]]
    BY <1>2, <1>5 DEF Renamed
  <2>2. names \subseteq DOMAIN Prefixed
    BY <1>5
  <2>3. renamed \subseteq Names
    BY <2>2, VarStackAssumption DEF VarStackAssumption
  <2>4. \A p \in renamed : of(p) \in names
    OBVIOUS
  <2>5. \A p \in renamed : g[of(p)] \in Values
    BY <1>3, <2>4
  <2> HIDE DEF renamed, of, g
  <2>6. [p \in renamed |-> g[of(p)]] \in [renamed -> Values]
    BY <2>5
  <2> QED
    BY <2>1, <2>3, <2>6 DEF Given
<1> QED
  BY <1>4, <1>5

-----------------------------------------------------------------------------
(***************************************************************************)
(* What each operation on the stack in use, and each call and return, is   *)
(* among the scopes.                                                       *)
(***************************************************************************)
LEMMA PutSame == \A f, g : SC!Put(f, g) = Put(f, g)
BY DEF SC!Put, Put

LEMMA NoVarsSame == SC!NoVars = NoVars
BY DEF SC!NoVars, NoVars

LEMMA MissingSame == \A v, e : SC!Missing(v, e) <=> Missing(v, e)
BY DEF SC!Missing, Missing

LEMMA FoundSame == \A v, e : SC!Found(v, e) = Found(v, e)
BY DEF SC!Found, Found

LEMMA RenamedSame == \A g, p : SC!Renamed(g, p) = Renamed(g, p)
BY DEF SC!Renamed, Renamed

\* The stack in use is another one: the scopes before the last home do not
\* change.
LEMMA OtherStack ==
  ASSUME NEW bodies \in Nest, NEW h, h = Home(bodies, Len(bodies)), NEW innermost, NEW other
  PROVE  \A i \in 1..(h - 1) : ScopesOf(bodies, other)[i] = ScopesOf(bodies, innermost)[i]
<1>0. PICK n : n = Len(bodies)
  OBVIOUS
<1>1. n \in Nat /\ h \in 1..n
  BY <1>0, InnermostIs DEF Nest
<1>b. bodies \in Nest /\ n = Len(bodies) /\ h = Home(bodies, n)
  BY <1>0
<1>2. \A i \in 1..(h - 1) : \A o : StackOf(bodies, innermost, i) = StackOf(bodies, o, i)
  BY ONLY <1>b, InnermostIs
<1> TAKE i \in 1..(h - 1)
<1>3. StackOf(bodies, innermost, i) = StackOf(bodies, other, i)
  BY <1>2
<1>4. i \in 1..Len(bodies)
  BY <1>0, <1>1
<1> QED
  BY <1>3, <1>4 DEF ScopesOf

LEMMA FitsOther ==
  ASSUME NEW bodies, NEW innermost, Fits(bodies, innermost),
         NEW other \in VarStack, Len(other.frames) = Len(innermost.frames)
  PROVE  Fits(bodies, other)
BY DEF Fits, FitsHome

\* A write in the top frame.
LEMMA WriteIs ==
  ASSUME NEW bodies \in Nest, NEW n, n = Len(bodies),
         NEW innermost, Fits(bodies, innermost), NEW ss, ss = ScopesOf(bodies, innermost),
         NEW g \in Given, NEW other, other = SetAll(innermost, g)
  PROVE  /\ Fits(bodies, other)
         /\ ScopesOf(bodies, other) = [ss EXCEPT ![n].own = Put(ss[n].own, g)]
<1>0. PICK h : h = Home(bodies, n)
  OBVIOUS
<1>1. /\ DOMAIN ss = 1..n /\ n \in Nat \ {0} /\ h \in 1..n /\ Len(innermost.frames) = n - h + 1
      /\ ss[h] = ScopeOf(bodies[h], innermost.frames[1], innermost.globals)
      /\ \A i \in (h + 1)..n : ss[i] = ScopeOf(bodies[i], innermost.frames[i - h + 1], NoVars)
  BY <1>0, ScopesAre
<1>a. n \in Nat \ {0} /\ h \in 1..n
  BY <1>1
<1>b. bodies \in Nest /\ n = Len(bodies)
  BY <1>0
<1>2. innermost \in VarStack /\ Len(innermost.frames) > 0
  BY <1>1 DEF Fits
<1>3. /\ other \in VarStack /\ Len(other.frames) = n - h + 1 /\ other.globals = innermost.globals
      /\ \A i \in 1..(n - h + 1) : other.frames[i] =
           IF i = n - h + 1 THEN Put(innermost.frames[i], g) ELSE innermost.frames[i]
  <2>1. PICK top : top = Len(innermost.frames)
    OBVIOUS
  <2>2. other = SetAll(innermost, g) /\ g \in Given
    OBVIOUS
  <2>3. /\ other \in VarStack /\ Len(other.frames) = top /\ other.globals = innermost.globals
        /\ \A i \in 1..top : other.frames[i] =
             IF i = top THEN Put(innermost.frames[i], g) ELSE innermost.frames[i]
    BY ONLY <1>2, <2>1, <2>2, SetAllIs
  <2>4. top = n - h + 1
    BY <1>1, <2>1
  <2> QED
    BY ONLY <2>3, <2>4
<1>4. Fits(bodies, other)
  BY <1>1, <1>3, FitsOther
<1>5. PICK tt : tt = ScopesOf(bodies, other)
  OBVIOUS
<1>6. /\ tt[h] = ScopeOf(bodies[h], other.frames[1], other.globals)
      /\ \A i \in (h + 1)..n : tt[i] = ScopeOf(bodies[i], other.frames[i - h + 1], NoVars)
  BY ONLY <1>0, <1>b, <1>4, <1>5, ScopesAre
<1>7. \A i \in 1..(h - 1) : tt[i] = ss[i]
  BY <1>0, <1>5, OtherStack
<1>8. ASSUME NEW i \in 1..n
      PROVE  tt[i] = IF i = n THEN [ss[n] EXCEPT !.own = Put(ss[n].own, g)] ELSE ss[i]
  <2>1. CASE i < h
    BY <1>1, <1>7, <2>1
  <2>2. CASE i >= h
    <3>1. i \in h..n /\ i - h + 1 \in 1..(n - h + 1) /\ (i - h + 1 = n - h + 1 <=> i = n)
      BY ONLY <1>a, <1>8, <2>2
    <3>2. CASE i # n
      <4>1. other.frames[i - h + 1] = innermost.frames[i - h + 1]
        BY <1>3, <3>1, <3>2
      <4>2. CASE i = h
        BY <1>1, <1>3, <1>6, <1>a, <3>2, <4>1, <4>2
      <4>3. CASE i # h
        <5>1. i \in (h + 1)..n
          BY ONLY <1>a, <3>1, <4>3
        <5> QED
          BY <1>1, <1>6, <3>2, <4>1, <5>1
      <4> QED
        BY <4>2, <4>3
    <3>3. CASE i = n
      <4>1. PICK own, globals : own = innermost.frames[i - h + 1] /\
                                globals = IF i = h THEN innermost.globals ELSE NoVars
        OBVIOUS
      <4>a. other.frames[i - h + 1] = Put(own, g)
        BY <1>3, <3>1, <3>3, <4>1
      <4>b. ASSUME i = h PROVE ss[i] = ScopeOf(bodies[i], own, globals) /\ tt[i] = ScopeOf(bodies[i], Put(own, g), globals)
        <5>1. i - h + 1 = 1
          BY ONLY <1>a, <1>8, <4>b
        <5>2. own = innermost.frames[1] /\ globals = innermost.globals
          BY ONLY <4>1, <4>b, <5>1
        <5>3. Put(own, g) = other.frames[1] /\ globals = other.globals
          BY <1>3, <4>a, <5>1, <5>2
        <5>4. ss[h] = ScopeOf(bodies[h], innermost.frames[1], innermost.globals)
          BY <1>1
        <5>5. tt[h] = ScopeOf(bodies[h], other.frames[1], other.globals)
          BY <1>6
        <5> QED
          BY ONLY <4>b, <5>2, <5>3, <5>4, <5>5
      <4>c. ASSUME i # h PROVE ss[i] = ScopeOf(bodies[i], own, globals) /\ tt[i] = ScopeOf(bodies[i], Put(own, g), globals)
        <5>1. i \in (h + 1)..n
          BY ONLY <1>a, <3>1, <4>c
        <5> QED
          BY <1>1, <1>6, <4>1, <4>a, <4>c, <5>1
      <4>2. ss[i] = ScopeOf(bodies[i], own, globals) /\ tt[i] = ScopeOf(bodies[i], Put(own, g), globals)
        BY <4>b, <4>c
      <4>4. ss[i].own = own /\ [ss[i] EXCEPT !.own = Put(own, g)] = ScopeOf(bodies[i], Put(own, g), globals)
        BY <4>2, ScopeOfIs
      <4> QED
        BY <3>3, <4>2, <4>4
    <3> QED
      BY <3>2, <3>3
  <2> QED
    BY <1>1, <2>1, <2>2
<1>9. tt = [ss EXCEPT ![n].own = Put(ss[n].own, g)]
  <2>1. [ss EXCEPT ![n].own = Put(ss[n].own, g)] =
          [i \in 1..n |-> IF i = n THEN [ss[n] EXCEPT !.own = Put(ss[n].own, g)] ELSE ss[i]]
    <3>1. ss = [i \in 1..n |-> ss[i]]
      BY <1>b, ScopesAreAll
    <3> QED
      BY <1>1
  <2>2. [i \in 1..n |-> tt[i]] =
          [i \in 1..n |-> IF i = n THEN [ss[n] EXCEPT !.own = Put(ss[n].own, g)] ELSE ss[i]]
    BY <1>8
  <2>3. tt = [i \in 1..n |-> tt[i]]
    BY <1>0, <1>5, ScopesAreAll
  <2> QED
    BY ONLY <2>1, <2>2, <2>3
<1> QED
  BY <1>4, <1>5, <1>9

\* A write among the globals.
LEMMA WriteGlobalIs ==
  ASSUME NEW bodies \in Nest, NEW h, h = Home(bodies, Len(bodies)),
         NEW innermost, Fits(bodies, innermost), NEW ss, ss = ScopesOf(bodies, innermost),
         NEW g \in Given, NEW other, other = SetGlobal(innermost, g)
  PROVE  /\ Fits(bodies, other)
         /\ ScopesOf(bodies, other) = [ss EXCEPT ![h].globals = Put(ss[h].globals, g)]
<1>0. PICK n : n = Len(bodies)
  OBVIOUS
<1>1. /\ DOMAIN ss = 1..n /\ n \in Nat \ {0} /\ h \in 1..n
      /\ ss[h] = ScopeOf(bodies[h], innermost.frames[1], innermost.globals)
      /\ \A i \in (h + 1)..n : ss[i] = ScopeOf(bodies[i], innermost.frames[i - h + 1], NoVars)
  BY <1>0, ScopesAre
<1>a. n \in Nat \ {0} /\ h \in 1..n
  BY <1>1
<1>b. bodies \in Nest /\ n = Len(bodies) /\ h = Home(bodies, n)
  BY <1>0
<1>3. other \in VarStack /\ other.frames = innermost.frames /\ other.globals = Put(innermost.globals, g)
  BY SetGlobalIs DEF Fits
<1>4. Fits(bodies, other)
  BY <1>1, <1>3, FitsOther
<1>5. PICK tt : tt = ScopesOf(bodies, other)
  OBVIOUS
<1>6. /\ tt[h] = ScopeOf(bodies[h], other.frames[1], other.globals)
      /\ \A i \in (h + 1)..n : tt[i] = ScopeOf(bodies[i], other.frames[i - h + 1], NoVars)
  <2>1. tt[h] = ScopeOf(bodies[h], other.frames[1], other.globals)
    BY ONLY <1>b, <1>4, <1>5, ScopesAre
  <2>2. \A i \in (h + 1)..n : tt[i] = ScopeOf(bodies[i], other.frames[i - h + 1], NoVars)
    BY ONLY <1>b, <1>4, <1>5, ScopesAre
  <2> QED
    BY <2>1, <2>2
<1>7. \A i \in 1..(h - 1) : tt[i] = ss[i]
  BY <1>0, <1>5, OtherStack
<1>8. ASSUME NEW i \in 1..n
      PROVE  tt[i] = IF i = h THEN [ss[h] EXCEPT !.globals = Put(ss[h].globals, g)] ELSE ss[i]
  <2>1. CASE i < h
    BY <1>1, <1>7, <2>1
  <2>2. CASE i > h
    BY <1>1, <1>3, <1>6, <2>2
  <2>3. CASE i = h
    <3>1. PICK own, globals : own = innermost.frames[1] /\ globals = innermost.globals
      OBVIOUS
    <3>2. ss[i] = ScopeOf(bodies[i], own, globals)
      BY <1>1, <2>3, <3>1
    <3>3. tt[i] = ScopeOf(bodies[i], own, Put(globals, g))
      BY <1>1, <1>3, <1>6, <2>3, <3>1
    <3>4. ss[i].globals = globals
          /\ [ss[i] EXCEPT !.globals = Put(globals, g)] = ScopeOf(bodies[i], own, Put(globals, g))
      BY <3>2, ScopeOfIs
    <3> QED
      BY <2>3, <3>3, <3>4
  <2> QED
    BY <1>1, <2>1, <2>2, <2>3
<1>9. tt = [ss EXCEPT ![h].globals = Put(ss[h].globals, g)]
  <2>1. [ss EXCEPT ![h].globals = Put(ss[h].globals, g)] =
          [i \in 1..n |-> IF i = h THEN [ss[h] EXCEPT !.globals = Put(ss[h].globals, g)] ELSE ss[i]]
    <3>1. ss = [i \in 1..n |-> ss[i]]
      BY <1>b, ScopesAreAll
    <3> QED
      BY <1>1
  <2>2. [i \in 1..n |-> tt[i]] =
          [i \in 1..n |-> IF i = h THEN [ss[h] EXCEPT !.globals = Put(ss[h].globals, g)] ELSE ss[i]]
    BY <1>8
  <2>3. tt = [i \in 1..n |-> tt[i]]
    BY <1>0, <1>5, ScopesAreAll
  <2> QED
    BY ONLY <2>1, <2>2, <2>3
<1> QED
  BY <1>4, <1>5, <1>9

\* Where two stacks show the same, so do the scopes.
LEMMA SameShown ==
  ASSUME NEW bodies \in Nest, NEW n, n = Len(bodies), NEW h, h = Home(bodies, n),
         NEW innermost, NEW other, other.globals = innermost.globals,
         \A i \in 1..(n - h + 1) : other.frames[i] = innermost.frames[i]
  PROVE  ScopesOf(bodies, other) = ScopesOf(bodies, innermost)
<1>1. n \in Nat \ {0} /\ h \in 1..n
  <2>1. h \in 1..n
    BY InnermostIs
  <2> QED
    BY <2>1 DEF Nest
<1>2. \A i \in h..n : Home(bodies, i) = h
  BY InnermostIs
<1>3. \A i \in h..n : StackOf(bodies, innermost, i) = innermost /\ StackOf(bodies, other, i) = other
  BY InnermostIs
<1>4. \A i \in 1..(h - 1) : ScopesOf(bodies, other)[i] = ScopesOf(bodies, innermost)[i]
  BY OtherStack
<1>5. ASSUME NEW i \in h..n PROVE ScopesOf(bodies, other)[i] = ScopesOf(bodies, innermost)[i]
  <2>1. i \in 1..Len(bodies) /\ i - h + 1 \in 1..(n - h + 1)
    BY <1>1
  <2>2. other.frames[i - h + 1] = innermost.frames[i - h + 1]
    BY <2>1
  <2> QED
    BY <1>2, <1>3, <2>1, <2>2 DEF ScopesOf
<1>6. \A i \in 1..n : ScopesOf(bodies, other)[i] = ScopesOf(bodies, innermost)[i]
  <2> TAKE i \in 1..n
  <2>1. i \in 1..(h - 1) \/ i \in h..n
    BY <1>1
  <2> QED
    BY <1>4, <1>5, <2>1
<1>7. PICK f, g : f = ScopesOf(bodies, other) /\ g = ScopesOf(bodies, innermost)
  OBVIOUS
<1>8. f = [i \in 1..n |-> f[i]] /\ g = [i \in 1..n |-> g[i]]
  BY <1>7, ScopesAreAll
<1>9. [i \in 1..n |-> f[i]] = [i \in 1..n |-> g[i]]
  BY <1>6, <1>7
<1> QED
  BY <1>7, <1>8, <1>9

\* The scopes of the bodies before the last one.
LEMMA ScopesBehind ==
  ASSUME NEW bodies \in Nest, NEW body \in Bodies, body.kind # "file",
         NEW all, Behind(all, bodies, body), NEW s
  PROVE  /\ \A i \in 1..Len(bodies) : ScopesOf(all, s)[i] = ScopesOf(bodies, Under(body, s))[i]
         /\ ScopesOf(all, s)[Len(all)] =
              ScopeOf(body, s.frames[Len(all) - Home(all, Len(all)) + 1],
                      IF body.kind = "macro" THEN NoVars ELSE s.globals)
<1>1. Len(bodies) \in Nat
  BY DEF Nest
<1>2. /\ Len(all) = Len(bodies) + 1 /\ all[Len(all)] = body
      /\ \A i \in 1..Len(bodies) : all[i] = bodies[i]
  BY DEF Behind
<1>3. \A i \in 1..Len(bodies) : Home(all, i) = Home(bodies, i)
  BY BehindIs
<1>4. StackOf(all, s, Len(all)) = s
  BY BehindStack
<1>5. \A i \in 1..Len(bodies) : StackOf(all, s, i) = StackOf(bodies, Under(body, s), i)
  BY BehindStack
<1>6. ASSUME NEW i \in 1..Len(bodies)
      PROVE  ScopesOf(all, s)[i] = ScopesOf(bodies, Under(body, s))[i]
  <2>1. i \in 1..Len(all)
    BY <1>1, <1>2
  <2>2. all[i] = bodies[i] /\ Home(all, i) = Home(bodies, i)
        /\ StackOf(all, s, i) = StackOf(bodies, Under(body, s), i)
    BY <1>2, <1>3, <1>5
  <2> QED
    BY <2>1, <2>2 DEF ScopesOf
<1>7. ScopesOf(all, s)[Len(all)] =
        ScopeOf(body, s.frames[Len(all) - Home(all, Len(all)) + 1],
                IF body.kind = "macro" THEN NoVars ELSE s.globals)
  <2>1. PICK m : m = Len(all)
    OBVIOUS
  <2>2. m \in 1..Len(all)
    BY <1>1, <1>2, <2>1
  <2>3. all[m] = body /\ StackOf(all, s, m) = s
    BY <1>2, <1>4, <2>1
  <2>4. ScopesOf(all, s)[m] = ScopeOf(body, s.frames[m - Home(all, m) + 1],
                                IF body.kind = "macro" THEN NoVars ELSE s.globals)
    BY ONLY <2>2, <2>3 DEF ScopesOf, ScopeOf
  <2> QED
    BY <2>1, <2>4
<1> QED
  BY <1>6, <1>7

\* A macro has been pushed a frame, or an include given a fresh stack: there
\* is one scope more, in which nothing is set.
LEMMA BegunIs ==
  ASSUME NEW bodies \in Nest, NEW innermost, Fits(bodies, innermost),
         NEW body \in Bodies, NEW all, Behind(all, bodies, body), NEW other,
         \/ body.kind = "macro" /\ other = PushFrame(innermost)
         \/ body.kind = "include" /\ body.saved = innermost /\ other = New
  PROVE  /\ all \in Nest /\ Fits(all, other)
         /\ \A i \in 1..Len(bodies) : ScopesOf(all, other)[i] = ScopesOf(bodies, innermost)[i]
         /\ ScopesOf(all, other)[Len(all)] = ScopeOf(body, NoVars, NoVars)
<1>0. body.kind # "file"
  OBVIOUS
<1>1. PICK n, h, m, k : n = Len(bodies) /\ h = Home(bodies, n) /\ m = Len(all) /\ k = Home(all, m)
  OBVIOUS
<1>2. n \in Nat \ {0} /\ h \in 1..n
  <2>1. h \in 1..n
    BY <1>1, InnermostIs
  <2> QED
    BY <1>1, <2>1 DEF Nest
<1>3. innermost \in VarStack /\ Len(innermost.frames) = n - h + 1
  BY <1>1 DEF Fits, FitsHome
<1>4. m = n + 1 /\ all[m] = body /\ \A i \in 1..n : all[i] = bodies[i]
  BY <1>1 DEF Behind
<1>5. all \in Nest /\ \A i \in 1..n : Home(all, i) = Home(bodies, i)
  BY <1>0, <1>1, BehindIs
<1>6. (body.kind = "macro" => k = h) /\ (body.kind # "macro" => k = m)
  BY <1>0, <1>1, BehindIs
<1>7. /\ other \in VarStack /\ Len(other.frames) = m - k + 1 /\ other.frames[m - k + 1] = NoVars
      /\ body.kind = "include" => other.globals = NoVars
  <2>1. CASE body.kind = "macro"
    <3>1. PICK len : len = Len(innermost.frames)
      OBVIOUS
    <3>2. len + 1 = m - k + 1 /\ len \in Nat
      BY <1>2, <1>3, <1>4, <1>6, <2>1, <3>1
    <3>3. other = PushFrame(innermost)
      BY <2>1
    <3>4. /\ other \in VarStack /\ Len(other.frames) = len + 1
          /\ \A i \in 1..(len + 1) : other.frames[i] = IF i = len + 1 THEN NoVars ELSE innermost.frames[i]
      BY ONLY <1>3, <3>1, <3>3, PushFrameIs
    <3>5. other.frames[len + 1] = NoVars
      BY ONLY <3>2, <3>4
    <3> QED
      BY <2>1, <3>2, <3>4, <3>5
  <2>2. CASE body.kind # "macro"
    <3>1. other = New /\ m - k + 1 = 1
      BY <1>2, <1>4, <1>6, <2>2
    <3>2. New.frames[1] = NoVars /\ New.globals = NoVars
      BY DEF New
    <3> QED
      BY <3>1, <3>2, NoVarsIs
  <2> QED
    BY <2>1, <2>2
<1>8. Fits(all, other)
  <2>1. ASSUME NEW i \in 2..m, all[i].kind = "include" PROVE FitsHome(all, i - 1, all[i].saved)
    <3>0. PICK j : j = i - 1
      OBVIOUS
    <3>1. j \in 1..n
      BY <1>2, <1>4, <3>0
    <3>2. CASE i = m
      <4>1. all[i].saved = innermost
        BY <1>4, <2>1, <3>2
      <4>2. j = n /\ Home(all, j) = h
        BY <1>1, <1>2, <1>4, <1>5, <3>0, <3>1, <3>2
      <4>3. FitsHome(all, j, all[i].saved)
        BY <1>3, <4>1, <4>2 DEF FitsHome
      <4> QED
        BY <3>0, <4>3
    <3>3. CASE i # m
      <4>1. i \in 1..n /\ i \in 2..Len(bodies)
        BY <1>1, <1>2, <1>4, <3>3
      <4>2. all[i] = bodies[i] /\ Home(all, j) = Home(bodies, j)
        BY <1>4, <1>5, <3>1, <4>1
      <4>3. FitsHome(bodies, j, bodies[i].saved)
        BY <2>1, <3>0, <4>1, <4>2 DEF Fits
      <4>4. FitsHome(all, j, all[i].saved)
        BY <4>2, <4>3 DEF FitsHome
      <4> QED
        BY <3>0, <4>4
    <3> QED
      BY <3>2, <3>3
  <2>2. FitsHome(all, m, other)
    BY <1>1, <1>7 DEF FitsHome
  <2> QED
    BY <1>1, <1>7, <2>1, <2>2 DEF Fits
<1>10. ScopesOf(bodies, Under(body, other)) = ScopesOf(bodies, innermost)
  <2>1. CASE body.kind = "macro"
    <3>1. PICK len : len = Len(innermost.frames)
      OBVIOUS
    <3>2. len = n - h + 1 /\ len \in Nat
      BY <1>2, <1>3, <3>1
    <3>3. other = PushFrame(innermost)
      BY <2>1
    <3>4. /\ other.globals = innermost.globals
          /\ \A i \in 1..(len + 1) : other.frames[i] = IF i = len + 1 THEN NoVars ELSE innermost.frames[i]
      BY ONLY <1>3, <3>1, <3>3, PushFrameIs
    <3>5. \A i \in 1..(n - h + 1) : other.frames[i] = innermost.frames[i]
      BY ONLY <3>2, <3>4
    <3>6. bodies \in Nest /\ n = Len(bodies) /\ h = Home(bodies, n)
      BY <1>1
    <3>7. ScopesOf(bodies, other) = ScopesOf(bodies, innermost)
      BY ONLY <3>4, <3>5, <3>6, SameShown
    <3> QED
      BY <2>1, <3>7 DEF Under
  <2>2. CASE body.kind # "macro"
    BY <2>2 DEF Under
  <2> QED
    BY <2>1, <2>2
<1>11. \A i \in 1..Len(bodies) : ScopesOf(all, other)[i] = ScopesOf(bodies, Under(body, other))[i]
  <2>1. bodies \in Nest /\ body \in Bodies /\ Behind(all, bodies, body)
    OBVIOUS
  <2> QED
    BY ONLY <1>0, <2>1, ScopesBehind
<1>12. ScopesOf(all, other)[Len(all)] =
         ScopeOf(body, other.frames[Len(all) - Home(all, Len(all)) + 1],
                 IF body.kind = "macro" THEN NoVars ELSE other.globals)
  BY <1>0, ScopesBehind
<1>13. ScopesOf(all, other)[Len(all)] = ScopeOf(body, NoVars, NoVars)
  BY <1>1, <1>7, <1>12
<1> QED
  BY <1>5, <1>8, <1>10, <1>11, <1>13

LEMMA CallersAre ==
  ASSUME NEW bodies \in Nest, NEW n, n = Len(bodies), n > 1, NEW callers, callers = SubSeq(bodies, 1, n - 1)
  PROVE  callers \in Seq(Bodies) /\ Behind(bodies, callers, bodies[n]) /\ Len(callers) = n - 1
<1>1. PICK m : m = n - 1
  OBVIOUS
<1>2. n \in Nat /\ m \in Nat \ {0} /\ bodies \in Seq(Bodies)
  BY <1>1 DEF Nest
<1>4. callers \in Seq(Bodies) /\ Len(callers) = m /\ \A i \in 1..m : callers[i] = bodies[i]
  <2>1. \A i \in 1..m : i \in 1..n /\ 1 + i - 1 = i
    BY <1>1, <1>2
  <2>2. \A i \in 1..m : bodies[i] \in Bodies
    BY <1>2, <2>1
  <2>3. callers = SubSeq(bodies, 1, m) /\ n = Len(bodies) /\ m <= n
    BY <1>1, <1>2
  <2>4. callers \in Seq(Bodies)
    BY ONLY <1>2, <2>1, <2>2, <2>3, SubSeqProperties
  <2>5. Len(callers) = m
    BY ONLY <1>2, <2>1, <2>2, <2>3, SubSeqProperties
  <2>6. \A i \in 1..m : callers[i] = bodies[i]
    BY ONLY <1>2, <2>1, <2>2, <2>3, SubSeqProperties
  <2> QED
    BY <2>4, <2>5, <2>6
<1> QED
  BY <1>1, <1>2, <1>4 DEF Behind

\* The stack in use when body, the last one, has ended.
Back(body, innermost) == IF body.kind = "macro" THEN DropFrame(innermost) ELSE body.saved

\* The last body has ended: its scope is gone, the others are as they were
\* once its frame is dropped, or the stack it had put aside is back.
LEMMA EndedIs ==
  ASSUME NEW bodies \in Nest, NEW innermost, Fits(bodies, innermost),
         NEW callers \in Seq(Bodies), Len(callers) > 0, NEW body, Behind(bodies, callers, body)
  PROVE  /\ callers \in Nest /\ Fits(callers, Back(body, innermost))
         /\ \A i \in 1..Len(callers) : ScopesOf(callers, Back(body, innermost))[i] = ScopesOf(bodies, innermost)[i]
         /\ body.kind = "macro" => Len(innermost.frames) > 1
<1>1. PICK n, m, back : n = Len(bodies) /\ m = Len(callers) /\ back = Back(body, innermost)
  OBVIOUS
<1>2. n \in Nat /\ m \in Nat \ {0} /\ n = m + 1 /\ bodies \in Seq(Bodies)
  BY <1>1 DEF Nest, Behind
<1>z. body = bodies[n]
  BY <1>1, <1>2 DEF Behind
<1>3. body \in Bodies /\ body.kind # "file"
  <2>1. n \in 1..Len(bodies) /\ n \in 2..Len(bodies)
    BY <1>1, <1>2
  <2>2. bodies[n] \in Bodies /\ bodies[n].kind # "file"
    BY <1>2, <2>1 DEF Nest
  <2> QED
    BY <1>z, <2>2
<1>4. callers \in Seq(Bodies) /\ Len(callers) = m /\ \A i \in 1..m : callers[i] = bodies[i]
  BY <1>1 DEF Behind
<1>5. callers \in Nest
  <2>1. 1 \in 1..m /\ \A i \in 2..m : i \in 2..n /\ i \in 1..m
    BY <1>1, <1>2
  <2>2. bodies[1].kind = "file" /\ \A i \in 2..n : bodies[i].kind # "file"
    BY <1>1 DEF Nest
  <2>3. callers[1].kind = "file" /\ \A i \in 2..m : callers[i].kind # "file"
    BY <1>4, <2>1, <2>2
  <2>4. Len(callers) > 0 /\ callers[1].kind = "file" /\ \A i \in 2..Len(callers) : callers[i].kind # "file"
    BY <1>2, <1>4, <2>3
  <2> QED
    BY ONLY <1>4, <2>4 DEF Nest
<1>6. Behind(bodies, callers, body)
  OBVIOUS
<1>7. PICK h, k : h = Home(callers, m) /\ k = Home(bodies, n)
  OBVIOUS
<1>8. h \in 1..m /\ k \in 1..n
  BY <1>1, <1>4, <1>5, <1>7, InnermostIs
<1>9. \A i \in 1..m : Home(bodies, i) = Home(callers, i)
  <2>1. \A i \in 1..Len(callers) : Home(bodies, i) = Home(callers, i)
    BY ONLY <1>3, <1>5, <1>6, BehindIs
  <2> QED
    BY <1>4, <2>1
<1>10. body.kind = "macro" => k = h
  <2>1. body.kind = "macro" => Home(bodies, Len(bodies)) = Home(callers, Len(callers))
    BY ONLY <1>3, <1>5, <1>6, BehindIs
  <2> QED
    BY <1>1, <1>7, <2>1
<1>11. innermost \in VarStack /\ Len(innermost.frames) = n - k + 1
  BY <1>1, <1>7 DEF Fits, FitsHome
<1>12. body.kind = "macro" => Len(innermost.frames) > 1
  BY <1>1, <1>2, <1>8, <1>10, <1>11
<1>13. /\ back \in VarStack /\ Len(back.frames) = m - h + 1
       /\ body.kind = "macro" => /\ back.globals = innermost.globals
                                 /\ \A i \in 1..(m - h + 1) : back.frames[i] = innermost.frames[i]
  <2>1. CASE body.kind = "macro"
    <3>1. PICK len : len = Len(innermost.frames)
      OBVIOUS
    <3>2. len - 1 = m - h + 1 /\ len > 0
      BY <1>1, <1>2, <1>8, <1>10, <1>11, <2>1, <3>1
    <3>3. back = DropFrame(innermost)
      BY <1>1, <2>1 DEF Back
    <3>4. /\ back \in VarStack /\ Len(back.frames) = len - 1 /\ back.globals = innermost.globals
          /\ \A i \in 1..(len - 1) : back.frames[i] = innermost.frames[i]
      BY ONLY <1>11, <3>1, <3>2, <3>3, DropFrameIs
    <3> QED
      BY <3>2, <3>4
  <2>2. CASE body.kind # "macro"
    <3>1. body.kind = "include" /\ back = body.saved
      BY <1>1, <1>3, <2>2 DEF Back, Bodies
    <3>2. n \in 2..Len(bodies) /\ n - 1 = m
      BY <1>1, <1>2
    <3>3. FitsHome(bodies, m, back)
      <4>1. FitsHome(bodies, n - 1, bodies[n].saved)
        BY <1>z, <3>1, <3>2 DEF Fits
      <4> QED
        BY <1>z, <3>1, <3>2, <4>1
    <3>4. Home(bodies, m) = h
      BY <1>2, <1>7, <1>9
    <3>5. back \in VarStack
      BY <1>3, <3>1 DEF Bodies
    <3> QED
      BY <2>2, <3>3, <3>4, <3>5 DEF FitsHome
  <2> QED
    BY <2>1, <2>2
<1>14. Fits(callers, back)
  <2>1. ASSUME NEW i \in 2..m, callers[i].kind = "include" PROVE FitsHome(callers, i - 1, callers[i].saved)
    <3>1. PICK j : j = i - 1
      OBVIOUS
    <3>2. j \in 1..m /\ i \in 1..m /\ i \in 2..Len(bodies)
      BY <1>1, <1>2, <3>1
    <3>3. callers[i] = bodies[i] /\ Home(callers, j) = Home(bodies, j)
      BY <1>4, <1>9, <3>2
    <3>4. FitsHome(bodies, j, bodies[i].saved)
      BY <2>1, <3>1, <3>2, <3>3 DEF Fits
    <3>5. FitsHome(callers, j, callers[i].saved)
      BY <3>3, <3>4 DEF FitsHome
    <3> QED
      BY <3>1, <3>5
  <2>2. FitsHome(callers, m, back)
    BY <1>7, <1>13 DEF FitsHome
  <2> QED
    BY <1>4, <1>13, <2>1, <2>2 DEF Fits
<1>15. ScopesOf(callers, Under(body, innermost)) = ScopesOf(callers, back)
  <2>1. CASE body.kind = "macro"
    <3>1. /\ innermost.globals = back.globals
          /\ \A i \in 1..(m - h + 1) : innermost.frames[i] = back.frames[i]
      BY <1>13, <2>1
    <3>2. callers \in Nest /\ m = Len(callers) /\ h = Home(callers, m)
      BY <1>4, <1>5, <1>7
    <3>3. ScopesOf(callers, innermost) = ScopesOf(callers, back)
      BY ONLY <3>1, <3>2, SameShown
    <3> QED
      BY <2>1, <3>3 DEF Under
  <2>2. CASE body.kind # "macro"
    BY <1>1, <2>2 DEF Under, Back
  <2> QED
    BY <2>1, <2>2
<1>16. \A i \in 1..m : ScopesOf(bodies, innermost)[i] = ScopesOf(callers, Under(body, innermost))[i]
  <2>1. \A i \in 1..Len(callers) :
          ScopesOf(bodies, innermost)[i] = ScopesOf(callers, Under(body, innermost))[i]
    BY ONLY <1>3, <1>5, <1>6, ScopesBehind
  <2> QED
    BY <1>4, <2>1
<1> QED
  BY <1>1, <1>4, <1>5, <1>12, <1>14, <1>15, <1>16

\* The last of these bodies, or scopes, has failed, or has not.
Marked(body, b) == [body EXCEPT !.failed = b]
Failing(bodies, b) == [bodies EXCEPT ![Len(bodies)] = Marked(bodies[Len(bodies)], b)]

LEMMA MarkedIs ==
  ASSUME NEW bodies \in Nest, NEW n, n = Len(bodies), NEW innermost, Fits(bodies, innermost),
         NEW ss, ss = ScopesOf(bodies, innermost),
         NEW b \in BOOLEAN, NEW marked, marked = Failing(bodies, b)
  PROVE  /\ marked \in Nest /\ Len(marked) = n /\ Fits(marked, innermost)
         /\ \A i \in 1..(n - 1) : marked[i] = bodies[i]
         /\ marked[n] = Marked(bodies[n], b)
         /\ ScopesOf(marked, innermost) = Failing(ss, b)
<1>1. n \in Nat \ {0} /\ bodies \in Seq(Bodies) /\ bodies[n] \in Bodies
  BY DEF Nest
<1>2. PICK body : body = [bodies[n] EXCEPT !.failed = b]
  OBVIOUS
<1>3. /\ body \in Bodies /\ body.kind = bodies[n].kind /\ body.saved = bodies[n].saved
      /\ body.exports = bodies[n].exports /\ (body.prefixed <=> bodies[n].prefixed)
      /\ (body.failed <=> b)
  BY <1>1, <1>2 DEF Bodies
<1>4. marked = [bodies EXCEPT ![n] = body]
  BY <1>2 DEF Failing, Marked
<1>5. /\ marked \in Seq(Bodies) /\ Len(marked) = n /\ marked[n] = body
      /\ \A i \in 1..n : i # n => marked[i] = bodies[i]
  BY <1>1, <1>3, <1>4
<1>6. \A i \in 1..n : marked[i].kind = bodies[i].kind /\ marked[i].saved = bodies[i].saved
  BY <1>3, <1>5
<1>7. marked \in Nest
  <2>1. bodies[1].kind = "file" /\ \A i \in 2..n : bodies[i].kind # "file"
    BY DEF Nest
  <2>2. marked[1].kind = "file" /\ \A i \in 2..n : marked[i].kind # "file"
    BY <1>1, <1>6, <2>1
  <2> QED
    BY <1>1, <1>5, <2>2 DEF Nest
<1>8. \A i \in 1..n : Home(marked, i) = Home(bodies, i)
  <2> TAKE i \in 1..n
  <2>1. \A j \in 1..i : j \in 1..n
    BY <1>1
  <2>2. {j \in 1..i : marked[j].kind # "macro"} = {j \in 1..i : bodies[j].kind # "macro"}
    BY <1>6, <2>1
  <2> QED
    BY <2>2 DEF Home
<1>9. \A i \in 1..n : StackOf(marked, innermost, i) = StackOf(bodies, innermost, i)
  <2> TAKE i \in 1..n
  <2>1. \A j \in (i + 1)..n : j \in 1..n
    BY <1>1
  <2>2. PICK later : later = {j \in (i + 1)..n : bodies[j].kind = "include"}
    OBVIOUS
  <2>3. {j \in (i + 1)..n : marked[j].kind = "include"} = later
    BY <1>6, <2>1, <2>2
  <2>4. CASE later = {}
    BY <1>5, <2>2, <2>3, <2>4 DEF StackOf
  <2>5. CASE later # {}
    <3>1. later \subseteq Nat
      BY <1>1, <2>2
    <3>2. PICK k : k = Min(later)
      OBVIOUS
    <3>3. k \in later
      BY <2>5, <3>1, <3>2, LeastIs
    <3>4. marked[k].saved = bodies[k].saved
      BY <1>6, <2>1, <2>2, <3>3
    <3> QED
      BY <1>5, <2>2, <2>3, <2>5, <3>2, <3>4 DEF StackOf
  <2> QED
    BY <2>4, <2>5
<1>10. Fits(marked, innermost)
  <2>1. ASSUME NEW i \in 2..n, marked[i].kind = "include" PROVE FitsHome(marked, i - 1, marked[i].saved)
    <3>1. PICK j : j = i - 1
      OBVIOUS
    <3>2. j \in 1..n /\ i \in 1..n /\ i \in 2..Len(bodies)
      BY <1>1, <3>1
    <3>3. marked[i].saved = bodies[i].saved /\ bodies[i].kind = "include" /\ Home(marked, j) = Home(bodies, j)
      BY <1>6, <1>8, <2>1, <3>2
    <3>4. FitsHome(bodies, j, bodies[i].saved)
      BY <3>1, <3>2, <3>3 DEF Fits
    <3>5. FitsHome(marked, j, marked[i].saved)
      BY <3>3, <3>4 DEF FitsHome
    <3> QED
      BY <3>1, <3>5
  <2>2. FitsHome(marked, n, innermost)
    <3>1. n \in 1..n
      BY <1>1
    <3>2. Home(marked, n) = Home(bodies, n)
      BY <1>8, <3>1
    <3> QED
      BY <3>2 DEF Fits, FitsHome
  <2> QED
    BY <1>5, <2>1, <2>2 DEF Fits
<1>11. ScopesOf(marked, innermost) = [ss EXCEPT ![n].failed = b]
  <2>1. PICK tt : tt = ScopesOf(marked, innermost)
    OBVIOUS
  <2>2. ASSUME NEW i \in 1..n PROVE tt[i] = IF i = n THEN [ss[n] EXCEPT !.failed = b] ELSE ss[i]
    <3>1. i \in 1..Len(bodies) /\ i \in 1..Len(marked)
      BY <1>5
    <3>2. Home(marked, i) = Home(bodies, i) /\ StackOf(marked, innermost, i) = StackOf(bodies, innermost, i)
      BY <1>8, <1>9
    <3>3. CASE i = n
      <4>1. marked[i] = body /\ bodies[i].kind = body.kind
        BY <1>5, <1>6, <3>3
      <4>2. PICK own, globals :
              /\ own = StackOf(bodies, innermost, i).frames[i - Home(bodies, i) + 1]
              /\ globals = IF body.kind = "macro" THEN NoVars ELSE StackOf(bodies, innermost, i).globals
        OBVIOUS
      <4>3. ss[i] = ScopeOf(bodies[i], own, globals)
        BY <3>1, <4>1, <4>2 DEF ScopesOf, ScopeOf
      <4>4. tt[i] = ScopeOf(body, own, globals)
        BY <2>1, <3>1, <3>2, <4>1, <4>2 DEF ScopesOf, ScopeOf
      <4>5. [ScopeOf(bodies[i], own, globals) EXCEPT !.failed = b] = ScopeOf(body, own, globals)
        <5>1. body.failed = b
          BY <1>1, <1>2 DEF Bodies
        <5>2. body.kind = bodies[i].kind /\ body.exports = bodies[i].exports /\ body.prefixed = bodies[i].prefixed
          BY <1>1, <1>2, <3>3 DEF Bodies
        <5> QED
          BY ONLY <5>1, <5>2 DEF ScopeOf
      <4> QED
        BY <3>3, <4>3, <4>4, <4>5
    <3>4. CASE i # n
      <4>1. marked[i] = bodies[i]
        BY <1>5, <3>4
      <4> QED
        BY <2>1, <3>1, <3>2, <3>4, <4>1 DEF ScopesOf
    <3> QED
      BY <3>3, <3>4
  <2>3. [ss EXCEPT ![n].failed = b] = [i \in 1..n |-> IF i = n THEN [ss[n] EXCEPT !.failed = b] ELSE ss[i]]
    <3>1. ss = [i \in 1..n |-> ss[i]]
      BY ScopesAreAll
    <3> QED
      BY <1>1, <3>1
  <2>4. [i \in 1..n |-> tt[i]] = [i \in 1..n |-> IF i = n THEN [ss[n] EXCEPT !.failed = b] ELSE ss[i]]
    BY <2>2
  <2>5. tt = [i \in 1..n |-> tt[i]]
    <3>1. n = Len(marked)
      BY <1>5
    <3> QED
      BY ONLY <2>1, <3>1, ScopesAreAll
  <2> QED
    BY ONLY <2>1, <2>3, <2>4, <2>5
<1>12. Len(ss) = n
  BY ScopesAre
<1>13. Failing(ss, b) = [ss EXCEPT ![n].failed = b] /\ Marked(bodies[n], b) = [bodies[n] EXCEPT !.failed = b]
  BY <1>12 DEF Failing, Marked
<1>14. /\ marked \in Nest /\ Len(marked) = n /\ Fits(marked, innermost)
       /\ \A i \in 1..(n - 1) : marked[i] = bodies[i]
  BY <1>1, <1>5, <1>7, <1>10
<1>15. marked[n] = Marked(bodies[n], b)
  BY <1>2, <1>5, <1>13
<1>16. ScopesOf(marked, innermost) = Failing(ss, b)
  BY ONLY <1>11, <1>13
<1> QED
  BY <1>14, <1>15, <1>16

-----------------------------------------------------------------------------
(***************************************************************************)
(* What is true of the calls in progress between any two steps: they nest, *)
(* their frames fit, only the innermost body may have failed, and only     *)
(* while nothing is returned to it.                                        *)
(***************************************************************************)
Prefixable(exports) == \A e \in exports : e.names \subseteq DOMAIN Prefixed
CallsOK(bodies) ==
  /\ bodies \in Nest /\ bodies[1] = Scenario(bodies[1].failed)
  /\ \A i \in 1..Len(bodies) :
       /\ bodies[i].kind = "macro" => ~bodies[i].prefixed /\ ~bodies[i].failed
       /\ bodies[i].prefixed => Prefixable(bodies[i].exports)
       /\ i < Len(bodies) => ~bodies[i].failed
BrokenInv ==
  /\ returned # "none" => ~Top.failed
  /\ ~running => Depth = 1 /\ returned = "none"
  /\ broken <=> (returned = "err" \/ Top.failed)
StepsInv == StepsTypeOK /\ CallsOK(calls) /\ Fits(calls, stack) /\ BrokenInv

LEMMA BegunOK ==
  ASSUME NEW bodies, CallsOK(bodies), ~bodies[Len(bodies)].failed, NEW body \in Bodies,
         body.kind # "file", ~body.failed, body.kind = "macro" => ~body.prefixed,
         body.prefixed => Prefixable(body.exports), NEW all, Behind(all, bodies, body)
  PROVE  CallsOK(all)
<1>1. bodies \in Nest
  BY DEF CallsOK
<1>2. all \in Nest
  BY <1>1, BehindIs
<1>3. PICK n : n = Len(bodies)
  OBVIOUS
<1>4. n \in Nat \ {0} /\ Len(all) = n + 1 /\ all[n + 1] = body /\ \A i \in 1..n : all[i] = bodies[i]
  BY <1>1, <1>3 DEF Nest, Behind
<1>5. all[1] = bodies[1] /\ bodies[1] = Scenario(bodies[1].failed)
  BY <1>4 DEF CallsOK
<1>6. ASSUME NEW i \in 1..Len(all)
      PROVE  /\ all[i].kind = "macro" => ~all[i].prefixed /\ ~all[i].failed
             /\ all[i].prefixed => Prefixable(all[i].exports)
             /\ i < Len(all) => ~all[i].failed
  <2>1. CASE i = n + 1
    BY <1>4, <2>1
  <2>2. CASE i # n + 1
    <3>1. i \in 1..n /\ all[i] = bodies[i]
      BY <1>4, <2>2
    <3>2. /\ bodies[i].kind = "macro" => ~bodies[i].prefixed /\ ~bodies[i].failed
          /\ bodies[i].prefixed => Prefixable(bodies[i].exports)
          /\ i < n => ~bodies[i].failed
      BY <1>3, <3>1 DEF CallsOK
    <3>3. i = n => ~bodies[i].failed
      BY <1>3
    <3> QED
      BY <1>4, <3>1, <3>2, <3>3
  <2> QED
    BY <2>1, <2>2
<1> QED
  BY <1>2, <1>5, <1>6 DEF CallsOK

LEMMA EndedOK ==
  ASSUME NEW bodies, CallsOK(bodies), NEW n, n = Len(bodies), n > 1, NEW callers \in Nest,
         Len(callers) = n - 1, \A i \in 1..(n - 1) : callers[i] = bodies[i]
  PROVE  CallsOK(callers) /\ ~callers[n - 1].failed
<1>1. n \in Nat
  BY DEF CallsOK, Nest
<1>2. ASSUME NEW i \in 1..(n - 1)
      PROVE  /\ callers[i].kind = "macro" => ~callers[i].prefixed /\ ~callers[i].failed
             /\ callers[i].prefixed => Prefixable(callers[i].exports)
             /\ ~callers[i].failed
  <2>1. i \in 1..n /\ i < n /\ callers[i] = bodies[i]
    BY <1>1
  <2>2. /\ bodies[i].kind = "macro" => ~bodies[i].prefixed /\ ~bodies[i].failed
        /\ bodies[i].prefixed => Prefixable(bodies[i].exports)
        /\ i < n => ~bodies[i].failed
    BY <2>1 DEF CallsOK
  <2> QED
    BY <2>1, <2>2
<1>3. 1 \in 1..(n - 1) /\ n - 1 \in 1..(n - 1)
  BY <1>1
<1>4. callers[1] = Scenario(callers[1].failed)
  BY <1>3 DEF CallsOK
<1> QED
  BY <1>2, <1>3, <1>4 DEF CallsOK

LEMMA MarkedOK ==
  ASSUME NEW bodies, CallsOK(bodies), NEW n, n = Len(bodies), NEW b \in BOOLEAN,
         b => bodies[n].kind # "macro", NEW marked \in Nest, Len(marked) = n,
         \A i \in 1..(n - 1) : marked[i] = bodies[i], marked[n] = Marked(bodies[n], b)
  PROVE  CallsOK(marked) /\ (marked[n].failed <=> b)
<1>1. n \in Nat \ {0} /\ bodies[n] \in Bodies
  BY DEF CallsOK, Nest
<1>2. /\ marked[n].kind = bodies[n].kind /\ marked[n].exports = bodies[n].exports
      /\ (marked[n].prefixed <=> bodies[n].prefixed) /\ (marked[n].failed <=> b)
  BY <1>1 DEF Bodies, Marked
<1>3. ASSUME NEW i \in 1..n
      PROVE  /\ marked[i].kind = "macro" => ~marked[i].prefixed /\ ~marked[i].failed
             /\ marked[i].prefixed => Prefixable(marked[i].exports)
             /\ i < n => ~marked[i].failed
  <2>1. /\ bodies[i].kind = "macro" => ~bodies[i].prefixed /\ ~bodies[i].failed
        /\ bodies[i].prefixed => Prefixable(bodies[i].exports)
        /\ i < n => ~bodies[i].failed
    BY DEF CallsOK
  <2>2. CASE i = n
    <3>1. /\ bodies[n].kind = "macro" => ~bodies[n].prefixed /\ ~b
          /\ bodies[n].prefixed => Prefixable(bodies[n].exports)
      BY <2>1, <2>2
    <3>2. /\ marked[n].kind = "macro" => ~marked[n].prefixed /\ ~marked[n].failed
          /\ marked[n].prefixed => Prefixable(marked[n].exports)
      BY ONLY <1>2, <3>1
    <3> QED
      BY ONLY <1>1, <2>2, <3>2
  <2>3. CASE i # n
    <3>1. marked[i] = bodies[i]
      BY <1>1, <2>3
    <3> QED
      BY <2>1, <3>1
  <2> QED
    BY <2>2, <2>3
<1>4. marked[1] = Scenario(marked[1].failed)
  <2>1. bodies[1] = Scenario(bodies[1].failed)
    BY DEF CallsOK
  <2>2. CASE n = 1
    <3>1. marked[1] = [Scenario(bodies[1].failed) EXCEPT !.failed = b]
      BY <2>1, <2>2 DEF Marked
    <3>2. marked[1] = Scenario(b)
      BY <3>1 DEF Scenario, Body
    <3> QED
      BY <3>2 DEF Scenario, Body
  <2>3. CASE n # 1
    <3>1. 1 \in 1..(n - 1)
      BY <1>1, <2>3
    <3> QED
      BY <2>1, <3>1
  <2> QED
    BY <2>2, <2>3
<1> QED
  BY <1>2, <1>3, <1>4 DEF CallsOK

\* The state the lemmas above speak of.
LEMMA StateIs ==
  ASSUME StepsInv
  PROVE  /\ calls \in Nest /\ Fits(calls, stack) /\ stack \in VarStack
         /\ Depth \in Nat \ {0} /\ calls \in Seq(Bodies) /\ Top \in Bodies
         /\ Len(stack.frames) > 0
         /\ SC!Inner(ScopesOf(calls, stack)).failed <=> Top.failed
         /\ SC!Inner(ScopesOf(calls, stack)).kind = Top.kind
         /\ SC!Inner(ScopesOf(calls, stack)).exports = Top.exports
         /\ SC!Inner(ScopesOf(calls, stack)).prefixed <=> Top.prefixed
         /\ Len(ScopesOf(calls, stack)) = Depth
         /\ Top.exports \in SUBSET Exports
<1>1. calls \in Nest /\ Fits(calls, stack)
  BY DEF StepsInv, CallsOK
<1>2. PICK n, h, ss : n = Len(calls) /\ h = Home(calls, n) /\ ss = ScopesOf(calls, stack)
  OBVIOUS
<1>3. /\ Len(ss) = n /\ n \in Nat \ {0} /\ h \in 1..n /\ Len(stack.frames) = n - h + 1
      /\ \A i \in 1..n : ss[i] = ScopeOf(calls[i], ss[i].own, ss[i].globals)
  BY <1>1, <1>2, ScopesAre
<1>4. ss[n] = ScopeOf(calls[n], ss[n].own, ss[n].globals)
  BY <1>3
<1>5. /\ ss[n].failed <=> calls[n].failed
      /\ ss[n].kind = calls[n].kind /\ ss[n].exports = calls[n].exports
      /\ ss[n].prefixed <=> calls[n].prefixed
  BY <1>4, ScopeOfIs
<1>6. calls \in Seq(Bodies) /\ calls[n] \in Bodies /\ stack \in VarStack
  BY <1>1, <1>2, <1>3 DEF Nest, Fits
<1>7. calls[n].exports \in SUBSET Exports
  BY <1>6, StepsAssumption DEF Bodies, StepsAssumption
<1>8. Len(stack.frames) > 0
  BY <1>3
<1>9. Depth = n /\ Top = calls[n] /\ SC!Inner(ss) = ss[n]
  BY <1>2, <1>3 DEF Depth, Top, SC!Inner
<1> QED
  BY <1>1, <1>2, <1>3, <1>5, <1>6, <1>7, <1>8, <1>9

-----------------------------------------------------------------------------
(***************************************************************************)
(* A call that begins is one scope more, with what it is given set in it;  *)
(* one that ends, one less.                                                *)
(***************************************************************************)
LEMMA ScopesSeq ==
  ASSUME NEW bodies \in Nest, NEW s, NEW ss, ss = ScopesOf(bodies, s), NEW T,
         \A i \in 1..Len(bodies) : ss[i] \in T
  PROVE  ss \in Seq(T) /\ Len(ss) = Len(bodies)
<1>1. PICK n : n = Len(bodies)
  OBVIOUS
<1>2. n \in Nat /\ DOMAIN ss = 1..n
  BY <1>1 DEF Nest, ScopesOf
<1>3. ss \in [1..n -> T]
  <2>1. ss = [i \in 1..n |-> ss[i]]
    BY <1>1, ScopesAreAll
  <2> QED
    BY <1>1, <2>1
<1>4. ss \in Seq(T)
  BY ONLY <1>2, <1>3, IsASeq
<1>5. Len(ss) = n
  BY ONLY <1>2, <1>4, LenProperties
<1> QED
  BY <1>1, <1>4, <1>5

\* The stack a body begins on.
Into(body, innermost) == IF body.kind = "macro" THEN PushFrame(innermost) ELSE New

LEMMA BegunScopes ==
  ASSUME NEW bodies \in Nest, NEW innermost, Fits(bodies, innermost),
         NEW body \in Bodies, ~body.failed, body.kind # "file",
         body.kind = "include" => body.saved = innermost,
         NEW all, Behind(all, bodies, body), NEW g \in Given
  PROVE  /\ all \in Nest /\ Fits(all, SetAll(Into(body, innermost), g))
         /\ ScopesOf(all, SetAll(Into(body, innermost), g)) =
              Append(ScopesOf(bodies, innermost),
                     SC!Scope(body.kind, Put(NoVars, g), body.exports, body.prefixed))
<1>z. PICK ss, other, given : /\ ss = ScopesOf(bodies, innermost) /\ other = Into(body, innermost)
                              /\ given = SetAll(other, g)
  OBVIOUS
<1>y. \/ body.kind = "macro" /\ other = PushFrame(innermost)
      \/ body.kind = "include" /\ body.saved = innermost /\ other = New
  BY <1>z DEF Into, Bodies
<1>1. /\ all \in Nest /\ Fits(all, other)
      /\ \A i \in 1..Len(bodies) : ScopesOf(all, other)[i] = ScopesOf(bodies, innermost)[i]
      /\ ScopesOf(all, other)[Len(all)] = ScopeOf(body, NoVars, NoVars)
  BY <1>y, BegunIs
<1>2. PICK n, m, uu, tt : /\ n = Len(bodies) /\ m = Len(all) /\ uu = ScopesOf(all, other)
                          /\ tt = ScopesOf(all, given)
  OBVIOUS
<1>3. n \in Nat /\ m = n + 1
  BY <1>2 DEF Nest, Behind
<1>4. Fits(all, given) /\ tt = [uu EXCEPT ![m].own = Put(uu[m].own, g)]
  BY <1>1, <1>2, <1>z, WriteIs
<1>5. uu = [i \in 1..m |-> uu[i]]
  BY <1>2, ScopesAreAll
<1>6. tt[m] = SC!Scope(body.kind, Put(NoVars, g), body.exports, body.prefixed)
  <2>1. uu[m] = ScopeOf(body, NoVars, NoVars)
    BY <1>1, <1>2
  <2>2. tt[m] = [uu[m] EXCEPT !.own = Put(uu[m].own, g)]
    <3>1. DOMAIN uu = 1..m /\ m \in 1..m
      BY <1>3, <1>5
    <3> QED
      BY ONLY <1>4, <3>1
  <2>3. tt[m] = ScopeOf(body, Put(NoVars, g), NoVars)
    BY ONLY <2>1, <2>2, ScopeOfIs
  <2>4. body.failed = FALSE
    BY DEF Bodies
  <2> QED
    BY <2>3, <2>4, NoVarsSame DEF ScopeOf, SC!Scope
<1>7. \A i \in 1..n : tt[i] = ss[i]
  <2> TAKE i \in 1..n
  <2>1. i \in 1..m /\ i # m
    BY <1>3
  <2>2. tt[i] = uu[i]
    BY <1>4, <1>5, <2>1
  <2> QED
    BY <1>1, <1>2, <1>z, <2>2
<1>8. PICK scope : scope = SC!Scope(body.kind, Put(NoVars, g), body.exports, body.prefixed)
  OBVIOUS
<1>9. PICK T : T = {ss[i] : i \in 1..n} \cup {scope}
  OBVIOUS
<1>10. ss \in Seq(T) /\ Len(ss) = n /\ scope \in T
  <2>1. \A i \in 1..Len(bodies) : ss[i] \in T
    BY <1>2, <1>9
  <2> QED
    BY <1>2, <1>9, <1>z, <2>1, ScopesSeq
<1>11. tt \in Seq(T) /\ Len(tt) = m
  <2>1. \A i \in 1..Len(all) : tt[i] \in T
    <3> TAKE i \in 1..Len(all)
    <3>1. i \in 1..n \/ i = m
      BY <1>2, <1>3
    <3> QED
      BY <1>6, <1>7, <1>8, <1>9, <3>1
  <2> QED
    BY <1>1, <1>2, <2>1, ScopesSeq
<1>12. tt = Append(ss, scope)
  <2>1. /\ Append(ss, scope) \in Seq(T) /\ Len(Append(ss, scope)) = n + 1
        /\ \A i \in 1..n : Append(ss, scope)[i] = ss[i]
        /\ Append(ss, scope)[n + 1] = scope
    BY <1>10, AppendProperties
  <2>2. \A i \in 1..m : tt[i] = Append(ss, scope)[i]
    <3> TAKE i \in 1..m
    <3>1. i \in 1..n \/ i = n + 1
      BY <1>3
    <3>2. tt[n + 1] = scope
      BY <1>3, <1>6, <1>8
    <3> QED
      BY <1>7, <2>1, <3>1, <3>2
  <2>3. \A i \in 1..Len(tt) : tt[i] = Append(ss, scope)[i]
    BY <1>11, <2>2
  <2>4. Len(tt) = Len(Append(ss, scope))
    BY <1>3, <1>11, <2>1
  <2> QED
    BY ONLY <1>11, <2>1, <2>3, <2>4, SeqEqual
<1> QED
  BY <1>1, <1>2, <1>4, <1>8, <1>12, <1>z

LEMMA EndedScopes ==
  ASSUME NEW bodies \in Nest, NEW innermost, Fits(bodies, innermost),
         NEW callers \in Seq(Bodies), Len(callers) > 0, NEW body, Behind(bodies, callers, body)
  PROVE  ScopesOf(callers, Back(body, innermost)) = SubSeq(ScopesOf(bodies, innermost), 1, Len(callers))
<1>2. PICK n, m, ss, tt : /\ n = Len(bodies) /\ m = Len(callers) /\ ss = ScopesOf(bodies, innermost)
                          /\ tt = ScopesOf(callers, Back(body, innermost))
  OBVIOUS
<1>3. n \in Nat /\ m \in Nat /\ n = m + 1
  BY <1>2 DEF Nest, Behind
<1>0. /\ callers \in Nest
      /\ \A i \in 1..Len(callers) :
           ScopesOf(callers, Back(body, innermost))[i] = ScopesOf(bodies, innermost)[i]
  BY EndedIs
<1>1. callers \in Nest /\ Len(callers) = m /\ \A i \in 1..m : tt[i] = ss[i]
  BY <1>0, <1>2
<1>4. PICK T : T = {ss[i] : i \in 1..n}
  OBVIOUS
<1>5. \A i \in 1..m : i \in 1..n /\ ss[i] \in T
  BY <1>2, <1>3, <1>4
<1>6. tt \in Seq(T) /\ Len(tt) = m
  <2>1. \A i \in 1..Len(callers) : tt[i] \in T
    BY <1>1, <1>2, <1>5
  <2> QED
    BY <1>1, <1>2, <2>1, ScopesSeq
<1>7. /\ SubSeq(ss, 1, m) \in Seq(T) /\ Len(SubSeq(ss, 1, m)) = m
      /\ \A i \in 1..m : SubSeq(ss, 1, m)[i] = ss[i]
  <2>1. 1 \in Int /\ m \in Int /\ \A i \in 1..m : 1 + i - 1 = i
    BY <1>3
  <2>2. SubSeq(ss, 1, m) \in Seq(T)
    BY ONLY <1>3, <1>5, <2>1, SubSeqProperties
  <2>3. Len(SubSeq(ss, 1, m)) = m
    BY ONLY <1>3, <1>5, <2>1, SubSeqProperties
  <2>4. \A i \in 1..m : SubSeq(ss, 1, m)[i] = ss[i]
    BY ONLY <1>3, <1>5, <2>1, SubSeqProperties
  <2> QED
    BY <2>2, <2>3, <2>4
<1>8. \A i \in 1..Len(tt) : tt[i] = SubSeq(ss, 1, m)[i]
  BY <1>1, <1>2, <1>6, <1>7
<1>9. tt = SubSeq(ss, 1, m)
  BY ONLY <1>6, <1>7, <1>8, SeqEqual
<1> QED
  BY <1>2, <1>9

\* What a body gives back is read where the code reads it.
LEMMA ResultIs ==
  ASSUME NEW bodies \in Nest, NEW innermost, Fits(bodies, innermost),
         NEW ss, ss = ScopesOf(bodies, innermost)
  PROVE  /\ SC!Result(ss) \in Frame
         /\ SC!Result(ss) = IF bodies[Len(bodies)].kind = "macro"
                            THEN innermost.frames[Len(innermost.frames)]
                            ELSE [x \in Names |-> Get(innermost, x)]
<1>1. PICK n, h, len : n = Len(bodies) /\ h = Home(bodies, n) /\ len = Len(innermost.frames)
  OBVIOUS
<1>2. /\ Len(ss) = n /\ n \in Nat \ {0} /\ h \in 1..n /\ len = n - h + 1
      /\ \A i \in 1..n : ss[i] = ScopeOf(bodies[i], ss[i].own, ss[i].globals)
      /\ \A i \in h..n : ss[i].own = innermost.frames[i - h + 1]
  BY <1>1, ScopesAre
<1>3. ss[n].kind = bodies[n].kind
  <2>1. ss[n] = ScopeOf(bodies[n], ss[n].own, ss[n].globals)
    BY <1>2
  <2> QED
    BY <2>1, ScopeOfIs
<1>4. ss[n].own = innermost.frames[len] /\ innermost.frames[len] \in Frame
  <2>1. innermost.frames \in Seq(Frame) /\ len \in 1..Len(innermost.frames)
    BY <1>1, <1>2 DEF Fits, VarStack
  <2>2. n \in h..n /\ n - h + 1 = len
    BY <1>2
  <2>3. ss[n].own = innermost.frames[n - h + 1]
    BY <1>2, <2>2
  <2> QED
    BY <2>1, <2>2, <2>3
<1>5. SC!Result(ss) = IF bodies[n].kind = "macro" THEN innermost.frames[len]
                      ELSE [x \in Names |-> Get(innermost, x)]
  <2>1. CASE bodies[n].kind = "macro"
    BY <1>2, <1>3, <1>4, <2>1 DEF SC!Result
  <2>2. CASE bodies[n].kind # "macro"
    <3>1. \A x \in Names : SC!Sees(ss, x) = Get(innermost, x)
      BY SeesIs
    <3> QED
      BY <1>2, <1>3, <2>2, <3>1 DEF SC!Result
  <2> QED
    BY <2>1, <2>2
<1>6. [x \in Names |-> Get(innermost, x)] \in Frame
  <2>1. \A x \in Names : Get(innermost, x) \in Values \cup {Unset}
    BY GetIs DEF Fits
  <2> QED
    BY <2>1 DEF Frame
<1> QED
  BY <1>1, <1>4, <1>5, <1>6

\* The scopes' exports are those of PopFrame and of an include.
LEMMA ExportedIs ==
  ASSUME StepsInv, NEW ss, ss = ScopesOf(calls, stack)
  PROVE  /\ SC!Incomplete(ss) <=> Missing(SC!Result(ss), Top.exports)
         /\ SC!Exported(ss) = Renamed(Found(SC!Result(ss), Top.exports), Top.prefixed)
         /\ SC!Exported(ss) \in Given
<1>1. PICK inner : inner = ss[Len(ss)]
  OBVIOUS
<1>2. inner.exports = Top.exports /\ (inner.prefixed <=> Top.prefixed)
  BY <1>1, StateIs DEF SC!Inner
<1>3. inner.prefixed = Top.prefixed
  <2>1. PICK n : n = Len(calls)
    OBVIOUS
  <2>2. calls \in Nest /\ Fits(calls, stack)
    BY StateIs
  <2>3. Len(ss) = n /\ n \in Nat \ {0}
    BY <2>1, <2>2, ScopesAre
  <2>4. n \in 1..Len(calls) /\ Top = calls[n]
    BY <2>1, <2>3 DEF Top, Depth
  <2> QED
    BY <1>1, <2>3, <2>4 DEF ScopesOf
<1>4. SC!Incomplete(ss) <=> Missing(SC!Result(ss), Top.exports)
  BY <1>1, <1>2, MissingSame DEF SC!Incomplete
<1>5. SC!Exported(ss) = Renamed(Found(SC!Result(ss), Top.exports), Top.prefixed)
  BY <1>1, <1>2, <1>3, RenamedSame, FoundSame DEF SC!Exported
<1>6. SC!Exported(ss) \in Given
  <2>1. SC!Result(ss) \in Frame
    BY StateIs, ResultIs
  <2>2. Top.exports \in SUBSET Exports /\ Top.prefixed \in BOOLEAN
    BY StateIs DEF Bodies
  <2>3. Top.prefixed => \A e \in Top.exports : e.names \subseteq DOMAIN Prefixed
    <3>1. Depth \in 1..Len(calls)
      BY StateIs DEF Depth
    <3> QED
      BY <3>1 DEF StepsInv, CallsOK, Prefixable, Top
  <2> QED
    BY <1>5, <2>1, <2>2, <2>3, FoundIs
<1> QED
  BY <1>4, <1>5, <1>6

-----------------------------------------------------------------------------
(***************************************************************************)
(* Each step keeps the invariant and is a step of Scopes.                  *)
(***************************************************************************)
LEMMA InitIs == Init => StepsInv /\ SC!Init
<1> SUFFICES ASSUME Init PROVE StepsInv /\ SC!Init
  OBVIOUS
<1>1. PICK first, bodies : first = Scenario(FALSE) /\ bodies = <<first>>
  OBVIOUS
<1>2. first = [kind |-> "file", saved |-> New, exports |-> {}, prefixed |-> FALSE, failed |-> FALSE]
  BY <1>1 DEF Scenario, Body
<1>3. /\ first \in Bodies /\ first.kind = "file" /\ ~first.failed /\ ~first.prefixed
      /\ first.exports = {} /\ (first.failed <=> FALSE)
  BY <1>2, NoVarsIs DEF Bodies
<1>4. bodies \in Seq(Bodies) /\ Len(bodies) = 1 /\ bodies[1] = first
  <2>1. first \in Bodies
    BY <1>3
  <2>2. <<first>> \in Seq(Bodies) /\ Len(<<first>>) = 1 /\ <<first>>[1] = first
    BY ONLY <2>1
  <2> QED
    BY <1>1, <2>2
<1>a. Len(bodies) = 1 /\ bodies[1] = first /\ 1 \in Nat /\ 1 - 1 + 1 = 1
  BY <1>4
<1>5. bodies \in Nest
  <2>1. Len(bodies) > 0 /\ \A i \in 2..Len(bodies) : bodies[i].kind # "file"
    BY <1>a
  <2> QED
    BY <1>3, <1>4, <2>1 DEF Nest
<1>6. Home(bodies, 1) = 1
  <2>1. Home(bodies, 1) \in 1..1
    BY <1>a, <1>5, InnermostIs
  <2> QED
    BY <2>1
<1>7. New \in VarStack /\ Len(New.frames) = 1 /\ New.frames[1] = NoVars /\ New.globals = NoVars
  BY NoVarsIs DEF New
<1>8. Fits(bodies, New)
  <2>1. FitsHome(bodies, 1, New)
    BY <1>6, <1>7 DEF FitsHome
  <2>2. \A i \in 2..Len(bodies) : FALSE
    BY <1>a
  <2> QED
    BY <1>a, <1>7, <2>1, <2>2 DEF Fits
<1>9. calls = bodies /\ stack = New
  BY <1>1 DEF Init
<1>10. CallsOK(bodies)
  <2>1. first = Scenario(first.failed)
    BY <1>2 DEF Scenario, Body
  <2>2. \A i \in 1..Len(bodies) : i = 1 /\ bodies[i] = first
    BY <1>a
  <2> QED
    BY <1>3, <1>a, <1>5, <2>1, <2>2 DEF CallsOK
<1>11. StepsTypeOK
  <2>1. Len(calls) = 1 /\ calls \in Seq(Bodies) /\ stack \in VarStack
    BY <1>4, <1>7, <1>9
  <2>2. Depth \in 1..(MaxDepth + 1) /\ 0 \in 0..StepLimit /\ 0 \in 0..ScenarioLimit
    BY <2>1, StepsAssumption DEF Depth, StepsAssumption
  <2> QED
    BY <2>1, <2>2 DEF Init, StepsTypeOK
<1>12. BrokenInv
  BY <1>3, <1>4, <1>9 DEF Init, BrokenInv, Depth, Top
<1>13. ScopesOf(bodies, New) = <<SC!Scope("file", NoVars, {}, FALSE)>>
  <2>1. PICK ss, scope : ss = ScopesOf(bodies, New) /\ scope = SC!Scope("file", NoVars, {}, FALSE)
    OBVIOUS
  <2>2. ss = [i \in 1..1 |-> ss[i]]
    <3>1. PICK n : n = Len(bodies)
      OBVIOUS
    <3>2. ss = [i \in 1..n |-> ss[i]]
      BY ONLY <2>1, <3>1, ScopesAreAll
    <3> QED
      BY <1>a, <3>1, <3>2
  <2>3. ss[1] = ScopeOf(first, NoVars, NoVars)
    <3>1. PICK n, h : n = Len(bodies) /\ h = Home(bodies, n)
      OBVIOUS
    <3>2. n = 1 /\ h = 1
      BY <1>a, <1>6, <3>1
    <3>3. ss[h] = ScopeOf(bodies[h], New.frames[1], New.globals)
      BY ONLY <1>5, <1>8, <2>1, <3>1, ScopesAre
    <3> QED
      BY <1>7, <1>a, <3>2, <3>3
  <2>4. ss[1] = scope
    <3>1. scope = [kind |-> "file", own |-> NoVars, globals |-> NoVars, exports |-> {},
                   prefixed |-> FALSE, failed |-> FALSE]
      BY <2>1, NoVarsSame DEF SC!Scope
    <3>2. ss[1] = [kind |-> "file", own |-> NoVars, globals |-> NoVars, exports |-> {},
                   prefixed |-> FALSE, failed |-> FALSE]
      BY <1>2, <2>3 DEF ScopeOf
    <3> QED
      BY <3>1, <3>2
  <2>5. ss = <<scope>>
    BY ONLY <2>2, <2>4
  <2> QED
    BY <2>1, <2>5
<1>14. SC!Init
  BY <1>9, <1>13, NoVarsSame DEF Init, SC!Init
<1> QED
  BY <1>8, <1>9, <1>10, <1>11, <1>12, <1>14 DEF StepsInv

\* A step fails, or a call that is refused.
LEMMA FailsIs ==
  ASSUME StepsInv, Executes, Fails
  PROVE  StepsInv' /\ SC!Fail
<1>1. /\ returned = "none" /\ returned' = "err" /\ ~Top.failed /\ running /\ running' = running
      /\ broken' = TRUE /\ stack' = stack /\ calls' = calls /\ UNCHANGED <<verdict, scenarios>>
      /\ steps' = steps + 1 /\ steps < StepLimit
  BY DEF Executes, Fails
<1>2. StepsTypeOK'
  BY <1>1, StepsAssumption DEF StepsInv, StepsTypeOK, Depth, StepsAssumption
<1>3. CallsOK(calls)' /\ Fits(calls, stack)'
  BY <1>1 DEF StepsInv
<1>4. BrokenInv'
  BY <1>1 DEF BrokenInv, Top, Depth
<1>5. SC!Fail
  <2>1. ~SC!Inner(ScopesOf(calls, stack)).failed
    BY <1>1, StateIs
  <2>2. ScopesOf(calls, stack)' = ScopesOf(calls, stack)
    BY <1>1
  <2> QED
    BY <1>1, <2>1, <2>2 DEF SC!Fail
<1> QED
  BY <1>2, <1>3, <1>4, <1>5 DEF StepsInv

LEMMA SetVariableIs ==
  ASSUME StepsInv, NEW args \in ArgLists, NEW global \in BOOLEAN, SetVariable(args, global)
  PROVE  StepsInv' /\ (SC!Fail \/ SC!Write(args, global))
<1>1. Executes
  BY DEF SetVariable
<1>2. CASE ~Resolves(stack, args)
  <2>1. Fails
    BY <1>2 DEF SetVariable
  <2> QED
    BY <1>1, <2>1, FailsIs
<1>3. CASE Resolves(stack, args)
  <2>1. PICK g : g = Resolve(stack, args)
    OBVIOUS
  <2>2. /\ stack' = IF global THEN SetGlobal(stack, g) ELSE SetAll(stack, g)
        /\ returned' = "ok" /\ broken' = broken /\ calls' = calls
    BY <1>3, <2>1 DEF SetVariable, Passes
  <2>3. /\ returned = "none" /\ ~Top.failed /\ running /\ running' = running
        /\ UNCHANGED <<verdict, scenarios>> /\ steps' = steps + 1 /\ steps < StepLimit
    BY DEF SetVariable, Executes
  <2>4. PICK n, h, ss : n = Len(calls) /\ h = Home(calls, n) /\ ss = ScopesOf(calls, stack)
    OBVIOUS
  <2>5. calls \in Nest /\ Fits(calls, stack) /\ stack \in VarStack /\ Len(stack.frames) > 0
    BY StateIs
  <2>6. g = SC!Given(ss, args) /\ SC!Complete(g) /\ g \in Given
    BY <1>3, <2>1, <2>4, <2>5, GivenIs
  <2>7. Len(ss) = n /\ SC!Home(ss) = h
    BY <2>4, <2>5, ScopesAre
  <2>8. /\ Fits(calls, stack')
        /\ ScopesOf(calls, stack') = IF global THEN [ss EXCEPT ![h].globals = Put(ss[h].globals, g)]
                                     ELSE [ss EXCEPT ![n].own = Put(ss[n].own, g)]
    <3>1. CASE global
      BY <2>2, <2>4, <2>5, <2>6, <3>1, WriteGlobalIs
    <3>2. CASE ~global
      BY <2>2, <2>4, <2>5, <2>6, <3>2, WriteIs
    <3> QED
      BY <3>1, <3>2
  <2>9. CallsOK(calls)' /\ Fits(calls, stack)'
    BY <2>2, <2>8 DEF StepsInv
  <2>10. StepsTypeOK'
    <3>1. stack' \in VarStack
      BY <2>8 DEF Fits
    <3> QED
      BY <2>2, <2>3, <3>1, StepsAssumption DEF StepsInv, StepsTypeOK, Depth, StepsAssumption
  <2>11. BrokenInv'
    BY <2>2, <2>3 DEF StepsInv, BrokenInv, Top, Depth
  <2>12. SC!Write(args, global)
    <3>1. ~SC!Inner(ss).failed
      BY <2>3, <2>4, StateIs
    <3>2. ScopesOf(calls, stack)' = IF global THEN [ss EXCEPT ![h].globals = SC!Put(ss[h].globals, g)]
                                    ELSE [ss EXCEPT ![n].own = SC!Put(ss[n].own, g)]
      BY <2>2, <2>8, PutSame
    <3>3. CASE global
      BY <2>2, <2>3, <2>4, <2>6, <2>7, <3>1, <3>2, <3>3 DEF SC!Write
    <3>4. CASE ~global
      BY <2>2, <2>3, <2>4, <2>6, <2>7, <3>1, <3>2, <3>4 DEF SC!Write
    <3> QED
      BY <3>3, <3>4
  <2> QED
    BY <2>9, <2>10, <2>11, <2>12 DEF StepsInv
<1> QED
  BY <1>2, <1>3

LEMMA SetNone ==
  ASSUME NEW s \in VarStack, Len(s.frames) > 0, NEW g, DOMAIN g = {}
  PROVE  SetAll(s, g) = s
<1>1. PICK frames, n : frames = s.frames /\ n = Len(frames)
  OBVIOUS
<1>2. frames \in Seq(Frame) /\ n \in 1..Len(frames) /\ s = [frames |-> frames, globals |-> s.globals]
  BY <1>1 DEF VarStack
<1>3. frames[n] \in Frame
  BY <1>2
<1>4. Put(frames[n], g) = frames[n]
  BY <1>3 DEF Put, Frame
<1>5. [frames EXCEPT ![n] = frames[n]] = frames
  BY <1>2
<1>6. SetAll(s, g) = [s EXCEPT !.frames = [frames EXCEPT ![n] = Put(frames[n], g)]]
  BY <1>1 DEF SetAll
<1> QED
  BY <1>2, <1>4, <1>5, <1>6

LEMMA CallIs ==
  ASSUME StepsInv, Executes, Depth <= MaxDepth, NEW args \in ArgLists, Resolves(stack, args),
         NEW kind \in {"macro", "include"}, NEW saved \in VarStack, kind = "include" => saved = stack,
         NEW exports \in ExportLists, NEW prefixed \in BOOLEAN, kind = "macro" => ~prefixed,
         prefixed => Prefixable(exports),
         calls' = Append(calls, Body(kind, saved, exports, prefixed, FALSE)),
         stack' = SetAll(IF kind = "macro" THEN PushFrame(stack) ELSE New, Resolve(stack, args)),
         returned' = returned, broken' = broken
  PROVE  StepsInv' /\ SC!Call(args)
<1>1. PICK body, g, ss:
        /\ body = Body(kind, saved, exports, prefixed, FALSE) /\ g = Resolve(stack, args)
        /\ ss = ScopesOf(calls, stack)
  OBVIOUS
<1>2. body = [kind |-> kind, saved |-> saved, exports |-> exports, prefixed |-> prefixed, failed |-> FALSE]
  BY <1>1 DEF Body
<1>3. /\ body \in Bodies /\ body.kind = kind /\ body.saved = saved /\ body.exports = exports
      /\ body.prefixed = prefixed /\ ~body.failed /\ body.kind # "file"
  BY <1>2 DEF Bodies
<1>4. /\ calls \in Nest /\ Fits(calls, stack) /\ stack \in VarStack /\ Depth \in Nat \ {0}
      /\ calls \in Seq(Bodies)
  BY StateIs
<1>5. PICK all, given : all = calls' /\ given = stack'
  OBVIOUS
<1>6. Behind(all, calls, body)
  <2>1. all = Append(calls, body)
    BY <1>1, <1>5
  <2> QED
    BY <1>3, <1>4, <2>1, AppendIsBehind
<1>7. given = SetAll(Into(body, stack), g)
  BY <1>1, <1>3, <1>5 DEF Into
<1>8. body.kind = "include" => body.saved = stack
  BY <1>3
<1>9. g = SC!Given(ss, args) /\ SC!Complete(g) /\ g \in Given
  BY <1>1, <1>4, GivenIs
<1>10. /\ all \in Nest /\ Fits(all, given)
       /\ ScopesOf(all, given) = Append(ss, SC!Scope(body.kind, Put(NoVars, g), body.exports, body.prefixed))
  <2>1. /\ all \in Nest /\ Fits(all, SetAll(Into(body, stack), g))
        /\ ScopesOf(all, SetAll(Into(body, stack), g)) =
             Append(ScopesOf(calls, stack),
                    SC!Scope(body.kind, Put(NoVars, g), body.exports, body.prefixed))
    BY ONLY <1>3, <1>4, <1>6, <1>8, <1>9, BegunScopes
  <2> QED
    BY ONLY <1>1, <1>7, <2>1
<1>11. running /\ returned = "none" /\ ~Top.failed /\ steps < StepLimit /\ steps' = steps + 1
       /\ UNCHANGED <<running, verdict, scenarios>>
  BY DEF Executes
<1>12. CallsOK(all)
  <2>1. CallsOK(calls)
    BY DEF StepsInv
  <2>2. ~calls[Len(calls)].failed
    BY <1>11 DEF Top, Depth
  <2>3. body.kind = "macro" => ~body.prefixed
    BY <1>3
  <2>4. body.prefixed => Prefixable(body.exports)
    BY <1>3
  <2> QED
    BY <1>3, <1>6, <2>1, <2>2, <2>3, <2>4, BegunOK
<1>13. Len(all) = Depth + 1 /\ all \in Seq(Bodies) /\ all[Depth + 1] = body
  BY <1>6 DEF Behind, Depth
<1>14. StepsTypeOK'
  <2>1. stack' \in VarStack
    BY <1>5, <1>10 DEF Fits
  <2>2. calls' \in Seq(Bodies) /\ Len(calls') \in 1..(MaxDepth + 1)
    <3>1. Depth + 1 \in 1..(MaxDepth + 1)
      BY <1>4, StepsAssumption DEF StepsAssumption
    <3> QED
      BY <1>5, <1>13, <3>1
  <2>3. StepsTypeOK
    BY DEF StepsInv
  <2>4. returned' = returned /\ broken' = broken
    OBVIOUS
  <2> QED
    BY ONLY <1>11, <2>1, <2>2, <2>3, <2>4, StepsAssumption DEF StepsTypeOK, Depth, StepsAssumption
<1>15. BrokenInv'
  <2>1. ~Top'.failed
    BY <1>3, <1>4, <1>5, <1>13 DEF Top, Depth
  <2>2. ~broken
    BY <1>11 DEF StepsInv, BrokenInv
  <2> QED
    BY <1>11, <2>1, <2>2 DEF BrokenInv
<1>16. SC!Call(args)
  <2>1. ~SC!Inner(ss).failed
    BY <1>1, <1>11, StateIs
  <2>2. ScopesOf(calls, stack)' = Append(ss, SC!Scope(kind, SC!Put(SC!NoVars, g), exports, prefixed))
    BY <1>3, <1>5, <1>10, PutSame, NoVarsSame
  <2>3. returned = "none" /\ returned' = "none"
    BY <1>11
  <2> QED
    BY <1>1, <1>9, <2>1, <2>2, <2>3 DEF SC!Call
<1>17. CallsOK(calls)' /\ Fits(calls, stack)'
  BY <1>5, <1>10, <1>12
<1> QED
  BY <1>14, <1>15, <1>16, <1>17 DEF StepsInv

LEMMA CallMacroIs ==
  ASSUME StepsInv, NEW args \in ArgLists, NEW exports \in ExportLists, CallMacro(args, exports)
  PROVE  StepsInv' /\ (SC!Fail \/ SC!Call(args))
<1>1. Executes
  BY DEF CallMacro
<1>2. CASE Depth > MaxDepth \/ ~Resolves(stack, args)
  <2>1. Fails
    BY <1>2 DEF CallMacro
  <2> QED
    BY <1>1, <2>1, FailsIs
<1>3. CASE ~(Depth > MaxDepth \/ ~Resolves(stack, args))
  <2>1. Resolves(stack, args) /\ Depth <= MaxDepth
    BY <1>3, StateIs, StepsAssumption DEF StepsAssumption
  <2>2. /\ stack' = SetAll(PushFrame(stack), Resolve(stack, args))
        /\ calls' = Append(calls, Body("macro", New, exports, FALSE, FALSE))
        /\ returned' = returned /\ broken' = broken
    BY <1>3 DEF CallMacro
  <2>3. New \in VarStack
    BY NoVarsIs
  <2> QED
    BY <1>1, <2>1, <2>2, <2>3, CallIs
<1> QED
  BY <1>2, <1>3

LEMMA IncludeIs ==
  ASSUME StepsInv, NEW args \in ArgLists, NEW exports \in ExportLists, NEW prefixed \in BOOLEAN,
         Include(args, exports, prefixed)
  PROVE  StepsInv' /\ (SC!Fail \/ SC!Call(args))
<1>1. Executes
  BY DEF Include
<1>2. CASE Depth > MaxDepth \/ ~Resolves(stack, args)
  <2>1. Fails
    BY <1>2 DEF Include
  <2> QED
    BY <1>1, <2>1, FailsIs
<1>3. CASE ~(Depth > MaxDepth \/ ~Resolves(stack, args))
  <2>1. Resolves(stack, args) /\ Depth <= MaxDepth
    BY <1>3, StateIs, StepsAssumption DEF StepsAssumption
  <2>2. /\ stack' = SetAll(New, Resolve(stack, args))
        /\ calls' = Append(calls, Body("include", stack, exports, prefixed, FALSE))
        /\ returned' = returned /\ broken' = broken
    BY <1>3 DEF Include
  <2>3. stack \in VarStack
    BY StateIs
  <2>4. prefixed => Prefixable(exports)
    BY DEF Include, Prefixable
  <2> QED
    BY <1>1, <2>1, <2>2, <2>3, <2>4, CallIs
<1> QED
  BY <1>2, <1>3

\* What both ways out of a call have in common.
LEMMA BackIs ==
  ASSUME StepsInv, Depth > 1, NEW callers, callers = SubSeq(calls, 1, Depth - 1),
         NEW back, back = Back(Top, stack), NEW ss, ss = ScopesOf(calls, stack)
  PROVE  /\ callers \in Nest /\ callers \in Seq(Bodies) /\ Len(callers) = Depth - 1 /\ Depth \in Nat
         /\ Fits(callers, back) /\ back \in VarStack /\ Len(back.frames) > 0
         /\ ScopesOf(callers, back) = SC!Callers(ss) /\ Len(ss) = Depth
         /\ CallsOK(callers) /\ ~callers[Depth - 1].failed
<1>1. PICK n : n = Len(calls)
  OBVIOUS
<1>2. /\ calls \in Nest /\ Fits(calls, stack) /\ n \in Nat \ {0} /\ n > 1 /\ Depth = n /\ Top = calls[n]
  BY <1>1, StateIs DEF Depth, Top
<1>3. callers = SubSeq(calls, 1, n - 1) /\ back = Back(calls[n], stack)
  BY <1>2
<1>4. callers \in Seq(Bodies) /\ Behind(calls, callers, calls[n]) /\ Len(callers) = n - 1
  BY ONLY <1>1, <1>2, <1>3, CallersAre
<1>5. callers \in Nest /\ Fits(callers, back) /\ ScopesOf(callers, back) = SubSeq(ss, 1, n - 1)
  <2>1. PICK body, m : body = calls[n] /\ m = Len(callers)
    OBVIOUS
  <2>2. m > 0 /\ m = n - 1 /\ Behind(calls, callers, body) /\ back = Back(body, stack)
    BY <1>2, <1>3, <1>4, <2>1
  <2>3. callers \in Nest /\ Fits(callers, Back(body, stack))
    BY ONLY <1>2, <1>4, <2>1, <2>2, EndedIs
  <2>4. ScopesOf(callers, Back(body, stack)) = SubSeq(ScopesOf(calls, stack), 1, Len(callers))
    BY ONLY <1>2, <1>4, <2>1, <2>2, EndedScopes
  <2> QED
    BY <2>1, <2>2, <2>3, <2>4
<1>6. \A i \in 1..(n - 1) : callers[i] = calls[i]
  BY <1>4 DEF Behind
<1>7. CallsOK(callers) /\ ~callers[n - 1].failed
  <2>1. CallsOK(calls)
    BY DEF StepsInv
  <2> QED
    BY ONLY <1>1, <1>2, <1>4, <1>5, <1>6, <2>1, EndedOK
<1>8. back \in VarStack /\ Len(back.frames) > 0
  <2>1. PICK m, h : m = Len(callers) /\ h = Home(callers, m)
    OBVIOUS
  <2>2. h \in 1..m /\ Len(back.frames) = m - h + 1 /\ m \in Nat
    <3>1. h \in 1..m
      BY <1>5, <2>1, InnermostIs
    <3> QED
      BY <1>2, <1>4, <1>5, <2>1, <3>1 DEF Fits, FitsHome
  <2> QED
    BY <1>5, <2>2 DEF Fits
<1>9. Len(ss) = n
  BY <1>1, <1>2, ScopesAre
<1> QED
  BY <1>2, <1>4, <1>5, <1>7, <1>8, <1>9 DEF SC!Callers

LEMMA ReturnsErrIs ==
  ASSUME StepsInv, Depth > 1, running, returned \in {"none", "err"},
         returned = "err" \/ Top.failed \/ SC!Incomplete(ScopesOf(calls, stack)),
         stack' = Back(Top, stack), calls' = Callers, returned' = "err", broken' = TRUE,
         UNCHANGED <<running, verdict, steps, scenarios>>
  PROVE  StepsInv' /\ SC!ReturnErr
<1>1. PICK callers, back, ss :
        callers = SubSeq(calls, 1, Depth - 1) /\ back = Back(Top, stack) /\ ss = ScopesOf(calls, stack)
  OBVIOUS
<1>2. /\ callers \in Seq(Bodies) /\ Len(callers) = Depth - 1 /\ Depth \in Nat
      /\ Fits(callers, back) /\ back \in VarStack
      /\ ScopesOf(callers, back) = SC!Callers(ss) /\ Len(ss) = Depth
      /\ CallsOK(callers) /\ ~callers[Depth - 1].failed
  BY <1>1, BackIs
<1>3. calls' = callers /\ stack' = back
  BY <1>1 DEF Callers
<1>4. StepsTypeOK'
  <2>1. StepsTypeOK
    BY DEF StepsInv
  <2>2. Len(calls') \in 1..(MaxDepth + 1)
    BY <1>2, <1>3, <2>1, StepsAssumption DEF StepsTypeOK, StepsAssumption
  <2> QED
    BY <1>2, <1>3, <2>1, <2>2 DEF StepsTypeOK, Depth
<1>5. BrokenInv'
  <2>1. ~Top'.failed
    BY <1>2, <1>3 DEF Top, Depth
  <2> QED
    BY <2>1 DEF BrokenInv
<1>6. CallsOK(calls)' /\ Fits(calls, stack)'
  BY <1>2, <1>3
<1>7. SC!ReturnErr
  <2>1. returned = "err" \/ SC!Inner(ss).failed \/ SC!Incomplete(ss)
    BY <1>1, StateIs
  <2>2. ScopesOf(calls, stack)' = SC!Callers(ss)
    BY <1>2, <1>3
  <2> QED
    BY <1>1, <1>2, <2>1, <2>2 DEF SC!ReturnErr
<1> QED
  BY <1>4, <1>5, <1>6, <1>7 DEF StepsInv

LEMMA ReturnsOkIs ==
  ASSUME StepsInv, Depth > 1, running, returned = "none",
         ~Top.failed, ~SC!Incomplete(ScopesOf(calls, stack)),
         stack' = SetAll(Back(Top, stack), SC!Exported(ScopesOf(calls, stack))),
         calls' = Callers, returned' = "ok", broken' = broken,
         UNCHANGED <<running, verdict, steps, scenarios>>
  PROVE  StepsInv' /\ SC!ReturnOk
<1>1. PICK callers, back, ss, g, m :
        /\ callers = SubSeq(calls, 1, Depth - 1) /\ back = Back(Top, stack) /\ ss = ScopesOf(calls, stack)
        /\ g = SC!Exported(ss) /\ m = Depth - 1
  OBVIOUS
<1>2. /\ callers \in Nest /\ callers \in Seq(Bodies) /\ Len(callers) = m /\ Depth \in Nat
      /\ Fits(callers, back) /\ back \in VarStack
      /\ ScopesOf(callers, back) = SC!Callers(ss) /\ Len(ss) = Depth
      /\ CallsOK(callers) /\ ~callers[m].failed
  BY <1>1, BackIs
<1>3. calls' = callers /\ stack' = SetAll(back, g)
  BY <1>1 DEF Callers
<1>4. g \in Given
  BY <1>1, ExportedIs
<1>5. PICK tt : tt = SC!Callers(ss)
  OBVIOUS
<1>6. /\ Fits(callers, SetAll(back, g))
      /\ ScopesOf(callers, SetAll(back, g)) = [tt EXCEPT ![m].own = Put(tt[m].own, g)]
  BY <1>2, <1>4, <1>5, WriteIs
<1>7. StepsTypeOK'
  <2>1. StepsTypeOK
    BY DEF StepsInv
  <2>2. Len(calls') \in 1..(MaxDepth + 1)
    BY <1>1, <1>2, <1>3, <2>1, StepsAssumption DEF StepsTypeOK, StepsAssumption
  <2>3. stack' \in VarStack
    BY <1>3, <1>6 DEF Fits
  <2> QED
    BY <1>2, <1>3, <2>1, <2>2, <2>3 DEF StepsTypeOK, Depth
<1>8. BrokenInv'
  <2>1. ~Top'.failed
    BY <1>2, <1>3 DEF Top, Depth
  <2>2. ~broken
    BY DEF StepsInv, BrokenInv
  <2> QED
    BY <2>1, <2>2 DEF BrokenInv
<1>9. CallsOK(calls)' /\ Fits(calls, stack)'
  BY <1>2, <1>3, <1>6
<1>10. SC!ReturnOk
  <2>1. ~SC!Inner(ss).failed
    BY <1>1, StateIs
  <2>2. ScopesOf(calls, stack)' = [tt EXCEPT ![m].own = SC!Put(tt[m].own, g)]
    BY <1>3, <1>6, PutSame
  <2>3. Len(ss) > 1 /\ ~SC!Incomplete(ss) /\ m = Len(ss) - 1 /\ returned = "none" /\ returned' = "ok"
    BY <1>1, <1>2
  <2>4. ScopesOf(calls, stack)' = [SC!Callers(ss) EXCEPT ![Len(ss) - 1].own = SC!Put(@, SC!Exported(ss))]
    BY ONLY <1>1, <1>5, <2>2, <2>3
  <2> QED
    BY <1>1, <2>1, <2>3, <2>4 DEF SC!ReturnOk
<1> QED
  BY <1>7, <1>8, <1>9, <1>10 DEF StepsInv

\* A macro or an included body is not the first, and a scenario runs.
LEMMA InsideIs ==
  ASSUME StepsInv, Top.kind # "file"
  PROVE  Depth > 1 /\ running
<1>1. calls \in Nest /\ Depth \in Nat \ {0}
  BY StateIs
<1>2. Depth # 1
  BY <1>1 DEF Nest, Top
<1> QED
  BY <1>1, <1>2 DEF StepsInv, BrokenInv

LEMMA MacroFailsIs ==
  ASSUME StepsInv, MacroFails
  PROVE  StepsInv' /\ SC!ReturnErr
<1>1. Depth > 1 /\ running
  BY InsideIs DEF MacroFails
<1>2. returned = "err" /\ Top.kind = "macro" /\ calls' = Callers /\ returned' = "err"
      /\ broken' = broken /\ UNCHANGED <<running, verdict, steps, scenarios>>
  BY DEF MacroFails
<1>3. broken' = TRUE
  BY <1>2 DEF StepsInv, BrokenInv, StepsTypeOK
<1>4. stack' = Back(Top, stack)
  <2>1. PICK back, top : back = Back(Top, stack) /\ top = stack.frames[Len(stack.frames)]
    OBVIOUS
  <2>2. back = DropFrame(stack) /\ back \in VarStack /\ Len(back.frames) > 0
    BY <1>1, <1>2, <2>1, BackIs DEF Back
  <2>3. Len(stack.frames) > 1
    BY <2>2, StateIs, DropFrameIs
  <2>4. ~Missing(top, {}) /\ DOMAIN Found(top, {}) = {}
    BY DEF Missing, Found
  <2>5. PopFrame(stack, {}).stack = SetAll(DropFrame(stack), Found(top, {}))
    <3>1. ~(Len(stack.frames) <= 1)
      BY <2>2, <2>3, StateIs, DropFrameIs
    <3> QED
      BY <2>1, <2>3, <2>4, <3>1 DEF PopFrame
  <2>6. SetAll(back, Found(top, {})) = back
    BY <2>2, <2>4, SetNone
  <2> QED
    BY <2>1, <2>2, <2>5, <2>6 DEF MacroFails
<1> QED
  BY <1>1, <1>2, <1>3, <1>4, ReturnsErrIs

LEMMA MacroEndsIs ==
  ASSUME StepsInv, MacroEnds
  PROVE  StepsInv' /\ (SC!ReturnErr \/ SC!ReturnOk)
<1>1. /\ running /\ returned = "none" /\ Top.kind = "macro" /\ calls' = Callers
      /\ UNCHANGED <<running, verdict, steps, scenarios>>
  BY DEF MacroEnds, BodyEnds
<1>2. Depth > 1
  BY <1>1, InsideIs
<1>3. PICK ss, top, popped : /\ ss = ScopesOf(calls, stack) /\ top = stack.frames[Len(stack.frames)]
                             /\ popped = PopFrame(stack, Top.exports)
  OBVIOUS
<1>4. /\ stack' = popped.stack /\ returned' = (IF popped.ok THEN "ok" ELSE "err")
      /\ broken' = (broken \/ ~popped.ok)
  BY <1>3 DEF MacroEnds
<1>5. SC!Result(ss) = top
  <2>1. calls[Len(calls)].kind = "macro"
    BY <1>1 DEF Top, Depth
  <2> QED
    BY <1>3, <2>1, StateIs, ResultIs
<1>6. /\ SC!Incomplete(ss) <=> Missing(top, Top.exports)
      /\ SC!Exported(ss) = Renamed(Found(top, Top.exports), Top.prefixed)
  BY <1>3, <1>5, ExportedIs
<1>7. ~Top.prefixed /\ ~Top.failed
  <2>1. Depth \in 1..Len(calls)
    BY StateIs DEF Depth
  <2> QED
    BY <1>1, <2>1 DEF StepsInv, CallsOK, Top
<1>8. SC!Exported(ss) = Found(top, Top.exports)
  BY <1>6, <1>7 DEF Renamed
<1>9. Back(Top, stack) = DropFrame(stack)
  BY <1>1 DEF Back
<1>10. Len(stack.frames) > 1 /\ ~(Len(stack.frames) <= 1)
  <2>1. Len(DropFrame(stack).frames) > 0
    BY <1>2, <1>9, BackIs
  <2>2. Len(DropFrame(stack).frames) = Len(stack.frames) - 1 /\ Len(stack.frames) \in Nat
    BY StateIs, DropFrameIs
  <2> QED
    BY <2>1, <2>2
<1>11. CASE Missing(top, Top.exports)
  <2>1. popped = [stack |-> DropFrame(stack), ok |-> FALSE]
    BY <1>3, <1>10, <1>11 DEF PopFrame
  <2>2. stack' = Back(Top, stack) /\ returned' = "err" /\ broken' = TRUE
    BY <1>4, <1>9, <2>1
  <2> QED
    BY <1>1, <1>2, <1>3, <1>6, <1>11, <2>2, ReturnsErrIs
<1>12. CASE ~Missing(top, Top.exports)
  <2>1. popped = [stack |-> SetAll(DropFrame(stack), Found(top, Top.exports)), ok |-> TRUE]
    BY <1>3, <1>10, <1>12 DEF PopFrame
  <2>2. /\ stack' = SetAll(Back(Top, stack), SC!Exported(ss))
        /\ returned' = "ok" /\ (broken' <=> broken)
    BY <1>4, <1>8, <1>9, <2>1
  <2>3. broken' = broken
    BY <1>4, <2>1 DEF StepsInv, StepsTypeOK
  <2> QED
    BY <1>1, <1>2, <1>3, <1>6, <1>7, <1>12, <2>2, <2>3, ReturnsOkIs
<1> QED
  BY <1>11, <1>12

LEMMA IncludeEndsIs ==
  ASSUME StepsInv, IncludeEnds
  PROVE  StepsInv' /\ (SC!ReturnErr \/ SC!ReturnOk)
<1>1. /\ running /\ returned = "none" /\ Top.kind = "include" /\ calls' = Callers
      /\ UNCHANGED <<running, verdict, steps, scenarios>>
  BY DEF IncludeEnds, BodyEnds
<1>2. Depth > 1
  BY <1>1, InsideIs
<1>3. PICK ss, values : ss = ScopesOf(calls, stack) /\ values = [x \in Names |-> Get(stack, x)]
  OBVIOUS
<1>4. SC!Result(ss) = values
  <2>1. calls[Len(calls)].kind # "macro"
    BY <1>1 DEF Top, Depth
  <2> QED
    BY <1>3, <2>1, StateIs, ResultIs
<1>5. /\ SC!Incomplete(ss) <=> Missing(values, Top.exports)
      /\ SC!Exported(ss) = Renamed(Found(values, Top.exports), Top.prefixed)
  BY <1>3, <1>4, ExportedIs
<1>6. Back(Top, stack) = Top.saved
  BY <1>1 DEF Back
<1>7. CASE Top.failed \/ Missing(values, Top.exports)
  <2>1. stack' = Top.saved /\ returned' = "err" /\ broken' = TRUE
    BY <1>3, <1>7 DEF IncludeEnds
  <2> QED
    BY <1>1, <1>2, <1>3, <1>5, <1>6, <1>7, <2>1, ReturnsErrIs
<1>8. CASE ~(Top.failed \/ Missing(values, Top.exports))
  <2>1. stack' = SetAll(Top.saved, Renamed(Found(values, Top.exports), Top.prefixed)) /\ returned' = "ok"
    BY <1>3, <1>8 DEF IncludeEnds
  <2>2. broken' = broken
    BY <1>3, <1>8 DEF IncludeEnds, StepsInv, StepsTypeOK
  <2> QED
    BY <1>1, <1>2, <1>3, <1>5, <1>6, <1>8, <2>1, <2>2, ReturnsOkIs
<1> QED
  BY <1>7, <1>8

\* The same for the calls of a state.
LEMMA FailingIs ==
  ASSUME NEW bodies, CallsOK(bodies), NEW n, n = Len(bodies), NEW innermost, Fits(bodies, innermost),
         NEW ss, ss = ScopesOf(bodies, innermost), NEW b \in BOOLEAN, b => bodies[n].kind # "macro",
         NEW marked, marked = Failing(bodies, b)
  PROVE  /\ CallsOK(marked) /\ Len(marked) = n /\ marked \in Nest /\ Fits(marked, innermost)
         /\ marked[n] = Marked(bodies[n], b) /\ (marked[n].failed <=> b)
         /\ ScopesOf(marked, innermost) = Failing(ss, b)
<1>1. bodies \in Nest
  BY DEF CallsOK
<1>2. /\ marked \in Nest /\ Len(marked) = n /\ Fits(marked, innermost)
      /\ \A i \in 1..(n - 1) : marked[i] = bodies[i]
      /\ marked[n] = Marked(bodies[n], b)
      /\ ScopesOf(marked, innermost) = Failing(ss, b)
  BY <1>1, MarkedIs
<1>3. CallsOK(marked) /\ (marked[n].failed <=> b)
  BY <1>2, MarkedOK
<1> QED
  BY <1>2, <1>3

\* What a step returned is told to the body it is a step of.
LEMMA StepReturnsIs ==
  ASSUME StepsInv, StepReturns
  PROVE  StepsInv' /\ SC!Told
<1>1. PICK b \in BOOLEAN : b <=> returned = "err"
  OBVIOUS
<1>2. PICK n, ss, top : n = Len(calls) /\ ss = ScopesOf(calls, stack) /\ top = calls[n]
  OBVIOUS
<1>3. /\ returned # "none" /\ returned' = "none" /\ stack' = stack /\ broken' = broken
      /\ UNCHANGED <<running, verdict, steps, scenarios>>
  BY DEF StepReturns
<1>4. /\ calls \in Nest /\ Fits(calls, stack) /\ n \in Nat \ {0} /\ Depth = n /\ Top = top /\ Len(ss) = n
      /\ CallsOK(calls)
  BY <1>2, StateIs DEF Depth, Top, StepsInv
<1>5. calls' = [calls EXCEPT ![n].failed = b]
  <2>1. b = (returned = "err")
    BY <1>1
  <2> QED
    BY <1>4, <2>1 DEF StepReturns
<1>6. b \in BOOLEAN /\ (b => top.kind # "macro")
  BY <1>1, <1>4 DEF StepReturns
<1>7. PICK marked : marked = Failing(calls, b)
  OBVIOUS
<1>8. /\ CallsOK(marked) /\ Len(marked) = n /\ marked \in Nest /\ Fits(marked, stack)
      /\ marked[n] = Marked(calls[n], b) /\ (marked[n].failed <=> b)
      /\ ScopesOf(marked, stack) = Failing(ss, b)
  BY ONLY <1>2, <1>4, <1>6, <1>7, FailingIs
<1>9. Failing(ss, b) = [ss EXCEPT ![n].failed = b] /\ Failing(calls, b) = [calls EXCEPT ![n].failed = b]
  BY <1>2, <1>4 DEF Failing, Marked
<1>10. calls' = marked
  BY <1>5, <1>7, <1>9
<1>11. CallsOK(calls)' /\ Fits(calls, stack)'
  BY <1>3, <1>8, <1>10
<1>12. StepsTypeOK'
  <2>1. calls' \in Seq(Bodies) /\ Len(calls') = Len(calls)
    BY <1>2, <1>8, <1>10 DEF Nest
  <2> QED
    BY <1>3, <2>1 DEF StepsInv, StepsTypeOK, Depth
<1>13. BrokenInv'
  <2>1. Top'.failed <=> b
    BY <1>8, <1>10 DEF Top, Depth
  <2>2. ~Top.failed /\ (broken <=> returned = "err") /\ running
    BY <1>3 DEF StepsInv, BrokenInv
  <2> QED
    BY <1>1, <1>3, <2>1, <2>2 DEF BrokenInv
<1>14. SC!Told
  <2>1. ScopesOf(calls, stack)' = [ss EXCEPT ![n].failed = b]
    BY <1>3, <1>8, <1>9, <1>10
  <2>2. b = (returned = "err")
    BY <1>1
  <2> QED
    BY <1>2, <1>3, <1>4, <2>1, <2>2 DEF SC!Told
<1> QED
  BY <1>11, <1>12, <1>13, <1>14 DEF StepsInv

LEMMA ScenarioStartsIs ==
  ASSUME StepsInv, ScenarioStarts
  PROVE  StepsInv' /\ SC!Begin
<1>1. PICK b \in BOOLEAN : calls' = <<Scenario(b)>> /\ broken' = b
  BY DEF ScenarioStarts
<1>2. PICK n, ss, top : n = Len(calls) /\ ss = ScopesOf(calls, stack) /\ top = calls[n]
  OBVIOUS
<1>3. /\ ~running /\ running' = TRUE /\ steps' = 0 /\ scenarios' = scenarios + 1
      /\ scenarios < ScenarioLimit /\ UNCHANGED <<stack, returned, verdict>>
  BY DEF ScenarioStarts
<1>0. n = 1
  BY <1>2, <1>3 DEF StepsInv, BrokenInv, Depth
<1>4. /\ calls \in Nest /\ Fits(calls, stack) /\ returned = "none" /\ Len(ss) = n
      /\ CallsOK(calls) /\ calls \in Seq(Bodies) /\ top \in Bodies
  <2>1. Depth = 1 /\ returned = "none"
    BY <1>3 DEF StepsInv, BrokenInv
  <2> QED
    BY <1>2, <2>1, StateIs DEF StepsInv, Depth, Top
<1>5. top = Scenario(top.failed)
  BY <1>2, <1>0, <1>4 DEF CallsOK
<1>6. b \in BOOLEAN /\ (b => top.kind # "macro")
  BY <1>5 DEF Scenario, Body
<1>7. PICK marked : marked = Failing(calls, b)
  OBVIOUS
<1>8. /\ CallsOK(marked) /\ Len(marked) = n /\ marked \in Nest /\ Fits(marked, stack)
      /\ marked[n] = Marked(calls[n], b) /\ (marked[n].failed <=> b)
      /\ ScopesOf(marked, stack) = Failing(ss, b)
  BY ONLY <1>2, <1>4, <1>6, <1>7, FailingIs
<1>9. Failing(ss, b) = [ss EXCEPT ![n].failed = b] /\ Failing(calls, b) = [calls EXCEPT ![n].failed = b]
  BY <1>2, <1>4 DEF Failing, Marked
<1>10. calls' = marked
  <2>1. Marked(top, b) = Scenario(b)
    <3>1. Marked(top, b) = [Scenario(top.failed) EXCEPT !.failed = b]
      BY ONLY <1>5 DEF Marked
    <3> QED
      BY ONLY <3>1 DEF Scenario, Body
  <2>2. marked[1] = Scenario(b)
    BY <1>2, <1>0, <1>4, <1>8, <2>1
  <2>3. marked \in Seq(Bodies) /\ Len(marked) = 1
    BY <1>0, <1>8 DEF Nest
  <2>4. marked = <<Scenario(b)>>
    BY ONLY <2>2, <2>3
  <2> QED
    BY <1>1, <2>4
<1>11. CallsOK(calls)' /\ Fits(calls, stack)'
  BY <1>3, <1>8, <1>10
<1>12. StepsTypeOK'
  <2>1. calls' \in Seq(Bodies) /\ Len(calls') = Len(calls)
    BY <1>2, <1>8, <1>10 DEF Nest
  <2> QED
    BY <1>1, <1>3, <2>1, StepsAssumption DEF StepsInv, StepsTypeOK, Depth, StepsAssumption
<1>13. BrokenInv'
  <2>1. Top'.failed <=> b
    BY <1>8, <1>10 DEF Top, Depth
  <2> QED
    BY <1>1, <1>3, <1>4, <2>1 DEF BrokenInv
<1>14. SC!Begin
  <2>1. ScopesOf(calls, stack)' = [ss EXCEPT ![1].failed = b]
    BY <1>3, <1>0, <1>8, <1>9, <1>10
  <2> QED
    BY <1>2, <1>3, <1>0, <1>4, <2>1 DEF SC!Begin
<1> QED
  BY <1>11, <1>12, <1>13, <1>14 DEF StepsInv

\* Only the file's own scenario is not inside another call.
LEMMA ScenarioEndsIs ==
  ASSUME StepsInv, ScenarioEnds
  PROVE  StepsInv' /\ UNCHANGED <<stack, calls, returned>>
<1>1. /\ running /\ returned = "none" /\ Top.kind = "file" /\ running' = FALSE
      /\ UNCHANGED <<stack, calls, returned, steps, scenarios, broken>>
      /\ verdict' \in {"failed", "passed"}
  BY DEF ScenarioEnds
<1>2. Depth = 1
  <2>1. calls \in Nest /\ Depth \in Nat \ {0} /\ Depth = Len(calls) /\ Top = calls[Depth]
    BY StateIs DEF Depth, Top
  <2>2. ~(Depth \in 2..Len(calls))
    BY <1>1, <2>1 DEF Nest
  <2> QED
    BY <2>1, <2>2
<1>3. StepsTypeOK'
  BY <1>1 DEF StepsInv, StepsTypeOK, Depth
<1>4. CallsOK(calls)' /\ Fits(calls, stack)'
  BY <1>1 DEF StepsInv
<1>5. BrokenInv'
  BY <1>1, <1>2 DEF StepsInv, BrokenInv, Top, Depth
<1> QED
  BY <1>1, <1>3, <1>4, <1>5 DEF StepsInv

LEMMA NextIs ==
  StepsInv /\ [Next]_vars => StepsInv' /\ [SC!Next]_(SC!vars)
<1> SUFFICES ASSUME StepsInv, [Next]_vars PROVE StepsInv' /\ [SC!Next]_(SC!vars)
  OBVIOUS
<1>1. CASE ScenarioStarts
  BY <1>1, ScenarioStartsIs DEF SC!Next
<1>2. CASE StepFails
  BY <1>2, FailsIs DEF StepFails, SC!Next
<1>3. CASE MacroFails
  BY <1>3, MacroFailsIs DEF SC!Next
<1>4. CASE StepReturns
  BY <1>4, StepReturnsIs DEF SC!Next
<1>5. CASE MacroEnds
  BY <1>5, MacroEndsIs DEF SC!Next
<1>6. CASE IncludeEnds
  BY <1>6, IncludeEndsIs DEF SC!Next
<1>7. CASE ScenarioEnds
  <2>1. StepsInv' /\ UNCHANGED <<stack, calls, returned>>
    BY <1>7, ScenarioEndsIs
  <2>2. UNCHANGED SC!vars
    BY <2>1 DEF SC!vars
  <2> QED
    BY <2>1, <2>2
<1>8. ASSUME NEW args \in ArgLists, NEW global \in BOOLEAN, SetVariable(args, global)
      PROVE  StepsInv' /\ [SC!Next]_(SC!vars)
  BY <1>8, SetVariableIs DEF SC!Next
<1>9. ASSUME NEW args \in ArgLists, NEW exports \in ExportLists, CallMacro(args, exports)
      PROVE  StepsInv' /\ [SC!Next]_(SC!vars)
  BY <1>9, CallMacroIs DEF SC!Next
<1>10. ASSUME NEW args \in ArgLists, NEW exports \in ExportLists, NEW prefixed \in BOOLEAN,
              Include(args, exports, prefixed)
       PROVE  StepsInv' /\ [SC!Next]_(SC!vars)
  BY <1>10, IncludeIs DEF SC!Next
<1>11. CASE UNCHANGED vars
  <2>1. UNCHANGED <<stack, calls, returned, running, verdict, steps, scenarios, broken>>
    BY <1>11 DEF vars
  <2>2. StepsInv'
    BY <2>1 DEF StepsInv, StepsTypeOK, Depth, Top, BrokenInv
  <2>3. UNCHANGED SC!vars
    BY <2>1 DEF SC!vars
  <2> QED
    BY <2>2, <2>3
<1> QED
  BY <1>1, <1>2, <1>3, <1>4, <1>5, <1>6, <1>7, <1>8, <1>9, <1>10, <1>11 DEF Next

\* Between any two steps of a file's run the calls in progress nest, each
\* call put aside the stack its own bodies' frames fit, and at most the
\* innermost body has failed (runner.rs: execute_step, run_step, run_include).
THEOREM CallsNest == Spec => []StepsInv
<1>1. Init => StepsInv
  BY InitIs
<1>2. StepsInv /\ [Next]_vars => StepsInv'
  BY NextIs
<1> QED
  BY <1>1, <1>2, PTL DEF Spec

\* Swapping the stack for an include and pushing a frame for a macro is, on
\* every path out of a call, a scope of its own for each call: the stack of
\* runner.rs and vars.rs implements Scopes.
THEOREM ScopesImplemented == Spec => ImplementsScopes
<1>1. Init => StepsInv /\ SC!Init
  BY InitIs
<1>2. StepsInv /\ [Next]_vars => StepsInv' /\ [SC!Next]_(SC!vars)
  BY NextIs
<1> QED
  BY <1>1, <1>2, PTL DEF Spec, SC!Spec, ImplementsScopes

\* A failure at any depth ends its scenario: it is reported failed exactly
\* when something failed in it, and no step is executed after the failure.
THEOREM FailuresEndScenarios == Spec => FailureEndsScenario
<1>1. ASSUME StepsInv, [Next]_vars, running, ~running'
      PROVE  verdict' = (IF broken THEN "failed" ELSE "passed")
  <2>1. ScenarioEnds
    BY <1>1 DEF Next, vars, ScenarioStarts, StepFails, SetVariable, CallMacro, Include, Executes, Fails,
                Passes, MacroFails, StepReturns, MacroEnds, IncludeEnds, BodyEnds
  <2>2. returned = "none" /\ verdict' = (IF Top.failed THEN "failed" ELSE "passed")
    BY <2>1 DEF ScenarioEnds
  <2>3. broken <=> Top.failed
    BY <1>1, <2>2 DEF StepsInv, BrokenInv
  <2> QED
    BY <2>2, <2>3
<1>2. ASSUME StepsInv, [Next]_vars, broken, broken', running
      PROVE  steps' = steps
  <2>1. returned = "err" \/ Top.failed
    BY <1>2 DEF StepsInv, BrokenInv
  <2>2. ~Executes
    BY <2>1 DEF Executes
  <2> QED
    BY <1>2, <2>2 DEF Next, vars, ScenarioStarts, StepFails, SetVariable, CallMacro, Include,
                MacroFails, StepReturns, MacroEnds, IncludeEnds, BodyEnds, ScenarioEnds
<1>3. StepsInv /\ [Next]_vars =>
        [/\ running /\ ~running' => verdict' = (IF broken THEN "failed" ELSE "passed")
         /\ broken /\ broken' /\ running => steps' = steps]_vars
  BY <1>1, <1>2
<1>4. Spec => []StepsInv
  BY CallsNest
<1> QED
  BY <1>3, <1>4, PTL DEF Spec, FailureEndsScenario

-----------------------------------------------------------------------------
(***************************************************************************)
(* Masking: no value of a set is left whole.  Every place of a value is    *)
(* under a match (MatchesAre), the sweep over the matches copies what is   *)
(* outside them all, each run of it behind a mask (SweepIs), and so what   *)
(* stands between two masks stood together in the text (StoodTogether).    *)
(***************************************************************************)
\* A set of numbers that has 0, and the next one of each, has all.
LEMMA SetInduction ==
  ASSUME NEW S, 0 \in S, \A n \in Nat : n \in S => n + 1 \in S
  PROVE  \A n \in Nat : n \in S
<1> DEFINE T == Nat \ S
<1> SUFFICES ASSUME T # {} PROVE FALSE
  OBVIOUS
<1>1. Min(T) \in T /\ \A y \in T : Min(T) <= y
  BY LeastIs
<1> DEFINE m == Min(T)
<1>2. m \in Nat /\ m \notin S /\ \A y \in T : m <= y
  BY <1>1
<1> HIDE DEF m
<1>3. m - 1 \in Nat /\ (m - 1) + 1 = m /\ ~(m <= m - 1)
  BY <1>2
<1>4. m - 1 \in S
  BY <1>2, <1>3
<1> QED
  BY <1>2, <1>3, <1>4

\* A match is of the value, in the text, and ends behind where it begins.
IsMatch(r, value, text) ==
  /\ r \in (1..Len(text)) \X (1..(Len(text) + 1))
  /\ r[2] = r[1] + Len(value)
  /\ r[1] < r[2]

\* The matches are in the text, and every place where the value stands begins
\* under one of them, though the next match is looked for behind the last.
LEMMA MatchesAre ==
  ASSUME NEW U, NEW text \in Seq(U), NEW value \in Seq(U), value # <<>>
  PROVE  /\ \A r \in MatchIndices(value, text) : IsMatch(r, value, text)
         /\ \A i \in DOMAIN text : IsAt(value, text, i) =>
              \E r \in MatchIndices(value, text) : r[1] <= i /\ i < r[2]
<1> DEFINE L == Len(text)
           Starts(from) == {i \in from..L : IsAt(value, text, i)}
           End(from) == Min(Starts(from)) + Len(value)
           FoundFrom(from, f) == IF Starts(from) = {} THEN {}
                                 ELSE {<<Min(Starts(from)), End(from)>>} \cup f[End(from)]
           Finds(f) == f = [from \in 1..(L + 1) |-> FoundFrom(from, f)]
           behind == CHOOSE f : Finds(f)
           Good(from, set) ==
             /\ \A r \in set : IsMatch(r, value, text)
             /\ \A i \in from..L : IsAt(value, text, i) => \E r \in set : r[1] <= i /\ i < r[2]
<1>1. L \in Nat /\ Len(value) \in Nat /\ Len(value) > 0 /\ DOMAIN text = 1..L
  OBVIOUS
<1>2. MatchIndices(value, text) = behind[1]
  BY DEF MatchIndices
<1>3. ASSUME NEW from \in 1..(L + 1), Starts(from) # {}
      PROVE  /\ Min(Starts(from)) \in from..L /\ Min(Starts(from)) \in 1..L
             /\ IsAt(value, text, Min(Starts(from)))
             /\ \A i \in Starts(from) : Min(Starts(from)) <= i
             /\ End(from) \in 1..(L + 1) /\ from < End(from) /\ Min(Starts(from)) < End(from)
  <2> DEFINE S == Starts(from)
  <2>1. S \subseteq from..L /\ S \subseteq Nat
    BY <1>1
  <2>2. \A i \in S : IsAt(value, text, i)
    OBVIOUS
  <2> HIDE DEF S
  <2>3. Min(S) \in S /\ \A i \in S : Min(S) <= i
    BY <1>3, <2>1, LeastIs DEF S
  <2>4. IsAt(value, text, Min(S))
    BY <2>2, <2>3
  <2>5. Min(S) \in from..L
    BY <2>1, <2>3
  <2>6. Min(S) + Len(value) <= L + 1
    BY <2>4 DEF IsAt
  <2> DEFINE m == Min(S)
  <2>7. m \in from..L /\ m + Len(value) <= L + 1 /\ IsAt(value, text, m) /\ \A i \in S : m <= i
    BY <2>3, <2>4, <2>5, <2>6
  <2>8. m = Min(Starts(from)) /\ S = Starts(from)
    BY DEF S
  <2> HIDE DEF m, S
  <2>9. m \in 1..L /\ m + Len(value) \in 1..(L + 1) /\ from < m + Len(value) /\ m < m + Len(value)
    BY <1>1, <2>7
  <2> QED
    BY <2>7, <2>8, <2>9, Zenon
<1> HIDE DEF L, Starts, End
<1>4. \E f : Finds(f)
  <2> DEFINE Upto(n, f) == /\ f = [from \in 1..(L + 1) |-> f[from]]
                           /\ \A from \in 1..(L + 1) : (L + 1) - n < from => f[from] = FoundFrom(from, f)
             S == {n \in Nat : \E f : Upto(n, f)}
  <2>1. 0 \in S
    <3>1. Upto(0, [from \in 1..(L + 1) |-> {}])
      BY <1>1
    <3> QED
      BY <3>1
  <2>2. ASSUME NEW n \in Nat, n \in S PROVE n + 1 \in S
    <3>1. PICK f : Upto(n, f)
      BY <2>2
    <3> DEFINE g == [from \in 1..(L + 1) |-> IF (L + 1) - n < from THEN f[from] ELSE FoundFrom(from, f)]
    <3>2. ASSUME NEW from \in 1..(L + 1), (L + 1) - (n + 1) < from
          PROVE  g[from] = FoundFrom(from, g)
      <4>1. g[from] = FoundFrom(from, f)
        BY <3>1
      <4>2. CASE Starts(from) = {}
        BY <4>1, <4>2
      <4>3. CASE Starts(from) # {}
        <5>1. End(from) \in 1..(L + 1) /\ from < End(from)
          BY <1>3, <4>3
        <5>2. (L + 1) - n < End(from)
          BY <1>1, <3>2, <5>1
        <5>3. g[End(from)] = f[End(from)]
          BY <5>1, <5>2
        <5> HIDE DEF g
        <5> QED
          BY <4>1, <5>3
      <4> QED
        BY <4>2, <4>3
    <3>3. g = [from \in 1..(L + 1) |-> g[from]]
      OBVIOUS
    <3> HIDE DEF g, FoundFrom
    <3>4. Upto(n + 1, g)
      BY <3>2, <3>3
    <3>5. n + 1 \in Nat
      OBVIOUS
    <3> HIDE DEF Upto
    <3> QED
      BY <3>4, <3>5, Zenon
  <2> HIDE DEF S
  <2>3. L + 1 \in S
    BY <1>1, <2>1, <2>2, SetInduction
  <2>4. PICK f : Upto(L + 1, f)
    BY <2>3 DEF S
  <2> HIDE DEF FoundFrom
  <2>5. \A from \in 1..(L + 1) : f[from] = FoundFrom(from, f)
    BY <1>1, <2>4
  <2>6. Finds(f)
    BY <2>4, <2>5
  <2> QED
    BY <2>6
<1>5. Finds(behind)
  BY <1>4, Zenon
<1> HIDE DEF behind
<1>6. \A from \in 1..(L + 1) : behind[from] = FoundFrom(from, behind)
  <2> HIDE DEF FoundFrom
  <2> QED
    BY <1>5
<1> DEFINE T == {n \in Nat : \A from \in 1..(L + 1) : (L + 1) - n <= from => Good(from, behind[from])}
<1>7. ASSUME NEW from \in 1..(L + 1), \A next \in 1..(L + 1) : from < next => Good(next, behind[next])
      PROVE  Good(from, behind[from])
  <2>1. CASE Starts(from) = {}
    <3>1. behind[from] = {}
      BY <1>6, <2>1
    <3>2. \A i \in from..L : ~IsAt(value, text, i)
      BY <2>1 DEF Starts
    <3> QED
      BY <3>1, <3>2
  <2>2. CASE Starts(from) # {}
    <3> DEFINE m == Min(Starts(from))
    <3>1. /\ m \in from..L /\ m \in 1..L /\ IsAt(value, text, m) /\ \A i \in Starts(from) : m <= i
          /\ End(from) \in 1..(L + 1) /\ from < End(from) /\ m < End(from)
      BY <1>3, <2>2
    <3>2. End(from) = m + Len(value)
      BY DEF End
    <3>3. behind[from] = {<<m, End(from)>>} \cup behind[End(from)]
      BY <1>6, <2>2
    <3> HIDE DEF m
    <3>4. Good(End(from), behind[End(from)])
      BY <1>7, <3>1
    <3>5. IsMatch(<<m, End(from)>>, value, text)
      BY <3>1, <3>2 DEF IsMatch, L
    <3>6. \A r \in behind[from] : IsMatch(r, value, text)
      BY <3>3, <3>4, <3>5
    <3>7. ASSUME NEW i \in from..L, IsAt(value, text, i)
          PROVE  \E r \in behind[from] : r[1] <= i /\ i < r[2]
      <4>1. i \in Starts(from) /\ m <= i
        BY <3>1, <3>7 DEF Starts
      <4>2. CASE i < End(from)
        <5> DEFINE r == <<m, End(from)>>
        <5>1. r \in behind[from] /\ r[1] = m /\ r[2] = End(from)
          BY <3>3
        <5> HIDE DEF r
        <5> QED
          BY <4>1, <4>2, <5>1
      <4>3. CASE ~(i < End(from))
        <5>1. i \in End(from)..L
          BY <1>1, <3>1, <4>3
        <5>2. \E r \in behind[End(from)] : r[1] <= i /\ i < r[2]
          BY <3>4, <3>7, <5>1
        <5> QED
          BY <3>3, <5>2
      <4> QED
        BY <4>2, <4>3
    <3> QED
      BY <3>6, <3>7
  <2> QED
    BY <2>1, <2>2
<1> HIDE DEF Good
<1>8. 0 \in T
  <2> SUFFICES ASSUME NEW from \in 1..(L + 1), (L + 1) - 0 <= from PROVE Good(from, behind[from])
    OBVIOUS
  <2>1. \A next \in 1..(L + 1) : ~(from < next)
    BY <1>1
  <2> QED
    BY <1>7, <2>1
<1>9. ASSUME NEW n \in Nat, n \in T PROVE n + 1 \in T
  <2> SUFFICES ASSUME NEW from \in 1..(L + 1), (L + 1) - (n + 1) <= from PROVE Good(from, behind[from])
    OBVIOUS
  <2>1. ASSUME NEW next \in 1..(L + 1), from < next PROVE Good(next, behind[next])
    <3>1. (L + 1) - n <= next
      BY <1>1, <2>1
    <3> QED
      BY <1>9, <3>1
  <2> QED
    BY <1>7, <2>1
<1> HIDE DEF T
<1>10. L + 1 \in T
  BY <1>1, <1>8, <1>9, SetInduction
<1>11. Good(1, behind[1])
  BY <1>1, <1>10 DEF T
<1> QED
  BY <1>1, <1>2, <1>11 DEF Good, L

\* A range of a text, none of it or more: where it begins, and where the text
\* goes on behind it.
Ranges(n) == {r \in (1..(n + 1)) \X (1..(n + 1)) : r[1] <= r[2]}

\* The last of some ranges is one of them: no other begins behind it, and of
\* those that begin where it does none is shorter.
LEMMA LatestIs ==
  ASSUME NEW n \in Nat, NEW s, s \subseteq Ranges(n), s # {}
  PROVE  /\ Latest(s) \in s
         /\ \A q \in s : q[1] <= Latest(s)[1]
<1> DEFINE Firsts == {k \in 1..(n + 1) : \E r \in s : r[1] = k}
<1>1. Firsts \subseteq 1..(n + 1) /\ Firsts \subseteq Nat /\ n + 1 \in Nat
  OBVIOUS
<1>2. \A r \in s : /\ r[1] \in 1..(n + 1) /\ r[2] \in 1..(n + 1) /\ r[1] <= r[2] /\ r[1] \in Firsts
  BY DEF Ranges
<1>3. Firsts # {}
  BY <1>2
<1>4. Max(Firsts) \in Firsts /\ \A y \in Firsts : Max(Firsts) >= y
  BY <1>1, <1>3, LargestIs
<1> DEFINE a == Max(Firsts)
           Stops == {k \in 1..(n + 1) : \E r \in s : r[1] = a /\ r[2] = k}
<1>5. PICK r \in s : r[1] = a
  BY <1>4
<1>6. Stops \subseteq Nat /\ Stops # {}
  <2>1. r[2] \in Stops
    BY <1>2, <1>5
  <2> QED
    BY <2>1
<1>7. Min(Stops) \in Stops /\ \A y \in Stops : Min(Stops) <= y
  BY <1>6, LeastIs
<1>8. a \in Nat /\ \A q \in s : q[1] <= a
  BY <1>1, <1>2, <1>4
<1>9. PICK t \in s : t[1] = a /\ t[2] = Min(Stops)
  BY <1>7
<1>10. \A q \in s : q[1] = a => t[2] <= q[2]
  BY <1>2, <1>7, <1>9
<1> HIDE DEF a
<1>11. \A q \in s : q[1] < t[1] \/ (q[1] = t[1] /\ q[2] >= t[2])
  BY <1>2, <1>8, <1>9, <1>10
<1> DEFINE Is(x) == \A q \in s : q[1] < x[1] \/ (q[1] = x[1] /\ q[2] >= x[2])
<1>12. Latest(s) \in s /\ Is(Latest(s))
  <2>1. \E x \in s : Is(x)
    BY <1>11
  <2>2. Latest(s) = CHOOSE x \in s : Is(x)
    BY DEF Latest
  <2> HIDE DEF Is
  <2> QED
    BY <2>1, <2>2, Zenon
<1>13. \A q \in s : q[1] <= Latest(s)[1]
  BY <1>2, <1>12
<1> QED
  BY <1>12, <1>13

\* A function over the parts of a finite set that goes on from a part with one
\* member less exists.
Folds(f, R, last, d, F) ==
  \A s \in SUBSET R : f[s] = IF s = {} THEN d ELSE F[<<last[s], f[s \ {last[s]}]>>]

LEMMA FoldIs ==
  ASSUME NEW R, IsFiniteSet(R), NEW last, \A s \in SUBSET R : s # {} => last[s] \in s,
         NEW D, NEW d \in D, NEW F \in [R \X D -> D]
  PROVE  \E f \in [SUBSET R -> D] : Folds(f, R, last, d, F)
<1> DEFINE After(f, s) == IF s = {} THEN d ELSE F[<<last[s], f[s \ {last[s]}]>>]
           Upto(n, f) == /\ f \in [SUBSET R -> D]
                         /\ \A s \in SUBSET R : Cardinality(s) < n => f[s] = After(f, s)
           S == {n \in Nat : \E f : Upto(n, f)}
<1>1. \A s \in SUBSET R : /\ IsFiniteSet(s) /\ Cardinality(s) \in Nat
                          /\ Cardinality(s) <= Cardinality(R)
  <2>1. \A s \in SUBSET R : IsFiniteSet(s) /\ Cardinality(s) <= Cardinality(R)
    BY FS_Subset
  <2> QED
    BY <2>1, FS_CardinalityType
<1>2. ASSUME NEW s \in SUBSET R, s # {}
      PROVE  last[s] \in R /\ s \ {last[s]} \in SUBSET R /\ Cardinality(s \ {last[s]}) = Cardinality(s) - 1
  <2>1. last[s] \in s
    BY <1>2
  <2>2. Cardinality(s \ {last[s]}) = Cardinality(s) - 1
    BY <1>1, <2>1, FS_RemoveElement
  <2> QED
    BY <2>1, <2>2
<1>3. ASSUME NEW f \in [SUBSET R -> D], NEW s \in SUBSET R PROVE After(f, s) \in D
  <2>1. CASE s = {}
    BY <2>1
  <2>2. CASE s # {}
    <3>1. last[s] \in R /\ f[s \ {last[s]}] \in D
      BY <1>2, <2>2
    <3> QED
      BY <2>2, <3>1
  <2> QED
    BY <2>1, <2>2
<1>4. 0 \in S
  <2> DEFINE g == [s \in SUBSET R |-> d]
  <2>1. Upto(0, g)
    BY <1>1
  <2>2. 0 \in Nat
    OBVIOUS
  <2> HIDE DEF Upto, g
  <2> QED
    BY <2>1, <2>2, Zenon
<1>5. ASSUME NEW n \in Nat, n \in S PROVE n + 1 \in S
  <2>1. PICK f : Upto(n, f)
    BY <1>5
  <2> DEFINE g == [s \in SUBSET R |-> After(f, s)]
  <2>2. g \in [SUBSET R -> D]
    BY <1>3, <2>1
  <2>3. ASSUME NEW s \in SUBSET R, Cardinality(s) < n + 1 PROVE g[s] = After(g, s)
    <3>1. g[s] = After(f, s)
      OBVIOUS
    <3>2. CASE s = {}
      BY <3>1, <3>2
    <3>3. CASE s # {}
      <4> DEFINE t == s \ {last[s]}
      <4>1. t \in SUBSET R /\ Cardinality(t) < n
        BY <1>1, <1>2, <2>3, <3>3
      <4>2. g[t] = After(f, t)
        BY <4>1
      <4>3. f[t] = After(f, t)
        BY <2>1, <4>1
      <4>4. g[t] = f[t]
        BY <4>2, <4>3
      <4> HIDE DEF g
      <4> QED
        BY <3>1, <3>3, <4>4
    <3> QED
      BY <3>2, <3>3
  <2> HIDE DEF g, After
  <2>4. Upto(n + 1, g)
    BY <2>2, <2>3
  <2>5. n + 1 \in Nat
    OBVIOUS
  <2> HIDE DEF Upto
  <2> QED
    BY <2>4, <2>5, Zenon
<1> HIDE DEF S
<1>6. Cardinality(R) + 1 \in Nat /\ Cardinality(R) + 1 \in S
  <2>1. Cardinality(R) + 1 \in Nat
    BY <1>1
  <2> QED
    BY <2>1, <1>4, <1>5, SetInduction
<1>7. PICK f : Upto(Cardinality(R) + 1, f)
  BY <1>6 DEF S
<1>8. \A s \in SUBSET R : Cardinality(s) < Cardinality(R) + 1
  BY <1>1
<1>9. \A s \in SUBSET R : f[s] = After(f, s)
  <2> HIDE DEF After
  <2> QED
    BY <1>7, <1>8
<1> QED
  BY <1>7, <1>9 DEF Folds

Outside(p, ranges) == \A r \in ranges : ~(r[1] <= p /\ p < r[2])

\* What is copied of a text: pos says where each character stood, 0 of a mask.
\* The characters are in their order, and neighbours were neighbours.
Copies(text, out, pos) ==
  /\ pos \in [1..Len(out) -> 0..Len(text)]
  /\ \A k \in 1..Len(out) : out[k] = IF pos[k] = 0 THEN MASK ELSE text[pos[k]]
  /\ \A j, k \in 1..Len(out) : j < k /\ pos[j] # 0 /\ pos[k] # 0 => pos[j] < pos[k]
  /\ \A k \in 1..Len(out) : k + 1 \in 1..Len(out) /\ pos[k] # 0 /\ pos[k + 1] # 0 => pos[k + 1] = pos[k] + 1

\* A piece of the text may be copied next: a mask is last, and all is before it.
PieceNext(text, out, pos, a, b) ==
  /\ Copies(text, out, pos)
  /\ out # <<>> => pos[Len(out)] = 0
  /\ a \in 1..(Len(text) + 1) /\ b \in a..(Len(text) + 1)
  /\ \A k \in 1..Len(out) : pos[k] < a

\* With that piece, more is copied: what was, and the piece.
WithPiece(text, out, pos, a, b, more, to) ==
  /\ Copies(text, more, to)
  /\ \A k \in 1..Len(more) : to[k] \in a..(b - 1) \/ \E j \in 1..Len(out) : to[k] = pos[j]
  /\ \A j \in 1..Len(out) : \E k \in 1..Len(more) : to[k] = pos[j]
  /\ \A p \in a..(b - 1) : \E k \in 1..Len(more) : to[k] = p

LEMMA PieceCopies ==
  ASSUME NEW U, NEW text \in Seq(U), NEW out \in Seq(U), NEW pos, NEW a, NEW b, PieceNext(text, out, pos, a, b),
         NEW more, more = out \o SubSeq(text, a, b - 1)
  PROVE  more \in Seq(U) /\ \E to : WithPiece(text, out, pos, a, b, more, to)
<1> DEFINE piece == SubSeq(text, a, b - 1)
           n == Len(out)
           to == [k \in 1..Len(more) |-> IF k <= n THEN pos[k] ELSE (a + (k - n)) - 1]
<1>1. /\ n \in Nat /\ Len(text) \in Nat /\ a \in Nat /\ b \in Nat /\ a <= b /\ b <= Len(text) + 1 /\ 1 <= a
      /\ DOMAIN text = 1..Len(text)
  BY DEF PieceNext
<1>2. /\ piece \in Seq(U) /\ Len(piece) = b - a
      /\ \A k \in 1..(b - a) : piece[k] = text[(a + k) - 1]
  <2>1. b - 1 <= Len(text) /\ 1 <= a /\ b - 1 \in Int
    BY <1>1
  <2>2. Len(piece) = b - a
    BY <1>1, <2>1
  <2>3. \A k \in 1..(b - a) : piece[k] = text[(a + k) - 1] /\ (a + k) - 1 \in DOMAIN text
    BY <1>1, <2>1, <2>2
  <2>4. piece \in Seq(U)
    BY <1>1
  <2> QED
    BY <2>2, <2>3, <2>4
<1>0. more = out \o piece
  OBVIOUS
<1> HIDE DEF piece
<1>3. /\ more \in Seq(U) /\ Len(more) = n + (b - a)
      /\ \A k \in 1..n : more[k] = out[k]
      /\ \A k \in 1..(b - a) : more[n + k] = piece[k]
  <2>1. Len(more) = n + (b - a) /\ more \in Seq(U)
    <3>1. out \in Seq(U) /\ piece \in Seq(U)
      BY <1>2
    <3>2. Len(out \o piece) = Len(out) + Len(piece)
      BY <3>1
    <3>3. out \o piece \in Seq(U)
      BY <3>1
    <3> QED
      BY <1>0, <1>2, <3>2, <3>3
  <2>2. \A k \in 1..(n + (b - a)) : more[k] = IF k <= n THEN out[k] ELSE piece[k - n]
    BY <1>0, <1>1, <1>2
  <2> HIDE DEF n
  <2>3. ASSUME NEW k \in 1..n PROVE more[k] = out[k]
    <3>1. k \in 1..(n + (b - a)) /\ k <= n
      BY <1>1
    <3> QED
      BY <2>2, <3>1
  <2>4. ASSUME NEW k \in 1..(b - a) PROVE more[n + k] = piece[k]
    <3>1. n + k \in 1..(n + (b - a)) /\ ~(n + k <= n) /\ (n + k) - n = k
      BY <1>1
    <3> QED
      BY <2>2, <3>1
  <2> QED
    BY <2>1, <2>3, <2>4
<1>4. /\ pos \in [1..n -> 0..Len(text)]
      /\ \A k \in 1..n : out[k] = IF pos[k] = 0 THEN MASK ELSE text[pos[k]]
      /\ \A j, k \in 1..n : j < k /\ pos[j] # 0 /\ pos[k] # 0 => pos[j] < pos[k]
      /\ \A k \in 1..n : k + 1 \in 1..n /\ pos[k] # 0 /\ pos[k + 1] # 0 => pos[k + 1] = pos[k] + 1
      /\ \A k \in 1..n : pos[k] < a
  BY DEF Copies, PieceNext
<1>5. n # 0 => pos[n] = 0
  BY DEF PieceNext
<1> HIDE DEF n
<1>6. \A k \in 1..Len(more) : \/ k \in 1..n /\ k <= n /\ to[k] = pos[k] /\ pos[k] \in 0..Len(text) /\ pos[k] < a
                              \/ /\ ~(k <= n) /\ k - n \in 1..(b - a) /\ to[k] = (a + (k - n)) - 1
                                 /\ to[k] \in a..(b - 1) /\ to[k] # 0
  <2> SUFFICES ASSUME NEW k \in 1..Len(more)
               PROVE  \/ k \in 1..n /\ k <= n /\ to[k] = pos[k] /\ pos[k] \in 0..Len(text) /\ pos[k] < a
                      \/ /\ ~(k <= n) /\ k - n \in 1..(b - a) /\ to[k] = (a + (k - n)) - 1
                         /\ to[k] \in a..(b - 1) /\ to[k] # 0
    OBVIOUS
  <2>1. CASE k <= n
    <3>1. k \in 1..n /\ to[k] = pos[k]
      BY <1>1, <2>1
    <3> QED
      BY <1>4, <2>1, <3>1 DEF n
  <2>2. CASE ~(k <= n)
    BY <1>1, <1>3, <2>2
  <2> QED
    BY <2>1, <2>2
<1>7. to \in [1..Len(more) -> 0..Len(text)]
  <2>1. to = [k \in 1..Len(more) |-> to[k]]
    OBVIOUS
  <2> HIDE DEF to
  <2>2. ASSUME NEW k \in 1..Len(more) PROVE to[k] \in 0..Len(text)
    <3>1. \A p \in a..(b - 1) : p \in 0..Len(text)
      BY <1>1
    <3> QED
      BY <1>6, <3>1
  <2> QED
    BY <2>1, <2>2
<1>8. \A k \in 1..n : k \in 1..Len(more) /\ to[k] = pos[k]
  BY <1>1, <1>3
<1>9. \A k \in 1..(b - a) : n + k \in 1..Len(more) /\ to[n + k] = (a + k) - 1
  BY <1>1, <1>3
<1> HIDE DEF to
<1>10. ASSUME NEW k \in 1..Len(more) PROVE more[k] = IF to[k] = 0 THEN MASK ELSE text[to[k]]
  <2>1. CASE k <= n
    BY <1>3, <1>4, <1>6, <2>1
  <2>2. CASE ~(k <= n)
    <3>1. k - n \in 1..(b - a) /\ to[k] = (a + (k - n)) - 1 /\ to[k] # 0 /\ n + (k - n) = k
      BY <1>1, <1>6, <2>2
    <3>2. more[k] = piece[k - n]
      BY <1>3, <3>1
    <3> QED
      BY <1>2, <3>1, <3>2
  <2> QED
    BY <2>1, <2>2
<1>11. ASSUME NEW j \in 1..Len(more), NEW k \in 1..Len(more), j < k, to[j] # 0, to[k] # 0 PROVE to[j] < to[k]
  <2>1. CASE k <= n
    <3>1. j \in 1..n /\ k \in 1..n
      BY <1>1, <1>11, <2>1
    <3> QED
      BY <1>4, <1>8, <1>11, <3>1
  <2>2. CASE ~(k <= n) /\ j <= n
    <3>1. to[k] \in a..(b - 1) /\ to[j] < a /\ to[j] \in 0..Len(text)
      BY <1>6, <2>2
    <3> QED
      BY <1>1, <3>1
  <2>3. CASE ~(k <= n) /\ ~(j <= n)
    <3>1. to[k] = (a + (k - n)) - 1 /\ to[j] = (a + (j - n)) - 1
      BY <1>6, <2>3
    <3> QED
      BY <1>1, <1>11, <3>1
  <2> QED
    BY <2>1, <2>2, <2>3
<1>12. ASSUME NEW k \in 1..Len(more), k + 1 \in 1..Len(more), to[k] # 0, to[k + 1] # 0
       PROVE  to[k + 1] = to[k] + 1
  <2>1. CASE k + 1 <= n
    <3>1. k \in 1..n /\ k + 1 \in 1..n
      BY <1>1, <2>1
    <3> QED
      BY <1>4, <1>8, <1>12, <3>1
  <2>2. CASE ~(k + 1 <= n) /\ k <= n
    <3>1. k = n /\ n # 0 /\ k \in 1..n
      BY <1>1, <2>2
    <3> QED
      BY <1>5, <1>8, <1>12, <3>1
  <2>3. CASE ~(k + 1 <= n) /\ ~(k <= n)
    <3>1. to[k] = (a + (k - n)) - 1 /\ to[k + 1] = (a + ((k + 1) - n)) - 1
      BY <1>6, <1>12, <2>3
    <3> QED
      BY <1>1, <3>1
  <2> QED
    BY <2>1, <2>2, <2>3
<1>13. Copies(text, more, to)
  BY <1>7, <1>10, <1>11, <1>12 DEF Copies
<1>14. \A k \in 1..Len(more) : to[k] \in a..(b - 1) \/ \E j \in 1..n : to[k] = pos[j]
  BY <1>6
<1>15. ASSUME NEW p \in a..(b - 1) PROVE \E k \in 1..Len(more) : to[k] = p
  <2>1. (p - a) + 1 \in 1..(b - a) /\ (a + ((p - a) + 1)) - 1 = p
    BY <1>1
  <2> QED
    BY <1>9, <2>1
<1>16. \A j \in 1..n : \E k \in 1..Len(more) : to[k] = pos[j]
  BY <1>8
<1>17. WithPiece(text, out, pos, a, b, more, to)
  BY <1>13, <1>14, <1>15, <1>16 DEF n, WithPiece
<1> QED
  BY <1>3, <1>17

\* A mask behind what is copied.
WithMask(text, out, pos, more, to) ==
  /\ Copies(text, more, to)
  /\ to[Len(more)] = 0 /\ more # <<>>
  /\ \A k \in 1..Len(more) : to[k] = 0 \/ \E j \in 1..Len(out) : to[k] = pos[j]
  /\ \A j \in 1..Len(out) : \E k \in 1..Len(more) : to[k] = pos[j]

LEMMA MaskCopies ==
  ASSUME NEW U, NEW text, Len(text) \in Nat, NEW out \in Seq(U), NEW pos, Copies(text, out, pos), MASK \in U,
         NEW more, more = out \o <<MASK>>
  PROVE  more \in Seq(U) /\ \E to : WithMask(text, out, pos, more, to)
<1> DEFINE n == Len(out)
           to == [k \in 1..Len(more) |-> IF k <= n THEN pos[k] ELSE 0]
<1>1. /\ n \in Nat /\ more \in Seq(U) /\ Len(more) = n + 1 /\ more[n + 1] = MASK /\ more # <<>>
      /\ \A k \in 1..n : more[k] = out[k]
  OBVIOUS
<1>2. /\ pos \in [1..n -> 0..Len(text)]
      /\ \A k \in 1..n : out[k] = IF pos[k] = 0 THEN MASK ELSE text[pos[k]]
      /\ \A j, k \in 1..n : j < k /\ pos[j] # 0 /\ pos[k] # 0 => pos[j] < pos[k]
      /\ \A k \in 1..n : k + 1 \in 1..n /\ pos[k] # 0 /\ pos[k + 1] # 0 => pos[k + 1] = pos[k] + 1
  BY DEF Copies
<1> HIDE DEF n
<1>3. \A k \in 1..Len(more) : \/ k \in 1..n /\ to[k] = pos[k] /\ pos[k] \in 0..Len(text)
                              \/ k = n + 1 /\ to[k] = 0
  BY <1>1, <1>2
<1>4. to[n + 1] = 0 /\ n + 1 \in 1..Len(more) /\ \A k \in 1..n : k \in 1..Len(more) /\ to[k] = pos[k]
  BY <1>1
<1>5. to \in [1..Len(more) -> 0..Len(text)]
  <2>1. \A k \in 1..Len(more) : to[k] \in 0..Len(text)
    BY <1>1, <1>3
  <2>2. to = [k \in 1..Len(more) |-> to[k]]
    OBVIOUS
  <2> HIDE DEF to
  <2> QED
    BY <2>1, <2>2
<1> HIDE DEF to
<1>6. \A k \in 1..Len(more) : more[k] = IF to[k] = 0 THEN MASK ELSE text[to[k]]
  BY <1>1, <1>2, <1>3
<1>7. \A j, k \in 1..Len(more) : j < k /\ to[j] # 0 /\ to[k] # 0 => to[j] < to[k]
  BY <1>1, <1>2, <1>3
<1>8. \A k \in 1..Len(more) : k + 1 \in 1..Len(more) /\ to[k] # 0 /\ to[k + 1] # 0 => to[k + 1] = to[k] + 1
  BY <1>1, <1>2, <1>3
<1>9. Copies(text, more, to)
  BY <1>5, <1>6, <1>7, <1>8 DEF Copies
<1> QED
  BY <1>1, <1>3, <1>4, <1>9 DEF n, WithMask

\* One range more, as MaskRanges takes it.
Taken(text, r, done) ==
  IF r[1] < done.copied THEN [done EXCEPT !.copied = IF r[2] > @ THEN r[2] ELSE @]
  ELSE [out |-> done.out \o SubSeq(text, done.copied, r[1] - 1) \o <<MASK>>, copied |-> r[2]]

\* Behind some ranges: what is outside them is copied up to their end.
Swept(text, ranges, done, pos) ==
  /\ Copies(text, done.out, pos)
  /\ \A k \in 1..Len(done.out) : pos[k] # 0 =>
       /\ pos[k] < done.copied /\ Outside(pos[k], ranges)
       /\ \E r \in ranges : pos[k] < r[1]
  /\ \A p \in 1..(done.copied - 1) : Outside(p, ranges) => \E k \in 1..Len(done.out) : pos[k] = p
  /\ done.out # <<>> => pos[Len(done.out)] = 0
  /\ \A r \in ranges : r[2] <= done.copied

Partial(U, text) == [out : Seq(U), copied : 1..(Len(text) + 1)]

LEMMA TakenIs ==
  ASSUME NEW U, MASK \in U, NEW text \in Seq(U), NEW r \in Ranges(Len(text)), NEW done \in Partial(U, text)
  PROVE  Taken(text, r, done) \in Partial(U, text)
<1>1. /\ done = [out |-> done.out, copied |-> done.copied] /\ done.out \in Seq(U)
      /\ done.copied \in 1..(Len(text) + 1) /\ Len(text) \in Nat
      /\ r[1] \in 1..(Len(text) + 1) /\ r[2] \in 1..(Len(text) + 1)
  BY DEF Partial, Ranges
<1>2. CASE r[1] < done.copied
  BY <1>1, <1>2 DEF Taken, Partial
<1>3. CASE ~(r[1] < done.copied)
  <2> DEFINE piece == SubSeq(text, done.copied, r[1] - 1)
  <2>1. piece \in Seq(U)
    BY <1>1, <1>3
  <2>2. Taken(text, r, done) = [out |-> done.out \o piece \o <<MASK>>, copied |-> r[2]]
    BY <1>3 DEF Taken
  <2> HIDE DEF piece
  <2>3. done.out \o piece \o <<MASK>> \in Seq(U)
    BY <1>1, <2>1
  <2> QED
    BY <1>1, <2>2, <2>3 DEF Partial
<1> QED
  BY <1>2, <1>3

LEMMA SweepGoesOn ==
  ASSUME NEW U, MASK \in U, NEW text \in Seq(U), NEW t, t \subseteq Ranges(Len(text)),
         NEW x \in Ranges(Len(text)), \A q \in t : q[1] <= x[1],
         NEW done \in Partial(U, text), NEW pos, Swept(text, t, done, pos)
  PROVE  \E to : Swept(text, t \cup {x}, Taken(text, x, done), to)
<1> DEFINE s == t \cup {x}
           L == Len(text)
           out == done.out
           a == done.copied
           b == x[1]
<1>1. /\ L \in Nat /\ out \in Seq(U) /\ a \in 1..(L + 1) /\ b \in 1..(L + 1) /\ x[2] \in 1..(L + 1) /\ b <= x[2]
      /\ \A r \in t : r[1] \in 1..(L + 1) /\ r[2] \in 1..(L + 1) /\ r[1] <= r[2] /\ r[1] <= b
      /\ done = [out |-> out, copied |-> a] /\ Len(out) \in Nat
  BY DEF Partial, Ranges
<1>2. /\ Copies(text, out, pos)
      /\ \A k \in 1..Len(out) : pos[k] \in 0..L
      /\ \A k \in 1..Len(out) : pos[k] # 0 => /\ pos[k] < a /\ Outside(pos[k], t)
                                             /\ \E r \in t : pos[k] < r[1]
      /\ \A p \in 1..(a - 1) : Outside(p, t) => \E k \in 1..Len(out) : pos[k] = p
      /\ out # <<>> => pos[Len(out)] = 0
      /\ \A r \in t : r[2] <= a
  BY DEF Swept, Copies
<1>3. \A p : Outside(p, s) <=> Outside(p, t) /\ ~(b <= p /\ p < x[2])
  BY DEF Outside
<1>4. x \in s /\ t \subseteq s /\ \A r \in s : r \in t \/ r = x
  OBVIOUS
<1> HIDE DEF s, out, a, b, L
<1>5. \A k \in 1..Len(out) : pos[k] # 0 => /\ pos[k] < b /\ Outside(pos[k], s)
                                           /\ \E r \in s : pos[k] < r[1]
  <2> SUFFICES ASSUME NEW k \in 1..Len(out), pos[k] # 0
               PROVE  pos[k] < b /\ Outside(pos[k], s) /\ \E r \in s : pos[k] < r[1]
    OBVIOUS
  <2>1. PICK r \in t : pos[k] < r[1]
    BY <1>2
  <2>2. pos[k] < b /\ pos[k] \in Nat
    BY <1>1, <1>2, <2>1
  <2>3. Outside(pos[k], s)
    BY <1>1, <1>2, <1>3, <2>2
  <2> QED
    BY <1>4, <2>1, <2>2, <2>3
<1>6. CASE b < a
  <2> DEFINE c == IF x[2] > a THEN x[2] ELSE a
  <2>1. Taken(text, x, done) = [out |-> out, copied |-> c]
    BY <1>1, <1>6 DEF Taken, a, b
  <2>2. c \in 1..(L + 1) /\ a <= c /\ x[2] <= c /\ (c = a \/ c = x[2])
    BY <1>1
  <2> HIDE DEF c
  <2>3. \A p \in 1..(c - 1) : Outside(p, s) => p \in 1..(a - 1) /\ Outside(p, t)
    BY <1>1, <1>3, <1>6, <2>2
  <2>4. \A p \in 1..(c - 1) : Outside(p, s) => \E k \in 1..Len(out) : pos[k] = p
    BY <1>2, <2>3
  <2>5. \A k \in 1..Len(out) : pos[k] # 0 => pos[k] < c
    BY <1>1, <1>2, <2>2
  <2>6. \A r \in s : r[2] <= c
    BY <1>1, <1>2, <1>4, <2>2
  <2> DEFINE then == [out |-> out, copied |-> c]
  <2>7. then.out = out /\ then.copied = c
    OBVIOUS
  <2> HIDE DEF then
  <2>8. Swept(text, s, then, pos)
    BY <1>2, <1>5, <2>4, <2>5, <2>6, <2>7 DEF Swept
  <2> QED
    BY <2>1, <2>8 DEF then, s
<1>7. CASE ~(b < a)
  <2>0. PICK more, all : more = out \o SubSeq(text, a, b - 1) /\ all = more \o <<MASK>>
    OBVIOUS
  <2>1. Taken(text, x, done) = [out |-> all, copied |-> x[2]]
    BY <1>7, <2>0 DEF Taken, a, b, out
  <2>2. PieceNext(text, out, pos, a, b)
    BY <1>1, <1>2, <1>7 DEF PieceNext, L
  <2>3. more \in Seq(U) /\ \E to : WithPiece(text, out, pos, a, b, more, to)
    BY <1>1, <2>0, <2>2, PieceCopies
  <2>4. PICK mid : WithPiece(text, out, pos, a, b, more, mid)
    BY <2>3
  <2>5. PICK to : WithMask(text, more, mid, all, to)
    <3>1. Len(text) \in Nat /\ Copies(text, more, mid)
      BY <2>4 DEF WithPiece
    <3> QED
      BY <2>0, <2>3, <3>1, MaskCopies
  <2>6. ASSUME NEW k \in 1..Len(all), to[k] # 0
        PROVE  to[k] < x[2] /\ Outside(to[k], s) /\ \E r \in s : to[k] < r[1]
    <3>1. CASE \E j \in 1..Len(out) : to[k] = pos[j]
      <4>1. PICK j \in 1..Len(out) : to[k] = pos[j]
        BY <3>1
      <4>2. pos[j] # 0 /\ pos[j] < b /\ pos[j] \in Nat /\ Outside(pos[j], s) /\ \E r \in s : pos[j] < r[1]
        BY <1>2, <1>5, <2>6, <4>1
      <4> QED
        BY <1>1, <4>1, <4>2
    <3>2. CASE to[k] \in a..(b - 1)
      <4>1. to[k] < b /\ to[k] \in Nat /\ a <= to[k]
        BY <1>1, <3>2
      <4>2. Outside(to[k], t)
        BY <1>1, <1>2, <4>1 DEF Outside
      <4>3. to[k] < x[1]
        BY <4>1 DEF b
      <4> QED
        BY <1>1, <1>3, <1>4, <4>1, <4>2, <4>3
    <3>3. PICK j \in 1..Len(more) : to[k] = mid[j]
      BY <2>5, <2>6 DEF WithMask
    <3> QED
      BY <2>4, <3>1, <3>2, <3>3 DEF WithPiece
  <2>7. ASSUME NEW p \in 1..(x[2] - 1), Outside(p, s) PROVE \E k \in 1..Len(all) : to[k] = p
    <3>1. Outside(p, t) /\ p < b
      BY <1>1, <1>3, <2>7
    <3>2. \E j \in 1..Len(more) : mid[j] = p
      <4>1. CASE p < a
        <5>1. p \in 1..(a - 1)
          BY <1>1, <4>1
        <5>2. PICK j \in 1..Len(out) : pos[j] = p
          BY <1>2, <3>1, <5>1
        <5> QED
          BY <2>4, <5>2 DEF WithPiece
      <4>2. CASE ~(p < a)
        <5>1. p \in a..(b - 1)
          BY <1>1, <3>1, <4>2
        <5> QED
          BY <2>4, <5>1 DEF WithPiece
      <4> QED
        BY <4>1, <4>2
    <3> QED
      BY <2>5, <3>2 DEF WithMask
  <2>8. \A r \in s : r[2] <= x[2]
    BY <1>1, <1>2, <1>4, <1>7
  <2> DEFINE then == [out |-> all, copied |-> x[2]]
  <2>9. then.out = all /\ then.copied = x[2]
    OBVIOUS
  <2> HIDE DEF then
  <2>10. Swept(text, s, then, to)
    BY <2>5, <2>6, <2>7, <2>8, <2>9 DEF Swept, WithMask
  <2> QED
    BY <2>1, <2>10 DEF then, s
<1> QED
  BY <1>6, <1>7 DEF a, b

\* What MaskRanges has made of all ranges: their sweep, and the rest of the text.
LEMMA SweepIs ==
  ASSUME NEW U, MASK \in U, NEW text \in Seq(U), NEW R, R \subseteq Ranges(Len(text))
  PROVE  \E done \in Partial(U, text) :
           /\ MaskRanges(text, R) = done.out \o SubSeq(text, done.copied, Len(text))
           /\ \E pos : Swept(text, R, done, pos)
<1> DEFINE D == Partial(U, text)
           base == [out |-> <<>>, copied |-> 1]
           last == [s \in SUBSET R |-> Latest(s)]
           F == [p \in R \X D |-> Taken(text, p[1], p[2])]
           Goes(f) == f = [s \in SUBSET R |->
                             IF s = {} THEN base
                             ELSE Taken(text, Latest(s), f[s \ {Latest(s)}])]
           iter == CHOOSE f : Goes(f)
<1>1. Len(text) \in Nat /\ IsFiniteSet(R)
  <2>1. Len(text) \in Nat
    OBVIOUS
  <2>2. IsFiniteSet(1..(Len(text) + 1))
    BY <2>1, FS_Interval
  <2>3. IsFiniteSet((1..(Len(text) + 1)) \X (1..(Len(text) + 1)))
    BY <2>2, FS_Product
  <2>4. R \in SUBSET ((1..(Len(text) + 1)) \X (1..(Len(text) + 1)))
    BY DEF Ranges
  <2> QED
    BY <2>1, <2>3, <2>4, FS_Subset
<1>2. ASSUME NEW s \in SUBSET R, s # {}
      PROVE  Latest(s) \in s /\ \A q \in s : q[1] <= Latest(s)[1]
  <2>1. s \subseteq Ranges(Len(text))
    OBVIOUS
  <2> QED
    BY <1>1, <1>2, <2>1, LatestIs
<1>3. base \in D
  <2>1. 1 \in 1..(Len(text) + 1)
    BY <1>1
  <2> QED
    BY <2>1 DEF Partial
<1>4. MaskRanges(text, R) = iter[R].out \o SubSeq(text, iter[R].copied, Len(text))
  BY DEF MaskRanges, Sweep, MapThenFoldSet, Taken
<1>5. \E f : Goes(f)
  <2>1. F \in [R \X D -> D]
    <3>1. ASSUME NEW p \in R \X D PROVE Taken(text, p[1], p[2]) \in D
      <4>1. p[1] \in Ranges(Len(text)) /\ p[2] \in D
        OBVIOUS
      <4> QED
        BY <4>1, TakenIs
    <3> QED
      BY <3>1
  <2>2. \A s \in SUBSET R : s # {} => last[s] \in s
    BY <1>2
  <2> HIDE DEF D, base
  <2>3. PICK f \in [SUBSET R -> D] : Folds(f, R, last, base, F)
    <3> HIDE DEF last, F
    <3> QED
      BY <1>1, <1>3, <2>1, <2>2, FoldIs, Zenon
  <2>4. ASSUME NEW s \in SUBSET R
        PROVE  f[s] = IF s = {} THEN base ELSE Taken(text, Latest(s), f[s \ {Latest(s)}])
    <3>1. CASE s = {}
      BY <2>3, <3>1 DEF Folds
    <3>2. CASE s # {}
      <4>1. last[s] = Latest(s) /\ last[s] \in R /\ s \ {last[s]} \in SUBSET R
        BY <2>2, <3>2
      <4>2. f[s] = F[<<last[s], f[s \ {last[s]}]>>]
        BY <2>3, <3>2 DEF Folds
      <4>3. f[s \ {last[s]}] \in D
        BY <2>3, <4>1
      <4>4. <<last[s], f[s \ {last[s]}]>> \in R \X D
        BY <4>1, <4>3
      <4> HIDE DEF last
      <4>5. F[<<last[s], f[s \ {last[s]}]>>] = Taken(text, last[s], f[s \ {last[s]}])
        BY <4>4
      <4> QED
        BY <3>2, <4>1, <4>2, <4>5
    <3> QED
      BY <3>1, <3>2
  <2>5. Goes(f)
    BY <2>3, <2>4
  <2> QED
    BY <2>5
<1>6. Goes(iter)
  BY <1>5, Zenon
<1> HIDE DEF iter
<1>7. \A s \in SUBSET R :
        iter[s] = IF s = {} THEN base ELSE Taken(text, Latest(s), iter[s \ {Latest(s)}])
  <2> HIDE DEF base
  <2> QED
    BY <1>6
<1> HIDE DEF D
<1> DEFINE Good(s) == iter[s] \in D /\ \E pos : Swept(text, s, iter[s], pos)
           T == {n \in Nat : \A s \in SUBSET R : Cardinality(s) = n => Good(s)}
<1>8. \A s \in SUBSET R : IsFiniteSet(s) /\ Cardinality(s) \in Nat
  <2>1. \A s \in SUBSET R : IsFiniteSet(s)
    BY <1>1, FS_Subset
  <2> QED
    BY <2>1, FS_CardinalityType
<1>9. 0 \in T
  <2> SUFFICES ASSUME NEW s \in SUBSET R, Cardinality(s) = 0 PROVE Good(s)
    OBVIOUS
  <2>1. s = {}
    BY <1>8, FS_EmptySet
  <2>2. iter[s] = base
    BY <1>7, <2>1
  <2> DEFINE pos == [k \in 1..0 |-> 0]
  <2>3. pos \in [1..0 -> 0..Len(text)]
    BY <1>1
  <2>4. Swept(text, s, base, pos)
    BY <1>1, <2>1, <2>3 DEF Swept, Copies, Outside
  <2> QED
    BY <1>3, <2>2, <2>4
<1>10. ASSUME NEW n \in Nat, n \in T PROVE n + 1 \in T
  <2> SUFFICES ASSUME NEW s \in SUBSET R, Cardinality(s) = n + 1 PROVE Good(s)
    OBVIOUS
  <2>1. s # {}
    <3>1. Cardinality({}) = 0 /\ n + 1 # 0 /\ Cardinality(s) = n + 1
      BY FS_EmptySet
    <3> QED
      BY <3>1
  <2> DEFINE x == Latest(s)
             t == s \ {x}
  <2>2. x \in s /\ (\A q \in s : q[1] <= x[1]) /\ t \in SUBSET R /\ s = t \cup {x} /\ x \in Ranges(Len(text))
    BY <1>2, <2>1
  <2>3. Cardinality(t) = n
    BY <1>8, <2>2, FS_RemoveElement
  <2>4. iter[s] = Taken(text, x, iter[t])
    BY <1>7, <2>1
  <2> HIDE DEF x, t
  <2>5. iter[t] \in D /\ \E pos : Swept(text, t, iter[t], pos)
    BY <1>10, <2>2, <2>3
  <2>6. PICK pos : Swept(text, t, iter[t], pos)
    BY <2>5
  <2>7. t \subseteq Ranges(Len(text)) /\ \A q \in t : q[1] <= x[1]
    BY <2>2
  <2>8. \E to : Swept(text, t \cup {x}, Taken(text, x, iter[t]), to)
    BY <2>2, <2>5, <2>6, <2>7, SweepGoesOn DEF D
  <2>9. Taken(text, x, iter[t]) \in D
    BY <2>2, <2>5, TakenIs DEF D
  <2> QED
    BY <2>2, <2>4, <2>8, <2>9
<1> HIDE DEF T
<1>11. Cardinality(R) \in T
  BY <1>8, <1>9, <1>10, SetInduction
<1>12. Good(R)
  BY <1>11 DEF T
<1>13. PICK pos : Swept(text, R, iter[R], pos)
  BY <1>12
<1> QED
  BY <1>4, <1>12, <1>13 DEF D

\* A mask over some ranges: what is outside them is there, each character in
\* its order, and of what they cover nothing is.
LEMMA RangesMasked ==
  ASSUME NEW U, MASK \in U, NEW text \in Seq(U), NEW R, R \subseteq Ranges(Len(text))
  PROVE  /\ MaskRanges(text, R) \in Seq(U)
         /\ \E pos : /\ Copies(text, MaskRanges(text, R), pos)
                     /\ \A k \in 1..Len(MaskRanges(text, R)) : pos[k] # 0 => Outside(pos[k], R)
                     /\ \A p \in 1..Len(text) : Outside(p, R) =>
                          \E k \in 1..Len(MaskRanges(text, R)) : pos[k] = p
<1>1. PICK done \in Partial(U, text) :
        /\ MaskRanges(text, R) = done.out \o SubSeq(text, done.copied, Len(text))
        /\ \E pos : Swept(text, R, done, pos)
  BY SweepIs
<1>2. PICK pos : Swept(text, R, done, pos)
  BY <1>1
<1> DEFINE shown == MaskRanges(text, R)
           L == Len(text)
           a == done.copied
           b == L + 1
           out == done.out
<1>3. L \in Nat /\ a \in 1..(L + 1) /\ out \in Seq(U) /\ Len(out) \in Nat /\ b - 1 = L
  BY DEF Partial
<1>4. shown = out \o SubSeq(text, a, b - 1)
  BY <1>1, <1>3
<1>5. /\ Copies(text, out, pos)
      /\ \A k \in 1..Len(out) : pos[k] # 0 => pos[k] < a /\ Outside(pos[k], R)
      /\ \A p \in 1..(a - 1) : Outside(p, R) => \E k \in 1..Len(out) : pos[k] = p
      /\ out # <<>> => pos[Len(out)] = 0
      /\ \A r \in R : r[2] <= a
  BY <1>2 DEF Swept
<1>6. PieceNext(text, out, pos, a, b)
  <2>1. b \in a..(L + 1)
    BY <1>3
  <2>2. \A k \in 1..Len(out) : pos[k] < a
    BY <1>3, <1>5
  <2> QED
    BY <1>3, <1>5, <2>1, <2>2 DEF PieceNext
<1> HIDE DEF shown, L, a, b, out
<1>7. shown \in Seq(U) /\ \E to : WithPiece(text, out, pos, a, b, shown, to)
  BY <1>3, <1>4, <1>6, PieceCopies
<1>8. PICK to : WithPiece(text, out, pos, a, b, shown, to)
  BY <1>7
<1>9. /\ Copies(text, shown, to)
      /\ \A k \in 1..Len(shown) : to[k] \in a..(b - 1) \/ \E j \in 1..Len(out) : to[k] = pos[j]
      /\ \A j \in 1..Len(out) : \E k \in 1..Len(shown) : to[k] = pos[j]
      /\ \A p \in a..(b - 1) : \E k \in 1..Len(shown) : to[k] = p
  BY <1>8 DEF WithPiece
<1>10. \A r \in R : r[2] \in 1..(L + 1)
  BY DEF Ranges, L
<1>11. ASSUME NEW k \in 1..Len(shown), to[k] # 0 PROVE Outside(to[k], R)
  <2>1. CASE to[k] \in a..(b - 1)
    <3>1. \A r \in R : ~(to[k] < r[2])
      BY <1>3, <1>5, <1>10, <2>1
    <3> QED
      BY <3>1 DEF Outside
  <2>2. CASE \E j \in 1..Len(out) : to[k] = pos[j]
    BY <1>5, <1>11, <2>2
  <2> QED
    BY <1>9, <2>1, <2>2
<1>12. ASSUME NEW p \in 1..L, Outside(p, R) PROVE \E k \in 1..Len(shown) : to[k] = p
  <2>1. CASE p < a
    <3>1. p \in 1..(a - 1)
      BY <1>3, <2>1
    <3>2. PICK j \in 1..Len(out) : pos[j] = p
      BY <1>5, <1>12, <3>1
    <3> QED
      BY <1>9, <3>2
  <2>2. CASE ~(p < a)
    <3>1. p \in a..(b - 1)
      BY <1>3, <2>2
    <3> QED
      BY <1>9, <3>1
  <2> QED
    BY <2>1, <2>2
<1> QED
  BY <1>7, <1>9, <1>11, <1>12 DEF shown, L

\* The ranges that a set is masked over.
Matches(set, text) == UNION {MatchIndices(value, text) : value \in set}

LEMMA MatchesInText ==
  ASSUME NEW U, NEW text \in Seq(U), NEW set, set \subseteq Seq(U) \ {<<>>}
  PROVE  Matches(set, text) \subseteq Ranges(Len(text))
<1> SUFFICES ASSUME NEW value \in set, NEW r \in MatchIndices(value, text) PROVE r \in Ranges(Len(text))
  BY DEF Matches
<1>1. value \in Seq(U) /\ value # <<>>
  OBVIOUS
<1>2. IsMatch(r, value, text)
  BY <1>1, MatchesAre
<1> QED
  BY <1>2 DEF IsMatch, Ranges

\* What stands in a masked text stood in the text: between two masks nothing
\* was taken out.
LEMMA StoodTogether ==
  ASSUME NEW U, NEW text \in Seq(U), NEW shown \in Seq(U), NEW pos, Copies(text, shown, pos),
         NEW value \in Seq(U \ {MASK}), value # <<>>,
         NEW i \in DOMAIN shown, IsAt(value, shown, i)
  PROVE  pos[i] # 0 /\ pos[i] \in DOMAIN text /\ IsAt(value, text, pos[i])
<1> DEFINE n == Len(value)
           L == Len(text)
           m == Len(shown)
<1>1. /\ n \in Nat /\ n > 0 /\ L \in Nat /\ m \in Nat /\ i \in 1..m
      /\ DOMAIN text = 1..L /\ DOMAIN shown = 1..m
      /\ \A k \in 1..n : value[k] # MASK
  OBVIOUS
<1>2. i + n <= m + 1 /\ SubSeq(shown, i, (i + n) - 1) = value
  BY DEF IsAt
<1>3. \A k \in 1..n : value[k] = shown[(i + k) - 1] /\ (i + k) - 1 \in 1..m
  <2>1. (i + n) - 1 \in 1..m /\ i <= (i + n) - 1
    BY <1>1, <1>2
  <2>2. \A k \in 1..n : SubSeq(shown, i, (i + n) - 1)[k] = shown[(i + k) - 1]
    BY <1>1, <2>1
  <2> HIDE DEF n, m
  <2> QED
    BY <1>1, <1>2, <2>2
<1>4. /\ \A k \in 1..m : pos[k] \in 0..L
      /\ \A k \in 1..m : pos[k] = 0 => shown[k] = MASK
      /\ \A k \in 1..m : pos[k] # 0 => shown[k] = text[pos[k]]
      /\ \A k \in 1..m : k + 1 \in 1..m /\ pos[k] # 0 /\ pos[k + 1] # 0 => pos[k + 1] = pos[k] + 1
  BY DEF Copies
<1> HIDE DEF n, L, m
<1>5. \A k \in 1..n : pos[(i + k) - 1] # 0 /\ pos[(i + k) - 1] \in 1..L
  <2> SUFFICES ASSUME NEW k \in 1..n PROVE pos[(i + k) - 1] # 0 /\ pos[(i + k) - 1] \in 1..L
    OBVIOUS
  <2>1. (i + k) - 1 \in 1..m /\ shown[(i + k) - 1] # MASK
    BY <1>1, <1>3
  <2>2. pos[(i + k) - 1] # 0 /\ pos[(i + k) - 1] \in 0..L
    BY <1>4, <2>1
  <2> QED
    BY <1>1, <2>2
<1> DEFINE S == {k \in Nat : k + 1 \in 1..n => pos[i + k] = pos[i] + k}
<1>6. 0 \in S
  <2>1. i + 0 = i /\ pos[i] \in 0..L
    BY <1>1, <1>4
  <2>2. pos[i + 0] = pos[i] + 0
    BY <1>1, <2>1
  <2> QED
    BY <2>2
<1>7. ASSUME NEW k \in Nat, k \in S PROVE k + 1 \in S
  <2> SUFFICES ASSUME (k + 1) + 1 \in 1..n PROVE pos[i + (k + 1)] = pos[i] + (k + 1)
    OBVIOUS
  <2>1. k + 1 \in 1..n /\ (i + (k + 1)) - 1 = i + k /\ (i + ((k + 1) + 1)) - 1 = i + (k + 1) /\ (i + k) + 1 = i + (k + 1)
    BY <1>1
  <2>2. pos[i + k] # 0 /\ pos[i + (k + 1)] # 0 /\ i + k \in 1..m /\ i + (k + 1) \in 1..m
    BY <1>3, <1>5, <2>1
  <2>3. pos[i + (k + 1)] = pos[i + k] + 1
    BY <1>4, <2>1, <2>2
  <2>4. pos[i + k] = pos[i] + k
    BY <1>7, <2>1
  <2>5. (pos[i] + k) + 1 = pos[i] + (k + 1)
    <3>1. pos[i] \in 0..L
      BY <1>1, <1>4
    <3>2. pos[i] \in Nat
      BY <1>1, <3>1
    <3>3. \A p \in Nat : (p + k) + 1 = p + (k + 1)
      OBVIOUS
    <3> QED
      BY <3>2, <3>3
  <2> QED
    BY <2>3, <2>4, <2>5
<1>8. \A k \in Nat : k \in S
  <2> HIDE DEF S
  <2> QED
    BY <1>6, <1>7, SetInduction
<1>9. \A k \in 1..n : /\ pos[(i + k) - 1] = (pos[i] + k) - 1
                      /\ value[k] = text[(pos[i] + k) - 1] /\ (pos[i] + k) - 1 \in 1..L
  <2> SUFFICES ASSUME NEW k \in 1..n
               PROVE  /\ pos[(i + k) - 1] = (pos[i] + k) - 1
                      /\ value[k] = text[(pos[i] + k) - 1] /\ (pos[i] + k) - 1 \in 1..L
    OBVIOUS
  <2>1. k - 1 \in Nat /\ (k - 1) + 1 \in 1..n /\ i + (k - 1) = (i + k) - 1
    BY <1>1
  <2>2. pos[i + (k - 1)] = pos[i] + (k - 1)
    BY <1>8, <2>1
  <2>3. pos[i] \in 0..L
    BY <1>1, <1>4
  <2>4. pos[(i + k) - 1] = (pos[i] + k) - 1
    BY <1>1, <2>1, <2>2, <2>3
  <2> QED
    BY <1>3, <1>4, <1>5, <2>4
<1>10. pos[i] # 0 /\ pos[i] \in 1..L
  <2>1. 1 \in 1..n /\ (i + 1) - 1 = i
    BY <1>1
  <2> QED
    BY <1>5, <2>1
<1>11. pos[i] + n <= L + 1
  <2>1. n \in 1..n
    BY <1>1
  <2> QED
    BY <1>1, <1>9, <1>10, <2>1
<1>12. SubSeq(text, pos[i], (pos[i] + n) - 1) = value
  <2> DEFINE p == pos[i]
             piece == SubSeq(text, p, (p + n) - 1)
  <2>1. p \in 1..L /\ (p + n) - 1 \in 1..L /\ p <= (p + n) - 1 /\ ((p + n) - 1) - p + 1 = n
    BY <1>1, <1>10, <1>11
  <2> HIDE DEF p
  <2>2. piece \in Seq(U) /\ Len(piece) = n /\ \A k \in 1..n : piece[k] = text[(p + k) - 1]
    BY <1>1, <2>1 DEF L
  <2>3. value \in Seq(U) /\ Len(value) = n
    BY DEF n
  <2> HIDE DEF piece
  <2>4. \A k \in 1..n : piece[k] = value[k]
    BY <1>9, <2>2 DEF p
  <2>5. piece = value
    BY <2>2, <2>3, <2>4
  <2> QED
    BY <2>5 DEF piece, p
<1> QED
  BY <1>1, <1>10, <1>11, <1>12 DEF IsAt, n, L

\* However the values of a set overlap in a text, or one is a part of another:
\* masked, none of them is left whole, what no match covers is there, each
\* character in its order, and of what a match covers nothing is
\* (privacy.rs: Secrets::mask, mask_ranges).
THEOREM MasksAreExact ==
  ASSUME NEW U, MASK \in U, NEW text \in Seq(U), NEW set, set \subseteq Seq(U \ {MASK}) \ {<<>>}
  PROVE  /\ \A value \in set : \A i \in DOMAIN MaskSet(set, text) :
              ~IsAt(value, MaskSet(set, text), i)
         /\ \E pos : /\ Copies(text, MaskSet(set, text), pos)
                     /\ {pos[k] : k \in DOMAIN MaskSet(set, text)} \ {0}
                          = {p \in DOMAIN text : Outside(p, Matches(set, text))}
<1> DEFINE shown == MaskSet(set, text)
           R == Matches(set, text)
<1>1. set \subseteq Seq(U) \ {<<>>}
  <2>1. \A value \in Seq(U \ {MASK}) : value \in Seq(U)
    OBVIOUS
  <2> QED
    BY <2>1
<1>2. R \subseteq Ranges(Len(text))
  BY <1>1, MatchesInText
<1>3. shown = MaskRanges(text, R)
  BY DEF MaskSet, Matches
<1> HIDE DEF shown, R
<1>4. /\ shown \in Seq(U)
      /\ \E pos : /\ Copies(text, shown, pos)
                  /\ \A k \in 1..Len(shown) : pos[k] # 0 => Outside(pos[k], R)
                  /\ \A p \in 1..Len(text) : Outside(p, R) => \E k \in 1..Len(shown) : pos[k] = p
  BY <1>2, <1>3, RangesMasked
<1>5. PICK pos : /\ Copies(text, shown, pos)
                 /\ \A k \in 1..Len(shown) : pos[k] # 0 => Outside(pos[k], R)
                 /\ \A p \in 1..Len(text) : Outside(p, R) => \E k \in 1..Len(shown) : pos[k] = p
  BY <1>4
<1>6. DOMAIN shown = 1..Len(shown) /\ DOMAIN text = 1..Len(text) /\ Len(text) \in Nat
  BY <1>4
<1>7. ASSUME NEW value \in set, NEW i \in DOMAIN shown, IsAt(value, shown, i) PROVE FALSE
  <2>1. value \in Seq(U \ {MASK}) /\ value \in Seq(U) /\ value # <<>>
    BY <1>1
  <2>2. pos[i] # 0 /\ pos[i] \in DOMAIN text /\ IsAt(value, text, pos[i])
    BY <1>4, <1>5, <1>7, <2>1, StoodTogether
  <2>3. PICK r \in MatchIndices(value, text) : r[1] <= pos[i] /\ pos[i] < r[2]
    BY <2>1, <2>2, MatchesAre
  <2>4. r \in R
    BY <2>3 DEF R, Matches
  <2> QED
    BY <1>5, <1>6, <2>2, <2>3, <2>4 DEF Outside
<1>8. {pos[k] : k \in DOMAIN shown} \ {0} = {p \in DOMAIN text : Outside(p, R)}
  <2>1. \A k \in DOMAIN shown : pos[k] \in 0..Len(text)
    BY <1>5, <1>6 DEF Copies
  <2>2. \A k \in DOMAIN shown : pos[k] # 0 => pos[k] \in DOMAIN text /\ Outside(pos[k], R)
    BY <1>5, <1>6, <2>1
  <2>3. \A p \in DOMAIN text : p # 0 /\ (Outside(p, R) => \E k \in DOMAIN shown : pos[k] = p)
    BY <1>5, <1>6
  <2> QED
    BY <2>2, <2>3
<1> QED
  BY <1>5, <1>7, <1>8 DEF shown, R

\* A JSON document, masked by the place of its hits first, has none whole
\* either (privacy.rs: Redactor::mask_json).
THEOREM DocumentsAreMasked ==
  ASSUME NEW U, MASK \in U, NEW text \in Seq(U), NEW set, set \subseteq Seq(U \ {MASK}) \ {<<>>},
         NEW fields, {h.range : h \in JsonHits(text, fields)} \subseteq Ranges(Len(text))
  PROVE  \A value \in set : \A i \in DOMAIN MaskJson(set, text, fields) :
           ~IsAt(value, MaskJson(set, text, fields), i)
<1> DEFINE placed == MaskRanges(text, {h.range : h \in JsonHits(text, fields)})
<1>1. placed \in Seq(U)
  BY RangesMasked
<1>2. MaskJson(set, text, fields) = MaskSet(set, placed)
  BY DEF MaskJson
<1> HIDE DEF placed
<1> QED
  BY <1>1, <1>2, MasksAreExact
=============================================================================
