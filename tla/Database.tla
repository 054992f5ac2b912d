------------------------------- MODULE Database -------------------------------
(***************************************************************************)
(* The database steps of files that run side by side (db/mod.rs,           *)
(* db/ops.rs, steps/db.rs): the pools and the cache of schemas are shared, *)
(* the current connection and the variables are a file's own.  A statement *)
(* is sent, does its work on the server and is answered, and the           *)
(* connection may be lost on either side of that.  What a statement says   *)
(* is in Tables; here a builder refuses it or does not.                    *)
(***************************************************************************)
EXTENDS Naturals, Sequences, FiniteSets, SequencesExt

CONSTANTS Files,
          Connections, DefaultConnection,   \* declared under resources.db
          HasTables,                        \* [Connections -> the tables there]
          HasSequences,                     \* the connections that know sequences
          Menu,                             \* the steps that files are made of
          Budget,                           \* [Files -> how many of them each has]
          MaxAttempts,                      \* of a polled assertion
          MaxFaults                         \* connections lost, statements refused

VARIABLES rows,     \* the servers: [Connections -> a set of rows]
          nextId,   \* the servers: [Connections -> the id of the next row]
          cache,    \* Db::cache: what each key was introspected to
          file,     \* [Files -> a World's share of it, and its step]
          faults

\* A table reference: its prefix, or none, and a table.
NoPrefix == "no prefix"
Ref == [conn : STRING, table : STRING]

\* Steps.  Have is one row, or the rows of a table (indexed), or a list of
\* tables, which may be empty; whose is the rows a condition means: those of the file or all.
Use == [kind : {"use"}, name : STRING]
Have == [kind : {"have"}, refs : Seq(Ref), indexed : BOOLEAN]
Ask == [kind : {"update", "delete", "clear", "extract", "exists", "absent"},
        refs : [{1} -> Ref], whose : {"own", "all"}]
Routine == [kind : {"sequence", "call"}, refs : [{1} -> Ref]]
ASSUME DatabaseAssumption ==
  /\ DefaultConnection \in Connections
  /\ Menu \subseteq Use \cup Have \cup Ask \cup Routine

dbVars == <<rows, nextId, cache, file, faults>>
NeedsSchema(step) == step.kind \notin {"sequence", "call"}

NoStep == [kind |-> "over"]
NoId == 0
DbInit ==
  /\ rows = [c \in Connections |-> {}]
  /\ nextId = [c \in Connections |-> 1]
  /\ cache = [k \in {} |-> {}]
  /\ file = [f \in Files |-> [current |-> DefaultConnection, vars |-> [n \in {} |-> NoId],
               step |-> NoStep, done |-> 0, at |-> 0, pc |-> "over", result |-> "passed",
               schema |-> <<>>, sent |-> <<>>, shown |-> <<>>, made |-> <<>>, touched |-> 0,
               attempt |-> 0, used |-> <<>>]]
  /\ faults = 0
-----------------------------------------------------------------------------
CurrentRef(f) == file[f].step.refs[file[f].at]
\* The connection of a reference, or the scenario's.
ConnectionOf(f) == IF CurrentRef(f).conn = NoPrefix THEN file[f].current ELSE CurrentRef(f).conn

\* Slip: a table has one schema, whoever asks.
SlipCacheKey(conn, table) == <<"anyone", table>>
CacheKey(conn, table) == <<conn, table>>

\* The name of a variable: of a step with a table, with the number of its row.
Variable(what, f) ==
  <<what, CurrentRef(f).table, IF file[f].step.kind = "have" /\ file[f].step.indexed THEN file[f].at ELSE 0>>
Fault == faults < MaxFaults /\ faults' = faults + 1

Settles(f, result) == [file EXCEPT ![f] = [file[f] EXCEPT !.pc = "over", !.result = result, !.done = @ + 1]]

\* A step begins; a new scenario may begin with it, and must behind a failure.
Begin(f, step, fresh) ==
  /\ file[f].pc = "over" /\ file[f].done < Budget[f]
  /\ file[f].result # "passed" => fresh
  /\ LET current == IF fresh THEN DefaultConnection ELSE file[f].current
         used == IF fresh THEN <<>> ELSE file[f].used
         known == step.kind = "use" /\ step.name \in Connections
         atOnce == step.kind = "use" \/ (step.kind = "have" /\ step.refs = <<>>)
         begun == [file[f] EXCEPT !.current = IF known THEN step.name ELSE current,
                     !.used = IF known THEN Append(used, step.name) ELSE used,
                     !.step = step, !.at = 1, !.pc = "resolve", !.result = "running", !.schema = <<>>,
                     !.sent = <<>>, !.shown = <<>>, !.made = <<>>, !.touched = 0, !.attempt = 1]
     IN  file' = [file EXCEPT ![f] =
                    IF atOnce
                    THEN [begun EXCEPT !.pc = "over", !.done = @ + 1,
                                       !.result = IF step.kind = "use" /\ ~known THEN "input" ELSE "passed"]
                    ELSE begun]
  /\ UNCHANGED <<rows, nextId, cache, faults>>

\* The builder has the schema: it refuses, or the statement goes out over the
\* connection and is shown with it.
Sends(f, schema) ==
  [file EXCEPT ![f] = [file[f] EXCEPT !.pc = "sent", !.schema = schema, !.sent = Append(@, ConnectionOf(f)),
                                !.shown = Append(@, IF CurrentRef(f).conn = NoPrefix THEN file[f].current
                                                    ELSE CurrentRef(f).conn)]]

\* A column the table has not is found as an answer would be.
Refuses(f) == \E class \in {"input", "db_statement"} : file' = Settles(f, class)

\* resolve: the prefix or the current connection, then the cache.
ReadSchema(f) ==
  /\ file[f].pc = "resolve"
  /\ LET conn == ConnectionOf(f)
         key == CacheKey(conn, CurrentRef(f).table)
     IN  \/ /\ conn \notin Connections
            /\ file' = Settles(f, "input")
            /\ UNCHANGED <<rows, nextId, cache, faults>>
         \/ /\ conn \in Connections /\ ~NeedsSchema(file[f].step)
            /\ file' = IF file[f].step.kind = "sequence" /\ conn \notin HasSequences
                       THEN Settles(f, "input") ELSE Sends(f, <<>>)
            /\ UNCHANGED <<rows, nextId, cache, faults>>
         \/ /\ conn \in Connections /\ NeedsSchema(file[f].step) /\ key \in DOMAIN cache
            /\ \/ file' = Sends(f, cache[key]) /\ UNCHANGED faults
               \/ Fault /\ Refuses(f)
            /\ UNCHANGED <<rows, nextId, cache>>
         \/ /\ conn \in Connections /\ NeedsSchema(file[f].step) /\ key \notin DOMAIN cache
            /\ file' = [file EXCEPT ![f].pc = "introspect"]
            /\ UNCHANGED <<rows, nextId, cache, faults>>

\* The answer of introspect, for which the cache was let go.
Introspected(f) ==
  /\ file[f].pc = "introspect"
  /\ LET conn == ConnectionOf(f)
         table == CurrentRef(f).table
         found == <<conn, table>>
         kept == [k \in DOMAIN cache \cup {CacheKey(conn, table)} |->
                    IF k = CacheKey(conn, table) THEN found ELSE cache[k]]
     IN  \/ Fault /\ file' = Settles(f, "db_connection") /\ UNCHANGED <<rows, nextId, cache>>
         \/ /\ table \notin HasTables[conn]
            /\ file' = Settles(f, "db_statement")
            /\ UNCHANGED <<rows, nextId, cache, faults>>
         \/ /\ table \in HasTables[conn]
            /\ cache' = kept
            /\ \/ file' = Sends(f, found) /\ UNCHANGED faults
               \/ Fault /\ Refuses(f)
            /\ UNCHANGED <<rows, nextId>>

\* The rows of the server that the statement of a file is about.
MeantRows(f) ==
  {r \in rows[ConnectionOf(f)] : /\ r.table = CurrentRef(f).table
                                 /\ file[f].step.kind # "clear" /\ file[f].step.whose = "own" => r.by = f}

\* The server does the statement, or refuses it, or is out of reach.
Serve(f) ==
  /\ file[f].pc = "sent"
  /\ LET conn == ConnectionOf(f)
         kind == file[f].step.kind
         here(change) == /\ rows' = [rows EXCEPT ![conn] = change]
                         /\ UNCHANGED <<cache, faults>>
         answers(made, touched) ==
           file' = [file EXCEPT ![f] = [file[f] EXCEPT !.pc = "answer", !.made = @ \o made, !.touched = touched]]
     IN  \/ /\ kind \in {"have", "sequence"}
            /\ nextId' = [nextId EXCEPT ![conn] = @ + 1]
            /\ answers(<<nextId[conn]>>, 1)
            /\ here(IF kind = "sequence" THEN rows[conn]
                    ELSE rows[conn] \cup {[id |-> nextId[conn], table |-> CurrentRef(f).table, by |-> f]})
         \/ kind = "call" /\ answers(<<>>, 0) /\ UNCHANGED <<rows, nextId, cache, faults>>
         \/ /\ kind \in {"update", "exists", "absent"}
            /\ answers(<<>>, Cardinality(MeantRows(f)))
            /\ UNCHANGED <<rows, nextId, cache, faults>>
         \/ /\ kind = "extract"
            /\ IF MeantRows(f) = {} THEN answers(<<>>, NoId) ELSE \E r \in MeantRows(f) : answers(<<>>, r.id)
            /\ UNCHANGED <<rows, nextId, cache, faults>>
         \/ /\ kind \in {"delete", "clear"}
            /\ answers(<<>>, Cardinality(MeantRows(f)))
            /\ here(rows[conn] \ MeantRows(f)) /\ UNCHANGED nextId
         \/ /\ Fault /\ \E class \in {"db_connection", "db_statement"} : file' = Settles(f, class)
            /\ UNCHANGED <<rows, nextId, cache>>

\* Slip: the id is asked for with a statement of its own, over the same pool.
SlipIdRead(f) == nextId[ConnectionOf(f)] - 1
\* RETURNING, the id of the INSERT's own result, or the value of the sequence.
IdRead(f) == Last(file[f].made)

Assigned(vars, name, value) == [n \in DOMAIN vars \cup {name} |-> IF n = name THEN value ELSE vars[n]]

\* The connection goes, or the answer cannot be read, and the row is made.
Unreadable == {"db_connection", "db_statement"}

\* What the step makes of the answer: the next row, a variable, a verdict.
Conclude(f) ==
  /\ file[f].pc = "answer"
  /\ LET it == file[f]
         kind == it.step.kind
         wanted == kind = "exists"
         assertion == kind \in {"exists", "absent"}
         passes(vars) == file' = [Settles(f, "passed") EXCEPT ![f].vars = vars]
     IN  \/ /\ kind = "have"
            /\ LET named == Assigned(it.vars, Variable("id", f), IdRead(f))
               IN  IF it.at = Len(it.step.refs) THEN passes(named)
                   ELSE file' = [file EXCEPT ![f] = [file[f] EXCEPT !.vars = named, !.at = @ + 1, !.pc = "resolve"]]
            /\ UNCHANGED faults
         \/ /\ kind \in {"sequence", "extract", "call"}
            /\ IF kind = "extract" /\ it.touched = NoId THEN file' = Settles(f, "assertion")
               ELSE passes(Assigned(it.vars, Variable(kind, f), IF kind = "sequence" THEN IdRead(f) ELSE it.touched))
            /\ UNCHANGED faults
         \/ /\ kind \in {"update", "delete", "clear"}
            /\ passes(Assigned(it.vars, Variable(IF kind = "update" THEN "updated" ELSE "deleted", f), it.touched))
            /\ UNCHANGED faults
         \/ /\ assertion /\ (it.touched > 0) = wanted
            /\ passes(it.vars) /\ UNCHANGED faults
         \/ /\ assertion /\ (it.touched > 0) # wanted
            /\ file' = IF it.attempt = MaxAttempts THEN Settles(f, "assertion")
                       ELSE [file EXCEPT ![f] = [file[f] EXCEPT !.attempt = @ + 1, !.pc = "resolve"]]
            /\ UNCHANGED faults
         \/ Fault /\ \E class \in Unreadable : file' = Settles(f, class)
  /\ UNCHANGED <<rows, nextId, cache>>

DbNext ==
  \E f \in Files :
    \/ \E step \in Menu, fresh \in BOOLEAN : Begin(f, step, fresh)
    \/ ReadSchema(f) \/ Introspected(f) \/ Serve(f) \/ Conclude(f)
DbSpec == DbInit /\ [][DbNext]_dbVars
-----------------------------------------------------------------------------
\* A statement runs where its reference says, or where the scenario's last
\* `I use` says, or on the default; the evidence names that connection, and the
\* builder had the schema of that table and no namesake's.
OnItsConnection ==
  \A f \in Files : file[f].pc \in {"sent", "answer"} =>
    LET scenario == IF file[f].used = <<>> THEN DefaultConnection ELSE Last(file[f].used)
        conn == IF CurrentRef(f).conn = NoPrefix THEN scenario ELSE CurrentRef(f).conn
    IN  /\ Last(file[f].sent) = conn
        /\ Last(file[f].shown) = conn
        /\ NeedsSchema(file[f].step) => file[f].schema = <<conn, CurrentRef(f).table>>

\* What a step that made rows left in the file's variables names those very
\* rows, whatever other files insert meanwhile: all of them if it passed, and
\* of a step that failed those before the one it failed at, which stay.
RowsNamed ==
  \A f \in Files : file[f].pc = "over" /\ file[f].step.kind = "have" =>
    LET it == file[f]
        name(k) == <<"id", it.step.refs[k].table, IF it.step.indexed THEN k ELSE 0>>
        unanswered == it.result \in Unreadable /\ Len(it.made) = it.at
        told == 1..(IF unanswered THEN it.at - 1 ELSE Len(it.made))
    IN  /\ it.result = "passed" => Len(it.made) = Len(it.step.refs)
        /\ it.result # "passed" => Len(it.made) = it.at - 1 \/ unanswered
        /\ \A k \in told : (\A j \in told : j > k => name(j) # name(k)) => it.vars[name(k)] = it.made[k]

\* A statement is done over the connection it means, and the variables it leaves
\* name the rows it made, whatever the steps of other files do in between.
StatementsLand == OnItsConnection /\ RowsNamed
===============================================================================
