--------------------------------- MODULE Tables ---------------------------------
(***************************************************************************)
(* The database steps (db/value.rs, db/plan.rs, db/ops.rs and the three    *)
(* platforms): a one-line list or a table becomes pairs of a column and a  *)
(* value, the pairs become a statement with binds, and what the server     *)
(* answers becomes variables.  Server operators are external.              *)
(*                                                                         *)
(* A schema is a sequence of columns, each [name, type, pk, notNull,       *)
(* default, identity].  Type "uuid" is one the platform has the client     *)
(* generate, "binary" one it will not bind.  A platform is [returning,     *)
(* numbered, nullGenerates]: Postgres numbers its binds, MySQL and MariaDB *)
(* take them in order and generate an id for a NULL; MySQL returns none.   *)
(***************************************************************************)
EXTENDS Naturals, Sequences, SequencesExt, FiniteSetsExt

Null == "NULL"
\* What the client, the clock, a default and the server's counter give.
Uuid == "a new uuid"
Clock == "now()"
Default == "its default"
NextId == "the next id"
Generated == {Uuid, Clock, Default, NextId}
-----------------------------------------------------------------------------
(* Pairs: a text is a sequence of characters.                              *)

Space == " "
Comma == ","
Colon == ":"
Backslash == "\\"
Blank(c) == c = Space
Trim(text) ==
  LET said == {k \in DOMAIN text : ~Blank(text[k])}
  IN  IF said = {} THEN <<>> ELSE SubSeq(text, Min(said), Max(said))

\* Slip: an escaped comma is one like any other.
SlipIsEscaped(text, k) == FALSE
\* A comma behind a backslash, which is not shown.
IsEscaped(text, k) == k > 1 /\ text[k - 1] = Backslash

\* The pieces before character k of a text and the one that it is in, read on.
ReadOn(before, text, k) ==
  CASE text[k] # Comma -> [pieces |-> before.pieces, last |-> Append(before.last, text[k])]
    [] text[k] = Comma /\ IsEscaped(text, k) ->
         [pieces |-> before.pieces, last |-> Append(Front(before.last), Comma)]
    [] text[k] = Comma /\ ~IsEscaped(text, k) ->
         [pieces |-> Append(before.pieces, before.last), last |-> <<>>]
PiecesRead(text) ==
  LET read[k \in 0..Len(text)] ==
        IF k = 0 THEN [pieces |-> <<>>, last |-> <<>>] ELSE ReadOn(read[k - 1], text, k)
  IN  read[Len(text)]
Pieces(text) == Append(PiecesRead(text).pieces, PiecesRead(text).last)

Colons(piece) == {k \in DOMAIN piece : piece[k] = Colon}
ColumnIn(piece) == Trim(SubSeq(piece, 1, Min(Colons(piece)) - 1))
ValueBehind(piece) == Trim(SubSeq(piece, Min(Colons(piece)) + 1, Len(piece)))

BadPairs == <<"bad pairs">>
ParseOneliner(text) ==
  LET pieces == Pieces(text)
  IN  CASE Trim(text) = <<>> -> <<>>
        [] Trim(text) # <<>> /\ \E p \in DOMAIN pieces : Colons(pieces[p]) = {} \/ ColumnIn(pieces[p]) = <<>> ->
             BadPairs
        [] OTHER -> [p \in DOMAIN pieces |-> <<ColumnIn(pieces[p]), ValueBehind(pieces[p])>>]
-----------------------------------------------------------------------------
(* Statements.  A condition's operator is on its column.                   *)

Condition(column, op) == [column |-> column, op |-> op]
Refused == [refused |-> TRUE]
ColumnOf(schema, name) == CHOOSE c \in ToSet(schema) : c.name = name
Bindable(schema, name) == \E c \in ToSet(schema) : c.name = name /\ c.type # "binary"
PkColumns(schema) == {c \in ToSet(schema) : c.pk}
NamesIn(values) == {values[k][1].column : k \in DOMAIN values}
GivenIn(values, name) == name \in NamesIn(values)
ValueIn(values, name) == values[CHOOSE k \in DOMAIN values : values[k][1].column = name][2]

\* Rule 2 and 3 of build_insert: what it fills in, column by column.
Fills(values, c) ==
  /\ ~GivenIn(values, c.name) /\ ~c.default /\ ~(c.pk /\ c.identity)
  /\ c.pk \/ c.notNull
Filled(c) == IF c.pk THEN Uuid ELSE Clock
CanFill(c) == IF c.pk THEN c.type = "uuid" ELSE c.type = "timestamp"

\* PkSource.
SourceOf(values, pk) ==
  IF GivenIn(values, pk.name)
  THEN LET v == ValueIn(values, pk.name)
       IN  CASE v # Null -> [known |-> v]
             [] v = Null /\ pk.identity -> [auto |-> TRUE]
             [] OTHER -> [unknown |-> TRUE]
  ELSE CASE pk.identity -> [auto |-> TRUE]
         [] ~pk.identity /\ Fills(values, pk) -> [known |-> Uuid]
         [] OTHER -> [unknown |-> TRUE]

HasReturning(platform, schema) == platform.returning /\ PkColumns(schema) # {}

\* Slip: what cannot be read back is found out behind the INSERT.
SlipNoSource(platform, schema, values) == FALSE
NoSource(platform, schema, values) ==
  /\ ~HasReturning(platform, schema)
  /\ \E pk \in PkColumns(schema) : "unknown" \in DOMAIN SourceOf(values, pk)

\* A column is pushed together with what is bound or called for it.
BuildInsert(platform, schema, values) ==
  LET fills == {c \in ToSet(schema) : Fills(values, c)}
  IN  IF \/ \E k \in DOMAIN values : values[k][1].op # "=" \/ ~Bindable(schema, values[k][1].column)
         \/ \E c \in fills : ~CanFill(c)
         \/ NoSource(platform, schema, values)
      THEN Refused
      ELSE [refused |-> FALSE,
            gives |-> [name \in NamesIn(values) \cup {c.name : c \in fills} |->
                         IF GivenIn(values, name) THEN ValueIn(values, name) ELSE Filled(ColumnOf(schema, name))]]

\* build_where: a part binds unless it asks about NULL; params count from start.
BuildWhere(schema, pairs, start) ==
  LET binds(k) == pairs[k][2] # Null
      before(k) == Cardinality({j \in 1..(k - 1) : binds(j)})
      bound == {k \in DOMAIN pairs : binds(k)}
  IN  IF \E k \in DOMAIN pairs : \/ ~Bindable(schema, pairs[k][1].column)
                                 \/ ~binds(k) /\ pairs[k][1].op \in {"like", "not like"}
      THEN Refused
      ELSE [refused |-> FALSE,
            parts |-> [k \in DOMAIN pairs |->
                         [column |-> pairs[k][1].column, op |-> pairs[k][1].op,
                          param |-> IF binds(k) THEN start + before(k) ELSE 0]],
            binds |-> [n \in 1..Cardinality(bound) |-> pairs[CHOOSE k \in bound : before(k) = n - 1][2]]]

\* Slip: the conditions number their binds from one again.
SlipFirstOfWhere(set) == 1
FirstOfWhere(set) == Len(set) + 1

BuildUpdate(schema, set, pairs) ==
  LET where == BuildWhere(schema, pairs, FirstOfWhere(set))
  IN  IF \/ pairs = <<>> \/ where.refused
         \/ \E k \in DOMAIN set : set[k][1].op # "=" \/ ~Bindable(schema, set[k][1].column)
      THEN Refused
      ELSE [refused |-> FALSE, parts |-> where.parts,
            binds |-> [k \in DOMAIN set |-> set[k][2]] \o where.binds,
            sets |-> [k \in DOMAIN set |-> [column |-> set[k][1].column, param |-> k]]]

\* DELETE and the presence check refuse an empty condition too.
BuildDelete(schema, pairs) == IF pairs = <<>> THEN Refused ELSE BuildWhere(schema, pairs, 1)
-----------------------------------------------------------------------------
(* The server: a row is a function from the columns' names.                *)

\* The value a placeholder stands for: by number, or by its place in the text.
Bound(platform, binds, param, place) == IF platform.numbered THEN binds[param] ELSE binds[place]

\* A comparison with NULL is not true; "%" matches every text.
Holds(op, is, with) ==
  CASE op = "=" -> is # Null /\ is = with
    [] op = "<>" -> is # Null /\ is # with
    [] op = "like" -> is # Null /\ with \in {is, "%"}
    [] op = "not like" -> is # Null /\ with \notin {is, "%"}

Selected(platform, table, stmt, shift) ==
  LET place(k) == shift + Cardinality({j \in 1..k : stmt.parts[j].param # 0})
      holds(row, k) ==
        LET part == stmt.parts[k] IN
        IF part.param = 0 THEN (row[part.column] = Null) = (part.op = "=")
        ELSE Holds(part.op, row[part.column], Bound(platform, stmt.binds, part.param, place(k)))
  IN  {r \in DOMAIN table : \A k \in DOMAIN stmt.parts : holds(table[r], k)}

Updated(platform, table, stmt) ==
  LET hit == Selected(platform, table, stmt, Len(stmt.sets))
      after(row) == [name \in DOMAIN row |->
        LET sets == {k \in DOMAIN stmt.sets : stmt.sets[k].column = name}
        IN  IF sets = {} THEN row[name]
            ELSE Bound(platform, stmt.binds, stmt.sets[Max(sets)].param, Max(sets))]
  IN  [r \in DOMAIN table |-> IF r \in hit THEN after(table[r]) ELSE table[r]]

\* The row an INSERT makes, or an error: a NULL where there may be none.
ServerRow(platform, schema, gives) ==
  LET made(c) == CASE c.name \in DOMAIN gives ->
                        IF gives[c.name] = Null /\ c.identity /\ platform.nullGenerates THEN NextId
                        ELSE gives[c.name]
                   [] c.name \notin DOMAIN gives ->
                        IF c.identity THEN NextId ELSE IF c.default THEN Default ELSE Null
  IN  [name \in {c.name : c \in ToSet(schema)} |-> made(ColumnOf(schema, name))]
ServerTakes(schema, row) == \A c \in ToSet(schema) : (c.notNull \/ c.pk) => row[c.name] # Null
-----------------------------------------------------------------------------
(* The insert step: its row, and the variables that name it.               *)

Answer(result, row, vars) == [result |-> result, row |-> row, vars |-> vars]
NoRow == [none |-> TRUE]

InsertStep(platform, schema, values) ==
  LET plan == BuildInsert(platform, schema, values)
      row == ServerRow(platform, schema, plan.gives)
      pks == PkColumns(schema)
      source(pk) == SourceOf(values, pk)
      \* Without RETURNING: as the plan knew it, or off the INSERT's own result.
      read(pk) == CASE HasReturning(platform, schema) -> row[pk.name]
                    [] ~HasReturning(platform, schema) /\ "known" \in DOMAIN source(pk) -> source(pk).known
                    [] ~HasReturning(platform, schema) /\ "auto" \in DOMAIN source(pk) -> NextId
                    [] OTHER -> Null
  IN  CASE plan.refused -> Answer("refused", NoRow, <<>>)
        [] ~plan.refused /\ ~ServerTakes(schema, row) -> Answer("error", NoRow, <<>>)
        [] OTHER -> Answer(IF \E pk \in pks : read(pk) = Null THEN "failed" ELSE "passed",
                           row, [pk \in pks |-> read(pk)])
-----------------------------------------------------------------------------
\* What an author writes for these pairs: a comma of a value is escaped.
EscapedCommas(value) ==
  LET text[c \in 0..Len(value)] ==
        IF c = 0 THEN <<>> ELSE text[c - 1] \o (IF value[c] = Comma THEN <<Backslash, Comma>> ELSE <<value[c]>>)
  IN  text[Len(value)]
WrittenPair(pairs, k) ==
  (IF k = 1 THEN <<>> ELSE <<Comma, Space>>) \o (pairs[k][1] \o <<Colon, Space>> \o EscapedCommas(pairs[k][2]))
Written(pairs) ==
  LET text[k \in 0..Len(pairs)] == IF k = 0 THEN <<>> ELSE text[k - 1] \o WrittenPair(pairs, k)
  IN  text[Len(pairs)]

\* The rows a condition means, and a row as SET means it.
Wants(row, where) ==
  \A k \in DOMAIN where :
    LET is == row[where[k][1].column]
    IN  IF where[k][2] = Null THEN (is = Null) = (where[k][1].op = "=")
        ELSE Holds(where[k][1].op, is, where[k][2])
Meant(row, set) ==
  [name \in DOMAIN row |-> IF GivenIn(set, name) THEN ValueIn(set, name) ELSE row[name]]
=============================================================================
