-------------------------------- MODULE MCRules --------------------------------
(* The suites of a run (two files: s1 and s2 under a rule of the first, s3 *)
(* in the second, with a Background for the first, for its rule and for    *)
(* the second; three macros), then pairs of declarations, files, documents *)
(* and statements, and two files with steps for two databases.             *)
EXTENDS Rules, TLC
CONSTANTS s1, s2, s3

Known == [kind |-> "known"]
Bad == [kind |-> "bad"]
Lost == [kind |-> "lost"]
Macro(m) == [kind |-> "macro", to |-> m]
Include(s) == [kind |-> "include", to |-> s]

\* Every body takes a step of a set that lets calls chain, close a cycle
\* through includes, through macros and through both, and reach a bad step or
\* a lost include at any depth.
Bodies == [
  s1 : {<<Known>>, <<Bad>>, <<Lost>>, <<Macro(1)>>, <<Include(s1)>>, <<Known, Include(s3)>>},
  s2 : {<<Known>>, <<Bad>>, <<Macro(2), Include(s1)>>, <<Include(s3)>>},
  s3 : {<<>>, <<Bad>>, <<Lost>>, <<Macro(1)>>, <<Include(s1)>>, <<Include(s2)>>},
  m1 : {<<Known>>, <<Bad>>, <<Lost>>, <<Macro(1)>>, <<Known, Macro(2)>>, <<Include(s3)>>},
  m2 : {<<Known>>, <<Macro(1)>>, <<Include(s2)>>, <<Macro(3)>>},
  m3 : {<<Known>>, <<Macro(2)>>, <<Include(s1)>>},
  f1 : {<<>>, <<Include(s3)>>},
  r1 : {<<>>, <<Bad>>, <<Macro(2)>>},
  selected : {<<s1>>, <<s1, s2>>, <<s2>>}]

MCSuite(b) ==
  [macros |-> <<b.m1, b.m2, b.m3>>,
   own |-> s1 :> b.s1 @@ s2 :> b.s2 @@ s3 :> b.s3,
   blocks |-> s1 :> <<"f1">> @@ s2 :> <<"f1", "r1">> @@ s3 :> <<"f2">>,
   background |-> [f1 |-> b.f1, r1 |-> b.r1, f2 |-> <<Known>>],
   selected |-> b.selected]
\* Bound: at most MaxCalls of the suite's bodies hold a step that is not plain.
CONSTANT MaxCalls
Plain == {<<>>, <<Known>>}
MCSuites == {MCSuite(b) : b \in {c \in Bodies :
  Cardinality({f \in DOMAIN c \ {"selected"} : c[f] \notin Plain}) <= MaxCalls}}
-----------------------------------------------------------------------------
(* Declarations: every type bare, quoted and in front, with an optional    *)
(* part, and two numbers side by side; texts of up to three chunks.        *)
Quote == "\""
Literal(s) == [kind |-> "literal", spelled |-> s]
Param(n, t) == [kind |-> "param", name |-> n, type |-> t]
Q == Literal(<<<<Quote>>>>)
LetterA == Literal(<<<<"a">>>>)
Types == DOMAIN Match!TYPES
MCDeclarations ==
  {<<LetterA, Param("x", t)>> : t \in Types}
    \cup {<<LetterA, Q, Param("x", t), Q>> : t \in Types}
    \cup {<<Param("x", t), LetterA>> : t \in Types}
    \cup {<<Literal(<<<<"a", "a">>, <<"a">>>>), Param("x", t), Literal(<<<<"P">>, <<>>>>)>> :
            t \in {"any", "uint", "word"}}
    \cup {<<LetterA, Literal(<<<<Quote, "<">>>>), Param("x", "secret"), Q>>}
    \cup {<<LetterA>>, <<LetterA, Literal(<<<<"1">>>>)>>,
          <<LetterA, Param("x", "uint"), Param("y", "word")>>,
          <<LetterA, Param("x", "word"), Param("x", "uint")>>}
SlotOf(c) == <<"<", "<", c, ">", ">">>
Chunks == {<<"a">>, <<"1">>, <<"-">>, <<"G">>, <<"P">>, <<Quote>>, <<" ">>, SlotOf("a"), SlotOf("1"),
           <<Quote, "1", Quote>>, <<Quote, "G", Quote>>, <<Quote>> \o SlotOf("a") \o <<Quote>>, <<Quote>> \o SlotOf("1") \o <<Quote>>}
MCTexts == {a \o b \o c : a \in Chunks, b \in Chunks \cup {<<>>}, c \in Chunks \cup {<<>>}}
Entry(target, items) == [target |-> target, items |-> items, secrets |-> {1}]
OfAPlugin(items) == \A k \in DOMAIN items : items[k].kind = "param" => items[k].type \in {"any", "text"}
Registries ==
  {[about |-> "registry", entries |-> <<Entry(t, d), Entry("macro", e)>>] :
     t \in {"builtin", "macro"}, d \in Declarations, e \in Declarations}
  \cup {[about |-> "registry", entries |-> <<Entry("plugin", d), Entry("macro", e)>>] :
          d \in {f \in Declarations : OfAPlugin(f)}, e \in Declarations}
-----------------------------------------------------------------------------
(* Files: every gap between two steps, doc strings and tables with what    *)
(* looks like a step in them, tags, a rule, Examples of two blocks.        *)
Line(k) == [kind |-> k]
Note == [kind |-> "comment", says |-> "words"]
Hash == [kind |-> "comment", says |-> "nothing"]
Off == [kind |-> "comment", says |-> "step", known |-> TRUE]
Odd == [kind |-> "comment", says |-> "step", known |-> FALSE]
Blank == Line("blank")
Tags(names) == [kind |-> "tag", names |-> names]
Gaps == {<<>>, <<Off>>, <<Odd, Off>>, <<Blank, Note>>, <<Hash, Note, Hash, Off>>, <<Off, Note, Blank, Note>>}
Docs == {<<>>, <<Line("fence"), Off, Line("step"), Line("fence")>>, <<Line("row"), Line("row")>>}
Commented ==
  {a \o <<Line("feature"), Line("text"), Line("background"), Line("step")>> \o b \o <<Line("scenario")>>
     \o c \o <<Line("step")>> \o d \o e \o <<Line("step")>> \o f \o g \o <<Line("scenario"), Line("step")>> :
   a \in {<<>>, <<Line("language"), Note>>}, b \in {<<>>, <<Note>>, <<Off>>}, c \in {<<>>, <<Line("text"), Note>>},
   d \in Docs, e \in Gaps, f \in Gaps, g \in {<<>>, <<Tags(<<"t">>)>>}}
Blocks == {<<>>, <<Line("examples")>>, <<Line("examples"), Line("row"), Line("row")>>,
           <<Line("examples"), Line("row"), Note, Line("row"), Tags(<<"u">>), Line("examples"), Line("text"),
             Line("row"), Line("row")>>}
Tagged ==
  {<<Tags(<<"f">>), Line("feature"), Line("scenario"), Line("step")>> \o a \o b \o c
     \o <<Line("scenario"), Line("step")>> \o d \o <<Line("rule")>> \o e \o f \o <<Line("scenario"), Line("step")>> :
   a \in {<<>>, <<Off, Note, Blank, Note>>}, b \in {<<>>, <<Tags(<<"t">>)>>, <<Tags(<<"u", "t">>), Note>>},
   c \in Blocks, d \in {<<>>, <<Tags(<<"u">>)>>}, e \in {<<>>, <<Line("background"), Line("step"), Off>>},
   f \in {<<>>, <<Tags(<<"t">>), Blank>>}}
FileCases == {[about |-> "file", lines |-> f] : f \in Commented \cup Tagged}
MCTagFilters == {{}, {"t"}, {"u"}, {"f"}, {"t", "u"}}
-----------------------------------------------------------------------------
(* Documents: two entries, secrets of either in lists and maps, values of  *)
(* which one is a part of another or ends in a quote.                      *)
MCLowerOf == [K |-> "k", A |-> "a", B |-> "b"]
Str(text) == [kind |-> "string", text |-> text]
Seven == [kind |-> "number", text |-> <<"7">>]
True == [kind |-> "bool"]
Url(text, password) == [kind |-> "url", text |-> text, password |-> password]
List(items) == [kind |-> "list", items |-> items]
Map(entries) == [kind |-> "map", entries |-> entries]
Pair(key, value) == [key |-> key, value |-> value]
AB == <<"a", "b">>
Scalars == {Str(s) : s \in {<<"a">>, AB, <<"b", "a">>, <<"a", "b", "a">>, <<"a", Quote>>, <<Quote, "a", "b">>}}
            \cup {Seven, True, Url(<<"a", "b", "b">>, <<"b", "b">>)}
Escaped == Url(<<"a", "b", "%22">>, <<"b", "%22">>)
Branches == Scalars \cup {List(<<Str(AB), y>>) : y \in Scalars}
  \cup {Map(<<Pair(<<k>>, v)>>) : k \in {"k", "a"}, v \in {Str(AB), Seven, True}}
  \cup {List(<<List(<<Str(AB)>>), Map(<<Pair(<<"a">>, Str(<<"b", "a">>))>>)>>)}
  \cup {Map(<<Pair(<<"a">>, Escaped)>>)}
Documents ==
  {[about |-> "document", tree |-> Map(<<Pair(k, v), Pair(j, w)>>)] :
     k \in {<<"k">>, <<"a", "K">>, <<"a", "-", "k">>, <<"K", "k">>, <<"a">>}, v \in Branches,
     j \in {<<"k">>, <<"a">>}, w \in {Str(<<"a", "b", "a">>), Seven}}
MCTrees ==
  {d.tree : d \in Documents} \cup Branches \cup {Escaped}
    \cup UNION {{tree.items[k] : k \in DOMAIN tree.items} : tree \in {t \in Branches : t.kind = "list"}}
MCFields == {<<"k">>}
MCNumbers == {<<"7">>}
MCShown == UNION {[1..n -> {"a", "b"}] : n \in 3..5}
             \cup {<<"b", "a", Mask!ESCAPE, Quote, "b">>, <<"a", "%22", "b">>}
-----------------------------------------------------------------------------
(* Statements: every key a table may have beside one column, its values    *)
(* given, left out and NULL; updates of a table with every row, under      *)
(* conditions of up to two parts; lists with commas, colons and spaces.    *)
Postgres == [returning |-> TRUE, numbered |-> TRUE, nullGenerates |-> FALSE]
MySql == [returning |-> FALSE, numbered |-> FALSE, nullGenerates |-> TRUE]
MariaDb == [MySql EXCEPT !.returning = TRUE]
Key(n, t, d, i) == [name |-> n, type |-> t, pk |-> TRUE, notNull |-> TRUE, default |-> d, identity |-> i]
Column(n, t, nn, d) == [name |-> n, type |-> t, pk |-> FALSE, notNull |-> nn, default |-> d, identity |-> FALSE]
Keys == {<<>>} \cup {<<Key("id", t, d, i)>> : t \in {"int", "uuid"}, d \in BOOLEAN, i \in BOOLEAN}
          \cup {<<Key("id", "int", FALSE, TRUE), Key("k", t, FALSE, FALSE)>> : t \in {"int", "uuid"}}
Counter == [Column("n", "int", TRUE, FALSE) EXCEPT !.identity = TRUE]
MCTables == {k \o <<Column("a", t, nn, d)>> :
               k \in Keys, t \in {"text", "timestamp", "binary"}, nn \in BOOLEAN, d \in BOOLEAN}
            \cup {k \o <<Counter>> : k \in Keys}
Given(column, value) == <<Db!Condition(column, "="), value>>
ValuesOf(schema) ==
  LET names == {schema[k].name : k \in DOMAIN schema}
  IN  {FlattenSeq([k \in DOMAIN schema |->
         IF f[schema[k].name] = "left out" THEN <<>> ELSE <<Given(schema[k].name, f[schema[k].name])>>]) :
       f \in [names -> {"left out", "x", Db!Null}]}
Inserts == {[about |-> "insert", platform |-> p, schema |-> s, values |-> ValuesOf(s)] :
              p \in {Postgres, MySql, MariaDb}, s \in MCTables}
MCSchema == <<Key("id", "int", FALSE, TRUE), Column("a", "text", FALSE, FALSE), Column("b", "text", FALSE, FALSE)>>
MCTable == [r \in [a : {"x", "y", Db!Null}, b : {"x", "%", Db!Null}] |-> r]
Conditions == {<<Db!Condition(c, op), v>> :
                 c \in {"a", "b"}, op \in {"=", "<>", "like", "not like"}, v \in {"x", "%", Db!Null}}
Updates ==
  {[about |-> "update", platform |-> p, set |-> s, where |-> w] :
     p \in {Postgres, MySql}, s \in {<<Given("a", "z")>>, <<Given("a", "x"), Given("b", Db!Null)>>},
     w \in {<<>>} \cup {<<c>> : c \in Conditions} \cup {<<c, d>> : c \in Conditions, d \in Conditions}}
Values == UNION {[1..n -> {"a", ",", ":", " "}] : n \in 0..2} \cup {<<"\\", ",">>, <<"\\", "a">>}
Lines == {[about |-> "line", pairs |-> <<<<<<"c">>, v>>, <<<<"d">>, w>>>>] : v \in Values, w \in Values}

-----------------------------------------------------------------------------
(* Steps for two databases that share the name of a table, one of which    *)
(* has sequences; one name is of no connection and of no table.            *)
MCHasTables == "a" :> {"t"} @@ "b" :> {"t", "u"}
Own(table) == [conn |-> "no prefix", table |-> table]
Of(conn, table) == [conn |-> conn, table |-> table]
Rows(refs, indexed) == [kind |-> "have", refs |-> refs, indexed |-> indexed]
About(kind, ref, whose) == [kind |-> kind, refs |-> <<ref>>, whose |-> whose]
MCMenu ==
  {[kind |-> "use", name |-> "b"], [kind |-> "use", name |-> "nowhere"],
   [kind |-> "sequence", refs |-> <<Own("a sequence")>>], [kind |-> "call", refs |-> <<Own("a routine")>>],
   Rows(<<Own("t"), Own("t")>>, TRUE), Rows(<<Of("b", "u"), Own("t")>>, FALSE),
   Rows(<<Of("nowhere", "t")>>, FALSE), Rows(<<>>, TRUE),
   About("delete", Of("b", "t"), "all"), About("update", Own("t"), "all"), About("clear", Of("b", "u"), "all"),
   About("extract", Of("b", "t"), "all"), About("exists", Own("t"), "own"), About("absent", Of("b", "t"), "own")}
MCBudget == "f" :> 2 @@ "g" :> 1
-----------------------------------------------------------------------------
MCCases == <<Updates, Inserts, Lines, Documents, Registries, FileCases>>
=============================================================================
