--------------------------------- MODULE Rules ---------------------------------
(***************************************************************************)
(* What bddkit makes of what it is given, before and beside the steps of a *)
(* run: a suite (Validation, its walks step by step), the database steps   *)
(* of files that run side by side (Database), and, one answer a case, a    *)
(* registry of declarations (Matching), a feature file (FeatureFile), a    *)
(* document with secrets in it (Masking) and a statement (Tables).         *)
(***************************************************************************)
EXTENDS Validation, Database

CONSTANTS Digits, Letters, Declarations, Texts,   \* Matching
          LowerOf, MinLength, Trees,              \* Masking
          Fields, Numbers,                        \* sensitive names; numbers, as texts
          Shown,                                  \* texts to mask
          TagFilters,                             \* FeatureFile
          Schema, Table,                          \* Tables: what an update is about
          Cases                                   \* sets of them, one behind the other

Match == INSTANCE Matching
Mask == INSTANCE Masking
File == INSTANCE FeatureFile
Db == INSTANCE Tables

\* A registry's declarations are of the kinds there are, and no two of the
\* builtins conflict, which a test of the repository checks.
ASSUME RegistryAssumption ==
  /\ Texts \subseteq Seq(Match!Chars)
  /\ \A items \in Declarations : Match!IsDeclaration(items)
  /\ \A n \in DOMAIN Cases : \A case \in Cases[n] : case.about = "registry" =>
       LET entries == case.entries
           builtins == {k \in DOMAIN entries : entries[k].target = "builtin"}
       IN  /\ \A k \in DOMAIN entries : /\ entries[k].items \in Declarations
                                        /\ entries[k].target \in {"builtin", "macro", "plugin"}
           /\ \A j, k \in builtins : j # k => ~Match!Conflicts(entries[j].items, entries[k].items)

\* A file is a sequence of lines, and a tag line one of names.
ASSUME FileAssumption ==
  \A n \in DOMAIN Cases : \A case \in Cases[n] : case.about = "file" =>
    /\ case.lines \in Seq(ToSet(case.lines))
    /\ \A line \in ToSet(case.lines) : line.kind = "tag" => line.names \in Seq(ToSet(line.names))

\* A table has a column of a name, and an update sets it once.
ASSUME StatementAssumption ==
  \A n \in DOMAIN Cases : \A case \in Cases[n] :
    /\ case.about = "insert" => \A c, d \in ToSet(case.schema) : c.name = d.name => c = d
    /\ case.about = "update" =>
         /\ case.where \in Seq(ToSet(case.where)) /\ case.set \in Seq(ToSet(case.set))
         /\ \A j, k \in DOMAIN case.set : case.set[j][1].column = case.set[k][1].column => j = k

\* What a list may be written of: columns without blanks at their ends, colons
\* or commas, and values that do not end in a backslash where a comma follows.
ASSUME LineAssumption ==
  \A n \in DOMAIN Cases : \A case \in Cases[n] : case.about = "line" =>
    /\ case.pairs \in Seq(ToSet(case.pairs))
    /\ \A k \in DOMAIN case.pairs :
         LET column == case.pairs[k][1]
             value == case.pairs[k][2]
         IN  /\ column \in Seq(ToSet(column) \ {Db!Comma, Db!Colon}) /\ column # <<>> /\ Db!Trim(column) = column
             /\ value \in Seq(ToSet(value))
             /\ k < Len(case.pairs) /\ value # <<>> => Last(value) # Db!Backslash

VARIABLES given, found

Suite == [about |-> "suite"]
Statements == [about |-> "statements"]
Unasked == <<>>
rulesVars == <<suiteVars, given, found, dbVars>>

SomeSuite == CHOOSE s \in Suites : TRUE

\* No suite in hand: the walks of Validation are over.
AtRest ==
  /\ suite = SomeSuite
  /\ phase = "done"
  /\ visited = {} /\ path = <<>>
  /\ at = 0 /\ stack = <<>> /\ problems = {}
  /\ left = <<>> /\ calls = <<>> /\ met = {}

RulesInit ==
  /\ \/ (\E k \in DOMAIN Cases : given \in Cases[k]) /\ AtRest
     \/ given = Statements /\ AtRest
     \/ given = Suite /\ SuiteInit
  /\ found = Unasked
  /\ DbInit
-----------------------------------------------------------------------------
\* A scenario and, of an outline, the block of its Examples.
Runs(lines) ==
  {r \in File!Scenarios(lines) \X (File!ElementLines(lines) \cup {File!NoExamples}) :
     \E x \in File!Expanded(lines, r[1]) : x.examples = r[2]}

Answer(case) ==
  CASE case.about = "registry" -> [built |-> Match!RegistryBuilds(case.entries)]
    [] case.about = "document" ->
         LET hits == Mask!JsonHits(Mask!Rendered(case.tree), Fields)
             set == Mask!Register({}, hits)
         IN  [hits |-> hits, set |-> set, json |-> Mask!MaskJson(set, Mask!Rendered(case.tree), Fields),
              texts |-> [t \in Shown |-> Mask!MaskSet(set, t)]]
    [] case.about = "file" ->
         [comments |-> [e \in File!ElementLines(case.lines) |-> File!CommentOf(case.lines, e)],
          items |-> [e \in {x \in File!ElementLines(case.lines) : case.lines[x].kind \in File!Annotated} |->
                       File!Resolve(case.lines, File!Region(case.lines, e)).items],
          runs |-> [r \in Runs(case.lines) |->
                      File!Execution(File!Annotations(case.lines, r[1], r[2]),
                                     File!ExpandedSteps(case.lines, r[1]))]]
    [] case.about = "insert" ->
         [v \in case.values |-> Db!InsertStep(case.platform, case.schema, v)]
    [] case.about = "update" -> Db!BuildUpdate(Schema, case.set, case.where)
    [] case.about = "line" -> Db!ParseOneliner(Db!Written(case.pairs))

Answers ==
  /\ given \notin {Suite, Statements} /\ found = Unasked
  /\ found' = Answer(given)
  /\ UNCHANGED <<suiteVars, given, dbVars>>

RulesNext ==
  \/ Answers
  \/ SuiteNext /\ UNCHANGED <<given, found, dbVars>>
  \/ given = Statements /\ DbNext /\ UNCHANGED <<suiteVars, given, found>>
RulesSpec == RulesInit /\ [][RulesNext]_rulesVars

Answered(about) == given.about = about /\ found # Unasked

\* The texts that a declaration is taken for.
Meant ==
  [items \in Declarations |->
     {text \in Texts : Match!Understands([target |-> "macro", items |-> items], text)}]
Unlike(entries) == {k \in DOMAIN entries : entries[k].target # "plugin"}
-----------------------------------------------------------------------------
\* A registry that builds gives no text two meanings among the builtins and
\* the macros: the token streams are never narrower than the regexes they
\* stand for.
OneMeaning ==
  Answered("registry") /\ found.built =>
    \A j, k \in Unlike(given.entries) :
      j # k => Meant[given.entries[j].items] \cap Meant[given.entries[k].items] = {}

\* What a report shows of a step hides every secret the step was run with.
StepsHideSecrets ==
  Answered("registry") /\ found.built /\ Unlike(given.entries) = DOMAIN given.entries =>
    \A entry \in {e \in ToSet(given.entries) : Match!HasSecret(e)} :
      \A text \in Meant[entry.items] : \A span \in Match!SecretSpans(entry, text) :
        Match!Places(span) \subseteq Match!DisplayHides(given.entries, text)

\* The scan of a JSON text finds exactly the values that the walk of the same
\* tree as a configuration calls secret, but for the passwords inside of URLs,
\* which only the walk takes out; a number is only hidden by its place.
SecretsFound ==
  Answered("document") =>
    LET scanned == {hit.value : hit \in {h \in found.hits : h.value # Mask!NoValue}}
        walked == {v \in Mask!SecretsIn(given.tree, FALSE, Fields) : v \notin Numbers}
        urls == {t \in Trees : t.kind = "url"}
    IN  /\ scanned \subseteq walked
        /\ \A v \in walked \ scanned :
             \E url \in urls : v \in {url.password, Mask!FormDecoded(url.password)}

\* No secret is left whole in a masked text, whatever others it overlaps, and
\* what no match covers is left as it was.
MaskExact ==
  Answered("document") =>
    LET whole(text) == \E v \in found.set : \E i \in DOMAIN text : Mask!IsAt(v, text, i)
        outside(text) ==
          LET ranges == UNION {Mask!MatchIndices(v, text) : v \in found.set}
          IN  {p \in DOMAIN text : \A r \in ranges : p \notin r[1]..(r[2] - 1)}
        kept(text) == LET ps == SetToSortSeq(outside(text), <) IN [k \in DOMAIN ps |-> text[ps[k]]]
    IN  /\ ~whole(found.json)
        /\ \A t \in Shown : /\ ~whole(found.texts[t])
                            /\ SelectSeq(found.texts[t], LAMBDA c : c # Mask!MASK) = kept(t)

\* A comment explains one thing at most, the annotations of a run stand in the
\* order of the file with every step of the scenario among them, a step that
\* is commented out right under a step is that scenario's, and a line of a
\* description has one owner.
CommentsPlaced ==
  Answered("file") =>
    LET lines == given.lines
        owners(n) == {e \in DOMAIN found.comments : Contains(found.comments[e], n)}
        notes(n) == {p \in UNION {{<<e, k>> : k \in DOMAIN found.items[e]} : e \in DOMAIN found.items} :
                       LET item == found.items[p[1]][p[2]]
                       IN  Contains(item.comment, n) \/ (item.kind = "disabled" /\ item.line = n)}
        off(n) == lines[n].kind = "comment" /\ lines[n].says = "step" /\ lines[n].known
        linesOf(items) == [k \in DOMAIN items |-> items[k].line]
        steps(run) == SelectSeq(run, LAMBDA item : item.kind = "step")
    IN  /\ \A n \in DOMAIN lines : lines[n].kind = "comment" => Cardinality(owners(n)) + Cardinality(notes(n)) <= 1
        /\ \A r \in DOMAIN found.runs :
             /\ \A i, j \in DOMAIN found.runs[r] : i < j => found.runs[r][i].line < found.runs[r][j].line
             /\ linesOf(steps(found.runs[r])) = File!ExpandedSteps(lines, r[1])
        /\ \A n \in DOMAIN lines :
             off(n) /\ File!Outside(lines, n) /\ File!EndsAStep(lines, n - 1) =>
               \E item \in ToSet(found.items[File!ElementOf(lines, n)]) : item.kind = "disabled" /\ item.line = n
        /\ \A n \in DOMAIN lines :
             lines[n].kind = "text" =>
               Cardinality({e \in File!ElementLines(lines) : n \in File!DescriptionLines(lines, e)}) = 1

\* A row runs exactly when the tags a report shows for it match, and the file
\* and the scenario of a row that runs were selected before it.
SelectionAgrees ==
  Answered("file") =>
    \A wanted \in TagFilters, r \in DOMAIN found.runs :
      LET selected == File!SelectsRow(given.lines, wanted, r[1], r[2])
      IN  /\ selected <=> File!Matches(wanted, ToSet(File!EffectiveTags(given.lines, r[1], r[2])))
          /\ selected => File!SelectsAny(given.lines, wanted, r[1])
                         /\ File!HasSelectedScenario(given.lines, wanted)

\* A value for a column that has none, or under another operator than "=".
Misused(schema, values) ==
  \E k \in DOMAIN values : values[k][1].op # "=" \/ ~Db!Bindable(schema, values[k][1].column)

\* An insert that passes leaves its row named by its variables, one that does
\* not leaves no row, and none is refused that could have done so, unless the
\* table has a counter that is not its key.
RowNamed ==
  Answered("insert") =>
    \A values \in DOMAIN found :
      LET answer == found[values]
          pks == Db!PkColumns(given.schema)
          asked == Db!ServerRow(given.platform, given.schema,
                     [name \in Db!NamesIn(values) |-> Db!ValueIn(values, name)])
      IN  /\ answer.result = "passed" => answer.vars = [pk \in pks |-> answer.row[pk.name]]
          /\ answer.result # "passed" => answer.row = Db!NoRow
          /\ answer.result = "refused" =>
               \/ Misused(given.schema, values)
               \/ ~Db!ServerTakes(given.schema, asked)
               \/ ~given.platform.returning /\ \E pk \in pks : asked[pk.name] = Db!Default
               \/ \E c \in ToSet(given.schema) : c.identity /\ ~c.pk /\ ~c.default

\* An update changes the rows its condition means and no other, to the values
\* it sets, whichever binds ask about NULL; a list reads as it was written.
StatementMeant ==
  /\ Answered("update") =>
       IF found.refused
       THEN \/ given.where = <<>>
            \/ Misused(Schema, given.set)
            \/ \E pair \in ToSet(given.where) : ~Db!Bindable(Schema, pair[1].column)
            \/ \E pair \in ToSet(given.where) : pair[2] = Db!Null /\ pair[1].op \in {"like", "not like"}
       ELSE Db!Updated(given.platform, Table, found)
              = [r \in DOMAIN Table |-> IF Db!Wants(Table[r], given.where)
                                        THEN Db!Meant(Table[r], given.set) ELSE Table[r]]
  /\ Answered("line") =>
       found = [k \in DOMAIN given.pairs |-> <<given.pairs[k][1], Db!Trim(given.pairs[k][2])>>]

\* The secrets of a step and of a document are found and hidden, and nothing
\* else of the document is.
SecretsMasked == StepsHideSecrets /\ SecretsFound /\ MaskExact

\* A database step does to its table what its columns and values say.
StatementsExact == RowNamed /\ StatementMeant
=============================================================================
