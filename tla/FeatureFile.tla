------------------------------ MODULE FeatureFile ------------------------------
(***************************************************************************)
(* What a run makes of the text of a feature file: which scenarios and     *)
(* rows the tags select (feature.rs: TagFilter, scan_tags, effective_tags, *)
(* expand_outlines), its descriptions (scan_descriptions), and the         *)
(* comments, which the parser drops and annotate.rs reads again: a comment *)
(* of an element or of a step, a step that is commented out, a section.    *)
(*                                                                         *)
(* A file is a sequence of lines, each [kind, ...]: an element's keyword,  *)
(* "step", "row", "fence" (of a doc string), "tag" (names), "text",        *)
(* "blank", "language", or "comment" with says: "words", "nothing", or     *)
(* "step" (it begins with a step keyword), then known: a definition        *)
(* matches it.  A line stands for its number.                              *)
(***************************************************************************)
EXTENDS Naturals, Sequences, SequencesExt, FiniteSetsExt

Keywords == {"feature", "background", "rule", "scenario", "examples"}

\* The parser: what of a file it gives a place to.
FencesAbove(file, n) == Cardinality({k \in 1..(n - 1) : file[k].kind = "fence"})
Outside(file, n) == FencesAbove(file, n) % 2 = 0 /\ file[n].kind # "fence"
ElementLines(file) == {n \in DOMAIN file : file[n].kind \in Keywords /\ Outside(file, n)}
StepLines(file) == {n \in DOMAIN file : file[n].kind = "step" /\ Outside(file, n)}
RowLines(file) == {n \in DOMAIN file : file[n].kind = "row" /\ Outside(file, n)}
\* Between the rows of one table stand comments and blank lines.
TableStarts(file) ==
  {n \in RowLines(file) :
     LET above == {m \in RowLines(file) : m < n}
     IN  \/ above = {}
         \/ \E k \in Max(above)..n : file[k].kind \notin {"row", "comment", "blank"}}

ElementOf(file, n) == Max({e \in ElementLines(file) : e <= n})
NextElement(file, e) == {n \in ElementLines(file) : n > e}

\* Walk: the elements, and the lines below them: steps, tables of Examples.
Below(file) ==
  StepLines(file)
    \cup {n \in TableStarts(file) : file[ElementOf(file, n)].kind = "examples"}
TableLines(file) ==
  {n \in DOMAIN file : \E a, b \in RowLines(file) :
     a <= n /\ n <= b /\ TableStarts(file) \cap (a + 1)..b = {}
       /\ \A k \in a..b : file[k].kind \in {"row", "comment", "blank"}}
-----------------------------------------------------------------------------
(* Tags.                                                                   *)

\* scan_tags: the tag lines above a keyword, past blank lines and comments.
TagsAbove(file, n) ==
  LET above[k \in 0..n] ==
        IF k = 0 THEN <<>>
        ELSE IF file[k].kind \in {"blank", "comment", "language"} THEN above[k - 1]
        ELSE IF file[k].kind = "tag" THEN above[k - 1] \o file[k].names ELSE <<>>
  IN  above[n]
OwnTags(file, e) == TagsAbove(file, e - 1)

FeatureLine(file) == Min(ElementLines(file))
RuleOf(file, sc) ==
  LET rules == {n \in ElementLines(file) : n < sc /\ file[n].kind = "rule"}
  IN  IF rules = {} THEN {} ELSE {Max(rules)}
Scenarios(file) == {n \in ElementLines(file) : file[n].kind = "scenario"}
ExamplesOf(file, sc) ==
  {n \in ElementLines(file) : /\ file[n].kind = "examples" /\ n > sc
                              /\ \A k \in Scenarios(file) : k <= sc \/ k > n}

\* Slip: a rule's scenario does not carry its rule's tags.
SlipMergedTags(file, sc) ==
  ToSet(OwnTags(file, sc)) \cup ToSet(OwnTags(file, FeatureLine(file)))

\* from_text merges a feature's and a rule's tags into their scenarios.
MergedTags(file, sc) ==
  ToSet(OwnTags(file, sc)) \cup ToSet(OwnTags(file, FeatureLine(file)))
    \cup UNION {ToSet(OwnTags(file, r)) : r \in RuleOf(file, sc)}

Matches(wanted, tags) == wanted = {} \/ wanted \cap tags # {}
SelectsAny(file, wanted, sc) ==
  \/ Matches(wanted, MergedTags(file, sc))
  \/ \E ex \in ExamplesOf(file, sc) : Matches(wanted, ToSet(OwnTags(file, ex)))

\* ex is NoExamples for a plain scenario.
NoExamples == 0
SelectsRow(file, wanted, sc, ex) ==
  \/ Matches(wanted, MergedTags(file, sc))
  \/ \E x \in ExamplesOf(file, sc) \cap {ex} : Matches(wanted, ToSet(OwnTags(file, x)))

\* What a report shows: own, rule's, feature's, row's, each name once.
EffectiveTags(file, sc, ex) ==
  LET rule == IF RuleOf(file, sc) = {} THEN <<>> ELSE OwnTags(file, CHOOSE r \in RuleOf(file, sc) : TRUE)
      row == IF ex = NoExamples THEN <<>> ELSE OwnTags(file, ex)
      all == OwnTags(file, sc) \o rule \o OwnTags(file, FeatureLine(file)) \o row
      once[k \in 0..Len(all)] ==
        IF k = 0 THEN <<>>
        ELSE LET seen == once[k - 1] IN IF Contains(seen, all[k]) THEN seen ELSE Append(seen, all[k])
  IN  once[Len(all)]

HasSelectedScenario(file, wanted) == \E sc \in Scenarios(file) : SelectsAny(file, wanted, sc)

\* expand_outlines: a row of every block behind its header, or the scenario.
RowsOf(file, ex) == {n \in RowLines(file) : ElementOf(file, n) = ex}
Expanded(file, sc) ==
  IF ExamplesOf(file, sc) = {} THEN {[row |-> NoExamples, examples |-> NoExamples]}
  ELSE UNION {{[row |-> n, examples |-> ex] : n \in RowsOf(file, ex) \ {Min(RowsOf(file, ex))}} :
                ex \in {x \in ExamplesOf(file, sc) : RowsOf(file, x) # {}}}
-----------------------------------------------------------------------------
(* Descriptions and comments.                                              *)

\* scan_descriptions: up to the next line with a place, or a tag.
DescriptionLines(file, e) ==
  {n \in DOMAIN file :
     /\ n > e /\ file[n].kind \notin {"comment", "blank"}
     /\ \A k \in (e + 1)..n : k \notin ElementLines(file) \cup Below(file) /\ file[k].kind # "tag"}

\* Right under a step or a table's row, past the comments in between.
EndsAStep(file, n) ==
  \E k \in 1..n : /\ k \in Below(file) \/ file[k].kind = "row"
                  /\ \A c \in (k + 1)..n : file[c].kind = "comment"

\* Slip: a step that is commented out above a scenario is the scenario's.
SlipCommentTop(file, n) ==
  LET above[k \in 0..n] ==
        IF k > 0 /\ file[k].kind \in {"language", "tag", "comment"} THEN above[k - 1] ELSE k + 1
  IN  above[n]

\* Where the comment block above an element begins, tags included; n is the
\* line above.
CommentTop(file, n) ==
  LET above[k \in 0..n] ==
        IF k = 0 THEN 1
        ELSE CASE file[k].kind \in {"language", "tag"} -> above[k - 1]
               [] file[k].kind = "comment" ->
                    IF file[k].says = "step" /\ EndsAStep(file, k - 1) THEN k + 1 ELSE above[k - 1]
               [] OTHER -> k + 1
  IN  above[n]

\* A block without the empty comments at its ends.
TrimBlock(file, block) ==
  LET said == {k \in DOMAIN block : file[block[k]].says # "nothing"}
  IN  IF said = {} THEN <<>> ELSE SubSeq(block, Min(said), Max(said))

CommentOf(file, e) ==
  TrimBlock(file, SelectSeq([k \in 1..(e - 1) |-> k],
                            LAMBDA k : k >= CommentTop(file, e - 1) /\ file[k].kind = "comment"))

Annotated == {"background", "scenario", "examples"}

\* What each line of an element is, in order: [line, kind].
Classified(file, e) ==
  LET last == IF NextElement(file, e) = {} THEN Len(file)
              ELSE CommentTop(file, Min(NextElement(file, e)) - 1) - 1
      below == Below(file)
      tables == TableLines(file)
      reads(acc, n) ==
        LET kind == file[n].kind
            as(what) == [acc EXCEPT !.lines = Append(@, [line |-> n, kind |-> what])]
        IN  CASE n = e -> as("keyword")
              [] n # e /\ n \in below /\ kind # "row" ->
                   [as("step") EXCEPT !.fence = FALSE, !.seen = TRUE]
              [] n \in tables -> as("table")
              [] OTHER ->
                   CASE acc.fence -> [as("docstring") EXCEPT !.fence = kind # "fence"]
                     [] ~acc.fence /\ kind = "fence" /\ acc.seen -> [as("docstring") EXCEPT !.fence = TRUE]
                     [] ~acc.fence /\ kind \in {"blank", "comment", "tag"} -> as(kind)
                     [] ~acc.fence /\ kind = "row" /\ (acc.seen \/ file[e].kind = "examples") -> as("table")
                     [] OTHER -> as("description")
  IN  FoldLeft(reads, [lines |-> <<>>, fence |-> FALSE, seen |-> FALSE],
               [k \in 1..(last - e + 1) |-> e + k - 1]).lines

\* Comments inside a description are not annotations, nor those in a table.
Region(file, e) ==
  LET lines == Classified(file, e)
      opening == IF file[e].kind = "examples" THEN "table" ELSE "description"
      behind == {k \in DOMAIN lines : lines[k].kind = opening}
  IN  IF behind = {} THEN lines ELSE SubSeq(lines, Max(behind) + 1, Len(lines))

Item(kind, line, comment) == [kind |-> kind, line |-> line, comment |-> comment]

Section(file, pending, items) ==
  IF TrimBlock(file, pending) = <<>> THEN items
  ELSE Append(items, Item("section", Head(pending), TrimBlock(file, pending)))

\* resolve: a run, its includes and doctor read a region alike.
Resolve(file, region) ==
  LET reads(acc, l) ==
        LET line == l.line
            given(kind) == [items |-> Append(acc.items, Item(kind, line, TrimBlock(file, acc.pending))),
                            pending |-> <<>>, unmatched |-> acc.unmatched]
        IN  CASE l.kind = "comment" ->
                   IF file[line].says = "step" /\ file[line].known THEN given("disabled")
                   ELSE [acc EXCEPT !.pending = Append(@, line),
                                    !.unmatched = IF file[line].says = "step" THEN @ \cup {line} ELSE @]
              [] l.kind = "step" -> given("step")
              [] l.kind = "blank" -> [acc EXCEPT !.items = Section(file, acc.pending, @), !.pending = <<>>]
              [] OTHER -> [acc EXCEPT !.pending = <<>>]
      read == FoldLeft(reads, [items |-> <<>>, pending |-> <<>>, unmatched |-> {}], region)
  IN  [items |-> Section(file, read.pending, read.items), unmatched |-> read.unmatched]

\* The Backgrounds over a scenario: the feature's, then its rule's.
BackgroundsOver(file, sc) ==
  LET top == {n \in ElementLines(file) : /\ file[n].kind = "background"
                                         /\ RuleOf(file, n) = {}}
      own == {n \in ElementLines(file) : /\ file[n].kind = "background" /\ n < sc
                                         /\ RuleOf(file, n) = RuleOf(file, sc)}
  IN  SetToSortSeq(top \cup own, <)

\* annotate::scenario, for a row of it or the scenario itself.
Annotations(file, sc, ex) ==
  LET regions == BackgroundsOver(file, sc) \o <<sc>> \o (IF ex = NoExamples THEN <<>> ELSE <<ex>>)
  IN  FlattenSeq([k \in DOMAIN regions |-> Resolve(file, Region(file, regions[k])).items])

ExpandedSteps(file, sc) ==
  LET under(e) == SetToSortSeq({n \in StepLines(file) : ElementOf(file, n) = e}, <)
  IN  FlattenSeq([k \in DOMAIN BackgroundsOver(file, sc) |-> under(BackgroundsOver(file, sc)[k])]) \o under(sc)

\* Resolved::execution: steps as parsed, each behind the annotations above it.
Execution(items, steps) ==
  LET upTo(n, from) == CHOOSE k \in from..(Len(items) + 1) :
                         /\ k > Len(items) \/ items[k].line > n
                         /\ \A j \in from..(k - 1) : items[j].line <= n
      isNote(item) == item.kind # "step"
      runs(acc, step) ==
        LET to == upTo(step, acc.next)
            passed == SubSeq(items, acc.next, to - 1)
            own == SelectSeq(passed, LAMBDA item : item.kind = "step" /\ item.line = step)
        IN  [next |-> to,
             run |-> acc.run \o SelectSeq(passed, isNote)
                       \o <<Item("step", step, IF own = <<>> THEN <<>> ELSE Last(own).comment)>>]
      done == FoldLeft(runs, [next |-> 1, run |-> <<>>], steps)
  IN  done.run \o SelectSeq(SubSeq(items, done.next, Len(items)), isNote)
=============================================================================
