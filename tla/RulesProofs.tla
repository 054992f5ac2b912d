----------------------------- MODULE RulesProofs -----------------------------
(***************************************************************************)
(* What bddkit makes of what it is given, for any registry, file and       *)
(* statement: which rows their tags select, what a text means and what a   *)
(* database step does.                                                     *)
(***************************************************************************)
EXTENDS Rules, ValidationProofs, FiniteSetTheorems, TLAPS

-----------------------------------------------------------------------------
(***************************************************************************)
(* FeatureFile: a report shows the tags that selected what it shows.  What *)
(* TagsAbove and EffectiveTags read line by line, and tag by tag, is a     *)
(* sequence of names (TagsAboveAre) and their set (OnceHas); the rest is   *)
(* what SelectsRow and EffectiveTags take them from.                       *)
(***************************************************************************)
LEMMA TagsAboveAre ==
  ASSUME NEW lines, NEW n \in Nat, NEW U,
         \A k \in 1..n : lines[k].kind = "tag" => lines[k].names \in Seq(U)
  PROVE  File!TagsAbove(lines, n) \in Seq(U)
<1> DEFINE X == Seq(U)
           Over(k, above) ==
             IF lines[k].kind \in {"blank", "comment", "language"} THEN above
             ELSE IF lines[k].kind = "tag" THEN above \o lines[k].names ELSE <<>>
           Reads(g) == g = [k \in 0..n |-> IF k = 0 THEN <<>> ELSE Over(k, g[k - 1])]
           h == CHOOSE g : Reads(g)
           F == [p \in Nat \X X |-> IF p[1] \in 1..n THEN Over(p[1], p[2]) ELSE <<>>]
<1>1. File!TagsAbove(lines, n) = h[n]
  BY DEF File!TagsAbove
<1>2. ASSUME NEW k \in 1..n, NEW x \in X PROVE Over(k, x) \in X
  <2>1. CASE lines[k].kind \in {"blank", "comment", "language"}
    BY <2>1
  <2>2. CASE lines[k].kind = "tag"
    <3>1. lines[k].names \in X
      BY <2>2
    <3> QED
      BY <2>2, <3>1
  <2>3. CASE lines[k].kind \notin {"blank", "comment", "language", "tag"}
    <3>1. <<>> \in X
      OBVIOUS
    <3> QED
      BY <2>3, <3>1
  <2> QED
    BY <2>1, <2>2, <2>3
<1>3. <<>> \in X
  OBVIOUS
<1> HIDE DEF Over
<1>4. ASSUME NEW g, NEW k \in 0..n, Reads(g)
      PROVE  g[k] = IF k = 0 THEN <<>> ELSE Over(k, g[k - 1])
  BY <1>4
<1> HIDE DEF Reads
<1>6. F \in [Nat \X X -> X]
  BY <1>2, <1>3
<1>7. \A k \in 1..n, x \in X : F[<<k, x>>] = Over(k, x)
  OBVIOUS
<1> HIDE DEF F, X
<1>8. PICK f : Iterates(f, X, <<>>, F, n)
  BY <1>3, <1>6, IterationIs, Zenon
<1>9. Reads(f)
  <2>1. ASSUME NEW k \in 0..n PROVE f[k] = IF k = 0 THEN <<>> ELSE Over(k, f[k - 1])
    <3>1. CASE k = 0
      BY <1>8, <3>1 DEF Iterates
    <3>2. CASE k # 0
      <4>1. k \in 1..n /\ k - 1 \in 0..n
        BY <3>2
      <4> QED
        BY <1>7, <1>8, <3>2, <4>1, Zenon DEF Iterates
    <3> QED
      BY <3>1, <3>2
  <2>2. f = [k \in 0..n |-> IF k = 0 THEN <<>> ELSE Over(k, f[k - 1])]
    <3>1. f = [k \in 0..n |-> f[k]]
      BY <1>8 DEF Iterates
    <3> QED
      BY <2>1, <3>1
  <2> QED
    BY <2>2 DEF Reads
<1>10. Reads(h)
  BY <1>9, Zenon
<1> HIDE DEF h
<1> DEFINE S == {k \in Nat : k <= n => h[k] \in X}
<1>11. 0 \in S
  BY <1>3, <1>4, <1>10
<1>12. ASSUME NEW k \in Nat, k \in S PROVE k + 1 \in S
  <2> SUFFICES ASSUME k + 1 <= n PROVE h[k + 1] \in X
    OBVIOUS
  <2>1. k + 1 \in 1..n /\ k + 1 # 0 /\ (k + 1) - 1 = k /\ h[k] \in X /\ k + 1 \in 0..n
    BY <1>12
  <2>2. h[k + 1] = Over(k + 1, h[k])
    BY <1>4, <1>10, <2>1
  <2> QED
    BY <1>2, <2>1, <2>2
<1> HIDE DEF S
<1>13. n \in S
  BY <1>11, <1>12, SetInduction
<1> QED
  BY <1>1, <1>13 DEF S, X

LEMMA AppendedHas ==
  ASSUME NEW S, NEW s \in Seq(S), NEW e \in S
  PROVE  Append(s, e) \in Seq(S) /\ ToSet(Append(s, e)) = ToSet(s) \cup {e}
<1>1. s \o <<e>> \in Seq(S) /\ ToSet(s \o <<e>>) = ToSet(s) \cup ToSet(<<e>>)
  <2>1. <<e>> \in Seq(S)
    OBVIOUS
  <2> QED
    BY <2>1, JoinedHas, Zenon
<1>2. ToSet(<<e>>) = {e}
  BY DEF ToSet
<1>3. Append(s, e) = s \o <<e>>
  OBVIOUS
<1> QED
  BY <1>1, <1>2, <1>3

\* The names of a sequence, each once, are its names.
LEMMA OnceHas ==
  ASSUME NEW U, NEW all \in Seq(U), NEW h,
         h = [k \in 0..Len(all) |->
                IF k = 0 THEN <<>>
                ELSE IF File!Contains(h[k - 1], all[k]) THEN h[k - 1] ELSE Append(h[k - 1], all[k])]
  PROVE  ToSet(h[Len(all)]) = ToSet(all)
<1> DEFINE N == Len(all)
           S == {n \in Nat : n <= N => h[n] \in Seq(U) /\ ToSet(h[n]) = {all[k] : k \in 1..n}}
<1>1. N \in Nat /\ ToSet(all) = {all[k] : k \in 1..N}
  BY DEF ToSet
<1>2. 0 \in S
  BY <1>1 DEF ToSet
<1> HIDE DEF S, N
<1>3. ASSUME NEW n \in Nat, n \in S PROVE n + 1 \in S
  <2> SUFFICES ASSUME n + 1 <= N
               PROVE  h[n + 1] \in Seq(U) /\ ToSet(h[n + 1]) = {all[k] : k \in 1..(n + 1)}
    <3>1. n + 1 \in Nat
      OBVIOUS
    <3> QED
      BY <3>1, Zenon DEF S
  <2>1. n + 1 \in 0..N /\ n + 1 # 0 /\ (n + 1) - 1 = n /\ all[n + 1] \in U
        /\ h[n] \in Seq(U) /\ ToSet(h[n]) = {all[k] : k \in 1..n}
    <3>1. n + 1 \in 0..N /\ n + 1 # 0 /\ (n + 1) - 1 = n /\ all[n + 1] \in U /\ n <= N
      BY <1>1 DEF N
    <3> QED
      BY <1>3, <3>1, Zenon DEF S
  <2>2. h[n + 1] = IF File!Contains(h[n], all[n + 1]) THEN h[n] ELSE Append(h[n], all[n + 1])
    BY <1>1, <2>1, Zenon DEF N
  <2>3. {all[k] : k \in 1..(n + 1)} = {all[k] : k \in 1..n} \cup {all[n + 1]}
    OBVIOUS
  <2>4. CASE File!Contains(h[n], all[n + 1])
    <3>1. all[n + 1] \in ToSet(h[n])
      <4>1. PICK i \in 1..Len(h[n]) : h[n][i] = all[n + 1]
        BY <2>4, Zenon DEF File!Contains
      <4>2. i \in DOMAIN h[n]
        BY <2>1
      <4> QED
        BY <4>1, <4>2, Zenon DEF ToSet
    <3> QED
      BY <2>1, <2>2, <2>3, <2>4, <3>1, Zenon
  <2>5. CASE ~File!Contains(h[n], all[n + 1])
    <3>1. h[n + 1] = Append(h[n], all[n + 1]) /\ h[n + 1] \in Seq(U)
      BY <2>1, <2>2, <2>5, AppendedHas, Zenon
    <3>2. ToSet(Append(h[n], all[n + 1])) = ToSet(h[n]) \cup {all[n + 1]}
      <4> DEFINE s == h[n]
                 e == all[n + 1]
      <4>1. s \in Seq(U) /\ e \in U
        BY <2>1
      <4> HIDE DEF s, e
      <4>2. ToSet(Append(s, e)) = ToSet(s) \cup {e}
        BY <4>1, AppendedHas
      <4> QED
        BY <4>2, Zenon DEF s, e
    <3> QED
      BY <2>1, <2>3, <3>1, <3>2, Zenon
  <2> QED
    BY <2>4, <2>5, Zenon
<1> HIDE DEF S
<1>4. N \in S
  BY <1>1, <1>2, <1>3, SetInduction
<1> QED
  BY <1>1, <1>4 DEF S, N

\* A file's lines, as FileAssumption has them.
IsFile(lines) ==
  /\ lines \in Seq(ToSet(lines))
  /\ \A line \in ToSet(lines) : line.kind = "tag" => line.names \in Seq(ToSet(line.names))

\* Every name on a tag line.
NamesOf(lines) == UNION {ToSet(line.names) : line \in {l \in ToSet(lines) : l.kind = "tag"}}

LEMMA OwnTagsAre ==
  ASSUME NEW lines, IsFile(lines), NEW e \in File!ElementLines(lines)
  PROVE  /\ e \in 1..Len(lines) /\ Len(lines) \in Nat
         /\ File!OwnTags(lines, e) \in Seq(NamesOf(lines))
<1>1. e \in 1..Len(lines) /\ Len(lines) \in Nat /\ e - 1 \in Nat
  BY DEF File!ElementLines, IsFile
<1>2. ASSUME NEW k \in 1..(e - 1), lines[k].kind = "tag" PROVE lines[k].names \in Seq(NamesOf(lines))
  <2>1. k \in DOMAIN lines /\ lines[k] \in ToSet(lines)
    BY <1>1 DEF IsFile, ToSet
  <2>2. lines[k].names \in Seq(ToSet(lines[k].names)) /\ ToSet(lines[k].names) \subseteq NamesOf(lines)
    BY <1>2, <2>1 DEF IsFile, NamesOf
  <2> QED
    BY <2>2
<1> QED
  BY <1>1, <1>2, TagsAboveAre DEF File!OwnTags

\* The rule over a scenario is the last one above it.
LEMMA RuleIs ==
  ASSUME NEW lines, IsFile(lines), NEW sc
  PROVE  \/ File!RuleOf(lines, sc) = {}
         \/ \E r \in File!ElementLines(lines) : File!RuleOf(lines, sc) = {r}
<1> DEFINE rules == {n \in File!ElementLines(lines) : n < sc /\ lines[n].kind = "rule"}
<1>1. File!RuleOf(lines, sc) = IF rules = {} THEN {} ELSE {Max(rules)}
  BY DEF File!RuleOf, Max, File!Max
<1>2. rules \subseteq 1..Len(lines) /\ Len(lines) \in Nat /\ 1..Len(lines) \subseteq Nat
  BY OwnTagsAre DEF IsFile
<1>3. IsFiniteSet(rules)
  <2>1. IsFiniteSet(1..Len(lines))
    BY <1>2, FS_Interval
  <2> QED
    BY <1>2, <2>1, FS_Subset
<1>4. CASE rules # {}
  <2>1. Max(rules) \in rules
    BY <1>2, <1>3, <1>4, MaxIs
  <2> QED
    BY <1>1, <1>4, <2>1
<1> QED
  BY <1>1, <1>4, Zenon

LEMMA EffectiveAre ==
  ASSUME NEW lines, IsFile(lines), NEW sc \in File!Scenarios(lines),
         NEW ex \in {File!NoExamples} \cup File!ExamplesOf(lines, sc)
  PROVE  ToSet(File!EffectiveTags(lines, sc, ex))
           = File!MergedTags(lines, sc)
               \cup UNION {ToSet(File!OwnTags(lines, x)) : x \in File!ExamplesOf(lines, sc) \cap {ex}}
<1> DEFINE U == NamesOf(lines)
           own == File!OwnTags(lines, sc)
           rule == IF File!RuleOf(lines, sc) = {} THEN <<>>
                   ELSE File!OwnTags(lines, CHOOSE r \in File!RuleOf(lines, sc) : TRUE)
           top == File!OwnTags(lines, File!FeatureLine(lines))
           row == IF ex = File!NoExamples THEN <<>> ELSE File!OwnTags(lines, ex)
           all == own \o rule \o top \o row
           Reads(g) == g = [k \in 0..Len(all) |->
             IF k = 0 THEN <<>>
             ELSE IF File!Contains(g[k - 1], all[k]) THEN g[k - 1] ELSE Append(g[k - 1], all[k])]
           h == CHOOSE g : Reads(g)
<1>1. File!EffectiveTags(lines, sc, ex) = h[Len(all)]
  BY DEF File!EffectiveTags
<1>2. sc \in File!ElementLines(lines) /\ own \in Seq(U)
  BY OwnTagsAre DEF File!Scenarios
<1>3. /\ rule \in Seq(U)
      /\ ToSet(rule) = UNION {ToSet(File!OwnTags(lines, r)) : r \in File!RuleOf(lines, sc)}
  <2>1. CASE File!RuleOf(lines, sc) = {}
    <3>1. rule = <<>>
      BY <2>1
    <3> QED
      BY <2>1, <3>1 DEF ToSet
  <2>2. CASE File!RuleOf(lines, sc) # {}
    <3>1. PICK r \in File!ElementLines(lines) : File!RuleOf(lines, sc) = {r}
      BY <2>2, RuleIs
    <3>2. rule = File!OwnTags(lines, r)
      BY <2>2, <3>1
    <3>3. rule \in Seq(U)
      BY <3>2, OwnTagsAre
    <3> QED
      BY <3>1, <3>2, <3>3
  <2> QED
    BY <2>1, <2>2
<1>4. top \in Seq(U)
  <2>1. File!ElementLines(lines) \subseteq Nat /\ File!ElementLines(lines) # {}
    BY <1>2, OwnTagsAre
  <2>2. File!FeatureLine(lines) \in File!ElementLines(lines)
    BY <2>1, MinIs DEF File!FeatureLine, File!Min, Min
  <2> QED
    BY <2>2, OwnTagsAre
<1>5. /\ row \in Seq(U)
      /\ ToSet(row) = UNION {ToSet(File!OwnTags(lines, x)) : x \in File!ExamplesOf(lines, sc) \cap {ex}}
  <2>1. \A x \in File!ExamplesOf(lines, sc) : x \in File!ElementLines(lines) /\ x # File!NoExamples
    BY OwnTagsAre DEF File!ExamplesOf, File!NoExamples
  <2>2. CASE ex = File!NoExamples
    <3>1. File!ExamplesOf(lines, sc) \cap {ex} = {} /\ row = <<>>
      BY <2>1, <2>2
    <3> QED
      BY <3>1 DEF ToSet
  <2>3. CASE ex # File!NoExamples
    <3>1. File!ExamplesOf(lines, sc) \cap {ex} = {ex} /\ row = File!OwnTags(lines, ex)
          /\ ex \in File!ElementLines(lines)
      BY <2>1, <2>3
    <3>2. row \in Seq(U)
      BY <3>1, OwnTagsAre
    <3> QED
      BY <3>1, <3>2
  <2> QED
    BY <2>2, <2>3
<1> HIDE DEF U, own, rule, top, row
<1>6. all \in Seq(U) /\ ToSet(all) = ToSet(own) \cup ToSet(rule) \cup ToSet(top) \cup ToSet(row)
  <2>1. own \o rule \in Seq(U) /\ ToSet(own \o rule) = ToSet(own) \cup ToSet(rule)
    BY <1>2, <1>3, JoinedHas, Zenon
  <2> DEFINE a == own \o rule
             b == a \o top
  <2>5. a \in Seq(U)
    BY <2>1
  <2> HIDE DEF a
  <2>2. b \in Seq(U) /\ ToSet(b) = ToSet(a) \cup ToSet(top)
    BY <1>4, <2>5, JoinedHas
  <2> HIDE DEF b
  <2>3. b \o row \in Seq(U) /\ ToSet(b \o row) = ToSet(b) \cup ToSet(row)
    BY <1>5, <2>2, JoinedHas
  <2>4. all = b \o row
    BY DEF a, b
  <2> QED
    BY <2>1, <2>2, <2>3, <2>4 DEF a
<1> HIDE DEF all
<1>7. Reads(h)
  <2> DEFINE X == SUBSET Nat
             V == Seq(U)
             F == [p \in Nat \X V |-> IF p[1] \in 1..Len(all) /\ ~File!Contains(p[2], all[p[1]])
                                     THEN Append(p[2], all[p[1]]) ELSE p[2]]
  <2>1. Len(all) \in Nat /\ \A k \in 1..Len(all) : all[k] \in U
    BY <1>6
  <2>2. F \in [Nat \X V -> V]
    <3>1. ASSUME NEW k \in 1..Len(all), NEW v \in V PROVE Append(v, all[k]) \in V
      BY <2>1
    <3> QED
      BY <3>1
  <2>3. \A k \in 1..Len(all), v \in V :
          F[<<k, v>>] = IF File!Contains(v, all[k]) THEN v ELSE Append(v, all[k])
    BY <2>1
  <2>4. <<>> \in V
    OBVIOUS
  <2> HIDE DEF F, V
  <2>5. PICK f : Iterates(f, V, <<>>, F, Len(all))
    BY <2>1, <2>2, <2>4, IterationIs, Zenon
  <2>6. ASSUME NEW k \in 0..Len(all)
        PROVE  f[k] = IF k = 0 THEN <<>>
                      ELSE IF File!Contains(f[k - 1], all[k]) THEN f[k - 1] ELSE Append(f[k - 1], all[k])
    <3>1. CASE k = 0
      BY <2>5, <3>1 DEF Iterates
    <3>2. CASE k # 0
      <4>1. k \in 1..Len(all) /\ k - 1 \in 0..Len(all)
        BY <2>1, <3>2
      <4> QED
        BY <2>3, <2>5, <3>2, <4>1, Zenon DEF Iterates
    <3> QED
      BY <3>1, <3>2
  <2>7. f = [k \in 0..Len(all) |-> f[k]]
    BY <2>5 DEF Iterates
  <2>8. Reads(f)
    BY <2>6, <2>7, Zenon
  <2> HIDE DEF Reads
  <2> QED
    BY <2>8, Zenon
<1> HIDE DEF h
<1>8. ToSet(h[Len(all)]) = ToSet(all)
  BY <1>6, <1>7, OnceHas, Zenon
<1>9. File!MergedTags(lines, sc) = ToSet(own) \cup ToSet(top) \cup ToSet(rule)
  BY <1>3, Zenon DEF File!MergedTags, own, top, File!ToSet, ToSet
<1> QED
  BY <1>1, <1>5, <1>6, <1>8, <1>9

\* What has been asked and answered.
CasesInv ==
  /\ given \in {Suite, Statements} \/ \E n \in DOMAIN Cases : given \in Cases[n]
  /\ found = Unasked \/ found = Answer(given)

LEMMA CasesAnswered == RulesSpec => []CasesInv
<1>1. RulesInit => CasesInv
  BY DEF RulesInit, CasesInv
<1>2. CasesInv /\ [RulesNext]_rulesVars => CasesInv'
  <2> SUFFICES ASSUME CasesInv, [RulesNext]_rulesVars PROVE CasesInv'
    OBVIOUS
  <2>1. given' = given
    BY DEF RulesNext, Answers, rulesVars
  <2>2. found' = found \/ found' = Answer(given)
    BY DEF RulesNext, Answers, rulesVars
  <2>3. Answer(given)' = Answer(given')
    BY DEF Answer
  <2> QED
    BY <2>1, <2>2, <2>3 DEF CasesInv
<1> QED
  BY <1>1, <1>2, PTL DEF RulesSpec

LEMMA SelectionExact == CasesInv => SelectionAgrees
<1> SUFFICES ASSUME CasesInv, Answered("file") PROVE SelectionAgrees
  BY DEF SelectionAgrees
<1> DEFINE lines == given.lines
<1>1. given.about = "file" /\ found = Answer(given) /\ \E n \in DOMAIN Cases : given \in Cases[n]
  BY DEF Answered, CasesInv, Suite, Statements
<1>2. IsFile(lines)
  BY <1>1, FileAssumption DEF IsFile
<1>3. DOMAIN found.runs = Runs(lines)
  BY <1>1 DEF Answer
<1> HIDE DEF lines
<1>4. ASSUME NEW wanted \in TagFilters, NEW r \in Runs(lines)
      PROVE  /\ File!SelectsRow(lines, wanted, r[1], r[2])
                  <=> File!Matches(wanted, ToSet(File!EffectiveTags(lines, r[1], r[2])))
             /\ File!SelectsRow(lines, wanted, r[1], r[2]) =>
                  File!SelectsAny(lines, wanted, r[1]) /\ File!HasSelectedScenario(lines, wanted)
  <2> DEFINE sc == r[1]
             ex == r[2]
             blocks == File!ExamplesOf(lines, sc) \cap {ex}
  <2>1. sc \in File!Scenarios(lines) /\ \E x \in File!Expanded(lines, sc) : x.examples = ex
    BY DEF Runs
  <2>2. ex \in {File!NoExamples} \cup File!ExamplesOf(lines, sc)
    BY <2>1 DEF File!Expanded
  <2> HIDE DEF sc, ex
  <2>3. ToSet(File!EffectiveTags(lines, sc, ex))
          = File!MergedTags(lines, sc) \cup UNION {ToSet(File!OwnTags(lines, x)) : x \in blocks}
    BY <1>2, <2>1, <2>2, EffectiveAre
  <2>4. File!SelectsRow(lines, wanted, sc, ex)
          <=> File!Matches(wanted, File!MergedTags(lines, sc))
                \/ \E x \in blocks : File!Matches(wanted, ToSet(File!OwnTags(lines, x)))
    BY DEF File!SelectsRow, File!ToSet, ToSet
  <2>5. File!SelectsRow(lines, wanted, sc, ex)
          <=> File!Matches(wanted, ToSet(File!EffectiveTags(lines, sc, ex)))
    BY <2>3, <2>4 DEF File!Matches
  <2>6. File!SelectsRow(lines, wanted, sc, ex) => File!SelectsAny(lines, wanted, sc)
    BY DEF File!SelectsRow, File!SelectsAny
  <2>7. File!SelectsAny(lines, wanted, sc) => File!HasSelectedScenario(lines, wanted)
    BY <2>1 DEF File!HasSelectedScenario
  <2> QED
    BY <2>5, <2>6, <2>7 DEF sc, ex
<1> QED
  BY <1>3, <1>4 DEF SelectionAgrees, lines

\* The rows that a filter runs are those whose tags a report shows for them
\* match it, and none runs whose file or scenario was not selected (feature.rs:
\* selects_row, selects_any, effective_tags), for any file and filter.
THEOREM TagsShownSelect == RulesSpec => []SelectionAgrees
  BY CasesAnswered, SelectionExact, PTL

-----------------------------------------------------------------------------
(***************************************************************************)
(* Tables: an insert.  What it gives a column is what the server's row     *)
(* holds there, or what the server has made of a NULL (RowHolds), so a key *)
(* that is known, or counted, is the row's (ReadsItsRow); each refusal has *)
(* its reason in the row that was asked for (RefusedRightly).              *)
(***************************************************************************)
LEMMA ColumnIs ==
  ASSUME NEW schema, \A c, d \in ToSet(schema) : c.name = d.name => c = d, NEW c \in ToSet(schema)
  PROVE  Db!ColumnOf(schema, c.name) = c
  BY DEF Db!ColumnOf, Db!ToSet, ToSet

LEMMA RowHolds ==
  ASSUME NEW platform, NEW schema, NEW gives,
         \A c, d \in ToSet(schema) : c.name = d.name => c = d, NEW c \in ToSet(schema)
  PROVE  Db!ServerRow(platform, schema, gives)[c.name]
           = IF c.name \in DOMAIN gives
             THEN IF gives[c.name] = Db!Null /\ c.identity /\ platform.nullGenerates
                  THEN Db!NextId ELSE gives[c.name]
             ELSE IF c.identity THEN Db!NextId ELSE IF c.default THEN Db!Default ELSE Db!Null
<1>1. c.name \in {d.name : d \in ToSet(schema)}
  OBVIOUS
<1>2. Db!ColumnOf(schema, c.name) = c
  BY ColumnIs
<1> DEFINE made(d) ==
             CASE d.name \in DOMAIN gives ->
                    IF gives[d.name] = Db!Null /\ d.identity /\ platform.nullGenerates THEN Db!NextId
                    ELSE gives[d.name]
               [] d.name \notin DOMAIN gives ->
                    IF d.identity THEN Db!NextId ELSE IF d.default THEN Db!Default ELSE Db!Null
<1>3. Db!ServerRow(platform, schema, gives)
        = [name \in {d.name : d \in ToSet(schema)} |-> made(Db!ColumnOf(schema, name))]
  BY DEF Db!ServerRow, Db!ToSet, ToSet
<1>4. Db!ServerRow(platform, schema, gives)[c.name] = made(c)
  <2> HIDE DEF made
  <2> QED
    BY <1>1, <1>2, <1>3
<1> QED
  BY <1>4

\* What an insert gives: its values, and what it fills in.
LEMMA GivesWhat ==
  ASSUME NEW platform, NEW schema, NEW values,
         \A c, d \in ToSet(schema) : c.name = d.name => c = d, NEW c \in ToSet(schema),
         ~Db!BuildInsert(platform, schema, values).refused
  PROVE  LET gives == Db!BuildInsert(platform, schema, values).gives
         IN  /\ c.name \in DOMAIN gives <=> Db!GivenIn(values, c.name) \/ Db!Fills(values, c)
             /\ Db!GivenIn(values, c.name) => gives[c.name] = Db!ValueIn(values, c.name)
             /\ Db!Fills(values, c) => gives[c.name] = Db!Filled(c)
<1> DEFINE fills == {d \in ToSet(schema) : Db!Fills(values, d)}
           names == Db!NamesIn(values) \cup {d.name : d \in fills}
           gives == Db!BuildInsert(platform, schema, values).gives
<1>1. gives = [name \in names |-> IF Db!GivenIn(values, name) THEN Db!ValueIn(values, name)
                                  ELSE Db!Filled(Db!ColumnOf(schema, name))]
  BY DEF Db!BuildInsert, Db!Refused, Db!ToSet, ToSet
<1>2. Db!Fills(values, c) => ~Db!GivenIn(values, c.name)
  BY DEF Db!Fills
<1>3. c.name \in names <=> Db!GivenIn(values, c.name) \/ Db!Fills(values, c)
  BY DEF Db!GivenIn
<1>4. Db!ColumnOf(schema, c.name) = c
  BY ColumnIs
<1> HIDE DEF names, gives
<1>5. /\ c.name \in DOMAIN gives <=> Db!GivenIn(values, c.name) \/ Db!Fills(values, c)
      /\ Db!GivenIn(values, c.name) => gives[c.name] = Db!ValueIn(values, c.name)
      /\ Db!Fills(values, c) => gives[c.name] = Db!Filled(c)
  BY <1>1, <1>2, <1>3, <1>4
<1> QED
  BY <1>5 DEF gives

\* Without RETURNING a key's source is its value in the row.
LEMMA ReadsItsRow ==
  ASSUME NEW platform, NEW schema, NEW values,
         \A c, d \in ToSet(schema) : c.name = d.name => c = d,
         ~Db!BuildInsert(platform, schema, values).refused,
         NEW row, row = Db!ServerRow(platform, schema, Db!BuildInsert(platform, schema, values).gives),
         Db!ServerTakes(schema, row), ~Db!HasReturning(platform, schema),
         NEW pk \in Db!PkColumns(schema)
  PROVE  /\ row[pk.name] # Db!Null
         /\ \/ /\ "known" \in DOMAIN Db!SourceOf(values, pk)
               /\ "auto" \notin DOMAIN Db!SourceOf(values, pk)
               /\ Db!SourceOf(values, pk).known = row[pk.name]
            \/ /\ "known" \notin DOMAIN Db!SourceOf(values, pk)
               /\ "auto" \in DOMAIN Db!SourceOf(values, pk)
               /\ row[pk.name] = Db!NextId
<1> DEFINE gives == Db!BuildInsert(platform, schema, values).gives
<1>1. pk \in ToSet(schema) /\ pk.pk
  BY DEF Db!PkColumns, Db!ToSet, ToSet
<1>2. row[pk.name] # Db!Null
  BY <1>1 DEF Db!ServerTakes, Db!ToSet, ToSet
<1>3. "unknown" \notin DOMAIN Db!SourceOf(values, pk)
  <2>1. ~Db!NoSource(platform, schema, values)
    BY DEF Db!BuildInsert, Db!Refused
  <2> QED
    BY <2>1 DEF Db!NoSource
<1>4. row[pk.name] = IF pk.name \in DOMAIN gives
                     THEN IF gives[pk.name] = Db!Null /\ pk.identity /\ platform.nullGenerates
                          THEN Db!NextId ELSE gives[pk.name]
                     ELSE IF pk.identity THEN Db!NextId ELSE IF pk.default THEN Db!Default ELSE Db!Null
  BY <1>1, RowHolds
<1>5. /\ pk.name \in DOMAIN gives <=> Db!GivenIn(values, pk.name) \/ Db!Fills(values, pk)
      /\ Db!GivenIn(values, pk.name) => gives[pk.name] = Db!ValueIn(values, pk.name)
      /\ Db!Fills(values, pk) => gives[pk.name] = Db!Filled(pk)
  BY <1>1, GivesWhat
<1> HIDE DEF gives
<1>6. CASE Db!GivenIn(values, pk.name)
  <2>1. CASE Db!ValueIn(values, pk.name) # Db!Null
    <3>1. Db!SourceOf(values, pk) = [known |-> Db!ValueIn(values, pk.name)]
      BY <1>6, <2>1 DEF Db!SourceOf
    <3> QED
      BY <1>2, <1>4, <1>5, <1>6, <2>1, <3>1
  <2>2. CASE Db!ValueIn(values, pk.name) = Db!Null /\ pk.identity
    <3>1. Db!SourceOf(values, pk) = [auto |-> TRUE]
      BY <1>6, <2>2 DEF Db!SourceOf
    <3> QED
      BY <1>2, <1>4, <1>5, <1>6, <2>2, <3>1
  <2>3. CASE Db!ValueIn(values, pk.name) = Db!Null /\ ~pk.identity
    <3>1. Db!SourceOf(values, pk) = [unknown |-> TRUE]
      BY <1>6, <2>3 DEF Db!SourceOf
    <3> QED
      BY <1>3, <3>1
  <2> QED
    BY <2>1, <2>2, <2>3
<1>7. CASE ~Db!GivenIn(values, pk.name) /\ pk.identity
  <2>1. Db!SourceOf(values, pk) = [auto |-> TRUE]
    BY <1>7 DEF Db!SourceOf
  <2>2. ~Db!Fills(values, pk)
    BY <1>1, <1>7 DEF Db!Fills
  <2> QED
    BY <1>2, <1>4, <1>5, <1>7, <2>1, <2>2
<1>8. CASE ~Db!GivenIn(values, pk.name) /\ ~pk.identity /\ Db!Fills(values, pk)
  <2>1. Db!SourceOf(values, pk) = [known |-> Db!Uuid]
    BY <1>8 DEF Db!SourceOf
  <2>2. Db!Filled(pk) = Db!Uuid /\ Db!Uuid # Db!Null
    BY <1>1 DEF Db!Filled, Db!Uuid, Db!Null
  <2> QED
    BY <1>2, <1>4, <1>5, <1>8, <2>1, <2>2
<1>9. CASE ~Db!GivenIn(values, pk.name) /\ ~pk.identity /\ ~Db!Fills(values, pk)
  <2>1. Db!SourceOf(values, pk) = [unknown |-> TRUE]
    BY <1>9 DEF Db!SourceOf
  <2> QED
    BY <1>3, <2>1
<1> QED
  BY <1>6, <1>7, <1>8, <1>9

\* The reasons to refuse an insert.
LEMMA RefusedRightly ==
  ASSUME NEW platform, NEW schema, NEW values,
         \A c, d \in ToSet(schema) : c.name = d.name => c = d,
         Db!BuildInsert(platform, schema, values).refused,
         NEW asked, asked = Db!ServerRow(platform, schema,
                              [name \in Db!NamesIn(values) |-> Db!ValueIn(values, name)])
  PROVE  \/ Misused(schema, values)
         \/ ~Db!ServerTakes(schema, asked)
         \/ ~platform.returning /\ \E pk \in Db!PkColumns(schema) : asked[pk.name] = Db!Default
         \/ \E c \in ToSet(schema) : c.identity /\ ~c.pk /\ ~c.default
<1> DEFINE gives == [name \in Db!NamesIn(values) |-> Db!ValueIn(values, name)]
<1>1. \/ \E k \in DOMAIN values : values[k][1].op # "=" \/ ~Db!Bindable(schema, values[k][1].column)
      \/ \E c \in ToSet(schema) : Db!Fills(values, c) /\ ~Db!CanFill(c)
      \/ Db!NoSource(platform, schema, values)
  BY DEF Db!BuildInsert, Db!ToSet, ToSet
<1>2. ASSUME NEW c \in ToSet(schema)
      PROVE  asked[c.name] = IF Db!GivenIn(values, c.name)
                             THEN IF Db!ValueIn(values, c.name) = Db!Null /\ c.identity /\ platform.nullGenerates
                                  THEN Db!NextId ELSE Db!ValueIn(values, c.name)
                             ELSE IF c.identity THEN Db!NextId ELSE IF c.default THEN Db!Default ELSE Db!Null
  <2>1. asked[c.name] = IF c.name \in DOMAIN gives
                        THEN IF gives[c.name] = Db!Null /\ c.identity /\ platform.nullGenerates
                             THEN Db!NextId ELSE gives[c.name]
                        ELSE IF c.identity THEN Db!NextId ELSE IF c.default THEN Db!Default ELSE Db!Null
    BY RowHolds
  <2>2. DOMAIN gives = Db!NamesIn(values)
        /\ (c.name \in Db!NamesIn(values) => gives[c.name] = Db!ValueIn(values, c.name))
    OBVIOUS
  <2> HIDE DEF gives
  <2> QED
    BY <2>1, <2>2 DEF Db!GivenIn
<1>3. CASE \E k \in DOMAIN values : values[k][1].op # "=" \/ ~Db!Bindable(schema, values[k][1].column)
  BY <1>3 DEF Misused
<1>4. ASSUME NEW c \in ToSet(schema), Db!Fills(values, c), ~(c.identity /\ ~c.pk /\ ~c.default)
      PROVE  ~Db!ServerTakes(schema, asked)
  <2>1. ~Db!GivenIn(values, c.name) /\ ~c.default /\ ~c.identity /\ (c.pk \/ c.notNull)
    BY <1>4 DEF Db!Fills
  <2>2. asked[c.name] = Db!Null
    BY <1>2, <2>1
  <2> QED
    BY <2>1, <2>2 DEF Db!ServerTakes, Db!ToSet, ToSet
<1>5. CASE Db!NoSource(platform, schema, values)
  <2>1. PICK pk \in Db!PkColumns(schema) : "unknown" \in DOMAIN Db!SourceOf(values, pk)
    BY <1>5 DEF Db!NoSource
  <2>2. pk \in ToSet(schema) /\ pk.pk
    BY DEF Db!PkColumns, Db!ToSet, ToSet
  <2>3. ~platform.returning
    BY <1>5 DEF Db!NoSource, Db!HasReturning
  <2>4. CASE Db!GivenIn(values, pk.name)
    <3>1. CASE Db!ValueIn(values, pk.name) # Db!Null
      <4>1. Db!SourceOf(values, pk) = [known |-> Db!ValueIn(values, pk.name)]
        BY <2>4, <3>1 DEF Db!SourceOf
      <4> QED
        BY <2>1, <4>1
    <3>2. CASE Db!ValueIn(values, pk.name) = Db!Null /\ pk.identity
      <4>1. Db!SourceOf(values, pk) = [auto |-> TRUE]
        BY <2>4, <3>2 DEF Db!SourceOf
      <4> QED
        BY <2>1, <4>1
    <3>3. CASE Db!ValueIn(values, pk.name) = Db!Null /\ ~pk.identity
      <4>1. asked[pk.name] = Db!Null
        BY <1>2, <2>2, <2>4, <3>3
      <4> QED
        BY <2>2, <4>1 DEF Db!ServerTakes, Db!ToSet, ToSet
    <3> QED
      BY <3>1, <3>2, <3>3
  <2>5. CASE ~Db!GivenIn(values, pk.name)
    <3>1. CASE pk.identity
      <4>1. Db!SourceOf(values, pk) = [auto |-> TRUE]
        BY <2>5, <3>1 DEF Db!SourceOf
      <4> QED
        BY <2>1, <4>1
    <3>2. CASE ~pk.identity /\ Db!Fills(values, pk)
      <4>1. Db!SourceOf(values, pk) = [known |-> Db!Uuid]
        BY <2>5, <3>2 DEF Db!SourceOf
      <4> QED
        BY <2>1, <4>1
    <3>3. CASE ~pk.identity /\ ~Db!Fills(values, pk)
      <4>1. pk.default
        BY <2>2, <2>5, <3>3 DEF Db!Fills
      <4>2. asked[pk.name] = Db!Default
        BY <1>2, <2>2, <2>5, <3>3, <4>1
      <4> QED
        BY <2>3, <4>2
    <3> QED
      BY <3>1, <3>2, <3>3
  <2> QED
    BY <2>4, <2>5
<1> QED
  BY <1>1, <1>3, <1>4, <1>5

LEMMA InsertsNameRows == CasesInv => RowNamed
<1> SUFFICES ASSUME CasesInv, Answered("insert") PROVE RowNamed
  BY Zenon DEF RowNamed
<1>1. given.about = "insert" /\ found = Answer(given) /\ \E n \in DOMAIN Cases : given \in Cases[n]
  BY DEF Answered, CasesInv, Suite, Statements
<1>2. \A c, d \in ToSet(given.schema) : c.name = d.name => c = d
  BY <1>1, StatementAssumption
<1>3. found = [v \in given.values |-> Db!InsertStep(given.platform, given.schema, v)]
  BY <1>1 DEF Answer
<1> SUFFICES ASSUME NEW values \in DOMAIN found
             PROVE  LET answer == found[values]
                        pks == Db!PkColumns(given.schema)
                        asked == Db!ServerRow(given.platform, given.schema,
                                   [name \in Db!NamesIn(values) |-> Db!ValueIn(values, name)])
                    IN  /\ answer.result = "passed" => answer.vars = [pk \in pks |-> answer.row[pk.name]]
                        /\ answer.result # "passed" => answer.row = Db!NoRow
                        /\ answer.result = "refused" =>
                             \/ Misused(given.schema, values)
                             \/ ~Db!ServerTakes(given.schema, asked)
                             \/ ~given.platform.returning /\ \E pk \in pks : asked[pk.name] = Db!Default
                             \/ \E c \in ToSet(given.schema) : c.identity /\ ~c.pk /\ ~c.default
  BY Zenon DEF RowNamed
<1> DEFINE platform == given.platform
           schema == given.schema
           answer == found[values]
           plan == Db!BuildInsert(platform, schema, values)
           row == Db!ServerRow(platform, schema, plan.gives)
           pks == Db!PkColumns(schema)
           source(pk) == Db!SourceOf(values, pk)
           read(pk) ==
             CASE Db!HasReturning(platform, schema) -> row[pk.name]
               [] ~Db!HasReturning(platform, schema) /\ "known" \in DOMAIN source(pk) -> source(pk).known
               [] ~Db!HasReturning(platform, schema) /\ "auto" \in DOMAIN source(pk) -> Db!NextId
               [] OTHER -> Db!Null
<1>4. answer = Db!InsertStep(platform, schema, values)
  BY <1>3
<1>5. CASE plan.refused
  <2>1. answer = Db!Answer("refused", Db!NoRow, <<>>)
    BY <1>4, <1>5 DEF Db!InsertStep
  <2> QED
    BY <1>2, <1>5, <2>1, RefusedRightly DEF Db!Answer
<1>6. CASE ~plan.refused /\ ~Db!ServerTakes(schema, row)
  <2>1. answer = Db!Answer("error", Db!NoRow, <<>>)
    BY <1>4, <1>6 DEF Db!InsertStep
  <2> QED
    BY <2>1 DEF Db!Answer
<1>7. CASE ~plan.refused /\ Db!ServerTakes(schema, row)
  <2>1. answer = Db!Answer(IF \E pk \in pks : read(pk) = Db!Null THEN "failed" ELSE "passed",
                           row, [pk \in pks |-> read(pk)])
    BY <1>4, <1>7 DEF Db!InsertStep
  <2>2. ASSUME NEW pk \in pks PROVE read(pk) = row[pk.name] /\ row[pk.name] # Db!Null
    <3>1. CASE Db!HasReturning(platform, schema)
      <4>1. pk \in ToSet(schema) /\ pk.pk
        BY DEF Db!PkColumns, Db!ToSet, ToSet
      <4> QED
        BY <1>7, <3>1, <4>1 DEF Db!ServerTakes, Db!ToSet, ToSet
    <3>2. CASE ~Db!HasReturning(platform, schema)
      <4>1. /\ row[pk.name] # Db!Null
            /\ \/ /\ "known" \in DOMAIN source(pk) /\ "auto" \notin DOMAIN source(pk)
                  /\ source(pk).known = row[pk.name]
               \/ /\ "known" \notin DOMAIN source(pk) /\ "auto" \in DOMAIN source(pk)
                  /\ row[pk.name] = Db!NextId
        BY <1>2, <1>7, <3>2, ReadsItsRow
      <4> HIDE DEF source, row, platform, schema
      <4>2. CASE "known" \in DOMAIN source(pk)
        <5>1. source(pk).known = row[pk.name] /\ row[pk.name] # Db!Null /\ "auto" \notin DOMAIN source(pk)
          BY <4>1, <4>2
        <5>2. read(pk) = source(pk).known
          BY <3>2, <4>2, <5>1
        <5> QED
          BY <5>1, <5>2
      <4>3. CASE "known" \notin DOMAIN source(pk)
        <5>1. "auto" \in DOMAIN source(pk) /\ row[pk.name] = Db!NextId /\ row[pk.name] # Db!Null
          BY <4>1, <4>3
        <5>2. read(pk) = Db!NextId
          BY <3>2, <4>3, <5>1
        <5> QED
          BY <5>1, <5>2
      <4> QED
        BY <4>2, <4>3
    <3> QED
      BY <3>1, <3>2
  <2> HIDE DEF read
  <2>3. answer = Db!Answer("passed", row, [pk \in pks |-> row[pk.name]])
    BY <2>1, <2>2
  <2> HIDE DEF answer, row
  <2> QED
    BY <2>3 DEF Db!Answer, answer
<1> QED
  BY <1>5, <1>6, <1>7, Zenon

-----------------------------------------------------------------------------
(***************************************************************************)
(* Tables: an update.  A bind of the condition has a number and a place in *)
(* the text behind those of what is set, and they are the same one         *)
(* (BindsStand); so the server's rows are those the condition means.       *)
(***************************************************************************)
LEMMA CountedAlike == \A S : Db!Cardinality(S) = Cardinality(S)
  BY DEF Db!Cardinality, Cardinality

\* How many of the first m numbers are in a set.
CountTo(B, m) == Cardinality({j \in 1..m : j \in B})

LEMMA CountGrows ==
  ASSUME NEW B, NEW m \in Nat
  PROVE  /\ CountTo(B, m) \in Nat
         /\ CountTo(B, m + 1) = IF m + 1 \in B THEN CountTo(B, m) + 1 ELSE CountTo(B, m)
<1> DEFINE S(k) == {j \in 1..k : j \in B}
<1>1. IsFiniteSet(S(m)) /\ Cardinality(S(m)) \in Nat
  <2>1. IsFiniteSet(1..m)
    BY FS_Interval
  <2>2. S(m) \subseteq 1..m
    OBVIOUS
  <2> HIDE DEF S
  <2>3. IsFiniteSet(S(m))
    BY <2>1, <2>2, FS_Subset
  <2> QED
    BY <2>3, FS_CardinalityType
<1>2. CASE m + 1 \in B
  <2>1. S(m + 1) = S(m) \cup {m + 1} /\ m + 1 \notin S(m)
    BY <1>2
  <2> HIDE DEF S
  <2>2. Cardinality(S(m) \cup {m + 1}) = Cardinality(S(m)) + 1
    BY <1>1, <2>1, FS_AddElement
  <2> QED
    BY <1>1, <1>2, <2>1, <2>2 DEF CountTo, S
<1>3. CASE m + 1 \notin B
  <2>1. S(m + 1) = S(m)
    BY <1>3
  <2> QED
    BY <1>1, <1>3, <2>1 DEF CountTo
<1> QED
  BY <1>2, <1>3

LEMMA CountOrders ==
  ASSUME NEW B, NEW m \in Nat
  PROVE  \A k \in Nat : k <= m => CountTo(B, k) <= CountTo(B, m)
<1> DEFINE S == {n \in Nat : \A k \in Nat : k <= n => CountTo(B, k) <= CountTo(B, n)}
<1>1. 0 \in S
  <2>1. CountTo(B, 0) \in Nat
    BY CountGrows
  <2> QED
    BY <2>1
<1>2. ASSUME NEW n \in Nat, n \in S PROVE n + 1 \in S
  <2> SUFFICES ASSUME NEW k \in Nat, k <= n + 1 PROVE CountTo(B, k) <= CountTo(B, n + 1)
    OBVIOUS
  <2>1. CountTo(B, n + 1) \in Nat /\ CountTo(B, n) \in Nat /\ CountTo(B, k) \in Nat
        /\ CountTo(B, n) <= CountTo(B, n + 1)
    <3>1. n + 1 \in Nat
      OBVIOUS
    <3> QED
      BY <3>1, CountGrows
  <2>2. CASE k = n + 1
    BY <2>1, <2>2
  <2>3. CASE k # n + 1
    <3>1. CountTo(B, k) <= CountTo(B, n)
      BY <1>2, <2>3
    <3> QED
      BY <2>1, <3>1
  <2> QED
    BY <2>2, <2>3
<1> HIDE DEF S
<1>3. m \in S
  BY <1>1, <1>2, SetInduction
<1> QED
  BY <1>3 DEF S

\* Two numbers of a set have different counts before them, below its own.
LEMMA CountTells ==
  ASSUME NEW B, NEW n \in Nat, B \subseteq 1..n
  PROVE  /\ \A k \in B : CountTo(B, k - 1) + 1 \in 1..CountTo(B, n)
         /\ \A j, k \in B : CountTo(B, j - 1) = CountTo(B, k - 1) => j = k
         /\ CountTo(B, n) = Cardinality(B)
<1>1. ASSUME NEW k \in B
      PROVE  /\ k \in Nat /\ k - 1 \in Nat /\ CountTo(B, k - 1) \in Nat
             /\ CountTo(B, k) = CountTo(B, k - 1) + 1
  <2>1. k \in Nat /\ k - 1 \in Nat /\ (k - 1) + 1 = k
    OBVIOUS
  <2> QED
    BY <2>1, CountGrows
<1>2. ASSUME NEW k \in B PROVE CountTo(B, k - 1) + 1 \in 1..CountTo(B, n)
  <2>1. CountTo(B, k) <= CountTo(B, n) /\ CountTo(B, n) \in Nat
    BY <1>1, CountOrders, CountGrows
  <2> QED
    BY <1>1, <2>1
<1>3. ASSUME NEW j \in B, NEW k \in B, j < k PROVE CountTo(B, j - 1) # CountTo(B, k - 1)
  <2>1. j <= k - 1
    BY <1>1, <1>3
  <2>2. CountTo(B, j) <= CountTo(B, k - 1)
    BY <1>1, <2>1, CountOrders
  <2> QED
    BY <1>1, <2>2
<1>4. ASSUME NEW j \in B, NEW k \in B, CountTo(B, j - 1) = CountTo(B, k - 1) PROVE j = k
  BY <1>1, <1>3, <1>4
<1>5. CountTo(B, n) = Cardinality(B)
  <2>1. {j \in 1..n : j \in B} = B
    BY Zenon
  <2> QED
    BY <2>1 DEF CountTo
<1> QED
  BY <1>2, <1>4, <1>5

\* The parts of a condition that bind a value.
Binding(pairs) == {k \in DOMAIN pairs : pairs[k][2] # Db!Null}

\* The k-th part of a condition, bound behind what is set.
LEMMA BindsStand ==
  ASSUME NEW pairs, pairs \in Seq(ToSet(pairs)), NEW set, set \in Seq(ToSet(set)), NEW stmt,
         stmt = Db!BuildUpdate(Schema, set, pairs), ~stmt.refused
  PROVE  /\ pairs # <<>>
         /\ DOMAIN stmt.parts = DOMAIN pairs
         /\ \A k \in DOMAIN pairs :
              /\ stmt.parts[k].column = pairs[k][1].column
              /\ stmt.parts[k].op = pairs[k][1].op
              /\ stmt.parts[k].param = IF k \in Binding(pairs)
                                       THEN Len(set) + 1 + CountTo(Binding(pairs), k - 1) ELSE 0
         /\ \A k \in Binding(pairs) : stmt.binds[Len(set) + CountTo(Binding(pairs), k)] = pairs[k][2]
         /\ \A k \in DOMAIN set : stmt.binds[k] = set[k][2]
         /\ stmt.sets = [k \in DOMAIN set |-> [column |-> set[k][1].column, param |-> k]]
<1> DEFINE B == {k \in DOMAIN pairs : pairs[k][2] # Db!Null}
           binds(k) == pairs[k][2] # Db!Null
           before(k) == Db!Cardinality({j \in 1..(k - 1) : binds(j)})
           bound == {k \in DOMAIN pairs : binds(k)}
           where == Db!BuildWhere(Schema, pairs, Len(set) + 1)
           front == [k \in DOMAIN set |-> set[k][2]]
           back == [n \in 1..Db!Cardinality(bound) |-> pairs[CHOOSE k \in bound : before(k) = n - 1][2]]
<1>1. pairs # <<>> /\ ~where.refused
      /\ stmt = [refused |-> FALSE, parts |-> where.parts, binds |-> front \o where.binds,
                 sets |-> [k \in DOMAIN set |-> [column |-> set[k][1].column, param |-> k]]]
  BY DEF Db!BuildUpdate, Db!FirstOfWhere, Db!Refused
<1>2. where = [refused |-> FALSE,
               parts |-> [k \in DOMAIN pairs |->
                            [column |-> pairs[k][1].column, op |-> pairs[k][1].op,
                             param |-> IF binds(k) THEN Len(set) + 1 + before(k) ELSE 0]],
               binds |-> back]
  <2>1. ~\E k \in DOMAIN pairs : ~Db!Bindable(Schema, pairs[k][1].column)
                                 \/ (~binds(k) /\ pairs[k][1].op \in {"like", "not like"})
    BY <1>1, Zenon DEF Db!BuildWhere, Db!Refused
  <2> QED
    BY <2>1, Zenon DEF Db!BuildWhere
<1>3. Len(pairs) \in Nat /\ DOMAIN pairs = 1..Len(pairs) /\ Len(set) \in Nat /\ DOMAIN set = 1..Len(set)
  OBVIOUS
<1>4. ASSUME NEW k \in DOMAIN pairs PROVE before(k) = CountTo(B, k - 1)
  <2>1. {j \in 1..(k - 1) : binds(j)} = {j \in 1..(k - 1) : j \in B}
    BY <1>3
  <2> QED
    BY <2>1, CountedAlike, Zenon DEF CountTo
<1>5. B \subseteq 1..Len(pairs) /\ bound = B
  BY <1>3
<1>6. /\ \A k \in B : CountTo(B, k - 1) + 1 \in 1..CountTo(B, Len(pairs))
      /\ \A j, k \in B : CountTo(B, j - 1) = CountTo(B, k - 1) => j = k
      /\ CountTo(B, Len(pairs)) = Cardinality(B)
  <2> HIDE DEF B
  <2> QED
    BY <1>3, <1>5, CountTells, Zenon
<1>7. ASSUME NEW k \in B
      PROVE  /\ CountTo(B, k) \in 1..Db!Cardinality(bound) /\ CountTo(B, k) = CountTo(B, k - 1) + 1
             /\ back[CountTo(B, k)] = pairs[k][2]
  <2>1. k \in DOMAIN pairs /\ k - 1 \in Nat /\ (k - 1) + 1 = k
    BY <1>3
  <2>2. CountTo(B, k) = CountTo(B, k - 1) + 1 /\ CountTo(B, k - 1) \in Nat
    BY <2>1, CountGrows
  <2>3. CountTo(B, k) \in 1..Db!Cardinality(bound)
    BY <1>5, <1>6, <2>2, CountedAlike
  <2>4. back[CountTo(B, k)] = pairs[CHOOSE j \in bound : before(j) = CountTo(B, k) - 1][2]
    BY <2>3
  <2>5. ASSUME NEW j \in bound PROVE before(j) = CountTo(B, k) - 1 <=> j = k
    <3>1. j \in B /\ j \in DOMAIN pairs /\ before(j) = CountTo(B, j - 1)
      BY <1>4
    <3>2. CountTo(B, j - 1) = CountTo(B, k - 1) => j = k
      BY <1>6, <3>1
    <3> HIDE DEF before, B
    <3> QED
      BY <2>2, <3>1, <3>2
  <2>6. (CHOOSE j \in bound : before(j) = CountTo(B, k) - 1) = k
    BY <1>5, <2>5
  <2> QED
    BY <2>2, <2>3, <2>4, <2>6, Zenon
<1>8. /\ front \in Seq({front[k] : k \in DOMAIN front}) /\ Len(front) = Len(set)
      /\ \A k \in DOMAIN set : front[k] = set[k][2]
  BY <1>3
<1>9. Db!Cardinality(bound) \in Nat
  BY <1>3, <1>5, <1>6, CountGrows, CountedAlike
<1>10. DOMAIN back = 1..Db!Cardinality(bound)
  OBVIOUS
<1> HIDE DEF front, back, bound, before
<1>11. /\ \A k \in 1..Len(set) : (front \o back)[k] = front[k]
       /\ \A k \in 1..Db!Cardinality(bound) : (front \o back)[Len(set) + k] = back[k]
  <2> DEFINE S == {front[k] : k \in DOMAIN front} \cup {back[k] : k \in DOMAIN back}
  <2>1. back = [k \in 1..Db!Cardinality(bound) |-> back[k]]
    BY <1>10 DEF back
  <2>2. \A k \in 1..Db!Cardinality(bound) : back[k] \in S
    BY <1>10
  <2>3. front \in Seq(S)
    BY <1>8
  <2> HIDE DEF S
  <2>4. back \in Seq(S) /\ Len(back) = Db!Cardinality(bound)
    BY <1>9, <2>1, <2>2
  <2> QED
    BY <1>8, <2>3, <2>4
<1> HIDE DEF where
<1>12. \A k \in B : stmt.binds[Len(set) + CountTo(B, k)] = pairs[k][2]
  <2> SUFFICES ASSUME NEW k \in B PROVE stmt.binds[Len(set) + CountTo(B, k)] = pairs[k][2]
    OBVIOUS
  <2>1. stmt.binds = front \o back
    BY <1>1, <1>2
  <2>2. CountTo(B, k) \in 1..Db!Cardinality(bound) /\ back[CountTo(B, k)] = pairs[k][2]
    BY <1>7
  <2> HIDE DEF B
  <2> QED
    BY <1>11, <2>1, <2>2, Zenon
<1>13. \A k \in DOMAIN set : stmt.binds[k] = set[k][2]
  BY <1>1, <1>2, <1>3, <1>8, <1>11
<1>14. \A k \in DOMAIN pairs :
         /\ stmt.parts[k].column = pairs[k][1].column
         /\ stmt.parts[k].op = pairs[k][1].op
         /\ stmt.parts[k].param = IF k \in B THEN Len(set) + 1 + CountTo(B, k - 1) ELSE 0
  <2>1. stmt.parts = [k \in DOMAIN pairs |->
                        [column |-> pairs[k][1].column, op |-> pairs[k][1].op,
                         param |-> IF binds(k) THEN Len(set) + 1 + before(k) ELSE 0]]
    BY <1>1, <1>2
  <2>2. \A k \in DOMAIN pairs : binds(k) <=> k \in B
    OBVIOUS
  <2> HIDE DEF B, binds
  <2> QED
    BY <1>4, <2>1, <2>2
<1>15. DOMAIN stmt.parts = DOMAIN pairs
       /\ stmt.sets = [k \in DOMAIN set |-> [column |-> set[k][1].column, param |-> k]]
  BY <1>1, <1>2
<1> HIDE DEF B
<1> QED
  BY <1>1, <1>12, <1>13, <1>14, <1>15, Zenon DEF B, Binding

LEMMA UpdateRefused ==
  ASSUME NEW pairs, NEW set, Db!BuildUpdate(Schema, set, pairs).refused
  PROVE  \/ pairs = <<>>
         \/ Misused(Schema, set)
         \/ \E pair \in ToSet(pairs) : ~Db!Bindable(Schema, pair[1].column)
         \/ \E pair \in ToSet(pairs) : pair[2] = Db!Null /\ pair[1].op \in {"like", "not like"}
<1> DEFINE where == Db!BuildWhere(Schema, pairs, Db!FirstOfWhere(set))
<1>1. \/ pairs = <<>>
      \/ where.refused
      \/ \E k \in DOMAIN set : set[k][1].op # "=" \/ ~Db!Bindable(Schema, set[k][1].column)
  BY DEF Db!BuildUpdate
<1>2. where.refused =>
        \E k \in DOMAIN pairs : ~Db!Bindable(Schema, pairs[k][1].column)
                                  \/ (pairs[k][2] = Db!Null /\ pairs[k][1].op \in {"like", "not like"})
  BY Zenon DEF Db!BuildWhere
<1>3. \A k \in DOMAIN pairs : pairs[k] \in ToSet(pairs)
  BY DEF ToSet
<1> QED
  BY <1>1, <1>2, <1>3, Zenon DEF Misused

\* The server's rows are the condition's, and it sets what SET says.
LEMMA UpdateMeans ==
  ASSUME NEW pairs, pairs \in Seq(ToSet(pairs)), NEW set, set \in Seq(ToSet(set)), NEW stmt, NEW platform,
         \A j, k \in DOMAIN set : set[j][1].column = set[k][1].column => j = k,
         stmt = Db!BuildUpdate(Schema, set, pairs), ~stmt.refused
  PROVE  Db!Updated(platform, Table, stmt)
           = [r \in DOMAIN Table |-> IF Db!Wants(Table[r], pairs) THEN Db!Meant(Table[r], set) ELSE Table[r]]
<1> DEFINE B == Binding(pairs)
           n == Len(set)
<1>1. /\ DOMAIN stmt.parts = DOMAIN pairs
      /\ \A k \in DOMAIN pairs :
           /\ stmt.parts[k].column = pairs[k][1].column
           /\ stmt.parts[k].op = pairs[k][1].op
           /\ stmt.parts[k].param = IF k \in B THEN n + 1 + CountTo(B, k - 1) ELSE 0
      /\ \A k \in B : stmt.binds[n + CountTo(B, k)] = pairs[k][2]
      /\ \A k \in DOMAIN set : stmt.binds[k] = set[k][2]
      /\ stmt.sets = [k \in DOMAIN set |-> [column |-> set[k][1].column, param |-> k]]
  BY BindsStand
<1>2. Len(pairs) \in Nat /\ DOMAIN pairs = 1..Len(pairs) /\ n \in Nat /\ DOMAIN set = 1..n
  OBVIOUS
<1>3. Len(stmt.sets) = n
  BY <1>1, <1>2
<1> DEFINE place(k) == n + Db!Cardinality({j \in 1..k : stmt.parts[j].param # 0})
           holds(row, k) ==
             LET part == stmt.parts[k] IN
             IF part.param = 0 THEN (row[part.column] = Db!Null) = (part.op = "=")
             ELSE Db!Holds(part.op, row[part.column], Db!Bound(platform, stmt.binds, part.param, place(k)))
           wants(row, k) ==
             IF pairs[k][2] = Db!Null THEN (row[pairs[k][1].column] = Db!Null) = (pairs[k][1].op = "=")
             ELSE Db!Holds(pairs[k][1].op, row[pairs[k][1].column], pairs[k][2])
           after(row) == [name \in DOMAIN row |->
             LET sets == {k \in DOMAIN stmt.sets : stmt.sets[k].column = name}
             IN  IF sets = {} THEN row[name]
                 ELSE Db!Bound(platform, stmt.binds, stmt.sets[Max(sets)].param, Max(sets))]
           hit == {r \in DOMAIN Table : \A k \in DOMAIN stmt.parts : holds(Table[r], k)}
<1>4. Db!Updated(platform, Table, stmt)
        = [r \in DOMAIN Table |-> IF r \in hit THEN after(Table[r]) ELSE Table[r]]
  BY <1>3 DEF Db!Updated, Db!Selected, Db!Max, Max
<1>5. ASSUME NEW k \in B
      PROVE  /\ stmt.parts[k].param = n + CountTo(B, k) /\ stmt.parts[k].param # 0
             /\ place(k) = n + CountTo(B, k)
  <2>1. k \in Nat /\ k - 1 \in Nat /\ (k - 1) + 1 = k /\ k \in DOMAIN pairs
    BY <1>2 DEF Binding
  <2>2. CountTo(B, k) = CountTo(B, k - 1) + 1 /\ CountTo(B, k - 1) \in Nat
    BY <2>1, CountGrows
  <2>3. stmt.parts[k].param = n + 1 + CountTo(B, k - 1)
    BY <1>1, <2>1
  <2>4. {j \in 1..k : stmt.parts[j].param # 0} = {j \in 1..k : j \in B}
    <3>1. ASSUME NEW j \in 1..k PROVE stmt.parts[j].param # 0 <=> j \in B
      <4>1. j \in DOMAIN pairs /\ j \in Nat /\ j - 1 \in Nat
        BY <1>2, <2>1
      <4>2. CountTo(B, j - 1) \in Nat
        BY <4>1, CountGrows
      <4>3. stmt.parts[j].param = IF j \in B THEN n + 1 + CountTo(B, j - 1) ELSE 0
        BY <1>1, <4>1
      <4> HIDE DEF B, n
      <4> QED
        BY <1>2, <4>2, <4>3
    <3> QED
      BY <3>1
  <2>5. place(k) = n + CountTo(B, k)
    BY <2>4, CountedAlike, Zenon DEF CountTo
  <2> HIDE DEF B, n, place
  <2> QED
    BY <1>2, <2>2, <2>3, <2>5
<1>6. ASSUME NEW row, NEW k \in DOMAIN pairs PROVE holds(row, k) = wants(row, k)
  <2>1. stmt.parts[k].column = pairs[k][1].column /\ stmt.parts[k].op = pairs[k][1].op
    BY <1>1
  <2>2. CASE k \in B
    <3>1. Db!Bound(platform, stmt.binds, stmt.parts[k].param, place(k)) = pairs[k][2]
      <4>1. stmt.binds[n + CountTo(B, k)] = pairs[k][2]
        BY <1>1, <2>2
      <4> HIDE DEF place, B, n
      <4> QED
        BY <1>5, <2>2, <4>1 DEF Db!Bound
    <3>2. stmt.parts[k].param # 0 /\ pairs[k][2] # Db!Null
      BY <1>5, <2>2, Zenon DEF Binding
    <3> HIDE DEF place
    <3> QED
      BY <2>1, <2>2, <3>1, <3>2
  <2>3. CASE k \notin B
    <3>1. stmt.parts[k].param = 0
      BY <1>1, <2>3
    <3>2. pairs[k][2] = Db!Null
      BY <2>3 DEF Binding
    <3> HIDE DEF place
    <3> QED
      BY <2>1, <3>1, <3>2
  <2> QED
    BY <2>2, <2>3
<1>7. ASSUME NEW row PROVE after(row) = Db!Meant(row, set)
  <2> SUFFICES ASSUME NEW name \in DOMAIN row
               PROVE  after(row)[name]
                        = IF Db!GivenIn(set, name) THEN Db!ValueIn(set, name) ELSE row[name]
    BY Zenon DEF Db!Meant
  <2> DEFINE sets == {k \in DOMAIN stmt.sets : stmt.sets[k].column = name}
  <2>1. sets = {k \in DOMAIN set : set[k][1].column = name}
    BY <1>1
  <2>2. after(row)[name] = IF sets = {} THEN row[name]
                           ELSE Db!Bound(platform, stmt.binds, stmt.sets[Max(sets)].param, Max(sets))
    OBVIOUS
  <2>3. Db!GivenIn(set, name) <=> sets # {}
    BY <2>1 DEF Db!GivenIn, Db!NamesIn
  <2>4. ASSUME NEW k \in sets
        PROVE  /\ Max(sets) = k /\ stmt.sets[k].param = k /\ stmt.binds[k] = set[k][2]
               /\ Db!ValueIn(set, name) = set[k][2]
    <3>1. k \in DOMAIN set /\ set[k][1].column = name /\ k \in Nat
      BY <1>2, <2>1
    <3>2. sets = {k}
      BY <2>1, <3>1
    <3> HIDE DEF sets
    <3>3. Max({k}) = k
      BY <3>1 DEF Max
    <3>4. stmt.sets[k].param = k /\ stmt.binds[k] = set[k][2]
      BY <1>1, <3>1
    <3>5. (CHOOSE j \in DOMAIN set : set[j][1].column = name) = k
      BY <3>1
    <3> QED
      BY <3>2, <3>3, <3>4, <3>5, Zenon DEF Db!ValueIn
  <2> HIDE DEF sets, after
  <2>5. CASE sets = {}
    BY <2>2, <2>3, <2>5
  <2>6. CASE sets # {}
    <3>1. PICK k \in sets : TRUE
      BY <2>6
    <3> QED
      BY <2>2, <2>3, <2>4, <2>6, <3>1 DEF Db!Bound
  <2> QED
    BY <2>5, <2>6
<1>8. ASSUME NEW r \in DOMAIN Table PROVE r \in hit <=> Db!Wants(Table[r], pairs)
  <2>1. Db!Wants(Table[r], pairs) <=> \A k \in DOMAIN pairs : wants(Table[r], k)
    BY DEF Db!Wants
  <2> HIDE DEF holds, wants
  <2> QED
    BY <1>1, <1>6, <2>1
<1> HIDE DEF hit, after
<1> QED
  BY <1>4, <1>7, <1>8

LEMMA UpdatesMean ==
  CasesInv /\ Answered("update") =>
    IF found.refused
    THEN \/ given.where = <<>>
         \/ Misused(Schema, given.set)
         \/ \E pair \in ToSet(given.where) : ~Db!Bindable(Schema, pair[1].column)
         \/ \E pair \in ToSet(given.where) : pair[2] = Db!Null /\ pair[1].op \in {"like", "not like"}
    ELSE Db!Updated(given.platform, Table, found)
           = [r \in DOMAIN Table |-> IF Db!Wants(Table[r], given.where)
                                     THEN Db!Meant(Table[r], given.set) ELSE Table[r]]
<1> SUFFICES ASSUME CasesInv, Answered("update")
             PROVE  IF found.refused
                    THEN \/ given.where = <<>>
                         \/ Misused(Schema, given.set)
                         \/ \E pair \in ToSet(given.where) : ~Db!Bindable(Schema, pair[1].column)
                         \/ \E pair \in ToSet(given.where) : pair[2] = Db!Null /\ pair[1].op \in {"like", "not like"}
                    ELSE Db!Updated(given.platform, Table, found)
                           = [r \in DOMAIN Table |-> IF Db!Wants(Table[r], given.where)
                                                     THEN Db!Meant(Table[r], given.set) ELSE Table[r]]
  BY Zenon
<1>1. given.about = "update" /\ found = Answer(given) /\ \E n \in DOMAIN Cases : given \in Cases[n]
  BY DEF Answered, CasesInv, Suite, Statements
<1>2. /\ given.where \in Seq(ToSet(given.where)) /\ given.set \in Seq(ToSet(given.set))
      /\ \A j, k \in DOMAIN given.set : given.set[j][1].column = given.set[k][1].column => j = k
  BY <1>1, StatementAssumption
<1>3. found = Db!BuildUpdate(Schema, given.set, given.where)
  BY <1>1 DEF Answer
<1>4. CASE found.refused
  BY <1>3, <1>4, UpdateRefused, Zenon
<1>5. CASE ~found.refused
  BY <1>2, <1>3, <1>5, UpdateMeans
<1> QED
  BY <1>4, <1>5, Zenon

-----------------------------------------------------------------------------
(***************************************************************************)
(* Tables: a list reads as it was written.  PiecesRead goes on over a text *)
(* that is longer by a character as ReadOn says (ReadsOn); so over a text  *)
(* without commas (ReadsPlain), over a value with its commas escaped       *)
(* (ReadsEscaped), and over a pair (ReadsPair).  The colon of a piece and  *)
(* the blanks beside it are found again by PieceParts.                     *)
(***************************************************************************)
Readings(U) == [pieces : Seq(Seq(U)), last : Seq(U)]
NothingRead == [pieces |-> <<>>, last |-> <<>>]

LEMMA ReadOnIs ==
  ASSUME NEW U, Db!Comma \in U, NEW before \in Readings(U), NEW text \in Seq(U), NEW k \in 1..Len(text)
  PROVE  Db!ReadOn(before, text, k) \in Readings(U)
<1>1. text[k] \in U /\ before.last \in Seq(U) /\ before.pieces \in Seq(Seq(U))
  BY DEF Readings
<1>2. CASE text[k] # Db!Comma
  <2>1. Append(before.last, text[k]) \in Seq(U)
    BY <1>1
  <2>2. Db!ReadOn(before, text, k) = [pieces |-> before.pieces, last |-> Append(before.last, text[k])]
    BY <1>2 DEF Db!ReadOn
  <2> QED
    BY <2>1, <2>2 DEF Readings
<1>3. CASE text[k] = Db!Comma /\ Db!IsEscaped(text, k)
  <2>1. Append(Db!Front(before.last), Db!Comma) \in Seq(U)
    BY <1>1 DEF Db!Front
  <2>2. Db!ReadOn(before, text, k) = [pieces |-> before.pieces, last |-> Append(Db!Front(before.last), Db!Comma)]
    BY <1>3 DEF Db!ReadOn
  <2> QED
    BY <2>1, <2>2 DEF Readings
<1>4. CASE text[k] = Db!Comma /\ ~Db!IsEscaped(text, k)
  <2>1. Append(before.pieces, before.last) \in Seq(Seq(U)) /\ <<>> \in Seq(U)
    BY <1>1
  <2>2. Db!ReadOn(before, text, k) = [pieces |-> Append(before.pieces, before.last), last |-> <<>>]
    BY <1>4 DEF Db!ReadOn
  <2> QED
    BY <2>1, <2>2 DEF Readings
<1> QED
  BY <1>2, <1>3, <1>4

\* Reads(h): h holds what is read of each prefix.
Reads(h, U, text) ==
  /\ h \in [0..Len(text) -> Readings(U)]
  /\ h[0] = NothingRead
  /\ \A k \in 1..Len(text) : h[k] = Db!ReadOn(h[k - 1], text, k)

LEMMA PiecesAreRead ==
  ASSUME NEW U, Db!Comma \in U, NEW text \in Seq(U)
  PROVE  \E h : Reads(h, U, text) /\ Db!PiecesRead(text) = h[Len(text)]
<1> DEFINE N == Len(text)
           D == Readings(U)
           Says(g) == g = [k \in 0..N |->
             IF k = 0 THEN [pieces |-> <<>>, last |-> <<>>] ELSE Db!ReadOn(g[k - 1], text, k)]
           h == CHOOSE g : Says(g)
           F == [p \in Nat \X D |-> IF p[1] \in 1..N THEN Db!ReadOn(p[2], text, p[1]) ELSE p[2]]
<1>1. Db!PiecesRead(text) = h[N]
  BY DEF Db!PiecesRead
<1>2. N \in Nat
  OBVIOUS
<1>3. F \in [Nat \X D -> D]
  <2>1. ASSUME NEW k \in 1..N, NEW b \in D PROVE Db!ReadOn(b, text, k) \in D
    BY ReadOnIs
  <2> QED
    BY <2>1
<1>4. \A k \in 1..N, b \in D : F[<<k, b>>] = Db!ReadOn(b, text, k)
  BY <1>2
<1>5. NothingRead \in D
  BY DEF NothingRead, Readings
<1> HIDE DEF F, D, N
<1>6. PICK f : Iterates(f, D, NothingRead, F, N)
  BY <1>2, <1>3, <1>5, IterationIs, Zenon
<1>7. f \in [0..N -> D] /\ f[0] = NothingRead /\ \A k \in 1..N : f[k] = Db!ReadOn(f[k - 1], text, k)
  <2>1. ASSUME NEW k \in 1..N PROVE f[k] = Db!ReadOn(f[k - 1], text, k)
    <3>1. k - 1 \in 0..N
      BY <1>2
    <3> QED
      BY <1>4, <1>6, <3>1, Zenon DEF Iterates
  <2> QED
    BY <1>6, <2>1 DEF Iterates
<1>8. Says(f)
  <2>1. ASSUME NEW k \in 0..N
        PROVE  f[k] = IF k = 0 THEN [pieces |-> <<>>, last |-> <<>>] ELSE Db!ReadOn(f[k - 1], text, k)
    <3>1. CASE k = 0
      BY <1>7, <3>1 DEF NothingRead
    <3>2. CASE k # 0
      BY <1>2, <1>7, <3>2
    <3> QED
      BY <3>1, <3>2
  <2>2. f = [k \in 0..N |-> f[k]]
    BY <1>7
  <2> QED
    BY <2>1, <2>2, Zenon
<1> HIDE DEF Says
<1>9. Says(h)
  BY <1>8, Zenon
<1>10. h[N] = f[N]
  <2> DEFINE S == {k \in Nat : k <= N => h[k] = f[k]}
  <2>1. ASSUME NEW k \in 0..N
        PROVE  h[k] = IF k = 0 THEN NothingRead ELSE Db!ReadOn(h[k - 1], text, k)
    <3> HIDE DEF h
    <3> QED
      BY <1>9, Zenon DEF Says, NothingRead
  <2> HIDE DEF h
  <2>2. 0 \in S
    BY <1>2, <1>7, <2>1
  <2>3. ASSUME NEW k \in Nat, k \in S PROVE k + 1 \in S
    <3> SUFFICES ASSUME k + 1 <= N PROVE h[k + 1] = f[k + 1]
      OBVIOUS
    <3>1. k + 1 \in 0..N /\ k + 1 \in 1..N /\ k + 1 # 0 /\ (k + 1) - 1 = k /\ k <= N
      BY <1>2
    <3> QED
      BY <1>7, <2>1, <2>3, <3>1
  <2> HIDE DEF S
  <2>4. N \in S
    BY <1>2, <2>2, <2>3, SetInduction
  <2> QED
    BY <1>2, <2>4 DEF S
<1>11. Reads(f, U, text)
  BY <1>7 DEF Reads, D, N
<1> QED
  BY <1>1, <1>10, <1>11, Zenon DEF N

LEMMA ReadsOn ==
  ASSUME NEW U, Db!Comma \in U, NEW text \in Seq(U), NEW c \in U
  PROVE  /\ Db!PiecesRead(text) \in Readings(U)
         /\ Db!PiecesRead(Append(text, c)) = Db!ReadOn(Db!PiecesRead(text), Append(text, c), Len(text) + 1)
<1> DEFINE more == Append(text, c)
           N == Len(text)
<1>1. more \in Seq(U) /\ N \in Nat /\ Len(more) = N + 1 /\ more[N + 1] = c
      /\ \A k \in 1..N : more[k] = text[k]
  OBVIOUS
<1>2. PICK f : Reads(f, U, text) /\ Db!PiecesRead(text) = f[N]
  BY PiecesAreRead
<1> HIDE DEF more
<1>3. PICK g : Reads(g, U, more) /\ Db!PiecesRead(more) = g[N + 1]
  BY <1>1, PiecesAreRead
<1>4. ASSUME NEW k \in 1..N, NEW b PROVE Db!ReadOn(b, more, k) = Db!ReadOn(b, text, k)
  <2>1. more[k] = text[k] /\ (k > 1 => more[k - 1] = text[k - 1])
    BY <1>1
  <2>2. Db!IsEscaped(more, k) <=> Db!IsEscaped(text, k)
    BY <2>1 DEF Db!IsEscaped
  <2> QED
    BY <2>1, <2>2 DEF Db!ReadOn
<1> DEFINE S == {k \in Nat : k <= N => g[k] = f[k]}
<1>5. 0 \in S
  BY <1>2, <1>3 DEF Reads
<1>6. ASSUME NEW k \in Nat, k \in S PROVE k + 1 \in S
  <2> SUFFICES ASSUME k + 1 <= N PROVE g[k + 1] = f[k + 1]
    OBVIOUS
  <2>1. k + 1 \in 1..N /\ k + 1 \in 1..Len(more) /\ (k + 1) - 1 = k /\ k <= N
    BY <1>1
  <2>2. g[k + 1] = Db!ReadOn(g[k], more, k + 1) /\ f[k + 1] = Db!ReadOn(f[k], text, k + 1)
    BY <1>2, <1>3, <2>1 DEF Reads
  <2> QED
    BY <1>4, <1>6, <2>1, <2>2
<1> HIDE DEF S
<1>7. N \in S
  BY <1>1, <1>5, <1>6, SetInduction, Zenon
<1>8. g[N] = f[N] /\ f[N] \in Readings(U)
  BY <1>1, <1>2, <1>7 DEF S, Reads
<1>9. g[N + 1] = Db!ReadOn(g[N], more, N + 1)
  <2>1. N + 1 \in 1..Len(more) /\ (N + 1) - 1 = N
    BY <1>1
  <2> QED
    BY <1>3, <2>1 DEF Reads
<1> QED
  BY <1>2, <1>3, <1>8, <1>9 DEF more

\* The characters that a list is put together with are four.
LEMMA FourCharacters ==
  /\ Db!Comma # Db!Colon /\ Db!Comma # Db!Space /\ Db!Comma # Db!Backslash
  /\ Db!Colon # Db!Space /\ Db!Colon # Db!Backslash /\ Db!Space # Db!Backslash
BY Zenon DEF Db!Comma, Db!Colon, Db!Space, Db!Backslash

\* A text is read and what is read of it, continued by more of the last piece.
Longer(read, more) == [pieces |-> read.pieces, last |-> read.last \o more]

\* Adds(U, text, more, value): behind text, more is read as value.
Adds(U, text, more, value) ==
  /\ more \in Seq(U) /\ value \in Seq(U)
  /\ Db!PiecesRead(text \o more) = Longer(Db!PiecesRead(text), value)

Associate(U) == \A s, t, r \in Seq(U) : (s \o t) \o r = s \o (t \o r)

LEMMA JoinedThrice ==
  ASSUME NEW U
  PROVE  Associate(U)
BY DEF Associate

LEMMA LongerTwice ==
  ASSUME NEW U, NEW read \in Readings(U), NEW s \in Seq(U), NEW t \in Seq(U)
  PROVE  Longer(Longer(read, s), t) = Longer(read, s \o t)
<1>1. PICK l \in Seq(U) : l = read.last
  BY DEF Readings
<1>2. (l \o s) \o t = l \o (s \o t)
  <2>1. Associate(U)
    BY JoinedThrice, Zenon
  <2> QED
    BY <2>1, Zenon DEF Associate
<1> QED
  BY <1>1, <1>2, Zenon DEF Longer

LEMMA AddsNothing ==
  ASSUME NEW U, Db!Comma \in U, NEW text \in Seq(U)
  PROVE  Adds(U, text, <<>>, <<>>)
<1>1. Db!PiecesRead(text) \in Readings(U)
  BY ReadsOn
<1>2. PICK R \in Readings(U) : R = Db!PiecesRead(text)
  BY <1>1
<1>3. PICK l \in Seq(U) : l = R.last
  BY DEF Readings
<1>4. l \o <<>> = l /\ text \o <<>> = text /\ <<>> \in Seq(U)
  OBVIOUS
<1>5. Longer(R, <<>>) = R
  <2>1. Longer(R, <<>>) = [pieces |-> R.pieces, last |-> R.last]
    BY <1>3, <1>4, Zenon DEF Longer
  <2> QED
    BY <2>1 DEF Readings
<1> QED
  BY <1>2, <1>4, <1>5, Zenon DEF Adds

LEMMA AddsMore ==
  ASSUME NEW U, Db!Comma \in U, NEW text \in Seq(U),
         NEW s \in Seq(U), NEW v \in Seq(U), NEW r \in Seq(U), NEW w \in Seq(U),
         Adds(U, text, s, v), Adds(U, text \o s, r, w)
  PROVE  Adds(U, text, s \o r, v \o w)
<1>1. s \o r \in Seq(U) /\ v \o w \in Seq(U)
  OBVIOUS
<1>2. text \o (s \o r) = (text \o s) \o r
  <2>1. Associate(U)
    BY JoinedThrice, Zenon
  <2> QED
    BY <2>1, Zenon DEF Associate
<1>3. Db!PiecesRead(text) \in Readings(U)
  BY ReadsOn
<1>4. Longer(Longer(Db!PiecesRead(text), v), w) = Longer(Db!PiecesRead(text), v \o w)
  BY <1>3, LongerTwice
<1> QED
  BY <1>1, <1>2, <1>4, Zenon DEF Adds

LEMMA ReadsCharacter ==
  ASSUME NEW U, Db!Comma \in U, NEW text \in Seq(U), NEW c \in U, c # Db!Comma
  PROVE  Adds(U, text, <<c>>, <<c>>)
<1> DEFINE R == Db!PiecesRead(text)
           more == Append(text, c)
           n == Len(text) + 1
<1>1. R \in Readings(U) /\ Db!PiecesRead(more) = Db!ReadOn(R, more, n)
  BY ReadsOn, Zenon
<1>2. more[n] = c
  OBVIOUS
<1> HIDE DEF R, more, n
<1>3. Db!ReadOn(R, more, n) = [pieces |-> R.pieces, last |-> Append(R.last, c)]
  BY <1>2 DEF Db!ReadOn
<1>4. R.last \in Seq(U)
  BY <1>1 DEF Readings
<1>5. PICK l \in Seq(U) : l = R.last
  BY <1>4
<1>6. Append(l, c) = l \o <<c>> /\ more = text \o <<c>> /\ <<c>> \in Seq(U)
  BY DEF more
<1> QED
  BY <1>1, <1>3, <1>5, <1>6, Zenon DEF Longer, Adds, R

LEMMA ReadsPlain ==
  ASSUME NEW U, Db!Comma \in U, NEW text \in Seq(U), NEW u \in Seq(U \ {Db!Comma})
  PROVE  Adds(U, text, u, u)
<1> DEFINE N == Len(u)
           P(k) == SubSeq(u, 1, k)
           S == {k \in Nat : k <= N => Adds(U, text, P(k), P(k))}
<1>1. 0 \in S
  <2>1. P(0) = <<>>
    OBVIOUS
  <2> QED
    BY <2>1, AddsNothing, Zenon
<1>2. ASSUME NEW k \in Nat, k \in S PROVE k + 1 \in S
  <2> SUFFICES ASSUME k + 1 <= N PROVE Adds(U, text, P(k + 1), P(k + 1))
    OBVIOUS
  <2>1. u[k + 1] \in U /\ u[k + 1] # Db!Comma /\ k <= N
    OBVIOUS
  <2>2. P(k) \in Seq(U) /\ P(k + 1) = P(k) \o <<u[k + 1]>>
    OBVIOUS
  <2>3. text \o P(k) \in Seq(U)
    BY <2>2
  <2>4. Adds(U, text, P(k), P(k))
    BY <1>2, <2>1
  <2> HIDE DEF P
  <2>5. Adds(U, text \o P(k), <<u[k + 1]>>, <<u[k + 1]>>)
    BY <2>1, <2>3, ReadsCharacter, Zenon
  <2>6. <<u[k + 1]>> \in Seq(U)
    BY <2>1
  <2>7. Adds(U, text, P(k) \o <<u[k + 1]>>, P(k) \o <<u[k + 1]>>)
    BY <2>2, <2>4, <2>5, <2>6, AddsMore, Zenon
  <2> QED
    BY <2>2, <2>7, Zenon
<1> HIDE DEF S
<1>3. N \in S
  BY <1>1, <1>2, SetInduction
<1>4. P(N) = u /\ N \in Nat /\ N <= N
  OBVIOUS
<1> HIDE DEF P, N
<1> QED
  BY <1>3, <1>4 DEF S

\* An escaped comma is a comma of the piece.
LEMMA ReadsEscapedComma ==
  ASSUME NEW U, Db!Comma \in U, Db!Backslash \in U, NEW text \in Seq(U)
  PROVE  Adds(U, text, <<Db!Backslash, Db!Comma>>, <<Db!Comma>>)
<1> DEFINE R == Db!PiecesRead(text)
           one == Append(text, Db!Backslash)
           two == Append(one, Db!Comma)
           B == Db!PiecesRead(one)
           n == Len(one) + 1
<1>1. one \in Seq(U) /\ one = text \o <<Db!Backslash>> /\ two = text \o <<Db!Backslash, Db!Comma>>
  OBVIOUS
<1>2. two[n] = Db!Comma /\ n > 1 /\ two[n - 1] = Db!Backslash
  OBVIOUS
<1>3. R \in Readings(U) /\ R.last \in Seq(U)
  BY ReadsOn DEF Readings
<1>4. PICK l \in Seq(U) : l = R.last
  BY <1>3
<1>5. B = Longer(R, <<Db!Backslash>>)
  BY <1>1, FourCharacters, ReadsCharacter DEF Adds
<1> HIDE DEF R, one
<1>6. Db!PiecesRead(two) = Db!ReadOn(B, two, n)
  BY <1>1, ReadsOn, Zenon
<1> HIDE DEF two, B, n
<1>7. Db!IsEscaped(two, n)
  BY <1>2 DEF Db!IsEscaped
<1>8. Db!ReadOn(B, two, n) = [pieces |-> B.pieces, last |-> Append(Db!Front(B.last), Db!Comma)]
  BY <1>2, <1>7 DEF Db!ReadOn
<1>9. B.pieces = R.pieces /\ B.last = l \o <<Db!Backslash>>
  BY <1>4, <1>5 DEF Longer
<1>10. Db!Front(l \o <<Db!Backslash>>) = l
  BY DEF Db!Front
<1>11. Append(l, Db!Comma) = l \o <<Db!Comma>>
  OBVIOUS
<1>12. Db!PiecesRead(two) = Longer(R, <<Db!Comma>>)
  BY <1>4, <1>6, <1>8, <1>9, <1>10, <1>11, Zenon DEF Longer
<1>13. <<Db!Backslash, Db!Comma>> \in Seq(U) /\ <<Db!Comma>> \in Seq(U)
  OBVIOUS
<1> QED
  BY <1>1, <1>12, <1>13, Zenon DEF Adds, R

\* A comma that is not, behind some text, ends it.
LEMMA ReadsComma ==
  ASSUME NEW U, Db!Comma \in U, NEW text \in Seq(U), text # <<>>, text[Len(text)] # Db!Backslash
  PROVE  LET read == Db!PiecesRead(text)
         IN  Db!PiecesRead(Append(text, Db!Comma)) = [pieces |-> Append(read.pieces, read.last), last |-> <<>>]
<1> DEFINE R == Db!PiecesRead(text)
           more == Append(text, Db!Comma)
           n == Len(text) + 1
<1>1. Db!PiecesRead(more) = Db!ReadOn(R, more, n)
  BY ReadsOn, Zenon
<1>2. more[n] = Db!Comma /\ n > 1 /\ more[n - 1] # Db!Backslash
  OBVIOUS
<1> HIDE DEF R, more, n
<1>3. ~Db!IsEscaped(more, n)
  BY <1>2 DEF Db!IsEscaped
<1>4. Db!ReadOn(R, more, n) = [pieces |-> Append(R.pieces, R.last), last |-> <<>>]
  BY <1>2, <1>3 DEF Db!ReadOn
<1> QED
  BY <1>1, <1>4 DEF R, more

\* Some function joins a text of texts, one behind the other.
Joins(f, N, one) == f = [c \in 0..N |-> IF c = 0 THEN <<>> ELSE f[c - 1] \o one[c]]

LEMMA JoinsAre ==
  ASSUME NEW U, NEW N \in Nat, NEW one, \A k \in 1..N : one[k] \in Seq(U)
  PROVE  \E f : Joins(f, N, one)
<1> DEFINE D == Seq(U)
           F == [p \in Nat \X D |-> IF p[1] \in 1..N THEN p[2] \o one[p[1]] ELSE p[2]]
<1>1. F \in [Nat \X D -> D]
  <2>1. ASSUME NEW k \in 1..N, NEW t \in D PROVE t \o one[k] \in D
    <3>1. PICK r \in Seq(U) : r = one[k]
      OBVIOUS
    <3> QED
      BY <3>1
  <2> QED
    BY <2>1
<1>2. ASSUME NEW k \in 1..N, NEW t \in D PROVE F[<<k, t>>] = t \o one[k]
  <2>1. <<k, t>> \in Nat \X D /\ <<k, t>>[1] = k /\ <<k, t>>[2] = t
    OBVIOUS
  <2> HIDE DEF D
  <2>2. F[<<k, t>>] = IF <<k, t>>[1] \in 1..N THEN <<k, t>>[2] \o one[<<k, t>>[1]] ELSE <<k, t>>[2]
    BY <2>1, Zenon
  <2> QED
    BY <2>1, <2>2, Zenon
<1>3. <<>> \in D
  OBVIOUS
<1> HIDE DEF F, D
<1>4. PICK f : Iterates(f, D, <<>>, F, N)
  BY <1>1, <1>3, IterationIs, Zenon
<1>5. ASSUME NEW k \in 0..N PROVE f[k] = IF k = 0 THEN <<>> ELSE f[k - 1] \o one[k]
  <2>1. CASE k = 0
    BY <1>4, <2>1 DEF Iterates
  <2>2. CASE k # 0
    <3>1. k \in 1..N /\ k - 1 \in 0..N
      BY <2>2
    <3>2. f[k] = F[<<k, f[k - 1]>>] /\ f[k - 1] \in D
      BY <1>4, <3>1 DEF Iterates
    <3>3. f[k] = f[k - 1] \o one[k]
      BY <1>2, <3>1, <3>2, Zenon
    <3> QED
      BY <2>2, <3>3, Zenon
  <2> QED
    BY <2>1, <2>2
<1>6. f = [k \in 0..N |-> f[k]]
  BY <1>4 DEF Iterates
<1>7. Joins(f, N, one)
  BY <1>5, <1>6, Zenon DEF Joins
<1> QED
  BY <1>7

\* A value with its commas escaped is read as the value, and its last
\* character is the value's.
LEMMA ReadsEscaped ==
  ASSUME NEW U, Db!Comma \in U, Db!Backslash \in U, NEW text \in Seq(U), NEW value \in Seq(U)
  PROVE  LET said == Db!EscapedCommas(value)
         IN  /\ said \in Seq(U)
             /\ Adds(U, text, said, value)
             /\ value # <<>> => said # <<>> /\ said[Len(said)] = value[Len(value)]
<1> DEFINE N == Len(value)
           One(k) == IF value[k] = Db!Comma THEN <<Db!Backslash, Db!Comma>> ELSE <<value[k]>>
           Says(g) == g = [c \in 0..N |-> IF c = 0 THEN <<>> ELSE g[c - 1] \o One(c)]
           h == CHOOSE g : Says(g)
           D == Seq(U)
           P(k) == SubSeq(value, 1, k)
<1>1. Db!EscapedCommas(value) = h[N]
  BY DEF Db!EscapedCommas
<1>2. N \in Nat /\ D = Seq(U)
  OBVIOUS
<1>3. ASSUME NEW k \in 1..N
      PROVE  /\ One(k) \in D /\ One(k) # <<>> /\ One(k)[Len(One(k))] = value[k]
             /\ \A t \in D : Adds(U, t, One(k), <<value[k]>>)
  <2>1. value[k] \in U
    BY <1>2
  <2>2. CASE value[k] = Db!Comma
    <3>1. One(k) = <<Db!Backslash, Db!Comma>>
      BY <2>2
    <3>2. <<Db!Backslash, Db!Comma>> \in D
      OBVIOUS
    <3> HIDE DEF One
    <3>3. One(k) # <<>> /\ One(k)[Len(One(k))] = value[k]
      BY <2>2, <3>1
    <3>4. ASSUME NEW t \in D PROVE Adds(U, t, <<Db!Backslash, Db!Comma>>, <<Db!Comma>>)
      BY ReadsEscapedComma, Zenon
    <3> QED
      BY <2>2, <3>1, <3>2, <3>3, <3>4, Zenon
  <2>3. CASE value[k] # Db!Comma
    <3>1. One(k) = <<value[k]>>
      BY <2>3
    <3> HIDE DEF One
    <3>2. One(k) # <<>> /\ One(k)[Len(One(k))] = value[k] /\ One(k) \in D
      BY <2>1, <3>1
    <3>3. ASSUME NEW t \in D PROVE Adds(U, t, <<value[k]>>, <<value[k]>>)
      BY <2>1, <2>3, ReadsCharacter
    <3> QED
      BY <3>1, <3>2, <3>3
  <2> QED
    BY <2>2, <2>3, Zenon
<1> HIDE DEF One
<1>4. \E f : Says(f)
  <2> DEFINE one == [k \in 1..N |-> One(k)]
  <2>1. \A k \in 1..N : one[k] = One(k)
    OBVIOUS
  <2> HIDE DEF one, N
  <2>4. \A k \in 1..N : one[k] \in Seq(U)
    BY <1>2, <1>3, <2>1, Zenon
  <2>2. PICK f : Joins(f, N, one)
    BY <1>2, <2>4, JoinsAre, Zenon
  <2>3. \A c \in 0..N : c # 0 => one[c] = One(c)
    BY <1>2, <2>1
  <2> QED
    BY <2>2, <2>3, Zenon DEF Joins
<1> HIDE DEF Says
<1>9. Says(h)
  BY <1>4, Zenon
<1> HIDE DEF h, D
<1>10. ASSUME NEW k \in 0..N PROVE h[k] = IF k = 0 THEN <<>> ELSE h[k - 1] \o One(k)
  BY <1>9, Zenon DEF Says
<1> DEFINE EndsAlike(k) == h[k] # <<>> /\ h[k][Len(h[k])] = value[k]
           Fine(k) == h[k] \in D /\ Adds(U, text, h[k], P(k)) /\ (k > 0 => EndsAlike(k))
           S == {k \in Nat : k <= N => Fine(k)}
<1>11. 0 \in S
  <2>1. h[0] = <<>> /\ P(0) = <<>>
    BY <1>2, <1>10
  <2>2. Adds(U, text, <<>>, <<>>)
    BY AddsNothing
  <2>3. h[0] \in D /\ Adds(U, text, h[0], P(0))
    BY <1>2, <2>1, <2>2, Zenon DEF Adds
  <2>4. ~(0 > 0)
    OBVIOUS
  <2>5. Fine(0)
    BY <2>3, <2>4, Zenon
  <2> HIDE DEF Fine
  <2> QED
    BY <2>5
<1>12. ASSUME NEW k \in Nat, k \in S PROVE k + 1 \in S
  <2> SUFFICES ASSUME k + 1 <= N PROVE Fine(k + 1)
    OBVIOUS
  <2>1. Fine(k)
    BY <1>2, <1>12
  <2> HIDE DEF S, P
  <2>2. k + 1 \in 0..N /\ k + 1 \in 1..N /\ (k + 1) - 1 = k /\ k + 1 # 0
    BY <1>2
  <2>3. h[k + 1] = h[k] \o One(k + 1)
    BY <1>10, <2>2, Zenon
  <2>4. P(k) \in Seq(U) /\ <<value[k + 1]>> \in Seq(U) /\ P(k + 1) = P(k) \o <<value[k + 1]>>
    BY <2>2 DEF P
  <2>5. One(k + 1) \in Seq(U) /\ One(k + 1) # <<>> /\ One(k + 1)[Len(One(k + 1))] = value[k + 1]
    BY <1>2, <1>3, <2>2, Zenon
  <2>6. PICK s \in Seq(U) : s = h[k]
    BY <1>2, <2>1
  <2>7. PICK r \in Seq(U) : r = One(k + 1)
    BY <2>5
  <2>8. s \o r \in Seq(U) /\ s \o r # <<>> /\ (s \o r)[Len(s \o r)] = r[Len(r)] /\ text \o s \in Seq(U)
    BY <2>5, <2>7
  <2>9. Adds(U, text \o s, r, <<value[k + 1]>>)
    BY <1>2, <1>3, <2>2, <2>7, <2>8, Zenon
  <2>10. Adds(U, text, s \o r, P(k) \o <<value[k + 1]>>)
    BY <2>1, <2>4, <2>6, <2>9, AddsMore, Zenon
  <2>11. h[k + 1] = s \o r
    BY <2>3, <2>6, <2>7, Zenon
  <2>12. EndsAlike(k + 1)
    BY <2>5, <2>7, <2>8, <2>11, Zenon
  <2> HIDE DEF EndsAlike
  <2> QED
    BY <1>2, <2>4, <2>8, <2>10, <2>11, <2>12, Zenon
<1> HIDE DEF S, Fine
<1>13. N \in S
  BY <1>2, <1>11, <1>12, SetInduction
<1>14. Fine(N)
  BY <1>2, <1>13 DEF S
<1>15. P(N) = value /\ (value # <<>> => N > 0)
  OBVIOUS
<1> HIDE DEF P
<1>16. h[N] \in Seq(U) /\ Adds(U, text, h[N], value) /\ (value # <<>> => EndsAlike(N))
  BY <1>2, <1>14, <1>15, Zenon DEF Fine
<1> QED
  BY <1>1, <1>16, Zenon

\* A pair is read as one piece: its column, a colon and its value.
PieceOf(pairs, k) ==
  (IF k = 1 THEN <<>> ELSE <<Db!Space>>) \o ((pairs[k][1] \o <<Db!Colon, Db!Space>>) \o pairs[k][2])

Characters(U) == Db!Comma \in U /\ Db!Colon \in U /\ Db!Space \in U /\ Db!Backslash \in U

WellWritten(U, pairs) ==
  /\ Len(pairs) \in Nat /\ DOMAIN pairs = 1..Len(pairs)
  /\ \A k \in 1..Len(pairs) :
       /\ pairs[k][1] \in Seq(U \ {Db!Comma, Db!Colon}) /\ pairs[k][1] # <<>> /\ Db!Trim(pairs[k][1]) = pairs[k][1]
       /\ pairs[k][2] \in Seq(U)
       /\ k < Len(pairs) /\ pairs[k][2] # <<>> => pairs[k][2][Len(pairs[k][2])] # Db!Backslash

LEMMA ReadsPair ==
  ASSUME NEW U, Characters(U), NEW text \in Seq(U),
         NEW column \in Seq(U \ {Db!Comma}), NEW value \in Seq(U)
  PROVE  LET before == column \o <<Db!Colon, Db!Space>>
             more == before \o Db!EscapedCommas(value)
         IN  /\ Adds(U, text, more, before \o value)
             /\ more # <<>> /\ Db!Colon \in ToSet(more)
             /\ value = <<>> => more[Len(more)] = Db!Space
             /\ value # <<>> => more[Len(more)] = value[Len(value)]
<1> DEFINE before == column \o <<Db!Colon, Db!Space>>
           said == Db!EscapedCommas(value)
           V == U \ {Db!Comma}
<1>1. Db!Comma \in U /\ Db!Backslash \in U /\ Db!Colon \in V /\ Db!Space \in V
  BY FourCharacters, Zenon DEF Characters
<1>2. /\ before \in Seq(V) /\ Len(before) = Len(column) + 2
      /\ before[Len(before)] = Db!Space /\ before[Len(column) + 1] = Db!Colon
  BY <1>1
<1> HIDE DEF before
<1>5. before \in Seq(U)
  BY <1>2
<1>6. Adds(U, text, before, before)
  BY <1>1, <1>2, ReadsPlain
<1>7. text \o before \in Seq(U)
  BY <1>5
<1>8. /\ said \in Seq(U)
      /\ Adds(U, text \o before, said, value)
      /\ value # <<>> => said # <<>> /\ said[Len(said)] = value[Len(value)]
  BY <1>1, <1>7, ReadsEscaped, Zenon
<1> HIDE DEF said
<1>9. Adds(U, text, before \o said, before \o value)
  BY <1>1, <1>5, <1>6, <1>8, AddsMore, Zenon
<1>10. /\ before \o said # <<>> /\ Len(column) + 1 \in DOMAIN (before \o said)
       /\ (before \o said)[Len(column) + 1] = Db!Colon
  BY <1>2, <1>5, <1>8
<1>11. Db!Colon \in ToSet(before \o said)
  BY <1>10 DEF ToSet
<1>12. CASE value = <<>>
  <2>1. said = <<>>
    <3>1. said = Db!EscapedCommas(<<>>)
      BY <1>12 DEF said
    <3>2. Db!EscapedCommas(<<>>) = <<>>
      <4> DEFINE Says(g) == g = [c \in 0..Len(<<>>) |->
                   IF c = 0 THEN <<>>
                   ELSE g[c - 1] \o (IF <<>>[c] = Db!Comma THEN <<Db!Backslash, Db!Comma>> ELSE <<(<<>>)[c]>>)]
                 h == CHOOSE g : Says(g)
      <4>1. Db!EscapedCommas(<<>>) = h[Len(<<>>)]
        BY DEF Db!EscapedCommas
      <4>2. Says([c \in 0..0 |-> <<>>])
        OBVIOUS
      <4> HIDE DEF Says
      <4>3. Says(h)
        BY <4>2, Zenon
      <4> HIDE DEF h
      <4>4. h[0] = <<>>
        BY <4>3 DEF Says
      <4> QED
        BY <4>1, <4>4
    <3> QED
      BY <3>1, <3>2
  <2>2. before \o said = before
    BY <1>5, <2>1
  <2> QED
    BY <1>2, <1>9, <1>10, <1>11, <1>12, <2>2, Zenon DEF before, said
<1>13. CASE value # <<>>
  <2>1. (before \o said)[Len(before \o said)] = said[Len(said)]
    BY <1>5, <1>8, <1>13
  <2> QED
    BY <1>8, <1>9, <1>10, <1>11, <1>13, <2>1, Zenon DEF before, said
<1> QED
  BY <1>12, <1>13

\* A comma and a blank behind some text begin a piece.
LEMMA ReadsSeparator ==
  ASSUME NEW U, Characters(U), NEW text \in Seq(U), text # <<>>, text[Len(text)] # Db!Backslash
  PROVE  LET read == Db!PiecesRead(text)
             more == text \o <<Db!Comma, Db!Space>>
         IN  /\ more \in Seq(U)
             /\ Db!PiecesRead(more) = [pieces |-> Append(read.pieces, read.last), last |-> <<Db!Space>>]
<1> DEFINE one == Append(text, Db!Comma)
           pieces == Append(Db!PiecesRead(text).pieces, Db!PiecesRead(text).last)
<1>1. Db!Comma \in U /\ Db!Space \in U /\ Db!Space # Db!Comma
  BY FourCharacters, Zenon DEF Characters
<1>2. one \in Seq(U) /\ text \o <<Db!Comma, Db!Space>> = one \o <<Db!Space>>
  BY <1>1
<1>3. text \o <<Db!Comma, Db!Space>> \in Seq(U)
  BY <1>1
<1>4. Db!PiecesRead(one) = [pieces |-> pieces, last |-> <<>>]
  BY <1>1, ReadsComma
<1> HIDE DEF one, pieces
<1>5. Db!PiecesRead(one \o <<Db!Space>>) = Longer(Db!PiecesRead(one), <<Db!Space>>)
  BY <1>1, <1>2, ReadsCharacter DEF Adds
<1>6. <<>> \o <<Db!Space>> = <<Db!Space>>
  OBVIOUS
<1>7. Longer(Db!PiecesRead(one), <<Db!Space>>) = [pieces |-> pieces, last |-> <<>> \o <<Db!Space>>]
  BY <1>4 DEF Longer
<1> QED
  BY <1>2, <1>3, <1>5, <1>6, <1>7, Zenon DEF pieces

\* Read(U, pairs, k, text): what is written of the first k pairs is read as
\* their pieces, and a pair may follow.
ReadTo(U, pairs, k, text) ==
  /\ text \in Seq(U) /\ text # <<>> /\ Db!Colon \in ToSet(text)
  /\ Db!PiecesRead(text) = [pieces |-> [p \in 1..(k - 1) |-> PieceOf(pairs, p)], last |-> PieceOf(pairs, k)]
  /\ k < Len(pairs) => text[Len(text)] # Db!Backslash

LEMMA NothingIsRead ==
  ASSUME NEW U, Characters(U)
  PROVE  Db!PiecesRead(<<>>) = NothingRead
<1>1. Db!Comma \in U /\ <<>> \in Seq(U) /\ Len(<<>>) = 0
  BY DEF Characters
<1>2. PICK h : Reads(h, U, <<>>) /\ Db!PiecesRead(<<>>) = h[Len(<<>>)]
  BY <1>1, PiecesAreRead, Zenon
<1> QED
  BY <1>1, <1>2, Zenon DEF Reads

LEMMA PairsAreRead ==
  ASSUME NEW U, Characters(U), NEW pairs, WellWritten(U, pairs), Len(pairs) > 0
  PROVE  ReadTo(U, pairs, Len(pairs), Db!Written(pairs))
<1> DEFINE N == Len(pairs)
           One(k) == Db!WrittenPair(pairs, k)
           Says(g) == g = [k \in 0..N |-> IF k = 0 THEN <<>> ELSE g[k - 1] \o One(k)]
           h == CHOOSE g : Says(g)
           Pair(k) == (pairs[k][1] \o <<Db!Colon, Db!Space>>) \o Db!EscapedCommas(pairs[k][2])
           Value(k) == (pairs[k][1] \o <<Db!Colon, Db!Space>>) \o pairs[k][2]
<1>1. Db!Written(pairs) = h[N]
  BY DEF Db!Written
<1>2. N \in Nat /\ N > 0 /\ N \in 0..N
  BY DEF WellWritten
<1>3. ASSUME NEW k \in 1..N, NEW text \in Seq(U)
      PROVE  /\ Adds(U, text, Pair(k), Value(k)) /\ Pair(k) # <<>> /\ Db!Colon \in ToSet(Pair(k))
             /\ k < N => Pair(k)[Len(Pair(k))] # Db!Backslash
  <2>1. pairs[k][1] \in Seq(U \ {Db!Comma}) /\ pairs[k][2] \in Seq(U)
    <3>1. pairs[k][1] \in Seq(U \ {Db!Comma, Db!Colon}) /\ pairs[k][2] \in Seq(U)
      BY <1>2 DEF WellWritten
    <3> QED
      BY <3>1
  <2>2. k < N /\ pairs[k][2] # <<>> => pairs[k][2][Len(pairs[k][2])] # Db!Backslash
    BY <1>2 DEF WellWritten
  <2>3. /\ Adds(U, text, Pair(k), Value(k)) /\ Pair(k) # <<>> /\ Db!Colon \in ToSet(Pair(k))
        /\ pairs[k][2] = <<>> => Pair(k)[Len(Pair(k))] = Db!Space
        /\ pairs[k][2] # <<>> => Pair(k)[Len(Pair(k))] = pairs[k][2][Len(pairs[k][2])]
    <3>1. \A column \in Seq(U \ {Db!Comma}), value \in Seq(U) :
            LET more == (column \o <<Db!Colon, Db!Space>>) \o Db!EscapedCommas(value)
            IN  /\ Adds(U, text, more, (column \o <<Db!Colon, Db!Space>>) \o value)
                /\ more # <<>> /\ Db!Colon \in ToSet(more)
                /\ value = <<>> => more[Len(more)] = Db!Space
                /\ value # <<>> => more[Len(more)] = value[Len(value)]
      BY ReadsPair, Zenon
    <3> QED
      BY <2>1, <3>1, Zenon
  <2> HIDE DEF Pair, Value
  <2> QED
    BY <2>2, <2>3, FourCharacters, Zenon
<1>4. ASSUME NEW k \in 1..N
      PROVE  One(k) = (IF k = 1 THEN <<>> ELSE <<Db!Comma, Db!Space>>) \o Pair(k)
  BY Zenon DEF Db!WrittenPair
<1>5. ASSUME NEW k \in 1..N
      PROVE  PieceOf(pairs, k) = (IF k = 1 THEN <<>> ELSE <<Db!Space>>) \o Value(k)
  BY Zenon DEF PieceOf
<1> HIDE DEF One, Pair, Value, N
<1>6. ASSUME NEW k \in 1..N PROVE Pair(k) \in Seq(U) /\ Value(k) \in Seq(U)
  <2>1. <<>> \in Seq(U)
    OBVIOUS
  <2> QED
    BY <1>3, <2>1, Zenon DEF Adds
<1>7. ASSUME NEW k \in 1..N PROVE One(k) \in Seq(U)
  <2>1. PICK r \in Seq(U) : r = Pair(k)
    BY <1>6
  <2>2. <<>> \o r \in Seq(U) /\ <<Db!Comma, Db!Space>> \o r \in Seq(U)
    BY DEF Characters
  <2> QED
    BY <1>4, <2>1, <2>2, Zenon
<1>8. \E f : Says(f)
  <2> DEFINE one == [k \in 1..N |-> One(k)]
  <2>1. \A k \in 1..N : one[k] = One(k)
    OBVIOUS
  <2> HIDE DEF one
  <2>2. \A k \in 1..N : one[k] \in Seq(U)
    BY <1>7, <2>1, Zenon
  <2>3. PICK f : Joins(f, N, one)
    BY <1>2, <2>2, JoinsAre, Zenon
  <2>4. \A c \in 0..N : c # 0 => one[c] = One(c)
    BY <1>2, <2>1
  <2> QED
    BY <2>3, <2>4, Zenon DEF Joins
<1> HIDE DEF Says
<1>9. Says(h)
  BY <1>8, Zenon
<1> HIDE DEF h
<1>10. ASSUME NEW k \in 0..N PROVE h[k] = IF k = 0 THEN <<>> ELSE h[k - 1] \o One(k)
  BY <1>9, Zenon DEF Says
<1> DEFINE S == {k \in Nat : k + 1 <= N => ReadTo(U, pairs, k + 1, h[k + 1])}
<1>11. 0 \in S
  <2>1. 1 \in 0..N /\ 0 \in 0..N /\ 1 - 1 = 0 /\ 1 \in 1..N
    BY <1>2
  <2>2. PICK r \in Seq(U) : r = Pair(1)
    BY <1>6, <2>1
  <2>3. PICK v \in Seq(U) : v = Value(1)
    BY <1>6, <2>1
  <2>4. <<>> \o (<<>> \o r) = r /\ <<>> \o r = r /\ <<>> \o v = v /\ <<>> \in Seq(U)
    OBVIOUS
  <2>5. h[1] = r
    <3>1. h[0] = <<>>
      BY <1>10, <2>1
    <3>2. h[1] = h[0] \o One(1)
      <4>1. h[1] = IF 1 = 0 THEN <<>> ELSE h[1 - 1] \o One(1)
        BY <1>10, <2>1, Zenon
      <4>2. 1 # 0
        OBVIOUS
      <4> QED
        BY <2>1, <4>1, <4>2, Zenon
    <3>3. One(1) = <<>> \o r
      BY <1>4, <2>1, <2>2, Zenon
    <3> QED
      BY <2>4, <3>1, <3>2, <3>3, Zenon
  <2>6. PieceOf(pairs, 1) = v
    BY <1>5, <2>1, <2>3, <2>4, Zenon
  <2>7. Adds(U, <<>>, r, v) /\ r # <<>> /\ Db!Colon \in ToSet(r) /\ (1 < N => r[Len(r)] # Db!Backslash)
    BY <1>3, <2>1, <2>2, <2>3, <2>4, Zenon
  <2>8. Db!PiecesRead(r) = [pieces |-> <<>>, last |-> v]
    <3>1. Db!PiecesRead(r) = Longer(Db!PiecesRead(<<>>), v)
      BY <2>4, <2>7, Zenon DEF Adds
    <3>2. Longer(NothingRead, v) = [pieces |-> <<>>, last |-> <<>> \o v]
      BY DEF Longer, NothingRead
    <3> QED
      BY <2>4, <3>1, <3>2, NothingIsRead, Zenon
  <2>9. [p \in 1..(1 - 1) |-> PieceOf(pairs, p)] = <<>>
    OBVIOUS
  <2>10. ReadTo(U, pairs, 1, h[1])
    BY <2>5, <2>6, <2>7, <2>8, <2>9, Zenon DEF ReadTo, N
  <2>11. 0 + 1 = 1 /\ 0 \in Nat
    OBVIOUS
  <2> QED
    BY <2>10, <2>11
<1>12. ASSUME NEW k \in Nat, k \in S PROVE k + 1 \in S
  <2> DEFINE j == k + 1
             i == k + 1 + 1
  <2> SUFFICES ASSUME i <= N PROVE ReadTo(U, pairs, i, h[i])
    OBVIOUS
  <2>1. /\ j \in 1..N /\ i \in 1..N /\ i \in 0..N /\ i # 0 /\ i # 1 /\ i - 1 = j /\ j < N /\ j <= N /\ j \in Nat /\ j >= 1
        /\ j = k + 1
    BY <1>2
  <2>2. ReadTo(U, pairs, j, h[j])
    BY <1>12, <2>1
  <2> HIDE DEF S, i, j
  <2>3. PICK t \in Seq(U) : t = h[j]
    BY <2>2 DEF ReadTo
  <2>4. PICK r \in Seq(U) : r = Pair(i)
    BY <1>6, <2>1
  <2>5. PICK v \in Seq(U) : v = Value(i)
    BY <1>6, <2>1
  <2>6. t # <<>> /\ t[Len(t)] # Db!Backslash
    BY <2>1, <2>2, <2>3 DEF ReadTo, N
  <2> DEFINE more == t \o <<Db!Comma, Db!Space>>
             read == Db!PiecesRead(t)
  <2>7. /\ more \in Seq(U)
        /\ Db!PiecesRead(more) = [pieces |-> Append(read.pieces, read.last), last |-> <<Db!Space>>]
    BY <2>6, ReadsSeparator, Zenon
  <2>8. h[i] = more \o r
    <3>1. h[i] = h[j] \o One(i)
      BY <1>10, <2>1, Zenon
    <3>2. One(i) = <<Db!Comma, Db!Space>> \o r
      BY <1>4, <2>1, <2>4, Zenon
    <3>3. Associate(U)
      BY JoinedThrice, Zenon
    <3>4. <<Db!Comma, Db!Space>> \in Seq(U)
      BY DEF Characters
    <3>5. t \o (<<Db!Comma, Db!Space>> \o r) = (t \o <<Db!Comma, Db!Space>>) \o r
      BY <3>3, <3>4, Zenon DEF Associate
    <3> QED
      BY <2>3, <3>1, <3>2, <3>5, Zenon
  <2>9. PieceOf(pairs, i) = <<Db!Space>> \o v
    BY <1>5, <2>1, <2>5, Zenon
  <2> HIDE DEF more
  <2>10. /\ Adds(U, more, r, v) /\ r # <<>> /\ Db!Colon \in ToSet(r)
         /\ i < N => r[Len(r)] # Db!Backslash
    BY <1>3, <2>1, <2>4, <2>5, <2>7, Zenon
  <2>11. Db!PiecesRead(more \o r) = [pieces |-> Append(read.pieces, read.last), last |-> PieceOf(pairs, i)]
    <3>1. Db!PiecesRead(more \o r) = Longer(Db!PiecesRead(more), v)
      BY <2>10, Zenon DEF Adds
    <3> HIDE DEF read
    <3> QED
      BY <2>7, <2>9, <3>1 DEF Longer
  <2>12. Append(read.pieces, read.last) = [p \in 1..(i - 1) |-> PieceOf(pairs, p)]
    <3> DEFINE F == [p \in 1..(j - 1) |-> PieceOf(pairs, p)]
               G == [p \in 1..j |-> PieceOf(pairs, p)]
    <3>1. read = [pieces |-> F, last |-> PieceOf(pairs, j)]
      BY <2>2, <2>3, Zenon DEF ReadTo
    <3>2. read.pieces = F /\ read.last = PieceOf(pairs, j)
      BY <3>1
    <3>3. F \in Seq({PieceOf(pairs, p) : p \in 1..j}) /\ Len(F) = j - 1
      <4> DEFINE X == {PieceOf(pairs, p) : p \in 1..j}
      <4>1. \A p \in 1..(j - 1) : PieceOf(pairs, p) \in X
        BY <2>1
      <4> HIDE DEF X
      <4>2. F \in Seq(X) /\ Len(F) = j - 1
        BY <2>1, <4>1
      <4> QED
        BY <4>2, Zenon DEF X
    <3>4. G = Append(F, PieceOf(pairs, j))
      <4>1. DOMAIN Append(F, PieceOf(pairs, j)) = 1..j
        BY <2>1, <3>3
      <4>2. ASSUME NEW p \in 1..j PROVE Append(F, PieceOf(pairs, j))[p] = PieceOf(pairs, p)
        BY <2>1, <3>3
      <4>3. Append(F, PieceOf(pairs, j)) = [p \in 1..j |-> Append(F, PieceOf(pairs, j))[p]]
        BY <2>1, <3>3
      <4> QED
        BY <4>1, <4>2, <4>3, Zenon
    <3> HIDE DEF F
    <3> QED
      BY <2>1, <3>2, <3>4, Zenon
  <2>13. /\ more \o r \in Seq(U) /\ more \o r # <<>>
         /\ (more \o r)[Len(more \o r)] = r[Len(r)]
         /\ ToSet(r) \subseteq ToSet(more \o r)
    <3>1. ToSet(r) \subseteq ToSet(more \o r)
      BY <2>7, JoinedHas
    <3> HIDE DEF read
    <3>2. more \in Seq(U) /\ r # <<>>
      BY <2>7, <2>10
    <3> QED
      BY <3>1, <3>2
  <2>14. Db!Colon \in ToSet(more \o r)
    BY <2>10, <2>13, Zenon
  <2>15. i < Len(pairs) => (more \o r)[Len(more \o r)] # Db!Backslash
    BY <2>10, <2>13, Zenon DEF N
  <2>16. Db!PiecesRead(more \o r) = [pieces |-> [p \in 1..(i - 1) |-> PieceOf(pairs, p)], last |-> PieceOf(pairs, i)]
    BY <2>11, <2>12, Zenon
  <2>17. more \o r \in Seq(U) /\ more \o r # <<>>
    BY <2>13, Zenon
  <2> QED
    BY <2>8, <2>14, <2>15, <2>16, <2>17, Zenon DEF ReadTo
<1> HIDE DEF S
<1>13. N - 1 \in Nat /\ (N - 1) + 1 = N
  BY <1>2
<1>14. N - 1 \in S
  BY <1>11, <1>12, <1>13, SetInduction
<1>15. ReadTo(U, pairs, N, h[N])
  BY <1>2, <1>13, <1>14 DEF S
<1> QED
  BY <1>1, <1>15, Zenon DEF N

\* A text without the blanks at its ends.
LEMMA TrimIs ==
  ASSUME NEW U, NEW t \in Seq(U), NEW lo \in 1..Len(t), NEW hi \in 1..Len(t),
         t[lo] # Db!Space, t[hi] # Db!Space,
         \A k \in 1..Len(t) : k < lo \/ k > hi => t[k] = Db!Space
  PROVE  Db!Trim(t) = SubSeq(t, lo, hi)
<1> DEFINE said == {k \in DOMAIN t : ~Db!Blank(t[k])}
<1>1. \A k : k \in said <=> k \in 1..Len(t) /\ t[k] # Db!Space
  BY DEF Db!Blank
<1>2. Db!Trim(t) = IF said = {} THEN <<>> ELSE SubSeq(t, Db!Min(said), Db!Max(said))
  BY Zenon DEF Db!Trim
<1>3. IsFiniteSet(said)
  <2>1. IsFiniteSet(1..Len(t))
    BY FS_Interval
  <2>2. said \subseteq 1..Len(t)
    BY <1>1
  <2> QED
    BY <2>1, <2>2, FS_Subset
<1> HIDE DEF said
<1>4. said \subseteq Nat /\ said # {} /\ lo \in said /\ hi \in said
  BY <1>1
<1>5. /\ Min(said) \in said /\ \A y \in said : Min(said) <= y
      /\ Max(said) \in said /\ \A y \in said : Max(said) >= y
  BY <1>3, <1>4, MinIs, MaxIs, Zenon
<1>6. Db!Min(said) = Min(said) /\ Db!Max(said) = Max(said)
  BY DEF Db!Min, Min, Db!Max, Max
<1>7. Min(said) = lo
  <2>1. Min(said) \in 1..Len(t) /\ Min(said) <= lo /\ t[Min(said)] # Db!Space
    BY <1>1, <1>4, <1>5
  <2>2. ~(Min(said) < lo)
    BY <2>1
  <2> QED
    BY <2>1, <2>2
<1>8. Max(said) = hi
  <2>1. Max(said) \in 1..Len(t) /\ Max(said) >= hi /\ t[Max(said)] # Db!Space
    BY <1>1, <1>4, <1>5
  <2>2. ~(Max(said) > hi)
    BY <2>1
  <2> QED
    BY <2>1, <2>2
<1> QED
  BY <1>2, <1>4, <1>6, <1>7, <1>8, Zenon

LEMMA TrimBounds ==
  ASSUME NEW U, NEW t \in Seq(U), NEW k \in 1..Len(t), t[k] # Db!Space
  PROVE  \E lo, hi \in 1..Len(t) : /\ lo <= hi /\ t[lo] # Db!Space /\ t[hi] # Db!Space
                                   /\ \A i \in 1..Len(t) : i < lo \/ i > hi => t[i] = Db!Space
<1> DEFINE said == {i \in 1..Len(t) : t[i] # Db!Space}
<1>1. said \subseteq Nat /\ said # {} /\ said \subseteq 1..Len(t)
  OBVIOUS
<1>2. IsFiniteSet(said)
  <2>1. IsFiniteSet(1..Len(t))
    BY FS_Interval
  <2> HIDE DEF said
  <2> QED
    BY <1>1, <2>1, FS_Subset, Zenon
<1>3. /\ Min(said) \in said /\ \A y \in said : Min(said) <= y
      /\ Max(said) \in said /\ \A y \in said : Max(said) >= y
  BY <1>1, <1>2, MinIs, MaxIs, Zenon
<1>4. \A i \in 1..Len(t) : i < Min(said) \/ i > Max(said) => t[i] = Db!Space
  <2> SUFFICES ASSUME NEW i \in 1..Len(t), i < Min(said) \/ i > Max(said), t[i] # Db!Space PROVE FALSE
    OBVIOUS
  <2>1. i \in said
    OBVIOUS
  <2> HIDE DEF said
  <2>2. Min(said) <= i /\ Max(said) >= i /\ Min(said) \in Nat /\ Max(said) \in Nat
    BY <1>1, <1>3, <2>1, Zenon
  <2> QED
    BY <2>2
<1>5. /\ Min(said) \in 1..Len(t) /\ Max(said) \in 1..Len(t) /\ Min(said) <= Max(said)
      /\ t[Min(said)] # Db!Space /\ t[Max(said)] # Db!Space
  BY <1>3
<1> HIDE DEF said
<1> QED
  BY <1>4, <1>5, Zenon

LEMMA TrimSays ==
  ASSUME NEW U, NEW t \in Seq(U), NEW k \in 1..Len(t), t[k] # Db!Space
  PROVE  Db!Trim(t) # <<>>
<1>1. PICK lo, hi \in 1..Len(t) : /\ lo <= hi /\ t[lo] # Db!Space /\ t[hi] # Db!Space
                                  /\ \A i \in 1..Len(t) : i < lo \/ i > hi => t[i] = Db!Space
  BY TrimBounds, Zenon
<1>2. Db!Trim(t) = SubSeq(t, lo, hi)
  BY <1>1, TrimIs
<1>3. Len(SubSeq(t, lo, hi)) = hi - lo + 1 /\ hi - lo + 1 > 0
  BY <1>1
<1> QED
  BY <1>2, <1>3

LEMMA TrimBlank ==
  ASSUME NEW U, NEW t \in Seq(U), \A k \in 1..Len(t) : t[k] = Db!Space
  PROVE  Db!Trim(t) = <<>>
<1> DEFINE said == {k \in DOMAIN t : ~Db!Blank(t[k])}
<1>1. said = {}
  BY DEF Db!Blank
<1> QED
  BY <1>1, Zenon DEF Db!Trim

LEMMA TrimPadded ==
  ASSUME NEW U, Db!Space \in U, NEW t \in Seq(U)
  PROVE  Db!Trim(<<Db!Space>> \o t) = Db!Trim(t)
<1> DEFINE more == <<Db!Space>> \o t
<1>1. /\ more \in Seq(U) /\ Len(more) = Len(t) + 1 /\ more[1] = Db!Space
      /\ \A k \in 1..Len(t) : more[k + 1] = t[k]
  OBVIOUS
<1> HIDE DEF more
<1>2. CASE \A k \in 1..Len(t) : t[k] = Db!Space
  <2>1. ASSUME NEW k \in 1..Len(more) PROVE more[k] = Db!Space
    <3>1. CASE k = 1
      BY <1>1, <3>1
    <3>2. CASE k # 1
      <4>1. k - 1 \in 1..Len(t) /\ (k - 1) + 1 = k
        BY <1>1, <3>2
      <4>2. more[(k - 1) + 1] = t[k - 1]
        BY <1>1, <4>1
      <4> QED
        BY <1>2, <4>1, <4>2
    <3> QED
      BY <3>1, <3>2
  <2>2. Db!Trim(more) = <<>> /\ Db!Trim(t) = <<>>
    BY <1>1, <1>2, <2>1, TrimBlank
  <2> QED
    BY <2>2 DEF more
<1>3. CASE \E k \in 1..Len(t) : t[k] # Db!Space
  <2>1. PICK lo, hi \in 1..Len(t) : /\ lo <= hi /\ t[lo] # Db!Space /\ t[hi] # Db!Space
                                    /\ \A i \in 1..Len(t) : i < lo \/ i > hi => t[i] = Db!Space
    BY <1>3, TrimBounds
  <2>2. Db!Trim(t) = SubSeq(t, lo, hi)
    BY <2>1, TrimIs
  <2>3. /\ lo + 1 \in 1..Len(more) /\ hi + 1 \in 1..Len(more)
        /\ more[lo + 1] # Db!Space /\ more[hi + 1] # Db!Space
    BY <1>1, <2>1
  <2>4. ASSUME NEW i \in 1..Len(more), i < lo + 1 \/ i > hi + 1 PROVE more[i] = Db!Space
    <3>1. CASE i = 1
      BY <1>1, <3>1
    <3>2. CASE i # 1
      <4>1. i - 1 \in 1..Len(t) /\ (i - 1) + 1 = i /\ (i - 1 < lo \/ i - 1 > hi)
        BY <1>1, <2>4, <3>2
      <4>2. more[(i - 1) + 1] = t[i - 1] /\ t[i - 1] = Db!Space
        BY <1>1, <2>1, <4>1, Zenon
      <4> QED
        BY <4>1, <4>2
    <3> QED
      BY <3>1, <3>2
  <2>5. Db!Trim(more) = SubSeq(more, lo + 1, hi + 1)
    BY <1>1, <2>3, <2>4, TrimIs, Zenon
  <2>6. SubSeq(more, lo + 1, hi + 1) = SubSeq(t, lo, hi)
    <3> USE DEF more
    <3> QED
      BY <2>1
  <2> QED
    BY <2>2, <2>5, <2>6, Zenon DEF more
<1> QED
  BY <1>2, <1>3

LEMMA SameTexts ==
  ASSUME NEW U, NEW s \in Seq(U), NEW t \in Seq(U), Len(s) = Len(t), \A k \in 1..Len(s) : s[k] = t[k]
  PROVE  s = t
OBVIOUS

PartIs(U, s, i, j, part) ==
  /\ part \in Seq(U) /\ Len(part) = j + 1 - i
  /\ \A k \in 1..(j + 1 - i) : part[k] = s[i - 1 + k]
JoinIs(U, s, t, whole) ==
  /\ whole \in Seq(U) /\ Len(whole) = Len(s) + Len(t)
  /\ \A k \in 1..Len(s) : whole[k] = s[k]
  /\ \A k \in 1..Len(t) : whole[Len(s) + k] = t[k]

LEMMA PartOf ==
  ASSUME NEW U, NEW s \in Seq(U), NEW i \in Nat, NEW j \in Nat, 1 <= i, i <= j + 1, j <= Len(s)
  PROVE  PartIs(U, s, i, j, SubSeq(s, i, j))
BY DEF PartIs

LEMMA JoinedIs ==
  ASSUME NEW U, NEW s \in Seq(U), NEW t \in Seq(U)
  PROVE  JoinIs(U, s, t, s \o t)
BY DEF JoinIs

\* The parts of a piece.
PartsAre(piece, column, value) ==
  /\ Db!Colons(piece) # {}
  /\ Db!ColumnIn(piece) = Db!Trim(column) /\ Db!ValueBehind(piece) = Db!Trim(value)

LEMMA PieceParts ==
  ASSUME NEW U, Characters(U), NEW lead, lead \in {<<>>, <<Db!Space>>},
         NEW column \in Seq(U \ {Db!Comma, Db!Colon}), NEW value \in Seq(U),
         NEW piece, piece = lead \o ((column \o <<Db!Colon, Db!Space>>) \o value)
  PROVE  PartsAre(piece, column, value)
<1> DEFINE n == Len(lead) + Len(column) + 1
           marks == Db!Colons(piece)
           before == lead \o column
           behind == <<Db!Space>> \o value
<1>1. Db!Colon \in U /\ Db!Space \in U /\ Db!Space # Db!Colon
  BY FourCharacters, Zenon DEF Characters
<1>2. lead \in Seq(U) /\ Len(lead) \in {0, 1} /\ \A k \in 1..Len(lead) : lead[k] # Db!Colon
  <2>1. CASE lead = <<>>
    BY <2>1
  <2>2. CASE lead = <<Db!Space>>
    BY <1>1, <2>2
  <2> QED
    BY <2>1, <2>2
<1>3. column \in Seq(U) /\ Len(column) \in Nat /\ \A k \in 1..Len(column) : column[k] # Db!Colon
  OBVIOUS
<1> DEFINE rest == (column \o <<Db!Colon, Db!Space>>) \o value
<1>4. /\ rest \in Seq(U) /\ Len(rest) = Len(column) + 2 + Len(value)
      /\ \A k \in 1..Len(column) : rest[k] = column[k]
      /\ rest[Len(column) + 1] = Db!Colon /\ rest[Len(column) + 2] = Db!Space
      /\ \A k \in 1..Len(value) : rest[Len(column) + 2 + k] = value[k]
  BY <1>1, <1>3
<1> HIDE DEF rest
<1>5. piece = lead \o rest
  BY DEF rest
<1>6. /\ piece \in Seq(U) /\ Len(piece) = Len(lead) + Len(rest)
      /\ \A k \in 1..Len(lead) : piece[k] = lead[k]
      /\ \A k \in 1..Len(rest) : piece[Len(lead) + k] = rest[k]
  <2>1. lead \in Seq(U) /\ rest \in Seq(U)
    BY <1>2, <1>4
  <2>2. JoinIs(U, lead, rest, lead \o rest)
    BY <2>1, JoinedIs
  <2> QED
    BY <1>5, <2>2, Zenon DEF JoinIs
<1>7. n \in 1..Len(piece) /\ piece[n] = Db!Colon /\ n \in Nat /\ Len(value) \in Nat
      /\ Len(piece) = n + 1 + Len(value)
  <2>1. Len(column) + 1 \in 1..Len(rest) /\ Len(value) \in Nat /\ n = Len(lead) + (Len(column) + 1)
    <3>1. Len(lead) \in Nat /\ Len(column) \in Nat /\ Len(value) \in Nat /\ Len(rest) = Len(column) + 2 + Len(value)
      BY <1>2, <1>3, <1>4
    <3> QED
      BY <3>1
  <2>2. Len(lead) \in Nat /\ Len(column) \in Nat /\ Len(rest) = Len(column) + 2 + Len(value) /\ Len(piece) = Len(lead) + Len(rest)
    BY <1>2, <1>3, <1>4, <1>6
  <2>3. piece[n] = Db!Colon
    BY <1>4, <1>6, <2>1, Zenon
  <2> QED
    BY <2>1, <2>2, <2>3
<1>8. ASSUME NEW k \in 1..(n - 1) PROVE piece[k] = before[k] /\ piece[k] # Db!Colon
  <2>1. CASE k <= Len(lead)
    <3>1. k \in 1..Len(lead)
      BY <1>7, <2>1
    <3>2. before[k] = lead[k]
      BY <1>2, <1>3, <3>1
    <3> QED
      BY <1>2, <1>6, <3>1, <3>2
  <2>2. CASE k > Len(lead)
    <3> DEFINE i == k - Len(lead)
    <3>1. i \in 1..Len(column) /\ Len(lead) + i = k /\ i \in 1..Len(rest)
      BY <1>2, <1>3, <1>4, <1>7, <2>2
    <3>2. before[Len(lead) + i] = column[i]
      BY <1>2, <1>3, <3>1
    <3> HIDE DEF i
    <3>3. piece[Len(lead) + i] = rest[i] /\ rest[i] = column[i] /\ column[i] # Db!Colon
      BY <1>3, <1>4, <1>6, <3>1, Zenon
    <3> QED
      BY <3>1, <3>2, <3>3, Zenon
  <2> QED
    BY <1>2, <1>7, <2>1, <2>2
<1>9. n \in marks /\ marks \subseteq Nat /\ \A k \in marks : k >= n
  <2>1. \A k : k \in marks <=> k \in 1..Len(piece) /\ piece[k] = Db!Colon
    BY <1>6 DEF Db!Colons
  <2>3. Len(piece) \in Nat
    BY <1>6
  <2> HIDE DEF marks, n
  <2>2. ASSUME NEW k \in marks PROVE k >= n
    <3>1. k \in 1..Len(piece) /\ piece[k] = Db!Colon
      BY <2>1, Zenon
    <3>2. ~(k \in 1..(n - 1))
      BY <1>8, <3>1
    <3> QED
      BY <1>7, <3>1, <3>2
  <2>4. marks \subseteq Nat
    BY <2>1, <2>3
  <2> QED
    BY <1>7, <2>1, <2>2, <2>4, Zenon
<1>10. Db!Min(marks) = n
  <2> HIDE DEF marks, n
  <2>1. Min(marks) \in marks /\ \A y \in marks : Min(marks) <= y
    BY <1>9, MinIs, Zenon
  <2>2. Min(marks) = n
    <3>1. Min(marks) \in Nat /\ n \in Nat /\ Min(marks) <= n /\ Min(marks) >= n
      BY <1>7, <1>9, <2>1, Zenon
    <3> QED
      BY <3>1
  <2>3. Db!Min(marks) = Min(marks)
    BY DEF Db!Min, Min
  <2> QED
    BY <2>2, <2>3
<1>11. before \in Seq(U) /\ Len(before) = n - 1 /\ behind \in Seq(U) /\ Len(behind) = 1 + Len(value)
       /\ behind[1] = Db!Space /\ \A k \in 1..Len(value) : behind[1 + k] = value[k]
  BY <1>1, <1>2, <1>3
<1> HIDE DEF before, behind
<1>12. SubSeq(piece, 1, n - 1) = before
  <2> HIDE DEF n
  <2> HIDE DEF n
  <2> DEFINE part == SubSeq(piece, 1, n - 1)
             j == n - 1
  <2>1. n - 1 \in Nat /\ 1 <= (n - 1) + 1 /\ n - 1 <= Len(piece) /\ (n - 1) + 1 - 1 = n - 1
    BY <1>7
  <2>2. /\ part \in Seq(U) /\ Len(part) = (n - 1) + 1 - 1
        /\ \A k \in 1..((n - 1) + 1 - 1) : part[k] = piece[1 - 1 + k]
    <3>1. PartIs(U, piece, 1, j, SubSeq(piece, 1, j))
      <4>1. piece \in Seq(U) /\ 1 \in Nat /\ j \in Nat /\ 1 <= 1 /\ 1 <= j + 1 /\ j <= Len(piece)
        BY <1>6, <2>1
      <4> HIDE DEF j
      <4> QED
        BY <4>1, PartOf, Zenon
    <3> HIDE DEF part
    <3> QED
      BY <3>1, Zenon DEF PartIs, part
  <2> HIDE DEF part
  <2>3. \A k \in 1..(n - 1) : part[k] = before[k]
    <3> SUFFICES ASSUME NEW k \in 1..(n - 1) PROVE part[k] = before[k]
      OBVIOUS
    <3>1. 1 - 1 + k = k
      BY <1>7
    <3> QED
      BY <1>8, <2>1, <2>2, <3>1, Zenon
  <2>4. part = before
    BY <1>11, <2>1, <2>2, <2>3, SameTexts, Zenon
  <2> QED
    BY <2>4, Zenon DEF part
<1>13. SubSeq(piece, n + 1, Len(piece)) = behind
  <2>1. \A k \in 1..(1 + Len(value)) : piece[n + k] = behind[k]
    <3> SUFFICES ASSUME NEW k \in 1..(1 + Len(value)) PROVE piece[n + k] = behind[k]
      BY Zenon
    <3> DEFINE i == Len(column) + 1 + k
    <3>1. i \in 1..Len(rest) /\ Len(lead) + i = n + k
      BY <1>2, <1>3, <1>4, <1>7
    <3>2. piece[n + k] = rest[i]
      BY <1>6, <3>1, Zenon
    <3>3. CASE k = 1
      BY <1>4, <1>11, <3>2, <3>3
    <3>4. CASE k # 1
      <4>1. k - 1 \in 1..Len(value) /\ 1 + (k - 1) = k /\ Len(column) + 2 + (k - 1) = i
        BY <1>3, <1>7, <3>4
      <4> QED
        BY <1>4, <1>11, <3>2, <4>1, Zenon
    <3> QED
      BY <3>3, <3>4, Zenon
  <2> HIDE DEF n
  <2> DEFINE part == SubSeq(piece, n + 1, Len(piece))
             m == Len(piece) + 1 - (n + 1)
  <2>2. /\ n + 1 \in Nat /\ Len(piece) \in Nat /\ 1 <= n + 1 /\ n + 1 <= Len(piece) + 1
        /\ m = 1 + Len(value) /\ (n + 1) - 1 = n
    BY <1>7
  <2>3. /\ part \in Seq(U) /\ Len(part) = m
        /\ \A k \in 1..m : part[k] = piece[(n + 1) - 1 + k]
    <3> DEFINE i == n + 1
               j == Len(piece)
    <3>1. PartIs(U, piece, i, j, SubSeq(piece, i, j))
      <4>1. piece \in Seq(U) /\ i \in Nat /\ j \in Nat /\ 1 <= i /\ i <= j + 1 /\ j <= Len(piece)
        BY <1>6, <2>2
      <4> HIDE DEF i, j
      <4> QED
        BY <4>1, PartOf, Zenon
    <3>2. PartIs(U, piece, i, j, part)
      BY <3>1, Zenon
    <3> HIDE DEF part
    <3> QED
      BY <3>2, Zenon DEF PartIs, m
  <2> HIDE DEF part, m
  <2>4. part = behind
    BY <1>11, <2>1, <2>2, <2>3, SameTexts, Zenon
  <2> QED
    BY <2>4, Zenon DEF part
<1>14. Db!Trim(before) = Db!Trim(column)
  <2>1. CASE lead = <<>>
    BY <1>3, <2>1 DEF before
  <2>2. CASE lead = <<Db!Space>>
    BY <1>1, <1>3, <2>2, TrimPadded, Zenon DEF before
  <2> QED
    BY <2>1, <2>2
<1>15. Db!Trim(behind) = Db!Trim(value)
  BY <1>1, TrimPadded, Zenon DEF behind
<1> HIDE DEF n
<1>16. Db!ColumnIn(piece) = Db!Trim(column)
  BY <1>10, <1>12, <1>14, Zenon DEF Db!ColumnIn
<1>17. Db!ValueBehind(piece) = Db!Trim(value)
  BY <1>10, <1>13, <1>15, Zenon DEF Db!ValueBehind
<1> QED
  BY <1>9, <1>16, <1>17, Zenon DEF PartsAre

\* The characters of a list's columns and values, and of what is between them.
Alphabet(pairs) ==
  {Db!Comma, Db!Colon, Db!Space, Db!Backslash}
    \cup UNION {ToSet(pairs[k][1]) \cup ToSet(pairs[k][2]) : k \in 1..Len(pairs)}

LEMMA LinesAreWellWritten ==
  ASSUME CasesInv, Answered("line")
  PROVE  WellWritten(Alphabet(given.pairs), given.pairs)
<1> DEFINE pairs == given.pairs
           U == Alphabet(pairs)
<1>1. given.about = "line" /\ \E n \in DOMAIN Cases : given \in Cases[n]
  BY DEF Answered, CasesInv, Suite, Statements
<1>2. /\ pairs \in Seq(ToSet(pairs))
      /\ \A k \in DOMAIN pairs :
           /\ pairs[k][1] \in Seq(ToSet(pairs[k][1]) \ {Db!Comma, Db!Colon}) /\ pairs[k][1] # <<>>
           /\ Db!Trim(pairs[k][1]) = pairs[k][1] /\ pairs[k][2] \in Seq(ToSet(pairs[k][2]))
           /\ k < Len(pairs) /\ pairs[k][2] # <<>> => Last(pairs[k][2]) # Db!Backslash
  BY <1>1, LineAssumption, Zenon
<1> HIDE DEF pairs
<1>3. Len(pairs) \in Nat /\ DOMAIN pairs = 1..Len(pairs)
  BY <1>2
<1>4. ASSUME NEW k \in 1..Len(pairs)
      PROVE  pairs[k][1] \in Seq(U \ {Db!Comma, Db!Colon}) /\ pairs[k][2] \in Seq(U)
  <2> DEFINE column == pairs[k][1]
             value == pairs[k][2]
             V == ToSet(column)
             W == ToSet(value)
  <2>1. V \subseteq U /\ W \subseteq U
    BY DEF Alphabet
  <2>2. column \in Seq(V \ {Db!Comma, Db!Colon}) /\ value \in Seq(W)
    BY <1>2, <1>3, Zenon
  <2> HIDE DEF column, value, U, V, W
  <2>3. column \in Seq(U \ {Db!Comma, Db!Colon}) /\ value \in Seq(U)
    BY <2>1, <2>2
  <2> QED
    BY <2>3 DEF column, value
<1>5. ASSUME NEW k \in 1..Len(pairs), k < Len(pairs), pairs[k][2] # <<>>
      PROVE  pairs[k][2][Len(pairs[k][2])] # Db!Backslash
  BY <1>2, <1>3, <1>5, Zenon DEF Last
<1> HIDE DEF U
<1>6. WellWritten(U, pairs)
  BY <1>2, <1>3, <1>4, <1>5, Zenon DEF WellWritten
<1> QED
  BY <1>6 DEF U, pairs

LEMMA ListsRead ==
  ASSUME NEW U, Characters(U), NEW pairs, WellWritten(U, pairs)
  PROVE  Db!ParseOneliner(Db!Written(pairs)) = [k \in 1..Len(pairs) |-> <<pairs[k][1], Db!Trim(pairs[k][2])>>]
<1> DEFINE N == Len(pairs)
           text == Db!Written(pairs)
           pieces == Db!Pieces(text)
<1>1. N \in Nat
  BY DEF WellWritten
<1>2. CASE N = 0
  <2> DEFINE Says(g) == g = [k \in 0..N |-> IF k = 0 THEN <<>> ELSE g[k - 1] \o Db!WrittenPair(pairs, k)]
             h == CHOOSE g : Says(g)
  <2>1. text = h[N]
    BY DEF Db!Written
  <2>2. Says([k \in 0..0 |-> <<>>])
    BY <1>2
  <2> HIDE DEF Says
  <2>3. Says(h)
    BY <2>2, Zenon
  <2> HIDE DEF h
  <2>4. h[0] = <<>>
    BY <1>2, <2>3 DEF Says
  <2>5. text = <<>>
    BY <1>2, <2>1, <2>4
  <2>6. Db!Trim(<<>>) = <<>>
    <3>1. <<>> \in Seq(U) /\ \A k \in 1..Len(<<>>) : FALSE
      OBVIOUS
    <3> QED
      BY <3>1, TrimBlank, Zenon
  <2> HIDE DEF text
  <2>7. Db!ParseOneliner(text) = <<>>
    BY <2>5, <2>6 DEF Db!ParseOneliner
  <2>8. [k \in 1..N |-> <<pairs[k][1], Db!Trim(pairs[k][2])>>] = <<>>
    BY <1>2
  <2> QED
    BY <2>7, <2>8 DEF text
<1>3. CASE N > 0
  <2>1. ReadTo(U, pairs, N, text)
    BY <1>3, PairsAreRead
  <2> HIDE DEF text
  <2>2. /\ Db!PiecesRead(text).pieces = [p \in 1..(N - 1) |-> PieceOf(pairs, p)]
        /\ Db!PiecesRead(text).last = PieceOf(pairs, N)
    BY <2>1 DEF ReadTo
  <2>3. pieces = [p \in 1..N |-> PieceOf(pairs, p)]
    <3> DEFINE F == [p \in 1..(N - 1) |-> PieceOf(pairs, p)]
               X == {PieceOf(pairs, p) : p \in 1..N}
               e == PieceOf(pairs, N)
    <3>1. \A p \in 1..N : PieceOf(pairs, p) \in X
      OBVIOUS
    <3>2. e \in X
      BY <1>1, <1>3
    <3>3. N - 1 \in Nat
      BY <1>1, <1>3
    <3> HIDE DEF X, N
    <3>4. F \in Seq(X) /\ Len(F) = N - 1 /\ \A p \in 1..(N - 1) : F[p] = PieceOf(pairs, p)
      BY <1>1, <3>1, <3>3
    <3>5. pieces = Append(F, e)
      BY <2>2, Zenon DEF Db!Pieces
    <3> HIDE DEF F, e
    <3>6. Append(F, e) \in Seq(X) /\ Len(Append(F, e)) = N /\ Append(F, e)[N] = e
          /\ \A p \in 1..(N - 1) : Append(F, e)[p] = F[p]
      BY <1>1, <3>2, <3>4
    <3>7. \A p \in 1..N : Append(F, e)[p] = PieceOf(pairs, p)
      <4> SUFFICES ASSUME NEW p \in 1..N PROVE Append(F, e)[p] = PieceOf(pairs, p)
        BY Zenon
      <4>1. CASE p = N
        BY <3>6, <4>1 DEF e
      <4>2. CASE p # N
        <5>1. p \in 1..(N - 1)
          BY <1>1, <4>2
        <5> QED
          BY <3>4, <3>6, <5>1, Zenon
      <4> QED
        BY <4>1, <4>2, Zenon
    <3> DEFINE G == Append(F, e)
    <3>8. G \in Seq(X) /\ Len(G) = N
      BY <3>6
    <3> HIDE DEF G
    <3>9. G = [p \in 1..N |-> G[p]]
      BY <1>1, <3>8
    <3>10. \A p \in 1..N : G[p] = PieceOf(pairs, p)
      BY <3>7, Zenon DEF G
    <3>11. pieces = G
      BY <3>5 DEF G
    <3> QED
      BY <3>9, <3>10, <3>11
  <2>4. ASSUME NEW p \in 1..N
        PROVE  /\ Db!Colons(pieces[p]) # {}
               /\ Db!ColumnIn(pieces[p]) = pairs[p][1] /\ pairs[p][1] # <<>>
               /\ Db!ValueBehind(pieces[p]) = Db!Trim(pairs[p][2])
    <3> DEFINE lead == IF p = 1 THEN <<>> ELSE <<Db!Space>>
    <3>1. pieces[p] = lead \o ((pairs[p][1] \o <<Db!Colon, Db!Space>>) \o pairs[p][2])
      BY <2>3, Zenon DEF PieceOf
    <3>2. lead \in {<<>>, <<Db!Space>>}
      OBVIOUS
    <3>3. /\ pairs[p][1] \in Seq(U \ {Db!Comma, Db!Colon}) /\ pairs[p][1] # <<>> /\ Db!Trim(pairs[p][1]) = pairs[p][1]
          /\ pairs[p][2] \in Seq(U)
      BY DEF WellWritten
    <3> HIDE DEF lead, pieces
    <3>4. PartsAre(pieces[p], pairs[p][1], pairs[p][2])
      BY <3>1, <3>2, <3>3, PieceParts, Zenon
    <3> QED
      BY <3>3, <3>4, Zenon DEF PartsAre
  <2>5. Db!Trim(text) # <<>>
    <3>1. text \in Seq(U) /\ Db!Colon \in ToSet(text)
      BY <2>1 DEF ReadTo
    <3>2. PICK k \in 1..Len(text) : text[k] = Db!Colon
      BY <3>1 DEF ToSet
    <3> QED
      BY <3>1, <3>2, FourCharacters, TrimSays
  <2>6. DOMAIN pieces = 1..N
    BY <2>3
  <2> HIDE DEF pieces, N
  <2>7. ~ \E p \in DOMAIN pieces : Db!Colons(pieces[p]) = {} \/ Db!ColumnIn(pieces[p]) = <<>>
    BY <2>4, <2>6, Zenon
  <2>8. Db!ParseOneliner(text) = [p \in DOMAIN pieces |-> <<Db!ColumnIn(pieces[p]), Db!ValueBehind(pieces[p])>>]
    BY <2>5, <2>7 DEF Db!ParseOneliner, pieces
  <2> QED
    BY <2>4, <2>6, <2>8 DEF text, N
<1> QED
  BY <1>1, <1>2, <1>3

\* A database step does to its table what its columns and values say
\* (build_insert, build_update and build_where of db/plan.rs, the one-line
\* lists of db/value.rs): the row that an insert leaves is the one its
\* variables name, an update changes the rows its condition means and no
\* other, and a list is read as it was written.
THEOREM StatementsMeanWhatTheySay == RulesSpec => []StatementsExact
<1>1. CasesInv => StatementsExact
  <2> SUFFICES ASSUME CasesInv PROVE StatementsExact
    OBVIOUS
  <2>1. Answered("line") => found = [k \in DOMAIN given.pairs |-> <<given.pairs[k][1], Db!Trim(given.pairs[k][2])>>]
    <3> SUFFICES ASSUME Answered("line")
                 PROVE  found = [k \in DOMAIN given.pairs |-> <<given.pairs[k][1], Db!Trim(given.pairs[k][2])>>]
      OBVIOUS
    <3> DEFINE U == Alphabet(given.pairs)
    <3>1. WellWritten(U, given.pairs)
      BY LinesAreWellWritten
    <3>2. Characters(U)
      BY DEF Characters, Alphabet
    <3>3. given.about = "line" /\ found = Answer(given)
      BY DEF Answered, CasesInv, Suite, Statements
    <3>4. found = Db!ParseOneliner(Db!Written(given.pairs))
      BY <3>3 DEF Answer
    <3>5. DOMAIN given.pairs = 1..Len(given.pairs)
      BY <3>1 DEF WellWritten
    <3> HIDE DEF U
    <3>6. Db!ParseOneliner(Db!Written(given.pairs))
            = [k \in 1..Len(given.pairs) |-> <<given.pairs[k][1], Db!Trim(given.pairs[k][2])>>]
      BY <3>1, <3>2, ListsRead, Zenon
    <3> QED
      BY <3>4, <3>5, <3>6, Zenon
  <2> QED
    BY <2>1, InsertsNameRows, UpdatesMean, Zenon DEF StatementsExact, StatementMeant
<1> QED
  BY <1>1, CasesAnswered, PTL

-----------------------------------------------------------------------------
(***************************************************************************)
(* Texts: no text that two declarations are taken for escapes the check of *)
(* their token streams.  A text that a regex matches is one that a stream  *)
(* of the same declaration may match (ReadByAStream, item by item), and    *)
(* two streams that may match one text reach their ends together           *)
(* (StreamsMeet): the search passes every pair of places that the two can  *)
(* stand at, at the same place in the text.                                *)
(***************************************************************************)
\* The characters that a class names.
Classes == {<<"any">>, <<"non_quote">>, <<"digit">>, <<"non_space">>}
             \cup {<<"exact", c>> : c \in Match!Chars \cup {"G", "P"}}
StreamTokens == {Match!One(c) : c \in Classes} \cup {Match!Star(c) : c \in Classes}

\* The tokens of a stream end at f[1], f[2] and so on.
Marks(stream, text, f) ==
  /\ f \in [0..Len(stream) -> Nat \ {0}]
  /\ \A n \in 1..Len(stream) :
       /\ f[n - 1] <= f[n]
       /\ ~stream[n].star => f[n] = f[n - 1] + 1
       /\ \A k \in f[n - 1]..(f[n] - 1) : Match!InClass(stream[n].class, text[k])

\* A stream may match a text from i to j.
Takes(stream, text, i, j) ==
  \E f : Marks(stream, text, f) /\ f[0] = i /\ f[Len(stream)] = j

\* Having matched a text up to k, a stream may be at its place i.
Stands(stream, f, i, k) ==
  /\ i \in 1..(Len(stream) + 1) /\ k \in Nat
  /\ f[i - 1] <= k
  /\ i <= Len(stream) => k <= f[i] /\ (~stream[i].star => k = f[i - 1])
  /\ i = Len(stream) + 1 => k = f[i - 1]

LEMMA ClassesMeet ==
  ASSUME NEW l \in Classes, NEW r \in Classes, NEW c, Match!InClass(l, c), Match!InClass(r, c)
  PROVE  Match!ClassesOverlap(l, r)
<1>1. l[1] = "exact" => l[2] = c
  BY DEF Match!InClass
<1>2. r[1] = "exact" => r[2] = c
  BY DEF Match!InClass
<1> QED
  BY <1>1, <1>2, Zenon DEF Match!ClassesOverlap

\* It may be there behind a star that has ended.
EndedStar(s, f, i, k) == i > 1 /\ f[i - 1] = k /\ s[i - 1].star

Streams == Seq(StreamTokens)

LEMMA StandsWhere ==
  ASSUME NEW s \in Streams, NEW text, NEW f, Marks(s, text, f), f[0] = 1, NEW i, NEW k, Stands(s, f, i, k)
  PROVE  i \in 1..(Len(s) + 1) /\ k \in Nat /\ k >= 1
<1>1. Len(s) \in Nat /\ i \in 1..(Len(s) + 1) /\ k \in Nat /\ f[i - 1] <= k /\ i - 1 \in 0..Len(s)
  BY DEF Stands, Streams
<1>2. f[i - 1] \in Nat /\ f[i - 1] >= 1
  BY <1>1 DEF Marks
<1> QED
  BY <1>1, <1>2

LEMMA StandsBefore ==
  ASSUME NEW s \in Streams, NEW text, NEW f, Marks(s, text, f), f[0] = 1, NEW i, NEW k, Stands(s, f, i, k),
         EndedStar(s, f, i, k)
  PROVE  i > 1 /\ i - 1 \in 1..Len(s) /\ s[i - 1].star /\ Stands(s, f, i - 1, k)
<1>1. Len(s) \in Nat /\ i \in 1..(Len(s) + 1) /\ k \in Nat /\ i > 1 /\ f[i - 1] = k /\ s[i - 1].star
  BY DEF Stands, EndedStar, Streams
<1>2. i - 1 \in 1..Len(s) /\ i - 1 \in 1..(Len(s) + 1) /\ i - 1 # Len(s) + 1
  BY <1>1
<1>3. f[(i - 1) - 1] <= f[i - 1]
  BY <1>2 DEF Marks
<1> QED
  BY <1>1, <1>2, <1>3 DEF Stands

LEMMA StandsFirst ==
  ASSUME NEW s \in Streams, NEW text, NEW f, Marks(s, text, f), f[0] = 1, NEW i, Stands(s, f, i, 1),
         ~EndedStar(s, f, i, 1)
  PROVE  i = 1
<1> SUFFICES ASSUME i # 1 PROVE FALSE
  OBVIOUS
<1>1. Len(s) \in Nat /\ i \in 1..(Len(s) + 1) /\ f[i - 1] <= 1 /\ i > 1
  BY DEF Stands, Streams
<1>2. i - 1 \in 1..Len(s) /\ i - 1 \in 0..Len(s) /\ (i - 1) - 1 \in 0..Len(s)
  BY <1>1
<1>3. /\ f[i - 1] \in Nat /\ f[i - 1] >= 1 /\ f[(i - 1) - 1] \in Nat /\ f[(i - 1) - 1] >= 1
      /\ ~s[i - 1].star => f[i - 1] = f[(i - 1) - 1] + 1
  BY <1>2 DEF Marks
<1>4. f[i - 1] = 1 /\ s[i - 1].star
  BY <1>1, <1>3
<1> QED
  BY <1>1, <1>4 DEF EndedStar

\* Behind a character, a stream is still in a star or past a token of one.
Past(s, i) == IF s[i].star THEN i ELSE i + 1

LEMMA StandsBack ==
  ASSUME NEW s \in Streams, NEW text, NEW f, Marks(s, text, f), f[0] = 1,
         NEW i, NEW k, Stands(s, f, i, k), k > 1,
         ~EndedStar(s, f, i, k)
  PROVE  \E b \in 1..Len(s) : Stands(s, f, b, k - 1) /\ Match!InClass(s[b].class, text[k - 1]) /\ i = Past(s, b)
<1>1. Len(s) \in Nat /\ i \in 1..(Len(s) + 1) /\ k \in Nat /\ k - 1 \in Nat /\ f[i - 1] <= k
  BY DEF Stands, Streams
<1>2. \A n \in 0..Len(s) : f[n] \in Nat
  BY <1>1, Zenon DEF Marks
<1> USE DEF Past, EndedStar
<1>3. CASE f[i - 1] = k
  <2>1. i - 1 \in 1..Len(s) /\ i > 1
    BY <1>1, <1>3
  <2> DEFINE b == i - 1
  <2>2. b \in 1..Len(s) /\ ~s[b].star /\ b + 1 = i /\ b - 1 \in 0..Len(s) /\ b <= Len(s) /\ b # Len(s) + 1
        /\ b \in 1..(Len(s) + 1)
    BY <1>1, <1>3, <2>1
  <2>3. f[b] = k /\ f[b] = f[b - 1] + 1 /\ \A x \in f[b - 1]..(f[b] - 1) : Match!InClass(s[b].class, text[x])
    BY <1>3, <2>2, Zenon DEF Marks
  <2>4. f[b - 1] \in Nat /\ f[b - 1] = k - 1 /\ k - 1 \in f[b - 1]..(f[b] - 1) /\ k - 1 <= f[b]
    BY <1>1, <1>2, <2>2, <2>3
  <2> HIDE DEF b
  <2>5. Stands(s, f, b, k - 1)
    BY <1>1, <2>2, <2>4 DEF Stands
  <2> QED
    BY <2>2, <2>3, <2>4, <2>5
<1>4. CASE f[i - 1] # k
  <2>1. i \in 1..Len(s) /\ s[i].star /\ k <= f[i] /\ i - 1 \in 0..Len(s) /\ i <= Len(s) /\ i # Len(s) + 1
    BY <1>1, <1>4 DEF Stands
  <2>2. f[i - 1] <= k - 1 /\ k - 1 <= f[i] /\ k - 1 \in f[i - 1]..(f[i] - 1)
    BY <1>1, <1>2, <1>4, <2>1
  <2>3. Match!InClass(s[i].class, text[k - 1])
    BY <2>1, <2>2 DEF Marks
  <2>4. Stands(s, f, i, k - 1)
    BY <1>1, <2>1, <2>2 DEF Stands
  <2> QED
    BY <2>1, <2>3, <2>4
<1> QED
  BY <1>3, <1>4

\* What two streams can be in together.
SeenBy(L, R, h) ==
  /\ <<1, 1>> \in h[0]
  /\ \A n \in 1..(Len(L) + Len(R)) :
       /\ \A i \in 1..Len(L), j \in 1..(Len(R) + 1) :
            <<i, j>> \in h[n - 1] /\ L[i].star => <<i + 1, j>> \in h[n]
       /\ \A i \in 1..(Len(L) + 1), j \in 1..Len(R) :
            <<i, j>> \in h[n - 1] /\ R[j].star => <<i, j + 1>> \in h[n]
       /\ \A i \in 1..Len(L), j \in 1..Len(R) :
            <<i, j>> \in h[n - 1] /\ Match!ClassesOverlap(L[i].class, R[j].class)
              => <<Past(L, i), Past(R, j)>> \in h[n]
       /\ h[n - 1] \subseteq h[n]

LEMMA OverlapIs ==
  ASSUME NEW L \in Streams, NEW R \in Streams
  PROVE  \E h : /\ SeenBy(L, R, h)
                /\ Match!PatternsOverlap(L, R) <=> <<Len(L) + 1, Len(R) + 1>> \in h[Len(L) + Len(R)]
<1> DEFINE next(p) ==
             (IF p[1] <= Len(L) /\ L[p[1]].star THEN {<<p[1] + 1, p[2]>>} ELSE {})
               \cup (IF p[2] <= Len(R) /\ R[p[2]].star THEN {<<p[1], p[2] + 1>>} ELSE {})
               \cup (IF /\ p[1] <= Len(L) /\ p[2] <= Len(R)
                        /\ Match!ClassesOverlap(L[p[1]].class, R[p[2]].class)
                     THEN {<<IF L[p[1]].star THEN p[1] ELSE p[1] + 1,
                             IF R[p[2]].star THEN p[2] ELSE p[2] + 1>>} ELSE {})
           N == Len(L) + Len(R)
           Onto(B) == B \cup UNION {next(p) : p \in B}
           Sees(g) == g = [n \in 0..N |-> IF n = 0 THEN {<<1, 1>>} ELSE Onto(g[n - 1])]
           h == CHOOSE g : Sees(g)
           D == SUBSET (Nat \X Nat)
           F == [p \in Nat \X D |-> Onto(p[2])]
<1>1. N \in Nat /\ Len(L) \in Nat /\ Len(R) \in Nat
  BY DEF Streams
<1>2. Match!PatternsOverlap(L, R) <=> <<Len(L) + 1, Len(R) + 1>> \in h[N]
  BY DEF Match!PatternsOverlap
<1>3. ASSUME NEW p \in Nat \X Nat PROVE next(p) \subseteq Nat \X Nat
  BY <1>3
<1> HIDE DEF next
<1>4. F \in [Nat \X D -> D] /\ {<<1, 1>>} \in D
  <2>1. ASSUME NEW B \in D PROVE Onto(B) \in D
    BY <1>3
  <2> QED
    BY <2>1
<1>5. \A n \in Nat, B \in D : F[<<n, B>>] = Onto(B)
  OBVIOUS
<1> HIDE DEF F, D, Sees, Onto, N
<1>6. PICK f : Iterates(f, D, {<<1, 1>>}, F, N)
  BY <1>1, <1>4, IterationIs, Zenon
<1>7. Sees(f)
  <2>1. ASSUME NEW n \in 0..N PROVE f[n] = IF n = 0 THEN {<<1, 1>>} ELSE Onto(f[n - 1])
    <3>1. CASE n = 0
      BY <1>6, <3>1 DEF Iterates
    <3>2. CASE n # 0
      <4>1. n \in 1..N /\ n - 1 \in 0..N /\ n \in Nat
        BY <1>1, <3>2
      <4>2. f[n - 1] \in D /\ f[n] = F[<<n, f[n - 1]>>]
        BY <1>6, <4>1 DEF Iterates
      <4> QED
        BY <1>5, <3>2, <4>1, <4>2
    <3> QED
      BY <3>1, <3>2
  <2>2. f = [n \in 0..N |-> f[n]]
    BY <1>6 DEF Iterates
  <2> QED
    BY <2>1, <2>2, Zenon DEF Sees
<1>8. Sees(h)
  BY <1>7, Zenon
<1> HIDE DEF h
<1>9. h[0] = {<<1, 1>>} /\ \A n \in 1..N : h[n] = Onto(h[n - 1])
  <2>1. \A n \in 0..N : h[n] = IF n = 0 THEN {<<1, 1>>} ELSE Onto(h[n - 1])
    BY <1>8, Zenon DEF Sees
  <2>2. 0 \in 0..N /\ \A n \in 1..N : n \in 0..N /\ n # 0
    BY <1>1
  <2> QED
    BY <2>1, <2>2
<1>10. SeenBy(L, R, h)
  <2>1. <<1, 1>> \in h[0]
    BY <1>9
  <2>2. ASSUME NEW n \in 1..N PROVE h[n - 1] \subseteq h[n] /\ \A p \in h[n - 1] : next(p) \subseteq h[n]
    BY <1>9 DEF Onto
  <2>3. ASSUME NEW n \in 1..N, NEW i \in 1..Len(L), NEW j, <<i, j>> \in h[n - 1], L[i].star
        PROVE  <<i + 1, j>> \in h[n]
    <3>1. <<i + 1, j>> \in next(<<i, j>>)
      BY <1>1, <2>3 DEF next
    <3> QED
      BY <2>2, <2>3, <3>1
  <2>4. ASSUME NEW n \in 1..N, NEW i, NEW j \in 1..Len(R), <<i, j>> \in h[n - 1], R[j].star
        PROVE  <<i, j + 1>> \in h[n]
    <3>1. <<i, j + 1>> \in next(<<i, j>>)
      BY <1>1, <2>4 DEF next
    <3> QED
      BY <2>2, <2>4, <3>1
  <2>5. ASSUME NEW n \in 1..N, NEW i \in 1..Len(L), NEW j \in 1..Len(R), <<i, j>> \in h[n - 1],
               Match!ClassesOverlap(L[i].class, R[j].class)
        PROVE  <<Past(L, i), Past(R, j)>> \in h[n]
    <3>1. <<Past(L, i), Past(R, j)>> \in next(<<i, j>>)
      BY <1>1, <2>5 DEF next, Past
    <3> QED
      BY <2>2, <2>5, <3>1
  <2> QED
    BY <2>1, <2>2, <2>3, <2>4, <2>5, Zenon DEF SeenBy, N
<1> QED
  BY <1>2, <1>10 DEF N

\* Two streams that match one text can be in their ends together.
LEMMA StreamsMeet ==
  ASSUME NEW L \in Streams, NEW R \in Streams, NEW text, NEW m,
         Takes(L, text, 1, m), Takes(R, text, 1, m)
  PROVE  Match!PatternsOverlap(L, R)
<1>1. PICK f : Marks(L, text, f) /\ f[0] = 1 /\ f[Len(L)] = m
  BY DEF Takes
<1>2. PICK g : Marks(R, text, g) /\ g[0] = 1 /\ g[Len(R)] = m
  BY DEF Takes
<1>3. PICK h : /\ SeenBy(L, R, h)
               /\ Match!PatternsOverlap(L, R) <=> <<Len(L) + 1, Len(R) + 1>> \in h[Len(L) + Len(R)]
  BY OverlapIs
<1> DEFINE N == Len(L) + Len(R)
           Met(i, j) == \A n \in 0..N : n >= (i + j) - 2 => <<i, j>> \in h[n]
           S == {n \in Nat : \A i, j, k :
                   Stands(L, f, i, k) /\ Stands(R, g, j, k) /\ i + j + k <= n => Met(i, j)}
<1>4. Len(L) \in Nat /\ Len(R) \in Nat /\ m \in Nat /\ N \in Nat
  <2>1. Len(L) \in Nat /\ Len(R) \in Nat
    BY DEF Streams
  <2> QED
    BY <1>1, <2>1 DEF Marks
<1>5. \A i, k : Stands(L, f, i, k) => i \in 1..(Len(L) + 1) /\ k \in Nat /\ k >= 1
  BY <1>1, StandsWhere
<1>6. \A j, k : Stands(R, g, j, k) => j \in 1..(Len(R) + 1) /\ k \in Nat /\ k >= 1
  BY <1>2, StandsWhere
<1>7. \A n \in 0..N : <<1, 1>> \in h[n]
  <2> DEFINE T == {n \in Nat : n <= N => <<1, 1>> \in h[n]}
  <2>1. 0 \in T
    BY <1>3 DEF SeenBy
  <2>2. ASSUME NEW n \in Nat, n \in T PROVE n + 1 \in T
    <3> SUFFICES ASSUME n + 1 <= N PROVE <<1, 1>> \in h[n + 1]
      OBVIOUS
    <3>1. n + 1 \in 1..N /\ (n + 1) - 1 = n /\ <<1, 1>> \in h[n]
      BY <1>4, <2>2
    <3>2. h[(n + 1) - 1] \subseteq h[n + 1]
      BY <1>3, <3>1, Zenon DEF SeenBy
    <3> QED
      BY <3>1, <3>2
  <2> HIDE DEF T
  <2>3. \A n \in Nat : n \in T
    BY <2>1, <2>2, SetInduction
  <2> QED
    BY <1>4, <2>3 DEF T
<1> HIDE DEF N
<1>8. 0 \in S
  BY <1>4, <1>5, <1>6
<1>9. ASSUME NEW n \in Nat, n \in S PROVE n + 1 \in S
  <2> SUFFICES ASSUME NEW i, NEW j, NEW k, Stands(L, f, i, k), Stands(R, g, j, k), i + j + k <= n + 1
               PROVE  Met(i, j)
    <3>1. n + 1 \in Nat
      OBVIOUS
    <3> QED
      BY <3>1, Zenon DEF S
  <2>1. /\ i \in 1..(Len(L) + 1) /\ j \in 1..(Len(R) + 1) /\ k \in Nat /\ k >= 1
        /\ i \in Nat /\ j \in Nat /\ i >= 1 /\ j >= 1
    BY <1>4, <1>5, <1>6
  <2>2. \A a, b, c : Stands(L, f, a, c) /\ Stands(R, g, b, c) /\ a + b + c <= n => Met(a, b)
    BY <1>9, Zenon DEF S
  <2> HIDE DEF S, Met
  <2>3. CASE EndedStar(L, f, i, k)
    <3>1. i > 1 /\ i - 1 \in 1..Len(L) /\ L[i - 1].star /\ Stands(L, f, i - 1, k)
      BY <1>1, <2>3, StandsBefore
    <3>2. (i - 1) + j + k <= n
      BY <2>1, <3>1
    <3>3. Met(i - 1, j)
      BY <2>2, <3>1, <3>2
    <3>4. ASSUME NEW x \in 0..N, x >= (i + j) - 2 PROVE <<i, j>> \in h[x]
      <4>1. x - 1 \in 0..N /\ x - 1 >= ((i - 1) + j) - 2 /\ x \in 1..N /\ (i - 1) + 1 = i
        BY <1>4, <2>1, <3>1, <3>4
      <4>2. <<i - 1, j>> \in h[x - 1]
        BY <3>3, <4>1 DEF Met
      <4>3. <<(i - 1) + 1, j>> \in h[x]
        BY <1>3, <2>1, <3>1, <4>1, <4>2, Zenon DEF SeenBy, N
      <4> QED
        BY <4>1, <4>3
    <3> QED
      BY <3>4 DEF Met
  <2>4. CASE EndedStar(R, g, j, k)
    <3>1. j > 1 /\ j - 1 \in 1..Len(R) /\ R[j - 1].star /\ Stands(R, g, j - 1, k)
      BY <1>2, <2>4, StandsBefore
    <3>2. i + (j - 1) + k <= n
      BY <2>1, <3>1
    <3>3. Met(i, j - 1)
      BY <2>2, <3>1, <3>2
    <3>4. ASSUME NEW x \in 0..N, x >= (i + j) - 2 PROVE <<i, j>> \in h[x]
      <4>1. x - 1 \in 0..N /\ x - 1 >= (i + (j - 1)) - 2 /\ x \in 1..N /\ (j - 1) + 1 = j
        BY <1>4, <2>1, <3>1, <3>4
      <4>2. <<i, j - 1>> \in h[x - 1]
        BY <3>3, <4>1 DEF Met
      <4>3. <<i, (j - 1) + 1>> \in h[x]
        BY <1>3, <2>1, <3>1, <4>1, <4>2, Zenon DEF SeenBy, N
      <4> QED
        BY <4>1, <4>3
    <3> QED
      BY <3>4 DEF Met
  <2>5. CASE ~EndedStar(L, f, i, k) /\ ~EndedStar(R, g, j, k) /\ k = 1
    <3>1. i = 1
      BY <1>1, <2>5, StandsFirst
    <3>2. j = 1
      BY <1>2, <2>5, StandsFirst
    <3> QED
      BY <1>7, <3>1, <3>2 DEF Met
  <2>6. CASE ~EndedStar(L, f, i, k) /\ ~EndedStar(R, g, j, k) /\ k # 1
    <3>1. k > 1
      BY <2>1, <2>6
    <3>2. PICK a \in 1..Len(L) :
             Stands(L, f, a, k - 1) /\ Match!InClass(L[a].class, text[k - 1]) /\ i = Past(L, a)
      BY <1>1, <2>6, <3>1, StandsBack
    <3>3. PICK b \in 1..Len(R) :
             Stands(R, g, b, k - 1) /\ Match!InClass(R[b].class, text[k - 1]) /\ j = Past(R, b)
      BY <1>2, <2>6, <3>1, StandsBack
    <3>4. (i = a \/ i = a + 1) /\ (j = b \/ j = b + 1) /\ a \in Nat /\ b \in Nat /\ a >= 1 /\ b >= 1
      BY <1>4, <3>2, <3>3 DEF Past
    <3>5. a + b + (k - 1) <= n
      BY <2>1, <3>1, <3>4
    <3>6. Met(a, b)
      BY <2>2, <3>2, <3>3, <3>5, Zenon
    <3>7. CASE i = a /\ j = b
      BY <3>6, <3>7
    <3>8. CASE ~(i = a /\ j = b)
      <4>1. Match!ClassesOverlap(L[a].class, R[b].class)
        <5>1. L[a] \in StreamTokens /\ R[b] \in StreamTokens
          BY DEF Streams
        <5>2. L[a].class \in Classes /\ R[b].class \in Classes
          BY <5>1 DEF StreamTokens, Match!One, Match!Star
        <5> QED
          BY <3>2, <3>3, <5>2, ClassesMeet, Zenon
      <4>2. ASSUME NEW x \in 0..N, x >= (i + j) - 2 PROVE <<i, j>> \in h[x]
        <5>1. x - 1 \in 0..N /\ x - 1 >= (a + b) - 2 /\ x \in 1..N
          BY <1>4, <3>4, <3>8, <4>2
        <5>2. <<a, b>> \in h[x - 1]
          BY <3>6, <5>1 DEF Met
        <5>3. <<Past(L, a), Past(R, b)>> \in h[x]
          BY <1>3, <4>1, <5>1, <5>2, Zenon DEF SeenBy, N
        <5> QED
          BY <3>2, <3>3, <5>3, Zenon
      <4> QED
        BY <4>2 DEF Met
    <3> QED
      BY <3>7, <3>8
  <2> QED
    BY <2>3, <2>4, <2>5, <2>6
<1> HIDE DEF S
<1>10. \A n \in Nat : n \in S
  BY <1>8, <1>9, SetInduction
<1>11. Stands(L, f, Len(L) + 1, m) /\ Stands(R, g, Len(R) + 1, m)
  BY <1>1, <1>2, <1>4 DEF Stands
<1>12. Met(Len(L) + 1, Len(R) + 1)
  <2>1. (Len(L) + 1) + (Len(R) + 1) + m \in Nat
    BY <1>4
  <2> DEFINE n == (Len(L) + 1) + (Len(R) + 1) + m
  <2>2. n \in S /\ n <= n
    BY <1>10, <2>1
  <2> HIDE DEF Met
  <2> QED
    BY <1>11, <2>2, Zenon DEF S
<1>13. N \in 0..N /\ N >= ((Len(L) + 1) + (Len(R) + 1)) - 2
  BY <1>4 DEF N
<1> QED
  BY <1>3, <1>12, <1>13 DEF N

Letterlike == Match!Chars \cup {"G", "P"}

LEMMA TakesNothing ==
  ASSUME NEW text, NEW i \in Nat \ {0}
  PROVE  <<>> \in Streams /\ Takes(<<>>, text, i, i)
<1>1. <<>> \in Streams
  BY DEF Streams
<1>2. Marks(<<>>, text, [n \in 0..0 |-> i])
  BY DEF Marks
<1> QED
  BY <1>1, <1>2 DEF Takes

LEMMA TakesStar ==
  ASSUME NEW text, NEW c \in Classes, NEW i \in Nat \ {0}, NEW j \in Nat, i <= j,
         \A k \in i..(j - 1) : Match!InClass(c, text[k])
  PROVE  <<Match!Star(c)>> \in Streams /\ Takes(<<Match!Star(c)>>, text, i, j)
<1> DEFINE s == <<Match!Star(c)>>
           f == [n \in 0..1 |-> IF n = 0 THEN i ELSE j]
<1>1. Match!Star(c) \in StreamTokens
  BY DEF StreamTokens
<1>2. s \in Streams
  BY <1>1 DEF Streams
<1>3. Len(s) = 1 /\ s[1].star = TRUE /\ s[1].class = c
  BY DEF Match!Star
<1>4. f \in [0..1 -> Nat \ {0}] /\ f[0] = i /\ f[1] = j
  OBVIOUS
<1> HIDE DEF f, s
<1>5. Marks(s, text, f)
  BY <1>3, <1>4 DEF Marks
<1>6. Takes(s, text, i, j)
  BY <1>3, <1>4, <1>5 DEF Takes
<1> QED
  BY <1>2, <1>6 DEF s

LEMMA TakesOne ==
  ASSUME NEW text, NEW c \in Classes, NEW i \in Nat \ {0}, Match!InClass(c, text[i])
  PROVE  <<Match!One(c)>> \in Streams /\ Takes(<<Match!One(c)>>, text, i, i + 1)
<1> DEFINE s == <<Match!One(c)>>
           f == [n \in 0..1 |-> IF n = 0 THEN i ELSE i + 1]
<1>1. Match!One(c) \in StreamTokens
  BY DEF StreamTokens
<1>2. s \in Streams
  BY <1>1 DEF Streams
<1>3. Len(s) = 1 /\ s[1].star = FALSE /\ s[1].class = c
  BY DEF Match!One
<1>4. f \in [0..1 -> Nat \ {0}] /\ f[0] = i /\ f[1] = i + 1
  OBVIOUS
<1> HIDE DEF f, s
<1>5. Marks(s, text, f)
  BY <1>3, <1>4 DEF Marks
<1>6. Takes(s, text, i, i + 1)
  BY <1>3, <1>4, <1>5 DEF Takes
<1> QED
  BY <1>2, <1>6 DEF s

LEMMA TakesBoth ==
  ASSUME NEW text, NEW s \in Streams, NEW t \in Streams, NEW i, NEW j, NEW k,
         Takes(s, text, i, j), Takes(t, text, j, k)
  PROVE  s \o t \in Streams /\ Takes(s \o t, text, i, k)
<1>1. PICK f : Marks(s, text, f) /\ f[0] = i /\ f[Len(s)] = j
  BY DEF Takes
<1>2. PICK g : Marks(t, text, g) /\ g[0] = j /\ g[Len(t)] = k
  BY DEF Takes
<1> DEFINE m == Len(s)
           l == Len(t)
           h == [n \in 0..(m + l) |-> IF n <= m THEN f[n] ELSE g[n - m]]
           both == s \o t
<1>3. /\ both \in Streams /\ m \in Nat /\ l \in Nat /\ Len(both) = m + l
      /\ \A n \in 1..m : both[n] = s[n]
      /\ \A n \in (m + 1)..(m + l) : both[n] = t[n - m]
  BY DEF Streams
<1> HIDE DEF both
<1>4. /\ f \in [0..m -> Nat \ {0}]
      /\ \A n \in 1..m :
           /\ f[n - 1] <= f[n]
           /\ ~s[n].star => f[n] = f[n - 1] + 1
           /\ \A x \in f[n - 1]..(f[n] - 1) : Match!InClass(s[n].class, text[x])
  BY <1>1 DEF Marks
<1>5. /\ g \in [0..l -> Nat \ {0}]
      /\ \A n \in 1..l :
           /\ g[n - 1] <= g[n]
           /\ ~t[n].star => g[n] = g[n - 1] + 1
           /\ \A x \in g[n - 1]..(g[n] - 1) : Match!InClass(t[n].class, text[x])
  BY <1>2 DEF Marks
<1>6. f[m] = j /\ g[l] = k
  BY <1>1, <1>2
<1> HIDE DEF m, l
<1>7. \A n \in 0..(m + l) : h[n] = IF n <= m THEN f[n] ELSE g[n - m]
  OBVIOUS
<1>8. h \in [0..(m + l) -> Nat \ {0}]
  <2>1. ASSUME NEW n \in 0..(m + l) PROVE (IF n <= m THEN f[n] ELSE g[n - m]) \in Nat \ {0}
    BY <1>3, <1>4, <1>5
  <2> QED
    BY <2>1
<1> HIDE DEF h
<1>9. ASSUME NEW n \in 1..(m + l)
      PROVE  /\ h[n - 1] <= h[n]
             /\ ~both[n].star => h[n] = h[n - 1] + 1
             /\ \A x \in h[n - 1]..(h[n] - 1) : Match!InClass(both[n].class, text[x])
  <2>1. CASE n <= m
    <3>1. n \in 1..m /\ h[n] = f[n] /\ h[n - 1] = f[n - 1] /\ both[n] = s[n]
      BY <1>3, <1>7, <2>1
    <3> QED
      BY <1>4, <3>1
  <2>2. CASE n > m
    <3>1. n - m \in 1..l /\ h[n] = g[n - m] /\ both[n] = t[n - m] /\ (n - m) - 1 = (n - 1) - m
      BY <1>3, <1>7, <2>2
    <3>2. h[n - 1] = g[(n - m) - 1]
      <4>1. CASE n = m + 1
        BY <1>2, <1>3, <1>6, <1>7, <4>1
      <4>2. CASE n # m + 1
        BY <1>3, <1>7, <2>2, <3>1, <4>2
      <4> QED
        BY <4>1, <4>2
    <3> QED
      BY <1>5, <3>1, <3>2, Zenon
  <2> QED
    BY <1>3, <2>1, <2>2
<1>10. Marks(both, text, h)
  BY <1>3, <1>8, <1>9 DEF Marks
<1>11. h[0] = i /\ h[m + l] = k
  <2>1. h[0] = f[0]
    BY <1>3, <1>7
  <2>2. h[m + l] = k
    <3>1. CASE l = 0
      BY <1>2, <1>3, <1>6, <1>7, <3>1
    <3>2. CASE l # 0
      BY <1>3, <1>6, <1>7, <3>2
    <3> QED
      BY <3>1, <3>2
  <2> QED
    BY <1>1, <2>1, <2>2
<1>12. Takes(both, text, i, k)
  BY <1>3, <1>10, <1>11 DEF Takes
<1> QED
  BY <1>3, <1>12 DEF both

LEMMA ExactIs ==
  ASSUME NEW chars \in Seq(Letterlike)
  PROVE  /\ Match!Exact(chars) \in Streams /\ Len(Match!Exact(chars)) = Len(chars)
         /\ \A k \in 1..Len(chars) :
              /\ Match!Exact(chars)[k].star = FALSE
              /\ Match!Exact(chars)[k].class = <<"exact", chars[k]>>
<1> DEFINE m == Len(chars)
           s == Match!Exact(chars)
<1>1. m \in Nat /\ \A k \in 1..m : chars[k] \in Letterlike
  OBVIOUS
<1>2. s = [k \in 1..m |-> Match!One(<<"exact", chars[k]>>)]
  BY DEF Match!Exact
<1>3. ASSUME NEW k \in 1..m PROVE Match!One(<<"exact", chars[k]>>) \in StreamTokens
  <2>1. <<"exact", chars[k]>> \in Classes
    BY <1>1 DEF Classes, Letterlike
  <2> QED
    BY <2>1 DEF StreamTokens
<1>4. s \in Streams /\ Len(s) = m
  BY <1>1, <1>2, <1>3 DEF Streams
<1>5. \A k \in 1..m : s[k].star = FALSE /\ s[k].class = <<"exact", chars[k]>>
  BY <1>2 DEF Match!One
<1> QED
  BY <1>4, <1>5

LEMMA TakesExact ==
  ASSUME NEW text, NEW chars \in Seq(Letterlike), NEW i \in Nat \ {0},
         \A k \in 1..Len(chars) : text[i + (k - 1)] = chars[k]
  PROVE  Match!Exact(chars) \in Streams /\ Takes(Match!Exact(chars), text, i, i + Len(chars))
<1> DEFINE m == Len(chars)
           s == Match!Exact(chars)
           f == [n \in 0..m |-> i + n]
<1>1. m \in Nat
  OBVIOUS
<1>3. ASSUME NEW k \in 1..m PROVE Match!InClass(<<"exact", chars[k]>>, text[i + (k - 1)])
  BY DEF Match!InClass
<1>4. s \in Streams /\ Len(s) = m /\ \A k \in 1..m : s[k].star = FALSE /\ s[k].class = <<"exact", chars[k]>>
  BY ExactIs, Zenon
<1> HIDE DEF s, m
<1>6. f \in [0..m -> Nat \ {0}] /\ f[0] = i /\ f[m] = i + m
  BY <1>1
<1>7. ASSUME NEW n \in 1..m
      PROVE  /\ f[n - 1] <= f[n] /\ f[n] = f[n - 1] + 1
             /\ \A x \in f[n - 1]..(f[n] - 1) : Match!InClass(s[n].class, text[x])
  <2>1. f[n - 1] = i + (n - 1) /\ f[n] = i + n
    BY <1>1
  <2>2. ASSUME NEW x \in f[n - 1]..(f[n] - 1) PROVE Match!InClass(s[n].class, text[x])
    <3>1. x = i + (n - 1)
      BY <1>1, <2>1
    <3> QED
      BY <1>3, <1>4, <3>1, Zenon
  <2>3. f[n - 1] <= f[n] /\ f[n] = f[n - 1] + 1
    <3>1. n \in Nat /\ i \in Nat
      BY <1>1
    <3> HIDE DEF f
    <3> QED
      BY <2>1, <3>1
  <2> HIDE DEF f
  <2> QED
    BY <2>2, <2>3
<1> HIDE DEF f
<1>8. Marks(s, text, f)
  BY <1>4, <1>6, <1>7 DEF Marks
<1>9. Takes(s, text, i, i + m)
  BY <1>4, <1>6, <1>8, Zenon DEF Takes
<1> QED
  BY <1>4, <1>9 DEF s, m

LEMMA RunIs ==
  ASSUME NEW text, Len(text) \in Nat, NEW i \in 1..(Len(text) + 1), NEW set
  PROVE  /\ Match!Run(text, i, set) \in i..(Len(text) + 1)
         /\ \A k \in i..(Match!Run(text, i, set) - 1) : text[k] \in set
<1> DEFINE ends == {j \in i..(Len(text) + 1) : j > Len(text) \/ text[j] \notin set}
           Stops(j) == (\A k \in i..(j - 1) : text[k] \in set) /\ (j > Len(text) \/ text[j] \notin set)
<1>1. ends \subseteq Nat /\ Len(text) + 1 \in ends
  OBVIOUS
<1>2. Min(ends) \in ends /\ \A y \in ends : Min(ends) <= y
  BY <1>1, MinIs, Zenon
<1>3. PICK e \in ends : \A y \in ends : e <= y
  BY <1>2
<1>4. e \in i..(Len(text) + 1) /\ Stops(e)
  <2>1. ASSUME NEW k \in i..(e - 1) PROVE text[k] \in set
    <3>1. k \in i..(Len(text) + 1) /\ ~(e <= k)
      BY <1>1
    <3> QED
      BY <1>3, <3>1
  <2> QED
    BY <2>1
<1>5. \E j \in i..(Len(text) + 1) : Stops(j)
  BY <1>4
<1>6. Match!Run(text, i, set) = CHOOSE j \in i..(Len(text) + 1) : Stops(j)
  BY DEF Match!Run
<1> QED
  BY <1>5, <1>6, Zenon

LEMMA GreedyIs ==
  ASSUME NEW from \in Nat, NEW to \in Nat, from <= to + 1, NEW S, from..to \subseteq S
  PROVE  Match!Greedy(from, to) \in Seq(S)
<1>1. to - from + 1 \in Nat
  OBVIOUS
<1>2. ASSUME NEW k \in 1..(to - from + 1) PROVE to - k + 1 \in S
  <2>1. to - k + 1 \in from..to
    OBVIOUS
  <2> QED
    BY <2>1
<1> QED
  BY <1>1, <1>2 DEF Match!Greedy

\* What Exactly finds is there.
LEMMA ExactlyIs ==
  ASSUME NEW text \in Seq(Match!Chars), NEW i \in 1..(Len(text) + 1), NEW chars \in Seq(Letterlike)
  PROVE  /\ Match!Exactly(text, i, chars) # <<>> => Match!Exactly(text, i, chars) = <<i + Len(chars)>>
         /\ Match!Exactly(text, i, chars) # <<>> =>
              /\ i + Len(chars) \in i..(Len(text) + 1)
              /\ Match!Exact(chars) \in Streams
              /\ Takes(Match!Exact(chars), text, i, i + Len(chars))
<1> SUFFICES ASSUME Match!Exactly(text, i, chars) # <<>>
             PROVE  /\ Match!Exactly(text, i, chars) = <<i + Len(chars)>>
                    /\ i + Len(chars) \in i..(Len(text) + 1)
                    /\ Match!Exact(chars) \in Streams
                    /\ Takes(Match!Exact(chars), text, i, i + Len(chars))
  OBVIOUS
<1>1. /\ i + Len(chars) <= Len(text) + 1
      /\ SubSeq(text, i, (i + Len(chars)) - 1) = chars
      /\ Match!Exactly(text, i, chars) = <<i + Len(chars)>>
  BY DEF Match!Exactly
<1>2. Len(chars) \in Nat /\ Len(text) \in Nat /\ i \in Nat \ {0}
  OBVIOUS
<1>3. ASSUME NEW k \in 1..Len(chars) PROVE text[i + (k - 1)] = chars[k]
  BY <1>1, <1>2
<1>4. Match!Exact(chars) \in Streams /\ Takes(Match!Exact(chars), text, i, i + Len(chars))
  BY <1>2, <1>3, TakesExact
<1> QED
  BY <1>1, <1>2, <1>4

\* The places from i on that a stream of a set may match a text up to.
EndsBy(text, i, set) == {e \in i..(Len(text) + 1) : \E s \in set : s \in Streams /\ Takes(s, text, i, e)}

LEMMA SeqMore ==
  ASSUME NEW S, NEW T, S \subseteq T, NEW s \in Seq(S)
  PROVE  s \in Seq(T)
<1>1. s \in [1..Len(s) -> S] /\ Len(s) \in Nat
  OBVIOUS
<1> QED
  BY <1>1

LEMMA EndsMore ==
  ASSUME NEW text, NEW i, NEW U, NEW V, U \subseteq V, NEW ends \in Seq(EndsBy(text, i, U))
  PROVE  ends \in Seq(EndsBy(text, i, V))
<1>1. EndsBy(text, i, U) \subseteq EndsBy(text, i, V)
  BY DEF EndsBy
<1> QED
  BY <1>1, SeqMore

LEMMA PairJoined ==
  ASSUME NEW a, NEW b
  PROVE  <<a>> \o <<b>> = <<a, b>>
<1> DEFINE s == <<a>> \o <<b>>
<1>1. s \in Seq({a, b}) /\ Len(s) = 2 /\ s[1] = a /\ s[2] = b
  OBVIOUS
<1>2. DOMAIN s = 1..2 /\ s = [k \in 1..2 |-> s[k]]
  BY <1>1
<1> HIDE DEF s
<1>3. s = <<a, b>>
  BY <1>1, <1>2
<1> QED
  BY <1>3 DEF s

LEMMA JoinedThree ==
  ASSUME NEW a, NEW b, NEW c
  PROVE  <<a>> \o <<b, c>> = <<a, b, c>>
<1> DEFINE s == <<a>> \o <<b, c>>
<1>1. s \in Seq({a, b, c}) /\ Len(s) = 3 /\ s[1] = a /\ s[2] = b /\ s[3] = c
  OBVIOUS
<1>2. DOMAIN s = 1..3 /\ s = [k \in 1..3 |-> s[k]]
  BY <1>1
<1> HIDE DEF s
<1>3. s = <<a, b, c>>
  BY <1>1, <1>2
<1> QED
  BY <1>3 DEF s

\* One of a class and any number more.
LEMMA SomeOf ==
  ASSUME NEW text \in Seq(Match!Chars), NEW i \in 1..(Len(text) + 1), NEW c \in Classes, NEW set,
         \A x \in set : Match!InClass(c, x), NEW end, end = Match!Run(text, i, set), end # i
  PROVE  Match!Greedy(i + 1, end) \in Seq(EndsBy(text, i, {<<Match!One(c), Match!Star(c)>>}))
<1>1. Len(text) \in Nat /\ i \in Nat \ {0} /\ i + 1 \in Nat \ {0}
  OBVIOUS
<1>2. end \in i..(Len(text) + 1) /\ \A k \in i..(end - 1) : text[k] \in set
  BY <1>1, RunIs
<1>3. end \in Nat /\ i < end /\ i \in i..(end - 1)
  BY <1>1, <1>2
<1> DEFINE s == <<Match!One(c)>> \o <<Match!Star(c)>>
<1>4. s = <<Match!One(c), Match!Star(c)>>
  BY PairJoined, Zenon
<1> HIDE DEF s
<1>5. ASSUME NEW e \in (i + 1)..end PROVE e \in EndsBy(text, i, {s})
  <2>1. e \in Nat /\ i + 1 <= e /\ e \in i..(Len(text) + 1) /\ \A k \in (i + 1)..(e - 1) : k \in i..(end - 1)
    BY <1>1, <1>2, <1>3
  <2>2. \A k \in (i + 1)..(e - 1) : Match!InClass(c, text[k])
    BY <1>2, <2>1
  <2>3. <<Match!One(c)>> \in Streams /\ Takes(<<Match!One(c)>>, text, i, i + 1)
    BY <1>1, <1>2, <1>3, TakesOne, Zenon
  <2>4. <<Match!Star(c)>> \in Streams /\ Takes(<<Match!Star(c)>>, text, i + 1, e)
    BY <1>1, <2>1, <2>2, TakesStar
  <2>5. s \in Streams /\ Takes(s, text, i, e)
    BY <2>3, <2>4, TakesBoth DEF s
  <2> QED
    BY <2>1, <2>5 DEF EndsBy
<1>6. (i + 1)..end \subseteq EndsBy(text, i, {s})
  BY <1>5, Zenon
<1>7. i + 1 <= end + 1
  BY <1>1, <1>3
<1> QED
  BY <1>1, <1>3, <1>4, <1>6, <1>7, GreedyIs, Zenon

LEMMA NumberEnds ==
  ASSUME NEW text \in Seq(Match!Chars), NEW i \in 1..(Len(text) + 1)
  PROVE  Match!Number(text, i) \in Seq(EndsBy(text, i, {<<Match!One(<<"digit">>), Match!Star(<<"digit">>)>>}))
<1> DEFINE end == Match!Run(text, i, Digits)
<1>1. <<"digit">> \in Classes /\ \A x \in Digits : Match!InClass(<<"digit">>, x)
  BY DEF Classes, Match!InClass
<1>2. Match!Number(text, i) = IF end = i THEN <<>> ELSE Match!Greedy(i + 1, end)
  BY DEF Match!Number
<1>3. CASE end = i
  BY <1>2, <1>3
<1>4. CASE end # i
  BY <1>1, <1>2, <1>4, SomeOf, Zenon
<1> QED
  BY <1>3, <1>4

\* Any number of a class.
LEMMA AnyOf ==
  ASSUME NEW text \in Seq(Match!Chars), NEW i \in 1..(Len(text) + 1), NEW c \in Classes,
         NEW end \in i..(Len(text) + 1), \A k \in i..(end - 1) : Match!InClass(c, text[k])
  PROVE  i..end \subseteq EndsBy(text, i, {<<Match!Star(c)>>})
<1>1. Len(text) \in Nat /\ i \in Nat \ {0}
  OBVIOUS
<1>2. ASSUME NEW e \in i..end PROVE e \in EndsBy(text, i, {<<Match!Star(c)>>})
  <2>1. e \in Nat /\ i <= e /\ e \in i..(Len(text) + 1) /\ \A k \in i..(e - 1) : k \in i..(end - 1)
    BY <1>1
  <2>2. <<Match!Star(c)>> \in Streams /\ Takes(<<Match!Star(c)>>, text, i, e)
    BY <1>1, <2>1, TakesStar
  <2> QED
    BY <2>1, <2>2 DEF EndsBy
<1> QED
  BY <1>2, Zenon

LEMMA ExactEnds ==
  ASSUME NEW text \in Seq(Match!Chars), NEW i \in 1..(Len(text) + 1), NEW chars \in Seq(Letterlike)
  PROVE  Match!Exactly(text, i, chars) \in Seq(EndsBy(text, i, {Match!Exact(chars)}))
<1>1. CASE Match!Exactly(text, i, chars) = <<>>
  BY <1>1
<1>2. CASE Match!Exactly(text, i, chars) # <<>>
  <2>1. /\ Match!Exactly(text, i, chars) = <<i + Len(chars)>>
        /\ i + Len(chars) \in i..(Len(text) + 1)
        /\ Match!Exact(chars) \in Streams
        /\ Takes(Match!Exact(chars), text, i, i + Len(chars))
    BY <1>2, ExactlyIs
  <2>2. i + Len(chars) \in EndsBy(text, i, {Match!Exact(chars)})
    BY <2>1 DEF EndsBy
  <2> QED
    BY <2>1, <2>2
<1> QED
  BY <1>1, <1>2

SlotStream == Match!Exact(Match!Slot.open) \o <<Match!Star(<<"any">>)>> \o Match!Exact(Match!Slot.close)

LEMMA SlotEnds ==
  ASSUME NEW text \in Seq(Match!Chars), NEW i \in 1..(Len(text) + 1)
  PROVE  Match!SlotShape(text, i) \in Seq(EndsBy(text, i, {SlotStream}))
<1> DEFINE open == Match!Slot.open
           close == Match!Slot.close
           end == Match!Run(text, i + 2, Match!Chars \ {Match!Less, Match!More, Match!Quote, Match!Space})
<1>1. open \in Seq(Letterlike) /\ Len(open) = 2 /\ close \in Seq(Letterlike)
  BY DEF Match!Slot, Match!Less, Match!More, Letterlike, Match!Chars
<1>2. Match!SlotShape(text, i)
        = IF Match!Exactly(text, i, open) = <<>> THEN <<>> ELSE Match!Exactly(text, end, close)
  BY DEF Match!SlotShape
<1> HIDE DEF open, close
<1>3. CASE Match!Exactly(text, i, open) = <<>>
  BY <1>2, <1>3
<1>4. CASE Match!Exactly(text, i, open) # <<>>
  <2>1. i + 2 \in i..(Len(text) + 1) /\ Match!Exact(open) \in Streams /\ Takes(Match!Exact(open), text, i, i + 2)
    BY <1>1, <1>4, ExactlyIs, Zenon
  <2>2. i + 2 \in 1..(Len(text) + 1) /\ Len(text) \in Nat /\ i + 2 \in Nat \ {0}
    BY <2>1
  <2>3. end \in (i + 2)..(Len(text) + 1)
    BY <2>2, RunIs
  <2> HIDE DEF end
  <2>4. end \in 1..(Len(text) + 1) /\ end \in Nat /\ i + 2 <= end /\ i <= end
    BY <2>2, <2>3
  <2>5. <<Match!Star(<<"any">>)>> \in Streams /\ Takes(<<Match!Star(<<"any">>)>>, text, i + 2, end)
    <3>1. <<"any">> \in Classes /\ \A c : Match!InClass(<<"any">>, c)
      BY DEF Classes, Match!InClass
    <3> QED
      BY <2>2, <2>4, <3>1, TakesStar, Zenon
  <2> DEFINE first == Match!Exact(open) \o <<Match!Star(<<"any">>)>>
  <2>6. first \in Streams /\ Takes(first, text, i, end)
    BY <2>1, <2>5, TakesBoth
  <2> HIDE DEF first
  <2>7. CASE Match!Exactly(text, end, close) = <<>>
    BY <1>2, <1>4, <2>7
  <2>8. CASE Match!Exactly(text, end, close) # <<>>
    <3>1. /\ Match!Exactly(text, end, close) = <<end + Len(close)>>
          /\ end + Len(close) \in end..(Len(text) + 1)
          /\ Match!Exact(close) \in Streams
          /\ Takes(Match!Exact(close), text, end, end + Len(close))
      BY <1>1, <2>4, <2>8, ExactlyIs
    <3>2. first \o Match!Exact(close) \in Streams
          /\ Takes(first \o Match!Exact(close), text, i, end + Len(close))
      BY <2>6, <3>1, TakesBoth
    <3>3. end + Len(close) \in i..(Len(text) + 1)
      BY <2>2, <2>4, <3>1
    <3>4. first \o Match!Exact(close) = SlotStream
      BY DEF first, SlotStream, open, close
    <3>5. end + Len(close) \in EndsBy(text, i, {SlotStream})
      BY <3>2, <3>3, <3>4 DEF EndsBy
    <3> QED
      BY <1>2, <1>4, <3>1, <3>5
  <2> QED
    BY <2>7, <2>8
<1> QED
  BY <1>3, <1>4

LEMMA FlattenedAlike == \A seqs : Match!FlattenSeq(seqs) = FlattenSeq(seqs)
BY DEF Match!FlattenSeq, FlattenSeq

LEMMA LiteralEnds ==
  ASSUME NEW text \in Seq(Match!Chars), NEW i \in 1..(Len(text) + 1), NEW type \in DOMAIN Match!TYPES
  PROVE  Match!Literal(type, text, i) \in Seq(EndsBy(text, i, Match!Shape(type)))
<1>1. type \in {"text", "secret", "any", "uint", "int", "word", "method"}
  BY DEF Match!TYPES
<1>2. Len(text) \in Nat /\ i \in Nat \ {0} /\ \A k \in 1..Len(text) : text[k] \in Match!Chars
  OBVIOUS
<1>3. CASE type \in {"text", "secret"}
  <2> DEFINE end == Match!Run(text, i, Match!NonQuote)
  <2>1. end \in i..(Len(text) + 1) /\ \A k \in i..(end - 1) : text[k] \in Match!NonQuote
    BY <1>2, RunIs
  <2>2. Match!Literal(type, text, i) = Match!Greedy(i, end)
    BY <1>3 DEF Match!Literal
  <2> HIDE DEF end
  <2>3. <<"non_quote">> \in Classes /\ \A x \in Match!NonQuote : Match!InClass(<<"non_quote">>, x)
    BY DEF Classes, Match!InClass, Match!NonQuote
  <2>4. i..end \subseteq EndsBy(text, i, {<<Match!Star(<<"non_quote">>)>>})
    BY <2>1, <2>3, AnyOf, Zenon
  <2>5. Match!Shape(type) = {<<Match!Star(<<"non_quote">>)>>}
    BY <1>3 DEF Match!Shape
  <2>6. end \in Nat /\ i \in Nat /\ i <= end + 1
    BY <1>2, <2>1
  <2> QED
    BY <2>2, <2>4, <2>5, <2>6, GreedyIs, Zenon
<1>4. CASE type = "any"
  <2> DEFINE n == Len(text) + 2 - i
  <2>1. <<"any">> \in Classes /\ \A x : Match!InClass(<<"any">>, x)
    BY DEF Classes, Match!InClass
  <2>2. i..(Len(text) + 1) \subseteq EndsBy(text, i, {<<Match!Star(<<"any">>)>>})
    <3>1. Len(text) + 1 \in i..(Len(text) + 1)
      BY <1>2
    <3> QED
      BY <2>1, <3>1, AnyOf, Zenon
  <2>3. Match!Shape(type) = {<<Match!Star(<<"any">>)>>}
    BY <1>4 DEF Match!Shape
  <2>4. Match!Literal(type, text, i) = [k \in 1..n |-> i + k - 1]
    BY <1>4 DEF Match!Literal
  <2>5. n \in Nat
    BY <1>2
  <2>6. ASSUME NEW k \in 1..n PROVE i + k - 1 \in i..(Len(text) + 1)
    BY <1>2
  <2> HIDE DEF n
  <2>7. ASSUME NEW k \in 1..n PROVE i + k - 1 \in EndsBy(text, i, Match!Shape(type))
    BY <2>2, <2>3, <2>6, Zenon
  <2> DEFINE S == EndsBy(text, i, Match!Shape(type))
  <2> HIDE DEF S
  <2>8. [k \in 1..n |-> i + k - 1] \in Seq(S)
    BY <2>5, <2>7 DEF S
  <2> QED
    BY <2>4, <2>8 DEF S
<1>5. CASE type = "uint"
  <2>1. Match!Literal(type, text, i) = Match!Number(text, i)
    BY <1>5 DEF Match!Literal
  <2>2. Match!Shape(type) = {<<Match!One(<<"digit">>), Match!Star(<<"digit">>)>>}
    BY <1>5 DEF Match!Shape
  <2> QED
    BY <2>1, <2>2, NumberEnds, Zenon
<1>6. CASE type = "int"
  <2> DEFINE digits == <<Match!One(<<"digit">>), Match!Star(<<"digit">>)>>
             signed == <<Match!One(<<"exact", Match!Minus>>), Match!One(<<"digit">>), Match!Star(<<"digit">>)>>
  <2>1. Match!Shape(type) = {digits, signed}
    BY <1>6 DEF Match!Shape
  <2>2. CASE ~(i <= Len(text) /\ text[i] = Match!Minus)
    <3>1. Match!Literal(type, text, i) = Match!Number(text, i)
      BY <1>6, <2>2 DEF Match!Literal
    <3>2. Match!Number(text, i) \in Seq(EndsBy(text, i, {digits}))
      BY NumberEnds, Zenon
    <3> HIDE DEF digits, signed
    <3> QED
      BY <2>1, <3>1, <3>2, EndsMore
  <2>3. CASE i <= Len(text) /\ text[i] = Match!Minus
    <3>1. Match!Literal(type, text, i) = Match!Number(text, i + 1)
      BY <1>6, <2>3 DEF Match!Literal
    <3>2. i + 1 \in 1..(Len(text) + 1)
      BY <1>2, <2>3
    <3>3. Match!Number(text, i + 1) \in Seq(EndsBy(text, i + 1, {digits}))
      BY <3>2, NumberEnds, Zenon
    <3>4. <<Match!One(<<"exact", Match!Minus>>)>> \in Streams
          /\ Takes(<<Match!One(<<"exact", Match!Minus>>)>>, text, i, i + 1)
      <4>1. <<"exact", Match!Minus>> \in Classes /\ Match!InClass(<<"exact", Match!Minus>>, text[i])
        BY <2>3 DEF Classes, Match!InClass, Match!Chars
      <4> QED
        BY <1>2, <4>1, TakesOne
    <3>5. <<Match!One(<<"exact", Match!Minus>>)>> \o digits = signed
      BY JoinedThree, Zenon
    <3>6. digits \in {digits} /\ signed \in Match!Shape(type)
      BY <2>1
    <3> HIDE DEF digits, signed
    <3>7. ASSUME NEW e \in EndsBy(text, i + 1, {digits}) PROVE e \in EndsBy(text, i, Match!Shape(type))
      <4>1. digits \in Streams /\ Takes(digits, text, i + 1, e) /\ e \in (i + 1)..(Len(text) + 1)
        BY <3>7 DEF EndsBy
      <4>2. signed \in Streams /\ Takes(signed, text, i, e)
        BY <3>4, <3>5, <4>1, TakesBoth, Zenon
      <4>3. e \in i..(Len(text) + 1)
        BY <1>2, <4>1
      <4> QED
        BY <3>6, <4>2, <4>3 DEF EndsBy
    <3>8. EndsBy(text, i + 1, {digits}) \subseteq EndsBy(text, i, Match!Shape(type))
      BY <3>7, Zenon
    <3> DEFINE S == EndsBy(text, i, Match!Shape(type))
               T == EndsBy(text, i + 1, {digits})
    <3> HIDE DEF S, T
    <3>9. Match!Number(text, i + 1) \in Seq(T) /\ T \subseteq S
      BY <3>3, <3>8, Zenon DEF S, T
    <3>10. Match!Number(text, i + 1) \in Seq(S)
      BY <3>9, SeqMore
    <3> QED
      BY <3>1, <3>10 DEF S
  <2> QED
    BY <2>2, <2>3
<1>7. CASE type = "word"
  <2> DEFINE set == Match!NonSpace \ {Match!Quote}
             end == Match!Run(text, i, set)
  <2>1. Match!Literal(type, text, i) = IF end = i THEN <<>> ELSE Match!Greedy(i + 1, end)
    BY <1>7 DEF Match!Literal
  <2>2. Match!Shape(type) = {<<Match!One(<<"non_space">>), Match!Star(<<"non_space">>)>>}
    BY <1>7 DEF Match!Shape
  <2>3. <<"non_space">> \in Classes /\ \A x \in set : Match!InClass(<<"non_space">>, x)
    BY DEF Classes, Match!InClass, Match!NonSpace
  <2>4. CASE end = i
    BY <2>1, <2>4
  <2>5. CASE end # i
    <3>1. end = Match!Run(text, i, set)
      OBVIOUS
    <3> HIDE DEF set, end
    <3>2. Match!Greedy(i + 1, end)
            \in Seq(EndsBy(text, i, {<<Match!One(<<"non_space">>), Match!Star(<<"non_space">>)>>}))
      BY <2>3, <2>5, <3>1, SomeOf, Zenon
    <3> QED
      BY <2>1, <2>2, <2>5, <3>2
  <2> QED
    BY <2>4, <2>5
<1>8. CASE type = "method"
  <2> DEFINE S == EndsBy(text, i, Match!Shape(type))
             parts == [w \in DOMAIN Match!Methods |-> Match!Exactly(text, i, Match!Methods[w])]
  <2>1. Match!Literal(type, text, i) = Match!FlattenSeq(parts)
    BY <1>8 DEF Match!Literal
  <2>2. Match!Shape(type) = {Match!Exact(Match!Methods[w]) : w \in DOMAIN Match!Methods}
    BY <1>8 DEF Match!Shape
  <2>3. DOMAIN Match!Methods = 1..2 /\ \A w \in 1..2 : Match!Methods[w] \in Seq(Letterlike)
    BY DEF Match!Methods, Letterlike
  <2>4. ASSUME NEW w \in 1..2 PROVE Match!Exactly(text, i, Match!Methods[w]) \in Seq(S)
    <3>1. Match!Exactly(text, i, Match!Methods[w]) \in Seq(EndsBy(text, i, {Match!Exact(Match!Methods[w])}))
      BY <2>3, ExactEnds
    <3>2. {Match!Exact(Match!Methods[w])} \subseteq Match!Shape(type)
      BY <2>2, <2>3
    <3> QED
      BY <3>1, <3>2, EndsMore
  <2> HIDE DEF S
  <2>5. parts \in Seq(Seq(S))
    BY <2>3, <2>4
  <2> HIDE DEF parts
  <2>6. Match!FlattenSeq(parts) \in Seq(S)
    BY <2>5, FlattenedAlike, FlattenedHas
  <2> QED
    BY <2>1, <2>6 DEF S
<1> QED
  BY <1>1, <1>3, <1>4, <1>5, <1>6, <1>7, <1>8

LEMMA ShapesAre ==
  ASSUME NEW type \in DOMAIN Match!TYPES
  PROVE  Match!Shape(type) \subseteq Streams
<1>1. type \in {"text", "secret", "any", "uint", "int", "word", "method"}
  BY DEF Match!TYPES
<1>2. \A c \in Classes : Match!One(c) \in StreamTokens /\ Match!Star(c) \in StreamTokens
  BY DEF StreamTokens
<1>3. /\ <<"non_quote">> \in Classes /\ <<"any">> \in Classes /\ <<"digit">> \in Classes
      /\ <<"non_space">> \in Classes /\ <<"exact", Match!Minus>> \in Classes
  BY DEF Classes, Match!Chars
<1>4. CASE type \in {"text", "secret"}
  <2>1. Match!Shape(type) = {<<Match!Star(<<"non_quote">>)>>}
    BY <1>4 DEF Match!Shape
  <2> QED
    BY <1>2, <1>3, <2>1 DEF Streams
<1>5. CASE type = "any"
  BY <1>2, <1>3, <1>5 DEF Match!Shape, Streams
<1>6. CASE type = "uint"
  BY <1>2, <1>3, <1>6 DEF Match!Shape, Streams
<1>7. CASE type = "int"
  BY <1>2, <1>3, <1>7 DEF Match!Shape, Streams
<1>8. CASE type = "word"
  BY <1>2, <1>3, <1>8 DEF Match!Shape, Streams
<1>9. CASE type = "method"
  <2>1. Match!Shape(type) = {Match!Exact(Match!Methods[w]) : w \in DOMAIN Match!Methods}
    BY <1>9 DEF Match!Shape
  <2>2. DOMAIN Match!Methods = 1..2 /\ \A w \in 1..2 : Match!Methods[w] \in Seq(Letterlike)
    BY DEF Match!Methods, Letterlike
  <2>3. \A w \in 1..2 : Match!Exact(Match!Methods[w]) \in Streams
    BY <2>2, ExactIs, Zenon
  <2> QED
    BY <2>1, <2>2, <2>3
<1> QED
  BY <1>1, <1>4, <1>5, <1>6, <1>7, <1>8, <1>9

LEMMA TokensAre ==
  ASSUME NEW type \in DOMAIN Match!TYPES, NEW quoting
  PROVE  /\ Match!UnquotedTokens(type) \subseteq Streams
         /\ {Match!Exact(<<Match!Quote>>) \o v \o Match!Exact(<<Match!Quote>>) : v \in Match!UnquotedTokens(type)}
              \subseteq Streams
<1> DEFINE q == Match!Exact(<<Match!Quote>>)
           open == Match!Exact(Match!Slot.open)
           close == Match!Exact(Match!Slot.close)
           star == <<Match!Star(<<"any">>)>>
<1>1. \A s, t \in Streams : s \o t \in Streams
  BY DEF Streams
<1>2. q \in Streams
  <2>1. <<Match!Quote>> \in Seq(Letterlike)
    BY DEF Letterlike, Match!Chars
  <2> QED
    BY <2>1, ExactIs, Zenon
<1>3. open \in Streams /\ close \in Streams
  <2>1. Match!Slot.open \in Seq(Letterlike) /\ Match!Slot.close \in Seq(Letterlike)
    BY DEF Match!Slot, Match!Less, Match!More, Letterlike, Match!Chars
  <2> QED
    BY <2>1, ExactIs, Zenon
<1>4. star \in Streams
  <2>1. Match!Star(<<"any">>) \in StreamTokens
    BY DEF StreamTokens, Classes
  <2> QED
    BY <2>1 DEF Streams
<1>5. SlotStream = open \o star \o close
  BY DEF SlotStream
<1>6. Match!UnquotedTokens(type)
        = Match!Shape(type) \cup (IF Match!TYPES[type].typed THEN {open \o star \o close} ELSE {})
  BY DEF Match!UnquotedTokens
<1> HIDE DEF open, close, star, q
<1>7. SlotStream \in Streams
  BY <1>1, <1>3, <1>4, <1>5
<1>8. Match!UnquotedTokens(type) \subseteq Streams
  BY <1>5, <1>6, <1>7, ShapesAre, Zenon
<1>9. \A v \in Match!UnquotedTokens(type) : (q \o v) \o q \in Streams
  BY <1>1, <1>2, <1>8, Zenon
<1> QED
  BY <1>8, <1>9, Zenon DEF q

LEMMA ValueEnds ==
  ASSUME NEW text \in Seq(Match!Chars), NEW i \in 1..(Len(text) + 1), NEW type \in DOMAIN Match!TYPES
  PROVE  Match!Value(type, text, i) \in Seq(EndsBy(text, i, Match!UnquotedTokens(type)))
<1> DEFINE S == EndsBy(text, i, Match!UnquotedTokens(type))
           literal == Match!Literal(type, text, i)
           slot == Match!SlotShape(text, i)
<1>1. Match!UnquotedTokens(type)
        = Match!Shape(type) \cup (IF Match!TYPES[type].typed THEN {SlotStream} ELSE {})
  BY DEF Match!UnquotedTokens, SlotStream
<1>2. literal \in Seq(EndsBy(text, i, Match!Shape(type))) /\ slot \in Seq(EndsBy(text, i, {SlotStream}))
  BY LiteralEnds, SlotEnds, Zenon
<1>3. Match!Value(type, text, i) = IF Match!TYPES[type].typed THEN literal \o slot ELSE literal
  BY DEF Match!Value
<1> HIDE DEF literal, slot
<1>4. literal \in Seq(S)
  <2>1. Match!Shape(type) \subseteq Match!UnquotedTokens(type)
    BY <1>1
  <2> QED
    BY <1>2, <2>1, EndsMore
<1>5. CASE Match!TYPES[type].typed
  <2>1. {SlotStream} \subseteq Match!UnquotedTokens(type)
    BY <1>1, <1>5
  <2>2. slot \in Seq(S)
    BY <1>2, <2>1, EndsMore
  <2> HIDE DEF S
  <2>3. literal \o slot \in Seq(S)
    BY <1>4, <2>2, JoinedHas
  <2> QED
    BY <1>3, <1>5, <2>3 DEF S
<1>6. CASE ~Match!TYPES[type].typed
  BY <1>3, <1>4, <1>6
<1> QED
  BY <1>5, <1>6

\* The ways to read a piece that streams of a set may match.
WaysBy(text, i, set) == [end : EndsBy(text, i, set), spans : Seq(Nat \X Nat)]

LEMMA WayIs ==
  ASSUME NEW text, NEW i, NEW set, NEW e \in EndsBy(text, i, set), NEW spans \in Seq(Nat \X Nat)
  PROVE  Match!Way(e, spans) \in WaysBy(text, i, set)
<1> DEFINE S == EndsBy(text, i, set)
           T == Seq(Nat \X Nat)
<1>1. e \in S /\ spans \in T
  OBVIOUS
<1> HIDE DEF S, T
<1>2. Match!Way(e, spans) \in [end : S, spans : T]
  BY <1>1 DEF Match!Way
<1> QED
  BY <1>2 DEF S, T, WaysBy

LEMMA WaysMore ==
  ASSUME NEW text, NEW i, NEW U, NEW V, U \subseteq V, NEW ways \in Seq(WaysBy(text, i, U))
  PROVE  ways \in Seq(WaysBy(text, i, V))
<1>1. EndsBy(text, i, U) \subseteq EndsBy(text, i, V)
  BY DEF EndsBy
<1> DEFINE S == EndsBy(text, i, U)
           T == EndsBy(text, i, V)
           X == Seq(Nat \X Nat)
<1>2. S \subseteq T
  BY <1>1
<1> HIDE DEF S, T, X
<1>3. [end : S, spans : X] \subseteq [end : T, spans : X]
  BY <1>2
<1>4. WaysBy(text, i, U) \subseteq WaysBy(text, i, V)
  BY <1>3 DEF S, T, X, WaysBy
<1> QED
  BY <1>4, SeqMore

LEMMA SpanIs ==
  ASSUME NEW i \in Nat, NEW j \in Nat
  PROVE  <<<<i, j>>>> \in Seq(Nat \X Nat)
OBVIOUS

LEMMA BareWays ==
  ASSUME NEW text \in Seq(Match!Chars), NEW i \in 1..(Len(text) + 1), NEW type \in DOMAIN Match!TYPES
  PROVE  Match!Bare(type, text, i) \in Seq(WaysBy(text, i, Match!UnquotedTokens(type)))
<1> DEFINE U == Match!UnquotedTokens(type)
           ends == Match!Value(type, text, i)
           n == Len(ends)
<1>1. ends \in Seq(EndsBy(text, i, U))
  BY ValueEnds
<1>2. Match!Bare(type, text, i) = [e \in DOMAIN ends |-> Match!Way(ends[e], <<<<i, ends[e]>>>>)]
  BY DEF Match!Bare
<1> HIDE DEF ends, U
<1>3. n \in Nat /\ DOMAIN ends = 1..n /\ \A e \in 1..n : ends[e] \in EndsBy(text, i, U)
  BY <1>1
<1>4. ASSUME NEW e \in 1..n PROVE Match!Way(ends[e], <<<<i, ends[e]>>>>) \in WaysBy(text, i, U)
  <2>1. ends[e] \in EndsBy(text, i, U)
    BY <1>3
  <2>2. i \in Nat /\ ends[e] \in Nat
    <3>1. Len(text) \in Nat
      OBVIOUS
    <3> QED
      BY <2>1, <3>1 DEF EndsBy
  <2>3. <<<<i, ends[e]>>>> \in Seq(Nat \X Nat)
    BY <2>2, SpanIs
  <2> QED
    BY <2>1, <2>3, WayIs, Zenon
<1> DEFINE W == WaysBy(text, i, U)
<1> HIDE DEF W, n
<1>5. [e \in 1..n |-> Match!Way(ends[e], <<<<i, ends[e]>>>>)] \in Seq(W)
  BY <1>3, <1>4 DEF W
<1> QED
  BY <1>2, <1>3, <1>5 DEF U, W

QuotedStreams(type) ==
  {Match!Exact(<<Match!Quote>>) \o v \o Match!Exact(<<Match!Quote>>) : v \in Match!UnquotedTokens(type)}

LEMMA QuotedWays ==
  ASSUME NEW text \in Seq(Match!Chars), NEW i \in 1..(Len(text) + 1), NEW type \in DOMAIN Match!TYPES
  PROVE  Match!Quoted(type, text, i) \in Seq(WaysBy(text, i, QuotedStreams(type)))
<1> DEFINE U == Match!UnquotedTokens(type)
           quote == <<Match!Quote>>
           q == Match!Exact(quote)
           ends == Match!Value(type, text, i + 1)
           n == Len(ends)
           W == WaysBy(text, i, QuotedStreams(type))
           read(e) == [x \in DOMAIN Match!Exactly(text, ends[e], quote) |->
                       Match!Way(ends[e] + 1, <<<<i + 1, ends[e]>>>>)]
           parts == [e \in DOMAIN ends |-> read(e)]
<1>1. quote \in Seq(Letterlike) /\ Len(quote) = 1
  BY DEF Letterlike, Match!Chars
<1>2. Len(text) \in Nat /\ i \in Nat
  OBVIOUS
<1>3. Match!Quoted(type, text, i) = IF Match!Exactly(text, i, quote) = <<>> THEN <<>> ELSE Match!FlattenSeq(parts)
  BY DEF Match!Quoted
<1>4. QuotedStreams(type) = {q \o v \o q : v \in U}
  BY DEF QuotedStreams
<1>5. CASE Match!Exactly(text, i, quote) = <<>>
  BY <1>3, <1>5
<1>6. CASE Match!Exactly(text, i, quote) # <<>>
  <2>1. i + 1 \in i..(Len(text) + 1) /\ q \in Streams /\ Takes(q, text, i, i + 1)
    <3> HIDE DEF quote
    <3> QED
      BY <1>1, <1>6, ExactlyIs, Zenon
  <2>2. i + 1 \in 1..(Len(text) + 1)
    BY <1>2, <2>1
  <2>3. ends \in Seq(EndsBy(text, i + 1, U))
    BY <2>2, ValueEnds
  <2> HIDE DEF ends, U, quote, q, W
  <2>4. n \in Nat /\ DOMAIN ends = 1..n /\ \A e \in 1..n : ends[e] \in EndsBy(text, i + 1, U)
    BY <2>3
  <2>5. ASSUME NEW e \in 1..n PROVE read(e) \in Seq(W)
    <3>1. PICK v \in U : v \in Streams /\ Takes(v, text, i + 1, ends[e])
      BY <2>4 DEF EndsBy
    <3>2. ends[e] \in (i + 1)..(Len(text) + 1)
      BY <2>4 DEF EndsBy
    <3>3. ends[e] \in 1..(Len(text) + 1) /\ ends[e] \in Nat /\ i + 1 <= ends[e]
      BY <1>2, <3>2
    <3>4. CASE Match!Exactly(text, ends[e], quote) = <<>>
      <4>1. DOMAIN Match!Exactly(text, ends[e], quote) = 1..0
        BY <3>4
      <4> QED
        BY <4>1
    <3>5. CASE Match!Exactly(text, ends[e], quote) # <<>>
      <4>1. /\ Match!Exactly(text, ends[e], quote) = <<ends[e] + 1>>
            /\ ends[e] + 1 \in ends[e]..(Len(text) + 1)
            /\ Takes(q, text, ends[e], ends[e] + 1)
        BY <1>1, <3>3, <3>5, ExactlyIs, Zenon DEF q
      <4>2. q \o v \in Streams /\ Takes(q \o v, text, i, ends[e])
        BY <2>1, <3>1, TakesBoth
      <4>3. (q \o v) \o q \in Streams /\ Takes((q \o v) \o q, text, i, ends[e] + 1)
        BY <2>1, <4>1, <4>2, TakesBoth
      <4>4. (q \o v) \o q \in QuotedStreams(type)
        BY <1>4, Zenon
      <4>5. ends[e] + 1 \in i..(Len(text) + 1)
        BY <1>2, <3>3, <4>1
      <4>6. ends[e] + 1 \in EndsBy(text, i, QuotedStreams(type))
        BY <4>3, <4>4, <4>5 DEF EndsBy
      <4>7. <<<<i + 1, ends[e]>>>> \in Seq(Nat \X Nat)
        BY <1>2, <3>3, SpanIs
      <4>8. Match!Way(ends[e] + 1, <<<<i + 1, ends[e]>>>>) \in W
        BY <4>6, <4>7, WayIs, Zenon DEF W
      <4>9. DOMAIN Match!Exactly(text, ends[e], quote) = 1..1
        BY <4>1
      <4> QED
        BY <4>8, <4>9
    <3> QED
      BY <3>4, <3>5
  <2> HIDE DEF read
  <2>6. parts \in Seq(Seq(W))
    <3>1. parts = [e \in 1..n |-> read(e)]
      BY <2>4
    <3> HIDE DEF n
    <3>2. [e \in 1..n |-> read(e)] \in Seq(Seq(W))
      BY <2>4, <2>5
    <3> QED
      BY <3>1, <3>2
  <2> HIDE DEF parts
  <2>7. Match!FlattenSeq(parts) \in Seq(W)
    BY <2>6, FlattenedAlike, FlattenedHas
  <2> QED
    BY <1>3, <1>6, <2>7 DEF W
<1> QED
  BY <1>5, <1>6

LEMMA WrappedWays ==
  ASSUME NEW text \in Seq(Match!Chars), NEW i \in 1..(Len(text) + 1), NEW type \in DOMAIN Match!TYPES,
         NEW quoting \in {"required", "optional", "as_written"}
  PROVE  /\ Match!Wrapped(type, quoting, text, i) \in Seq(WaysBy(text, i, Match!Tokens(type, quoting)))
         /\ Match!Tokens(type, quoting) \subseteq Streams
<1> DEFINE V == Match!Tokens(type, quoting)
           W == WaysBy(text, i, V)
           quoted == Match!Quoted(type, text, i)
           bare == Match!Bare(type, text, i)
<1>1. V = CASE quoting = "as_written" -> Match!UnquotedTokens(type)
            [] quoting = "required" -> QuotedStreams(type)
            [] quoting = "optional" -> QuotedStreams(type) \cup Match!UnquotedTokens(type)
  BY DEF Match!Tokens, QuotedStreams
<1>2. Match!UnquotedTokens(type) \subseteq Streams /\ QuotedStreams(type) \subseteq Streams
  BY TokensAre, Zenon DEF QuotedStreams
<1>3. quoting # "as_written" => quoted \in Seq(W)
  <2>1. quoted \in Seq(WaysBy(text, i, QuotedStreams(type)))
    BY QuotedWays
  <2>2. quoting # "as_written" => QuotedStreams(type) \subseteq V
    BY <1>1
  <2> HIDE DEF quoted, V
  <2> QED
    BY <2>1, <2>2, WaysMore
<1>4. quoting # "required" => bare \in Seq(W)
  <2>1. bare \in Seq(WaysBy(text, i, Match!UnquotedTokens(type)))
    BY BareWays
  <2>2. quoting # "required" => Match!UnquotedTokens(type) \subseteq V
    BY <1>1
  <2> HIDE DEF bare, V
  <2> QED
    BY <2>1, <2>2, WaysMore
<1>5. Match!Wrapped(type, quoting, text, i)
        = (IF quoting = "as_written" THEN <<>> ELSE quoted) \o (IF quoting = "required" THEN <<>> ELSE bare)
  BY DEF Match!Wrapped
<1>6. V \subseteq Streams
  BY <1>1, <1>2
<1> DEFINE first == IF quoting = "as_written" THEN <<>> ELSE quoted
           second == IF quoting = "required" THEN <<>> ELSE bare
<1> HIDE DEF W, quoted, bare
<1>7. first \in Seq(W) /\ second \in Seq(W)
  BY <1>3, <1>4
<1>8. Match!Wrapped(type, quoting, text, i) = first \o second
  BY <1>5
<1> HIDE DEF first, second
<1>9. first \o second \in Seq(W)
  BY <1>7, JoinedHas
<1> QED
  BY <1>6, <1>8, <1>9 DEF W

LEMMA SpelledWays ==
  ASSUME NEW text \in Seq(Match!Chars), NEW i \in 1..(Len(text) + 1), NEW chars \in Seq(Match!Chars)
  PROVE  [e \in DOMAIN Match!Exactly(text, i, chars) |-> Match!Way(i + Len(chars), <<>>)]
           \in Seq(WaysBy(text, i, {Match!Exact(chars)}))
<1> DEFINE W == WaysBy(text, i, {Match!Exact(chars)})
           way == Match!Way(i + Len(chars), <<>>)
<1>1. chars \in Seq(Letterlike)
  <2>1. Match!Chars \subseteq Letterlike
    BY DEF Letterlike
  <2> QED
    BY <2>1, SeqMore
<1>2. CASE Match!Exactly(text, i, chars) = <<>>
  <2>1. DOMAIN Match!Exactly(text, i, chars) = 1..0
    BY <1>2
  <2> QED
    BY <2>1
<1>3. CASE Match!Exactly(text, i, chars) # <<>>
  <2>1. /\ Match!Exactly(text, i, chars) = <<i + Len(chars)>>
        /\ i + Len(chars) \in i..(Len(text) + 1)
        /\ Match!Exact(chars) \in Streams
        /\ Takes(Match!Exact(chars), text, i, i + Len(chars))
    BY <1>1, <1>3, ExactlyIs
  <2>2. i + Len(chars) \in EndsBy(text, i, {Match!Exact(chars)})
    BY <2>1 DEF EndsBy
  <2>3. <<>> \in Seq(Nat \X Nat)
    OBVIOUS
  <2>4. way \in W
    BY <2>2, <2>3, WayIs, Zenon
  <2>5. DOMAIN Match!Exactly(text, i, chars) = 1..1
    BY <2>1
  <2> HIDE DEF W, way
  <2>6. [e \in 1..1 |-> way] \in Seq(W)
    BY <2>4
  <2> QED
    BY <2>5, <2>6 DEF W, way
<1> QED
  BY <1>2, <1>3

\* A piece is read in ways that its alternatives' streams may match.
LEMMA PiecesWays ==
  ASSUME NEW text \in Seq(Match!Chars), NEW i \in 1..(Len(text) + 1), NEW items, Match!IsDeclaration(items),
         NEW k \in 1..Len(items)
  PROVE  /\ Match!Pieces(items, k, text, i) \in Seq(WaysBy(text, i, Match!Alternatives(items, k)))
         /\ Match!Alternatives(items, k) \subseteq Streams
<1> DEFINE item == items[k]
           V == Match!Alternatives(items, k)
           W == WaysBy(text, i, V)
<1>1. \/ item.kind = "literal" /\ item.spelled \in Seq(Seq(Match!Chars))
      \/ item.kind = "param" /\ item.type \in DOMAIN Match!TYPES
  <2>1. items \in Seq(Match!ToSet(items)) /\ k \in DOMAIN items
    BY DEF Match!IsDeclaration
  <2>2. item \in Match!ToSet(items)
    BY <2>1 DEF Match!ToSet
  <2> QED
    BY <2>2 DEF Match!IsDeclaration
<1>2. CASE item.kind = "param" /\ item.type \in DOMAIN Match!TYPES
  <2> DEFINE quoting == Match!Quoting(items, k)
  <2>1. quoting \in {"required", "optional", "as_written"}
    <3>1. Match!TYPES[item.type].quoting \in {"required", "optional", "as_written"}
      BY <1>2 DEF Match!TYPES, Match!ParamType
    <3>2. quoting \in {Match!TYPES[item.type].quoting, "as_written"}
      BY DEF Match!Quoting
    <3> QED
      BY <3>1, <3>2
  <2>2. Match!Pieces(items, k, text, i) = Match!Wrapped(item.type, quoting, text, i)
    BY <1>2 DEF Match!Pieces
  <2>3. V = Match!Tokens(item.type, quoting)
    BY <1>2 DEF Match!Alternatives
  <2> HIDE DEF item, quoting, V
  <2> QED
    BY <1>2, <2>1, <2>2, <2>3, WrappedWays DEF V
<1>3. CASE item.kind = "literal" /\ item.spelled \in Seq(Seq(Match!Chars))
  <2> DEFINE sp == item.spelled
             n == Len(sp)
             parts == [s \in DOMAIN sp |->
                         [e \in DOMAIN Match!Exactly(text, i, sp[s]) |-> Match!Way(i + Len(sp[s]), <<>>)]]
  <2>1. Match!Pieces(items, k, text, i) = Match!FlattenSeq(parts)
    BY <1>3 DEF Match!Pieces
  <2>2. V = {Match!Exact(c) : c \in Match!ToSet(sp)}
    BY <1>3 DEF Match!Alternatives
  <2>3. n \in Nat /\ DOMAIN sp = 1..n /\ \A s \in 1..n : sp[s] \in Seq(Match!Chars)
    BY <1>3
  <2> HIDE DEF item, sp, n, V, W
  <2>4. \A s \in 1..n : Match!Exact(sp[s]) \in V
    BY <2>2, <2>3, Zenon DEF Match!ToSet
  <2>5. ASSUME NEW s \in 1..n
        PROVE  [e \in DOMAIN Match!Exactly(text, i, sp[s]) |-> Match!Way(i + Len(sp[s]), <<>>)] \in Seq(W)
    <3>1. PICK c : c = sp[s] /\ c \in Seq(Match!Chars) /\ Match!Exact(c) \in V
      BY <2>3, <2>4
    <3>2. [e \in DOMAIN Match!Exactly(text, i, c) |-> Match!Way(i + Len(c), <<>>)]
            \in Seq(WaysBy(text, i, {Match!Exact(c)}))
      BY <3>1, SpelledWays, Zenon
    <3>3. {Match!Exact(c)} \subseteq V
      BY <3>1
    <3> DEFINE ways == [e \in DOMAIN Match!Exactly(text, i, c) |-> Match!Way(i + Len(c), <<>>)]
    <3> HIDE DEF ways
    <3>4. ways \in Seq(WaysBy(text, i, V))
      BY <3>2, <3>3, WaysMore DEF ways
    <3> QED
      BY <3>1, <3>4 DEF ways, W
  <2>6. parts \in Seq(Seq(W))
    BY <2>3, <2>5
  <2>7. V \subseteq Streams
    <3>1. ASSUME NEW c \in Match!ToSet(sp) PROVE Match!Exact(c) \in Streams
      <4>1. c \in Seq(Match!Chars)
        BY <2>3 DEF Match!ToSet
      <4>2. Match!Chars \subseteq Letterlike
        BY DEF Letterlike
      <4>3. c \in Seq(Letterlike)
        BY <4>1, <4>2, SeqMore
      <4> QED
        BY <4>3, ExactIs, Zenon
    <3> QED
      BY <2>2, <3>1
  <2> HIDE DEF parts
  <2>8. Match!FlattenSeq(parts) \in Seq(W)
    BY <2>6, FlattenedAlike, FlattenedHas
  <2> QED
    BY <2>1, <2>7, <2>8 DEF V, W
<1> QED
  BY <1>1, <1>2, <1>3

\* Streams of one set before those of another.
Crossed(V, A) == {p \o s : p \in V, s \in A}

LEMMA OnwardWays ==
  ASSUME NEW text \in Seq(Match!Chars), NEW V, NEW A, NEW way \in WaysBy(text, 1, V),
         NEW next \in Seq(WaysBy(text, way.end, A))
  PROVE  Match!Onward(way, next) \in Seq(WaysBy(text, 1, Crossed(V, A)))
<1> DEFINE W == WaysBy(text, 1, Crossed(V, A))
           N == WaysBy(text, way.end, A)
           m == Len(next)
           T == Seq(Nat \X Nat)
<1>1. way.end \in EndsBy(text, 1, V) /\ way.spans \in T
  <2> DEFINE S == EndsBy(text, 1, V)
  <2>1. way \in [end : S, spans : T]
    BY DEF WaysBy
  <2> HIDE DEF S, T
  <2> QED
    BY <2>1 DEF S
<1>2. m \in Nat /\ DOMAIN next = 1..m /\ \A n \in 1..m : next[n] \in N
  OBVIOUS
<1>3. Match!Onward(way, next) = [n \in DOMAIN next |-> Match!Way(next[n].end, way.spans \o next[n].spans)]
  BY DEF Match!Onward
<1> HIDE DEF W, N, m
<1>4. ASSUME NEW n \in 1..m PROVE Match!Way(next[n].end, way.spans \o next[n].spans) \in W
  <2>1. next[n].end \in EndsBy(text, way.end, A) /\ next[n].spans \in T
    <3> DEFINE S == EndsBy(text, way.end, A)
    <3>1. next[n] \in [end : S, spans : T]
      BY <1>2 DEF WaysBy, N
    <3> HIDE DEF S, T
    <3> QED
      BY <3>1 DEF S
  <2>2. PICK j : j = next[n].end
    OBVIOUS
  <2>3. PICK i : i = way.end
    OBVIOUS
  <2>4. j \in i..(Len(text) + 1) /\ \E s \in A : s \in Streams /\ Takes(s, text, i, j)
    BY <2>1, <2>2, <2>3 DEF EndsBy
  <2>5. i \in 1..(Len(text) + 1) /\ \E p \in V : p \in Streams /\ Takes(p, text, 1, i)
    BY <1>1, <2>3 DEF EndsBy
  <2>6. PICK p \in V : p \in Streams /\ Takes(p, text, 1, i)
    BY <2>5
  <2>7. PICK s \in A : s \in Streams /\ Takes(s, text, i, j)
    BY <2>4
  <2>8. p \o s \in Streams /\ Takes(p \o s, text, 1, j)
    BY <2>6, <2>7, TakesBoth
  <2>9. p \o s \in Crossed(V, A)
    BY DEF Crossed
  <2>10. j \in 1..(Len(text) + 1)
    <3>1. Len(text) \in Nat
      OBVIOUS
    <3> QED
      BY <2>4, <2>5, <3>1
  <2>11. j \in EndsBy(text, 1, Crossed(V, A))
    BY <2>8, <2>9, <2>10 DEF EndsBy
  <2>12. way.spans \o next[n].spans \in T
    <3>1. \A a, b \in Seq(Nat \X Nat) : a \o b \in Seq(Nat \X Nat)
      OBVIOUS
    <3> QED
      BY <1>1, <2>1, <3>1, Zenon
  <2>13. Match!Way(j, way.spans \o next[n].spans) \in WaysBy(text, 1, Crossed(V, A))
    <3> DEFINE spans == way.spans \o next[n].spans
    <3>1. spans \in Seq(Nat \X Nat)
      BY <2>12
    <3> HIDE DEF spans, T
    <3>2. Match!Way(j, spans) \in WaysBy(text, 1, Crossed(V, A))
      BY <2>11, <3>1, WayIs
    <3> QED
      BY <3>2 DEF spans
  <2> QED
    BY <2>2, <2>13, Zenon DEF W
<1>5. [n \in 1..m |-> Match!Way(next[n].end, way.spans \o next[n].spans)] \in Seq(W)
  BY <1>2, <1>4
<1> QED
  BY <1>2, <1>3, <1>5 DEF W

\* The ways to read one item more.
Onto(items, text, k, before) ==
  Match!FlattenSeq([w \in DOMAIN before |->
    Match!Onward(before[w], Match!Pieces(items, k, text, before[w].end))])

LEMMA OntoWays ==
  ASSUME NEW text \in Seq(Match!Chars), NEW items, Match!IsDeclaration(items), NEW k \in 1..Len(items),
         NEW V, NEW before \in Seq(WaysBy(text, 1, V))
  PROVE  Onto(items, text, k, before) \in Seq(WaysBy(text, 1, Crossed(V, Match!Alternatives(items, k))))
<1> DEFINE A == Match!Alternatives(items, k)
           W == WaysBy(text, 1, Crossed(V, A))
           B == WaysBy(text, 1, V)
           n == Len(before)
           read(w) == Match!Onward(before[w], Match!Pieces(items, k, text, before[w].end))
           parts == [w \in DOMAIN before |-> read(w)]
<1>1. n \in Nat /\ DOMAIN before = 1..n /\ \A w \in 1..n : before[w] \in B
  OBVIOUS
<1>2. Onto(items, text, k, before) = Match!FlattenSeq(parts)
  BY Zenon DEF Onto
<1> HIDE DEF B, n
<1>3. ASSUME NEW w \in 1..n PROVE read(w) \in Seq(W)
  <2>1. PICK way : way = before[w]
    OBVIOUS
  <2>2. way \in WaysBy(text, 1, V)
    BY <1>1, <2>1 DEF B
  <2>3. way.end \in 1..(Len(text) + 1)
    <3> DEFINE S == EndsBy(text, 1, V)
    <3>1. way \in [end : S, spans : Seq(Nat \X Nat)]
      BY <2>2 DEF WaysBy
    <3> HIDE DEF S
    <3>2. way.end \in S
      BY <3>1
    <3> QED
      BY <3>2 DEF S, EndsBy
  <2>4. Match!Pieces(items, k, text, way.end) \in Seq(WaysBy(text, way.end, A))
    BY <2>3, PiecesWays
  <2>5. Match!Onward(way, Match!Pieces(items, k, text, way.end)) \in Seq(W)
    <3> HIDE DEF A
    <3> QED
      BY <2>2, <2>4, OnwardWays
  <2> HIDE DEF W
  <2> QED
    BY <2>1, <2>5, Zenon
<1> HIDE DEF W, read
<1>4. parts \in Seq(Seq(W))
  <2>1. parts = [w \in 1..n |-> read(w)]
    BY <1>1
  <2> HIDE DEF parts
  <2>2. [w \in 1..n |-> read(w)] \in Seq(Seq(W))
    BY <1>1, <1>3
  <2> QED
    BY <2>1, <2>2
<1> HIDE DEF parts
<1>5. Match!FlattenSeq(parts) \in Seq(W)
  BY <1>4, FlattenedAlike, FlattenedHas
<1> QED
  BY <1>2, <1>5 DEF W

LEMMA CrossedStay ==
  ASSUME NEW V, NEW A, V \subseteq Streams, A \subseteq Streams
  PROVE  Crossed(V, A) \subseteq Streams
<1>1. \A p \in V, s \in A : p \o s \in Streams
  <2>1. \A p, s \in Streams : p \o s \in Streams
    BY DEF Streams
  <2> QED
    BY <2>1
<1>2. \A x \in Crossed(V, A) : \E p \in V, s \in A : x = p \o s
  BY DEF Crossed
<1>3. ASSUME NEW x \in Crossed(V, A) PROVE x \in Streams
  <2>1. \E p \in V, s \in A : x = p \o s
    BY <1>2
  <2> QED
    BY <1>1, <2>1, Zenon
<1> QED
  BY <1>3

LEMMA ParseIs ==
  ASSUME NEW text \in Seq(Match!Chars), NEW items, Match!IsDeclaration(items)
  PROVE  \E h : /\ Match!Parse(items, text) = Match!FirstOf(text, h[Len(items)])
                /\ h[0] = <<Match!Way(1, <<>>)>>
                /\ \A k \in 1..Len(items) : h[k] = Onto(items, text, k, h[k - 1])
<1> DEFINE N == Len(items)
           start == <<Match!Way(1, <<>>)>>
           Goes(g) == g = [k \in 0..N |-> IF k = 0 THEN start ELSE Onto(items, text, k, g[k - 1])]
           h == CHOOSE g : Goes(g)
           W == WaysBy(text, 1, Streams)
           D == Seq(W)
           F == [p \in Nat \X D |-> IF p[1] \in 1..N THEN Onto(items, text, p[1], p[2]) ELSE p[2]]
<1>1. N \in Nat
  BY DEF Match!IsDeclaration
<1>2. Match!Parse(items, text) = Match!FirstOf(text, h[N])
  BY Zenon DEF Match!Parse, Onto
<1>3. start \in D
  <2>1. Len(text) + 1 \in 1..(Len(text) + 1) /\ 1 \in Nat \ {0} /\ 1 \in 1..(Len(text) + 1)
    OBVIOUS
  <2>2. 1 \in EndsBy(text, 1, Streams)
    BY <2>1, TakesNothing, Zenon DEF EndsBy
  <2>3. <<>> \in Seq(Nat \X Nat)
    OBVIOUS
  <2>4. Match!Way(1, <<>>) \in W
    BY <2>2, <2>3, WayIs, Zenon
  <2> HIDE DEF W
  <2> QED
    BY <2>4
<1>4. ASSUME NEW k \in 1..N, NEW B \in D PROVE Onto(items, text, k, B) \in D
  <2> DEFINE A == Match!Alternatives(items, k)
  <2>1. Onto(items, text, k, B) \in Seq(WaysBy(text, 1, Crossed(Streams, A)))
    BY OntoWays
  <2>2. A \subseteq Streams
    <3>1. Len(text) + 1 \in 1..(Len(text) + 1)
      OBVIOUS
    <3> QED
      BY <3>1, PiecesWays
  <2>3. Crossed(Streams, A) \subseteq Streams
    <3>1. Streams \subseteq Streams
      OBVIOUS
    <3> QED
      BY <2>2, <3>1, CrossedStay, Zenon
  <2> QED
    BY <2>1, <2>3, WaysMore
<1> HIDE DEF D, W, start
<1>5. F \in [Nat \X D -> D]
  <2>1. ASSUME NEW p \in Nat \X D
        PROVE  (IF p[1] \in 1..N THEN Onto(items, text, p[1], p[2]) ELSE p[2]) \in D
    BY <1>4
  <2> QED
    BY <2>1
<1>6. \A k \in Nat, B \in D : k \in 1..N => F[<<k, B>>] = Onto(items, text, k, B)
  OBVIOUS
<1> HIDE DEF F, Goes, N
<1>7. PICK f : Iterates(f, D, start, F, N)
  BY <1>1, <1>3, <1>5, IterationIs, Zenon
<1>8. Goes(f)
  <2>1. ASSUME NEW k \in 0..N PROVE f[k] = IF k = 0 THEN start ELSE Onto(items, text, k, f[k - 1])
    <3>1. CASE k = 0
      BY <1>7, <3>1 DEF Iterates
    <3>2. CASE k # 0
      <4>1. k \in 1..N /\ k - 1 \in 0..N /\ k \in Nat
        BY <1>1, <3>2
      <4>2. f[k - 1] \in D /\ f[k] = F[<<k, f[k - 1]>>]
        BY <1>7, <4>1 DEF Iterates
      <4> QED
        BY <1>6, <3>2, <4>1, <4>2
    <3> QED
      BY <3>1, <3>2
  <2>2. f = [k \in 0..N |-> f[k]]
    BY <1>7 DEF Iterates
  <2> QED
    BY <2>1, <2>2, Zenon DEF Goes
<1>9. Goes(h)
  BY <1>8, Zenon
<1> HIDE DEF h
<1>10. h[0] = start /\ \A k \in 1..N : h[k] = Onto(items, text, k, h[k - 1])
  <2>1. \A k \in 0..N : h[k] = IF k = 0 THEN start ELSE Onto(items, text, k, h[k - 1])
    BY <1>9, Zenon DEF Goes
  <2>2. 0 \in 0..N /\ \A k \in 1..N : k \in 0..N /\ k # 0
    BY <1>1
  <2> QED
    BY <2>1, <2>2
<1> QED
  BY <1>2, <1>10, Zenon DEF N, start

LEMMA VariantsAre ==
  ASSUME NEW items, Match!IsDeclaration(items),
         \A k \in 1..Len(items) : Match!Alternatives(items, k) \subseteq Streams
  PROVE  \E h : /\ Match!Variants(items) = h[Len(items)]
                /\ h[0] = {<<>>}
                /\ \A k \in 1..Len(items) : h[k] = Crossed(h[k - 1], Match!Alternatives(items, k))
                /\ h[Len(items)] \subseteq Streams
<1> DEFINE N == Len(items)
           Crosses(g) ==
             g = [k \in 0..N |-> IF k = 0 THEN {<<>>} ELSE Crossed(g[k - 1], Match!Alternatives(items, k))]
           h == CHOOSE g : Crosses(g)
           D == SUBSET Streams
           F == [p \in Nat \X D |->
                   IF p[1] \in 1..N THEN Crossed(p[2], Match!Alternatives(items, p[1])) ELSE p[2]]
<1>1. N \in Nat
  BY DEF Match!IsDeclaration
<1>2. Match!Variants(items) = h[N]
  BY DEF Match!Variants, Crossed
<1>3. {<<>>} \in D
  BY DEF Streams
<1>4. ASSUME NEW k \in 1..N, NEW B \in D PROVE Crossed(B, Match!Alternatives(items, k)) \in D
  <2>1. Match!Alternatives(items, k) \subseteq Streams /\ B \subseteq Streams
    OBVIOUS
  <2>2. Crossed(B, Match!Alternatives(items, k)) \subseteq Streams
    BY <2>1, CrossedStay, Zenon
  <2> QED
    BY <2>2
<1> HIDE DEF D
<1>5. F \in [Nat \X D -> D]
  <2>1. ASSUME NEW p \in Nat \X D
        PROVE  (IF p[1] \in 1..N THEN Crossed(p[2], Match!Alternatives(items, p[1])) ELSE p[2]) \in D
    BY <1>4
  <2> QED
    BY <2>1
<1>6. \A k \in Nat, B \in D : k \in 1..N => F[<<k, B>>] = Crossed(B, Match!Alternatives(items, k))
  OBVIOUS
<1> HIDE DEF F, Crosses, N
<1>7. PICK f : Iterates(f, D, {<<>>}, F, N)
  BY <1>1, <1>3, <1>5, IterationIs, Zenon
<1>8. ASSUME NEW k \in 1..N
      PROVE  k - 1 \in 0..N /\ f[k - 1] \in D /\ f[k] = Crossed(f[k - 1], Match!Alternatives(items, k))
  <2>1. k - 1 \in 0..N /\ k \in Nat
    BY <1>1
  <2>2. f[k - 1] \in D /\ f[k] = F[<<k, f[k - 1]>>]
    BY <1>7, <2>1 DEF Iterates
  <2> QED
    BY <1>6, <2>1, <2>2
<1>9. Crosses(f)
  <2>1. ASSUME NEW k \in 0..N
        PROVE  f[k] = IF k = 0 THEN {<<>>} ELSE Crossed(f[k - 1], Match!Alternatives(items, k))
    <3>1. CASE k = 0
      BY <1>7, <3>1 DEF Iterates
    <3>2. CASE k # 0
      <4>1. k \in 1..N
        BY <1>1, <3>2
      <4> QED
        BY <1>8, <3>2, <4>1
    <3> QED
      BY <3>1, <3>2
  <2>2. f = [k \in 0..N |-> f[k]]
    BY <1>7 DEF Iterates
  <2> QED
    BY <2>1, <2>2, Zenon DEF Crosses
<1>10. Crosses(h)
  BY <1>9, Zenon
<1> HIDE DEF h
<1>11. \A k \in 0..N : h[k] = IF k = 0 THEN {<<>>} ELSE Crossed(h[k - 1], Match!Alternatives(items, k))
  BY <1>10, Zenon DEF Crosses
<1>12. h[0] = {<<>>} /\ \A k \in 1..N : h[k] = Crossed(h[k - 1], Match!Alternatives(items, k))
  <2>1. 0 \in 0..N /\ \A k \in 1..N : k \in 0..N /\ k # 0
    BY <1>1
  <2> QED
    BY <1>11, <2>1
<1> DEFINE T == {k \in Nat : k \in 0..N => h[k] \in D}
<1>13. 0 \in T
  BY <1>3, <1>12, Zenon
<1>14. ASSUME NEW k \in Nat, k \in T PROVE k + 1 \in T
  <2>1. CASE k + 1 \in 0..N
    <3>1. k + 1 \in 1..N /\ k \in 0..N /\ (k + 1) - 1 = k
      BY <1>1, <2>1
    <3>2. h[k + 1] = Crossed(h[k], Match!Alternatives(items, k + 1)) /\ h[k] \in D
      BY <1>12, <1>14, <3>1
    <3> QED
      BY <1>4, <3>1, <3>2
  <2>2. CASE k + 1 \notin 0..N
    BY <2>2
  <2> QED
    BY <2>1, <2>2
<1> HIDE DEF T
<1>15. N \in T
  BY <1>1, <1>13, <1>14, SetInduction
<1>16. h[N] \in D
  BY <1>1, <1>15 DEF T
<1> QED
  BY <1>2, <1>12, <1>16, Zenon DEF N, D

\* A text that a declaration's regex matches is one of its streams may match.
LEMMA ReadByAStream ==
  ASSUME NEW text \in Seq(Match!Chars), NEW items, Match!IsDeclaration(items), Match!Parse(items, text) # <<>>
  PROVE  \E v \in Match!Variants(items) : v \in Streams /\ Takes(v, text, 1, Len(text) + 1)
<1> DEFINE N == Len(items)
           Spread(h) == /\ Match!Parse(items, text) = Match!FirstOf(text, h[N])
                        /\ h[0] = <<Match!Way(1, <<>>)>>
                        /\ \A k \in 1..N : h[k] = Onto(items, text, k, h[k - 1])
           Vars(g) == /\ Match!Variants(items) = g[N]
                      /\ g[0] = {<<>>}
                      /\ \A k \in 1..N : g[k] = Crossed(g[k - 1], Match!Alternatives(items, k))
<1>1. N \in Nat
  BY DEF Match!IsDeclaration
<1>2. PICK h : Spread(h)
  BY ParseIs, Zenon
<1>3. PICK g : Vars(g)
  <2>1. 1 \in 1..(Len(text) + 1)
    OBVIOUS
  <2>2. \A k \in 1..Len(items) : Match!Alternatives(items, k) \subseteq Streams
    BY <2>1, PiecesWays
  <2> QED
    BY <2>2, VariantsAre, Zenon
<1> HIDE DEF N
<1> DEFINE S == {k \in Nat : k \in 0..N => h[k] \in Seq(WaysBy(text, 1, g[k]))}
<1>4. 0 \in S
  <2>1. 1 \in 1..(Len(text) + 1) /\ 1 \in Nat \ {0}
    OBVIOUS
  <2>2. 1 \in EndsBy(text, 1, g[0])
    <3>1. g[0] = {<<>>}
      BY <1>3
    <3> QED
      BY <2>1, <3>1, TakesNothing DEF EndsBy
  <2>3. <<>> \in Seq(Nat \X Nat)
    OBVIOUS
  <2>4. Match!Way(1, <<>>) \in WaysBy(text, 1, g[0])
    BY <2>2, <2>3, WayIs, Zenon
  <2>5. <<Match!Way(1, <<>>)>> \in Seq(WaysBy(text, 1, g[0]))
    BY <2>4
  <2> QED
    BY <1>2, <2>5, Zenon
<1>5. ASSUME NEW k \in Nat, k \in S PROVE k + 1 \in S
  <2>1. CASE k + 1 \in 0..N
    <3>1. k + 1 \in 1..N /\ k \in 0..N /\ (k + 1) - 1 = k
      BY <1>1, <2>1
    <3>2. h[k + 1] = Onto(items, text, k + 1, h[k])
      BY <1>2, <3>1
    <3>3. g[k + 1] = Crossed(g[k], Match!Alternatives(items, k + 1))
      BY <1>3, <3>1
    <3>4. h[k] \in Seq(WaysBy(text, 1, g[k]))
      BY <1>5, <3>1
    <3>5. Onto(items, text, k + 1, h[k])
            \in Seq(WaysBy(text, 1, Crossed(g[k], Match!Alternatives(items, k + 1))))
      BY <3>1, <3>4, OntoWays DEF N
    <3> HIDE DEF Spread, Vars
    <3>6. h[k + 1] \in Seq(WaysBy(text, 1, g[k + 1]))
      BY <3>2, <3>3, <3>5
    <3> QED
      BY <3>6
  <2>2. CASE k + 1 \notin 0..N
    BY <2>2
  <2> QED
    BY <2>1, <2>2
<1> HIDE DEF S
<1>6. N \in S
  BY <1>1, <1>4, <1>5, SetInduction
<1>7. h[N] \in Seq(WaysBy(text, 1, g[N]))
  BY <1>1, <1>6 DEF S
<1>8. PICK w \in DOMAIN h[N] : h[N][w].end = Len(text) + 1
  <2>1. Match!FirstOf(text, h[N]) # <<>>
    BY <1>2
  <2> QED
    BY <2>1 DEF Match!FirstOf
<1>9. h[N][w] \in WaysBy(text, 1, g[N])
  BY <1>7
<1>10. Len(text) + 1 \in EndsBy(text, 1, g[N])
  <2> DEFINE T == EndsBy(text, 1, g[N])
  <2>1. h[N][w] \in [end : T, spans : Seq(Nat \X Nat)]
    BY <1>9 DEF WaysBy
  <2> HIDE DEF T
  <2>2. h[N][w].end \in T
    BY <2>1
  <2> QED
    BY <1>8, <2>2 DEF T
<1>11. \E v \in g[N] : v \in Streams /\ Takes(v, text, 1, Len(text) + 1)
  BY <1>10 DEF EndsBy
<1> QED
  BY <1>3, <1>11

LEMMA ConflictsWhere ==
  ASSUME NEW text \in Seq(Match!Chars), NEW mine, NEW yours, Match!IsDeclaration(mine), Match!IsDeclaration(yours),
         Match!Parse(mine, text) # <<>>, Match!Parse(yours, text) # <<>>
  PROVE  Match!Conflicts(mine, yours)
<1>1. PICK l \in Match!Variants(mine) : l \in Streams /\ Takes(l, text, 1, Len(text) + 1)
  BY ReadByAStream
<1>2. PICK r \in Match!Variants(yours) : r \in Streams /\ Takes(r, text, 1, Len(text) + 1)
  BY ReadByAStream
<1>3. Match!PatternsOverlap(l, r)
  BY <1>1, <1>2, StreamsMeet
<1> QED
  BY <1>3 DEF Match!Conflicts

\* A text that one entry of a registry that builds reads, no other entry does.
LEMMA OneReads ==
  ASSUME CasesInv, Answered("registry"), found.built, NEW text \in Texts,
         NEW j \in Unlike(given.entries), NEW k \in Unlike(given.entries), j # k,
         Match!Recognizes(given.entries[j], text), Match!Recognizes(given.entries[k], text)
  PROVE  FALSE
<1> DEFINE entries == given.entries
<1>1. given.about = "registry" /\ found = Answer(given) /\ \E n \in DOMAIN Cases : given \in Cases[n]
  BY DEF Answered, CasesInv, Suite, Statements
<1>2. Match!RegistryBuilds(entries)
  BY <1>1 DEF Answer
<1>3. /\ \A e \in DOMAIN entries : /\ entries[e].items \in Declarations
                                   /\ entries[e].target \in {"builtin", "macro", "plugin"}
      /\ \A a, b \in DOMAIN entries :
           entries[a].target = "builtin" /\ entries[b].target = "builtin" /\ a # b
             => ~Match!Conflicts(entries[a].items, entries[b].items)
  BY <1>1, RegistryAssumption
<1>4. /\ j \in DOMAIN entries /\ k \in DOMAIN entries
      /\ entries[j].target # "plugin" /\ entries[k].target # "plugin"
  BY DEF Unlike
<1>5. Match!Parse(entries[j].items, text) # <<>> /\ Match!Parse(entries[k].items, text) # <<>>
  BY DEF Match!Recognizes
<1> HIDE DEF entries
<1>6. /\ Match!Conflicts(entries[j].items, entries[k].items)
      /\ Match!Conflicts(entries[k].items, entries[j].items)
  <2>1. entries[j].items \in Declarations /\ entries[k].items \in Declarations
    BY <1>3, <1>4
  <2>2. /\ text \in Seq(Match!Chars)
        /\ Match!IsDeclaration(entries[j].items) /\ Match!IsDeclaration(entries[k].items)
    BY <2>1, RegistryAssumption
  <2> QED
    BY <1>5, <2>2, ConflictsWhere
<1>7. \A a, b \in DOMAIN entries :
        a # b /\ entries[a].target = "macro" /\ entries[b].target \in {"builtin", "macro"}
          => ~Match!Conflicts(entries[a].items, entries[b].items)
  BY <1>2 DEF Match!RegistryBuilds
<1> QED
  BY <1>3, <1>4, <1>6, <1>7

\* A registry that builds gives no text two meanings among the builtins and the
\* macros (steps/mod.rs: validate_macros, steps/expression.rs:
\* patterns_overlap), for any declarations and any text.
THEOREM TextsHaveOneMeaning == RulesSpec => []OneMeaning
<1>1. CasesInv => OneMeaning
  <2> SUFFICES ASSUME CasesInv, Answered("registry"), found.built,
                      NEW j \in Unlike(given.entries), NEW k \in Unlike(given.entries), j # k,
                      NEW text \in Meant[given.entries[j].items],
                      text \in Meant[given.entries[k].items]
               PROVE  FALSE
    BY DEF OneMeaning
  <2>1. \A e \in Unlike(given.entries) : given.entries[e].items \in Declarations
    BY RegistryAssumption DEF Answered, CasesInv, Suite, Statements, Unlike
  <2>2. ASSUME NEW e \in Unlike(given.entries), text \in Meant[given.entries[e].items]
        PROVE  text \in Texts /\ Match!Recognizes(given.entries[e], text)
    BY <2>1, <2>2 DEF Meant, Match!Understands, Match!Recognizes
  <2> QED
    BY <2>2, OneReads
<1> QED
  BY <1>1, CasesAnswered, PTL

\* What a report shows of a step hides every secret that the step is run with:
\* display_text has no need of the one definition that find settles on, since
\* in a registry that builds, without plugins, no other reads the text
\* (steps/mod.rs: display_text, secret_spans).
THEOREM StepsAreHidden == RulesSpec => []StepsHideSecrets
<1>1. CasesInv => StepsHideSecrets
  <2> SUFFICES ASSUME CasesInv, Answered("registry"), found.built, Unlike(given.entries) = DOMAIN given.entries,
                      NEW j \in DOMAIN given.entries, NEW text \in Meant[given.entries[j].items],
                      NEW span \in Match!SecretSpans(given.entries[j], text)
               PROVE  Match!Places(span) \subseteq Match!DisplayHides(given.entries, text)
    BY DEF StepsHideSecrets, ToSet
  <2> DEFINE hits == {k \in DOMAIN given.entries : Match!Recognizes(given.entries[k], text)}
  <2>1. given.entries[j].items \in Declarations
    BY RegistryAssumption DEF Answered, CasesInv, Suite, Statements
  <2>2. text \in Texts /\ Match!Recognizes(given.entries[j], text)
    BY <2>1 DEF Meant, Match!Understands, Match!Recognizes
  <2>3. hits = {j}
    BY <2>2, OneReads
  <2>4. Match!Cardinality(hits) = 1 /\ (CHOOSE k \in hits : TRUE) = j
    <3>1. Match!Cardinality(hits) = Cardinality(hits)
      BY DEF Match!Cardinality, Cardinality
    <3>2. Cardinality({j}) = 1
      BY FS_Singleton
    <3> HIDE DEF hits
    <3> QED
      BY <2>3, <3>1, <3>2
  <2>5. Match!DisplayHides(given.entries, text)
          = UNION {Match!Places(s) : s \in Match!SecretSpans(given.entries[j], text)}
    BY <2>4, Zenon DEF Match!DisplayHides
  <2> QED
    BY <2>5
<1> QED
  BY <1>1, CasesAnswered, PTL
=============================================================================
