------------------------------- MODULE Matching -------------------------------
(***************************************************************************)
(* Step declarations (steps/expression.rs) and the registry they make      *)
(* (steps/mod.rs).  One parse of a declaration gives both a regex, which   *)
(* decides what a text means, and token streams, which decide at startup   *)
(* whether two declarations may meet in one text.  Here too: Parses reads  *)
(* the regex, as the regex crate does, Variants gives the streams.         *)
(*                                                                         *)
(* A text is a sequence of characters.  A declaration is a sequence of     *)
(* items: "literal" (spelled: the spellings of a text, an optional part or *)
(* an alternation, in the regex's order of preference) or "param" (name,   *)
(* type).  A plugin's regex is one such sequence, with groups that are     *)
(* "any" or "text" and side by side.                                       *)
(***************************************************************************)
EXTENDS Naturals, Sequences, SequencesExt, FiniteSetsExt

CONSTANTS Digits,        \* characters that are digits
          Letters        \* those that may begin a name

Quote == "\""
Space == " "
Minus == "-"
Less == "<"
More == ">"
Slot == [open |-> <<Less, Less>>, close |-> <<More, More>>]
Chars == Digits \cup Letters \cup {Quote, Space, Minus, Less, More}

\* typed: narrows what a text may carry, and takes a whole slot besides.
ParamType(typed, secret, quoting) == [typed |-> typed, secret |-> secret, quoting |-> quoting]
TYPES ==
  [text   |-> ParamType(FALSE, FALSE, "required"),
   secret |-> ParamType(FALSE, TRUE, "required"),
   any    |-> ParamType(FALSE, FALSE, "as_written"),
   uint   |-> ParamType(TRUE, FALSE, "optional"),
   int    |-> ParamType(TRUE, FALSE, "optional"),
   word   |-> ParamType(TRUE, FALSE, "optional"),
   method |-> ParamType(TRUE, FALSE, "optional")]
\* GET, POST and the rest, of which two tell what there is to tell.
Methods == <<<<"G">>, <<"P", "G">>>>

IsDeclaration(items) ==
  /\ items \in Seq(ToSet(items))
  /\ \A item \in ToSet(items) : \/ item.kind = "literal" /\ item.spelled \in Seq(Seq(Chars))
                                \/ item.kind = "param" /\ item.type \in DOMAIN TYPES
-----------------------------------------------------------------------------
(* The regex.  From a place in a text, the places a piece may end, the     *)
(* preferred one first.                                                    *)

Run(text, i, set) ==
  CHOOSE j \in i..(Len(text) + 1) :
    /\ \A k \in i..(j - 1) : text[k] \in set
    /\ j > Len(text) \/ text[j] \notin set
Greedy(from, to) == [k \in 1..(to - from + 1) |-> to - k + 1]
Exactly(text, i, chars) ==
  IF i + Len(chars) <= Len(text) + 1 /\ SubSeq(text, i, i + Len(chars) - 1) = chars
  THEN <<i + Len(chars)>> ELSE <<>>

NonQuote == Chars \ {Quote}
NonSpace == Chars \ {Space}
Number(text, i) ==
  LET end == Run(text, i, Digits) IN IF end = i THEN <<>> ELSE Greedy(i + 1, end)

\* SLOT_SHAPE: wider than a slot, which is_whole_slot decides.
SlotShape(text, i) ==
  IF Exactly(text, i, Slot.open) = <<>> THEN <<>>
  ELSE LET end == Run(text, i + 2, Chars \ {Less, More, Quote, Space})
       IN  Exactly(text, end, Slot.close)

\* A type's own regex.
Literal(type, text, i) ==
  CASE type \in {"text", "secret"} -> Greedy(i, Run(text, i, NonQuote))
    [] type = "any" -> [k \in 1..(Len(text) + 2 - i) |-> i + k - 1]
    [] type = "uint" -> Number(text, i)
    [] type = "int" ->
         IF i <= Len(text) /\ text[i] = Minus THEN Number(text, i + 1) ELSE Number(text, i)
    [] type = "word" ->
         LET end == Run(text, i, NonSpace \ {Quote}) IN IF end = i THEN <<>> ELSE Greedy(i + 1, end)
    [] type = "method" -> FlattenSeq([w \in DOMAIN Methods |-> Exactly(text, i, Methods[w])])

\* A type's regex in a step: `literal|slot` for a typed one.
Value(type, text, i) ==
  IF TYPES[type].typed THEN Literal(type, text, i) \o SlotShape(text, i) ELSE Literal(type, text, i)

\* One way to read a piece: where it ends, and the spans its groups capture.
Way(end, spans) == [end |-> end, spans |-> spans]
Bare(type, text, i) ==
  LET ends == Value(type, text, i) IN [e \in DOMAIN ends |-> Way(ends[e], <<<<i, ends[e]>>>>)]
Quoted(type, text, i) ==
  IF Exactly(text, i, <<Quote>>) = <<>> THEN <<>>
  ELSE LET ends == Value(type, text, i + 1)
       IN  FlattenSeq([e \in DOMAIN ends |-> [q \in DOMAIN Exactly(text, ends[e], <<Quote>>) |->
             Way(ends[e] + 1, <<<<i + 1, ends[e]>>>>)]])
Wrapped(type, quoting, text, i) ==
  (IF quoting = "as_written" THEN <<>> ELSE Quoted(type, text, i))
    \o (IF quoting = "required" THEN <<>> ELSE Bare(type, text, i))

\* Bare unless an odd number of quotes stand before it in the declaration.
Quoting(items, k) ==
  LET literal(item) == IF item.kind = "literal" THEN FlattenSeq(item.spelled) ELSE <<>>
      before == FlattenSeq([j \in 1..(k - 1) |-> literal(items[j])])
      quotes == SelectSeq(before, LAMBDA c : c = Quote)
  IN  IF Len(quotes) % 2 = 0 THEN TYPES[items[k].type].quoting ELSE "as_written"

\* The ways to read item k at a place.
Pieces(items, k, text, i) ==
  IF items[k].kind = "param" THEN Wrapped(items[k].type, Quoting(items, k), text, i)
  ELSE FlattenSeq([s \in DOMAIN items[k].spelled |->
         [e \in DOMAIN Exactly(text, i, items[k].spelled[s]) |-> Way(i + Len(items[k].spelled[s]), <<>>)]])

Onward(way, next) == [n \in DOMAIN next |-> Way(next[n].end, way.spans \o next[n].spans)]
FirstOf(text, ways) ==
  LET whole == {w \in DOMAIN ways : ways[w].end = Len(text) + 1}
  IN  IF whole = {} THEN <<>> ELSE <<<<1, Len(text) + 1>>>> \o ways[Min(whole)].spans

\* The first way to read all of a text, the earlier items' choices before the
\* later ones': the whole and the spans captured, or <<>> when there is none.
Parse(items, text) ==
  LET ways[k \in 0..Len(items)] ==
        IF k = 0 THEN <<Way(1, <<>>)>>
        ELSE LET before == ways[k - 1]
             IN  FlattenSeq([w \in DOMAIN before |-> Onward(before[w], Pieces(items, k, text, before[w].end))])
  IN  FirstOf(text, ways[Len(items)])
-----------------------------------------------------------------------------
(* The token streams: what a type may match, perhaps wider than its regex. *)

One(class) == [star |-> FALSE, class |-> class]
Star(class) == [star |-> TRUE, class |-> class]
Exact(chars) == [k \in DOMAIN chars |-> One(<<"exact", chars[k]>>)]

Shape(type) ==
  CASE type \in {"text", "secret"} -> {<<Star(<<"non_quote">>)>>}
    [] type = "any" -> {<<Star(<<"any">>)>>}
    [] type = "uint" -> {<<One(<<"digit">>), Star(<<"digit">>)>>}
    [] type = "int" -> {<<One(<<"digit">>), Star(<<"digit">>)>>,
                        <<One(<<"exact", Minus>>), One(<<"digit">>), Star(<<"digit">>)>>}
    [] type = "word" -> {<<One(<<"non_space">>), Star(<<"non_space">>)>>}
    [] type = "method" -> {Exact(Methods[w]) : w \in DOMAIN Methods}

\* Slip: a typed parameter's stream does not take a slot.
SlipUnquotedTokens(type) == Shape(type)

UnquotedTokens(type) ==
  Shape(type) \cup
    (IF TYPES[type].typed THEN {Exact(Slot.open) \o <<Star(<<"any">>)>> \o Exact(Slot.close)} ELSE {})

Tokens(type, quoting) ==
  LET quoted == {Exact(<<Quote>>) \o v \o Exact(<<Quote>>) : v \in UnquotedTokens(type)}
  IN  CASE quoting = "as_written" -> UnquotedTokens(type)
        [] quoting = "required" -> quoted
        [] quoting = "optional" -> quoted \cup UnquotedTokens(type)

\* Every alternative of an item behind every one before it (cross).
Alternatives(items, k) ==
  IF items[k].kind = "literal" THEN {Exact(sp) : sp \in ToSet(items[k].spelled)}
  ELSE Tokens(items[k].type, Quoting(items, k))
Variants(items) ==
  LET variants[k \in 0..Len(items)] ==
        IF k = 0 THEN {<<>>} ELSE {p \o s : p \in variants[k - 1], s \in Alternatives(items, k)}
  IN  variants[Len(items)]

InClass(class, c) ==
  CASE class[1] = "any" -> TRUE
    [] class[1] = "non_quote" -> c # Quote
    [] class[1] = "digit" -> c \in Digits
    [] class[1] = "non_space" -> c # Space
    [] class[1] = "exact" -> class[2] = c

\* Slip: only characters that are the same, or any, meet.
SlipClassesOverlap(left, right) == "any" \in {left[1], right[1]} \/ left = right

\* Two classes that name no character share a digit.
ClassesOverlap(left, right) ==
  /\ left[1] = "exact" => InClass(right, left[2])
  /\ right[1] = "exact" => InClass(left, right[2])

\* The places two streams can be in together, until both are at their end.
PatternsOverlap(left, right) ==
  LET skips(s, i) == i <= Len(s) /\ s[i].star
      after(s, i) == IF s[i].star THEN i ELSE i + 1
      meet(p) == /\ p[1] <= Len(left) /\ p[2] <= Len(right)
                 /\ ClassesOverlap(left[p[1]].class, right[p[2]].class)
      next(p) ==
        (IF skips(left, p[1]) THEN {<<p[1] + 1, p[2]>>} ELSE {})
          \cup (IF skips(right, p[2]) THEN {<<p[1], p[2] + 1>>} ELSE {})
          \cup (IF meet(p) THEN {<<after(left, p[1]), after(right, p[2])>>} ELSE {})
      seen[n \in 0..(Len(left) + Len(right))] ==
        IF n = 0 THEN {<<1, 1>>} ELSE LET before == seen[n - 1] IN before \cup UNION {next(p) : p \in before}
  IN  <<Len(left) + 1, Len(right) + 1>> \in seen[Len(left) + Len(right)]

Conflicts(left, right) ==
  \E l \in Variants(left), r \in Variants(right) : PatternsOverlap(l, r)
-----------------------------------------------------------------------------
(* The registry: an entry is [target, items, secrets], secrets the groups  *)
(* of a plugin's regex that its manifest calls secret.                     *)

Params(items) == SelectSeq(items, LAMBDA it : it.kind = "param")
Spans(items, text) == Tail(Parse(items, text))

\* compile refuses a name that is declared twice.
Compiles(items) ==
  \A j, k \in DOMAIN items :
    j # k /\ items[j].kind = "param" /\ items[k].kind = "param" => items[j].name # items[k].name

\* validate_macros: each macro against every builtin and every macro behind it.
RegistryBuilds(entries) ==
  /\ \A e \in ToSet(entries) : Compiles(e.items)
  /\ \A j, k \in DOMAIN entries :
       j # k /\ entries[j].target = "macro" /\ entries[k].target \in {"builtin", "macro"} =>
         ~Conflicts(entries[j].items, entries[k].items)

Places(span) == span[1]..(span[2] - 1)
Between(text, span) == SubSeq(text, span[1], span[2] - 1)

IsWholeSlot(value) ==
  /\ Len(value) > 4
  /\ SubSeq(value, 1, 2) = Slot.open /\ SubSeq(value, Len(value) - 1, Len(value)) = Slot.close
  /\ value[3] \in Letters
  /\ \A k \in 3..(Len(value) - 2) : value[k] \in Letters \cup Digits

\* Param::slot_is_whole, over the captures of a declaration.
SlotsWhole(params, text, spans) ==
  \A k \in DOMAIN params :
    LET value == Between(text, spans[k])
    IN  TYPES[params[k].type].typed /\ Exactly(value, 1, Slot.open) # <<>> => IsWholeSlot(value)

Recognizes(entry, text) == Parse(entry.items, text) # <<>>
Understands(entry, text) ==
  Recognizes(entry, text) /\ SlotsWhole(Params(entry.items), text, Spans(entry.items, text))

\* Registry::find: the definitions of a text; one, or it is unknown or ambiguous.
Hits(entries, text) == {k \in DOMAIN entries : Understands(entries[k], text)}

\* Secret are a builtin's and a macro's groups by type, a plugin's by its
\* manifest.
IsSecret(entry, group) ==
  IF entry.target = "plugin" THEN group \in entry.secrets
  ELSE TYPES[Params(entry.items)[group].type].secret
HasSecret(entry) == \E group \in DOMAIN Params(entry.items) : IsSecret(entry, group)

\* The spans that are secret; a slot stays as written.
SecretOf(entry, text, spans) ==
  {spans[k] : k \in {g \in DOMAIN spans : IsSecret(entry, g) /\ ~IsWholeSlot(Between(text, spans[g]))}}
SecretSpans(entry, text) == SecretOf(entry, text, Spans(entry.items, text))

\* Registry::display_text: the places of a text that a report shows as ***.
\* A text that several regexes match is shown as it is.
DisplayHides(entries, text) ==
  LET hits == {k \in DOMAIN entries : Recognizes(entries[k], text)}
  IN  IF Cardinality(hits) # 1 THEN {}
      ELSE UNION {Places(s) : s \in SecretSpans(entries[CHOOSE k \in hits : TRUE], text)}
=============================================================================
