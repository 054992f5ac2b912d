-------------------------------- MODULE Masking --------------------------------
(***************************************************************************)
(* What is secret and how a text is shown without it (privacy.rs): names,  *)
(* the values found under them in a JSON document, in name=value pairs and *)
(* in a configuration, the set they join and the replacement over it.      *)
(*                                                                         *)
(* A text is a sequence of characters; a number, true, a percent sign with *)
(* its two digits, and the mask are one each.  A range is <<first, one     *)
(* past the last>>.                                                        *)
(***************************************************************************)
EXTENDS Naturals, Sequences, SequencesExt, FiniteSetsExt

CONSTANTS LowerOf,     \* the letters with two cases: capital to small
          MinLength,   \* privacy.min_length
          Trees        \* configurations and documents, with each part of one

QUOTE == "\""
ESCAPE == "\\"
MASK == "***"
NULL_SENTINEL == <<"null">>

Small(name) == [k \in DOMAIN name |-> IF name[k] \in DOMAIN LowerOf THEN LowerOf[name[k]] ELSE name[k]]
IsSmall(c) == \E capital \in DOMAIN LowerOf : LowerOf[capital] = c

\* The pieces of a name between the places where cut(k) says k ends one.
NameWords(name, seps, cut(_)) ==
  {Small(SubSeq(name, w[1], w[2])) :
     w \in {p \in (DOMAIN name) \X (DOMAIN name) :
        /\ p[1] <= p[2]
        /\ \A k \in p[1]..p[2] : name[k] \notin seps
        /\ p[1] = 1 \/ name[p[1] - 1] \in seps \/ cut(p[1] - 1)
        /\ p[2] = Len(name) \/ name[p[2] + 1] \in seps \/ cut(p[2])
        /\ \A k \in p[1]..(p[2] - 1) : ~cut(k)}}

VariableIsSensitive(name, words) == NameWords(name, {"_"}, LAMBDA k : FALSE) \cap words # {}

FieldIsSensitive(name, fields) ==
  LET hump(k) == IsSmall(name[k]) /\ name[k + 1] \in DOMAIN LowerOf
  IN  NameWords(name, {"_", "-"}, hump) \cap fields # {}
-----------------------------------------------------------------------------
(* Hits: values under sensitive names, by their place in a text.           *)

Hit(from, to, value) == [range |-> <<from, to>>, value |-> value]
NoValue == <<"no value">>
Scanned(at, hits) == [at |-> at, hits |-> hits]

\* Slip: a value joins as the text spells it.
SlipDecoded(chars) == chars

\* Unescaped: of what is behind a backslash, quotes and backslashes.
Decoded(chars) ==
  LET from[i \in 1..(Len(chars) + 1)] ==
        CASE i > Len(chars) -> <<>>
          [] i <= Len(chars) /\ chars[i] = ESCAPE -> <<chars[i + 1]>> \o from[i + 2]
          [] OTHER -> <<chars[i]>> \o from[i + 1]
  IN  from[1]

StringEnd(text, i) ==
  LET end[k \in i..Len(text)] ==
        CASE text[k] = QUOTE -> k
          [] text[k] = ESCAPE -> end[k + 2]
          [] OTHER -> end[k + 1]
  IN  end[i]

TokenEnd(text, i) ==
  CHOOSE j \in i..(Len(text) + 1) :
    /\ j > Len(text) \/ text[j] \in {",", "]", "}"}
    /\ \A k \in i..(j - 1) : text[k] \notin {",", "]", "}"}

ScanScalar(text, i, inherited) ==
  IF text[i] = QUOTE
  THEN LET end == StringEnd(text, i + 1)
       IN  Scanned(end + 1, IF inherited THEN {Hit(i + 1, end, Decoded(SubSeq(text, i + 1, end - 1)))} ELSE {})
  ELSE LET end == TokenEnd(text, i)
       IN  Scanned(end, IF inherited /\ text[i] # "true" THEN {Hit(i, end, NoValue)} ELSE {})

\* From a place in a text on, what stands there: a value, or the rest of an
\* object or of an array.  An object's values take the sensitivity of their own
\* keys, an array's that of the key above it.
JsonHits(text, fields) ==
  LET scan[what \in {"value", "object", "array"}, i \in 1..(Len(text) + 1), inherited \in BOOLEAN] ==
        CASE what = "value" /\ text[i] = "{" -> scan["object", i + 1, FALSE]
          [] what = "value" /\ text[i] = "[" -> scan["array", i + 1, inherited]
          [] what = "value" /\ text[i] \notin {"{", "["} -> ScanScalar(text, i, inherited)
          [] what # "value" /\ text[i] \in {"}", "]"} -> Scanned(i + 1, {})
          [] what # "value" /\ text[i] = "," -> scan[what, i + 1, inherited]
          [] OTHER ->
               LET end == StringEnd(text, i + 1)
                   sensitive == FieldIsSensitive(Decoded(SubSeq(text, i + 1, end - 1)), fields)
                   value == IF what = "object" THEN scan["value", end + 2, sensitive]
                            ELSE scan["value", i, inherited]
                   rest == scan[what, value.at, inherited]
               IN  Scanned(rest.at, value.hits \cup rest.hits)
  IN  scan["value", 1, FALSE].hits

\* A form body or a query: names and values are decoded.
FormDecoded(chars) == [k \in DOMAIN chars |-> IF chars[k] = "%22" THEN QUOTE ELSE chars[k]]
PairHits(text, offset, fields) ==
  LET ends == {k \in 1..(Len(text) + 1) : k > Len(text) \/ text[k] = "&"}
      pairs == {p \in (1..(Len(text) + 1)) \X ends :
                  (p[1] = 1 \/ p[1] - 1 \in ends) /\ \A k \in p[1]..(p[2] - 1) : k \notin ends}
      equals(p) == {k \in p[1]..(p[2] - 1) : text[k] = "="}
  IN  {LET eq == Min(equals(p))
       IN  Hit(offset + eq + 1, offset + p[2], FormDecoded(SubSeq(text, eq + 1, p[2] - 1))) :
         p \in {q \in pairs : /\ equals(q) # {}
                              /\ FieldIsSensitive(FormDecoded(SubSeq(text, q[1], Min(equals(q)) - 1)), fields)}}

\* A URL's query, without its fragment.
QueryHits(url, fields) ==
  LET marks == {k \in DOMAIN url : url[k] = "?"}
  IN  IF marks = {} THEN {}
      ELSE LET from == Min(marks) + 1
               ends == {k \in from..Len(url) : url[k] = "#"}
           IN  PairHits(SubSeq(url, from, IF ends = {} THEN Len(url) ELSE Min(ends) - 1), from - 1, fields)
-----------------------------------------------------------------------------
(* A configuration is a tree: [kind, ...], a URL's password beside it.     *)

\* secrets_in: a scalar under a sensitive key, and the password of every other
\* URL, as written and percent-decoded.
SecretsIn(tree, sensitivity, fields) ==
  LET secrets[t \in Trees, inherited \in BOOLEAN] ==
        CASE t.kind \in {"string", "number"} -> IF inherited THEN {t.text} ELSE {}
          [] t.kind = "url" -> (IF inherited THEN {t.text} ELSE {}) 
               \cup {t.password, FormDecoded(t.password)}
          [] t.kind = "bool" -> {}
          [] t.kind = "list" -> UNION {secrets[item, inherited] : item \in ToSet(t.items)}
          [] t.kind = "map" ->
               UNION {LET sensitive == FieldIsSensitive(e.key, fields)
                      IN  IF sensitive /\ e.value.kind \in {"string", "url", "number"} THEN {e.value.text}
                          ELSE secrets[e.value, sensitive] : e \in ToSet(t.entries)}
  IN  secrets[tree, sensitivity]
-----------------------------------------------------------------------------
(* The set, and the mask over it.                                          *)

FormEncoded(value) == [k \in DOMAIN value |-> IF value[k] \in {QUOTE, ESCAPE} THEN "%22" ELSE value[k]]
Escaped(value) ==
  FlattenSeq([k \in DOMAIN value |-> IF value[k] \in {QUOTE, ESCAPE} THEN <<ESCAPE, value[k]>> ELSE <<value[k]>>])
TrimQuotes(chars) ==
  LET said == {k \in DOMAIN chars : chars[k] # QUOTE}
  IN  IF said = {} THEN <<>> ELSE SubSeq(chars, Min(said), Max(said))

\* Secrets::add: as written, in a form and in JSON; its length is as written.
Add(set, value) ==
  IF value \in {<<>>, NULL_SENTINEL} \/ Len(value) < MinLength THEN set
  ELSE set \cup ({value, FormEncoded(value), TrimQuotes(<<QUOTE>> \o Escaped(value) \o <<QUOTE>>)} \ {<<>>})

\* A number never joins.
Register(set, hits) ==
  FoldSet(LAMBDA hit, joined : IF hit.value = NoValue THEN joined ELSE Add(joined, hit.value), set, hits)

IsAt(value, text, i) == i + Len(value) <= Len(text) + 1 /\ SubSeq(text, i, i + Len(value) - 1) = value

\* match_indices: from the left, each behind the one before it.
MatchIndices(value, text) ==
  LET behind[from \in 1..(Len(text) + 1)] ==
        LET starts == {i \in from..Len(text) : IsAt(value, text, i)}
            end == Min(starts) + Len(value)
        IN  IF starts = {} THEN {} ELSE {<<Min(starts), end>>} \cup behind[end]
  IN  behind[1]

\* The last of some ranges: sorted by where they begin, the longer first.
Latest(ranges) ==
  CHOOSE r \in ranges : \A q \in ranges : q[1] < r[1] \/ (q[1] = r[1] /\ q[2] >= r[2])
Sweep(ranges, step(_, _)) ==
  MapThenFoldSet(step, [out |-> <<>>, copied |-> 1], LAMBDA r : r, Latest, ranges)

\* Slip: a range that begins under the mask of another adds nothing to it.
SlipMaskRanges(text, ranges) ==
  LET step(r, done) ==
        IF r[1] < done.copied THEN done
        ELSE [out |-> done.out \o SubSeq(text, done.copied, r[1] - 1) \o <<MASK>>, copied |-> r[2]]
      swept == Sweep(ranges, step)
  IN  swept.out \o SubSeq(text, swept.copied, Len(text))

MaskRanges(text, ranges) ==
  LET step(r, done) ==
        IF r[1] < done.copied THEN [done EXCEPT !.copied = IF r[2] > @ THEN r[2] ELSE @]
        ELSE [out |-> done.out \o SubSeq(text, done.copied, r[1] - 1) \o <<MASK>>, copied |-> r[2]]
      swept == Sweep(ranges, step)
  IN  swept.out \o SubSeq(text, swept.copied, Len(text))

\* Secrets::mask.
MaskSet(set, text) == MaskRanges(text, UNION {MatchIndices(value, text) : value \in set})

\* Redactor::mask_json: by place first, then by the set.
MaskJson(set, text, fields) == MaskSet(set, MaskRanges(text, {h.range : h \in JsonHits(text, fields)}))

\* serde_json: a tree as the text of a JSON document.
Rendered(tree) ==
  LET quoted(chars) == <<QUOTE>> \o Escaped(chars) \o <<QUOTE>>
      joined(parts) == FlattenSeq([k \in DOMAIN parts |-> IF k = 1 THEN parts[k] ELSE <<",">> \o parts[k]])
      text[t \in Trees] ==
        CASE t.kind \in {"string", "url"} -> quoted(t.text)
          [] t.kind = "number" -> t.text
          [] t.kind = "bool" -> <<"true">>
          [] t.kind = "list" -> <<"[">> \o joined([k \in DOMAIN t.items |-> text[t.items[k]]]) \o <<"]">>
          [] t.kind = "map" ->
               <<"{">> \o joined([k \in DOMAIN t.entries |->
                  quoted(t.entries[k].key) \o <<":">> \o text[t.entries[k].value]]) \o <<"}">>
  IN  text[tree]
=============================================================================
