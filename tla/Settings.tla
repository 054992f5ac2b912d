------------------------------- MODULE Settings -------------------------------
(***************************************************************************)
(* How one value is chosen among several that could give it: config.rs,    *)
(* settings.rs, options.rs, dirs.rs and telemetry::decide.  A key, flag or *)
(* variable that is not given is None (an empty variable is not given).    *)
(***************************************************************************)
EXTENDS Naturals, Sequences, FiniteSets

None == "none"
Error == "error"

\* The first layer with an opinion: flag, then variable, then config key.
FirstOf(layers) ==
  LET said == {i \in DOMAIN layers : layers[i] # None}
  IN  IF said = {} THEN None ELSE layers[CHOOSE i \in said : \A j \in said : i <= j]

\* --config, else $BDDKIT_CONFIG, else the one of bddkit.yaml and bddkit.yml.
ResolveConfigPath(flag, variable, yaml, yml) ==
  IF flag \/ variable THEN "named"
  ELSE IF yaml /\ yml THEN Error
  ELSE IF yaml \/ yml THEN "discovered" ELSE None

\* ${V} and its operators; a value is "unset", "" or a text.  The process's own
\* variable beats the .env layers, a later layer an earlier one.
Lookup(process, dotenv, dotenvLocal) ==
  IF process # "unset" THEN process ELSE IF dotenvLocal # "unset" THEN dotenvLocal ELSE dotenv

Expand(op, value, arg) ==
  LET given == IF op \in {":-", ":?", ":+"} THEN value \notin {"unset", ""} ELSE value # "unset"
  IN  IF op \in {":+", "+"} THEN (IF given THEN arg ELSE "")
      ELSE IF given THEN value
      ELSE IF op \in {":-", "-"} THEN arg ELSE Error

\* An explicit name must be declared, a lone resource is the default on its
\* own, several without an explicit choice are an error.
ResolveDefault(explicit, names) ==
  IF explicit # None THEN (IF explicit \in names THEN explicit ELSE Error)
  ELSE IF names = {} THEN None
  ELSE IF Cardinality(names) = 1 THEN CHOOSE n \in names : TRUE ELSE Error

\* A polling pair: a layer replaces the half it gives, and the result is checked.
Layered(pair, layer) ==
  [timeout |-> IF layer.timeout = 0 THEN pair.timeout ELSE layer.timeout,
   interval |-> IF layer.interval = 0 THEN pair.interval ELSE layer.interval]
ValidPair(pair) == pair.interval <= pair.timeout

\* privacy::fold_list: `only` replaces what the layers below built, `extend`
\* adds to it, and one layer may not give both.  A list that is not given is
\* {}, one that is given is the set of it.
FoldList(list, extend, only) ==
  IF extend # {} /\ only # {} THEN {Error}
  ELSE (IF only = {} THEN list ELSE UNION only) \cup UNION extend

\* Slip: whatever the variable says, that it is set means yes.
SlipDecide(flag, variable, doNotTrack, key, answers) ==
  FirstOf(<<flag, IF variable = None THEN None ELSE "yes", key>> \o answers)

\* The first source with an opinion decides whether counts are sent; a typo in
\* the variable, a config that cannot be read and a broken answer file say no.
\* Without one, nobody has decided (None).
Decide(flag, variable, doNotTrack, key, answers) ==
  FirstOf(<<flag,
            IF variable = None THEN None ELSE IF variable = "yes" THEN "yes" ELSE "no",
            IF doNotTrack THEN "no" ELSE None,
            IF key = "broken" THEN "no" ELSE key>>
          \o [i \in DOMAIN answers |->
                LET answer == answers[Len(answers) + 1 - i]
                IN  IF answer = "broken" THEN "no" ELSE answer])
===============================================================================
