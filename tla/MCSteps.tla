------------------------------- MODULE MCSteps -------------------------------
(* Two names, one of them the other with a prefix; two values; a literal   *)
(* or a slot as argument; both names, or a glob that matches one, exported. *)
EXTENDS Steps, TLC
CONSTANTS x, px, v1, v2
MCSymmetry == Permutations({v1, v2})
MCNames == {x, px}
MCPrefixed == x :> px
MCArgLists == {x :> v1, x :> v2, px :> x}
Named(n) == [glob |-> FALSE, names |-> {n}]
MCExportLists ==
  {{Named(x), Named(px)}, {[glob |-> TRUE, names |-> {x}]}}
=============================================================================
