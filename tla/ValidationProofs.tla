--------------------------- MODULE ValidationProofs ---------------------------
(***************************************************************************)
(* What a run refuses before its first request is what it would have met,  *)
(* for any suite and depth.  First, what this module and RulesProofs need: *)
(* answers are computed, so most of the proofs are about recursive         *)
(* functions.  A fact about every number is read off the least one it      *)
(* would fail at (SetInduction), and a recursive function is what its      *)
(* equation says once some function meets that (IterationIs).              *)
(***************************************************************************)
EXTENDS Validation, FiniteSetTheorems, WellFoundedInduction, TLAPS

-----------------------------------------------------------------------------
\* A set of numbers that has 0, and the next one of each, has all.
LEMMA SetInduction ==
  ASSUME NEW S, 0 \in S, \A n \in Nat : n \in S => n + 1 \in S
  PROVE  \A n \in Nat : n \in S
<1> DEFINE R == OpToRel(<, Nat)
           T == Nat \ S
<1>1. IsWellFoundedOn(R, Nat)
  BY NatLessThanWellFounded, Zenon
<1>2. \A x, y \in Nat : x < y => <<x, y>> \in R
  BY DEF OpToRel
<1> HIDE DEF R
<1>3. ASSUME T # {} PROVE FALSE
  <2>1. \E x \in T : \A y \in T : ~(<<y, x>> \in R)
    BY <1>1, <1>3, WFMin, Zenon
  <2>2. PICK x \in T : \A y \in T : ~(<<y, x>> \in R)
    BY <2>1
  <2>3. x \in Nat /\ x # 0 /\ x \notin S
    OBVIOUS
  <2>4. x - 1 \in Nat /\ x - 1 < x /\ (x - 1) + 1 = x
    BY <2>3
  <2>5. x - 1 \in T
    BY <2>3, <2>4
  <2> QED
    BY <1>2, <2>2, <2>3, <2>4, <2>5, Zenon
<1> QED
  BY <1>3

\* The smallest of a set of numbers is one of them.
LEMMA MinIs ==
  ASSUME NEW S, S \subseteq Nat, S # {}
  PROVE  Min(S) \in S /\ \A y \in S : Min(S) <= y
<1> DEFINE L == {n \in Nat : \A x \in S : n <= x}
<1>1. 0 \in L
  OBVIOUS
<1>2. PICK z \in S : TRUE
  BY Zenon
<1>3. z + 1 \in Nat /\ z + 1 \notin L
  BY <1>2
<1>4. PICK n \in Nat : n \in L /\ n + 1 \notin L
  BY <1>1, <1>3, SetInduction, Zenon
<1>5. n \in S
  <2>1. PICK x \in S : ~(n + 1 <= x)
    BY <1>4
  <2>2. x \in Nat /\ n <= x
    BY <1>4, <2>1
  <2>3. x = n
    BY <2>1, <2>2
  <2> QED
    BY <2>1, <2>3
<1>6. \E x \in S : \A y \in S : x <= y
  BY <1>4, <1>5
<1> QED
  BY <1>6, Zenon DEF Min

\* So is the largest of a finite one.
LEMMA MaxIs ==
  ASSUME NEW S, S \subseteq Nat, S # {}, IsFiniteSet(S)
  PROVE  Max(S) \in S /\ \A y \in S : Max(S) >= y
<1> DEFINE n == Cardinality(S)
<1>1. n \in Nat /\ ExistsBijection(1..n, S)
  BY FS_CardinalityType
<1>2. PICK f : f \in [1..n -> S] /\ \A x \in S : \E k \in 1..n : f[k] = x
  BY <1>1 DEF ExistsBijection, Bijection, Surjection, Injection
<1> HIDE DEF n
<1> DEFINE B == {m \in Nat : m <= n => \E top \in Nat : \A k \in 1..m : f[k] <= top}
<1>3. 0 \in B
  OBVIOUS
<1>4. ASSUME NEW m \in Nat, m \in B PROVE m + 1 \in B
  <2> SUFFICES ASSUME m + 1 <= n PROVE \E top \in Nat : \A k \in 1..(m + 1) : f[k] <= top
    OBVIOUS
  <2>1. PICK top \in Nat : \A k \in 1..m : f[k] <= top
    BY <1>1, <1>4
  <2>2. f[m + 1] \in Nat
    <3>1. m + 1 \in 1..n
      BY <1>1
    <3>2. f[m + 1] \in S
      BY <1>2, <3>1
    <3> QED
      BY <3>2, Zenon
  <2> DEFINE higher == IF f[m + 1] <= top THEN top ELSE f[m + 1]
  <2>3. higher \in Nat /\ top <= higher /\ f[m + 1] <= higher
    BY <2>2
  <2>4. ASSUME NEW k \in 1..(m + 1) PROVE f[k] <= higher
    <3>1. CASE k = m + 1
      BY <2>3, <3>1
    <3>2. CASE k # m + 1
      <4>1. k \in 1..m /\ k \in 1..n
        BY <1>1, <3>2
      <4>2. f[k] <= top /\ f[k] \in Nat
        BY <1>2, <2>1, <4>1, Zenon
      <4> HIDE DEF higher
      <4> QED
        BY <2>3, <4>2
    <3> QED
      BY <3>1, <3>2
  <2> HIDE DEF higher
  <2> QED
    BY <2>3, <2>4
<1> HIDE DEF B
<1>5. n \in B
  BY <1>1, <1>3, <1>4, SetInduction
<1> USE DEF B
<1>6. PICK top \in Nat : \A k \in 1..n : f[k] <= top
  BY <1>1, <1>5
<1>7. \A x \in S : x <= top
  BY <1>2, <1>6
<1> DEFINE D == {top - x : x \in S}
<1>8. D \subseteq Nat /\ D # {}
  <2>1. ASSUME NEW x \in S PROVE top - x \in Nat
    <3>1. x \in Nat /\ x <= top
      BY <1>7
    <3> QED
      BY <3>1
  <2> QED
    BY <2>1, Zenon
<1>9. Min(D) \in D /\ \A y \in D : Min(D) <= y
  BY <1>8, MinIs, Zenon
<1>10. PICK x \in S : Min(D) = top - x
  BY <1>9, Zenon
<1>11. \A y \in S : x >= y
  <2> SUFFICES ASSUME NEW y \in S PROVE x >= y
    OBVIOUS
  <2>1. top - y \in D
    OBVIOUS
  <2>2. top - x <= top - y
    BY <1>9, <1>10, <2>1, Zenon
  <2>3. x \in Nat /\ y \in Nat
    OBVIOUS
  <2> QED
    BY <2>2, <2>3
<1> QED
  BY <1>11, Zenon DEF Max

\* f starts at x and goes on by a step of its own, up to n.
Iterates(f, D, x, F, n) ==
  /\ f \in [0..n -> D]
  /\ f[0] = x
  /\ \A k \in 1..n : f[k] = F[<<k, f[k - 1]>>]

\* A function that starts anywhere and goes on by a step of its own exists.
LEMMA IterationIs ==
  ASSUME NEW D, NEW x0 \in D, NEW F \in [Nat \X D -> D], NEW N \in Nat
  PROVE  \E f : Iterates(f, D, x0, F, N)
<1> USE DEF Iterates
<1> DEFINE G(m, f) == Iterates(f, D, x0, F, m)
           S == {m \in Nat : \E f : G(m, f)}
<1>1. 0 \in S
  <2>1. G(0, [n \in 0..0 |-> x0])
    OBVIOUS
  <2> QED
    BY <2>1, Zenon
<1>2. ASSUME NEW m \in Nat, m \in S PROVE m + 1 \in S
  <2>1. PICK f : G(m, f)
    BY <1>2
  <2> DEFINE g == [n \in 0..(m + 1) |-> IF n <= m THEN f[n] ELSE F[<<m + 1, f[m]>>]]
  <2>2. f[m] \in D /\ F[<<m + 1, f[m]>>] \in D
    BY <2>1
  <2>3. \A n \in 0..m : g[n] = f[n] /\ f[n] \in D
    BY <2>1
  <2>4. g[m + 1] = F[<<m + 1, f[m]>>]
    OBVIOUS
  <2>5. g \in [0..(m + 1) -> D]
    <3>1. ASSUME NEW n \in 0..(m + 1) PROVE g[n] \in D
      <4>1. CASE n \in 0..m
        BY <2>3, <4>1, Zenon
      <4>2. CASE n = m + 1
        BY <2>2, <2>4, <4>2
      <4> QED
        BY <4>1, <4>2
    <3>2. g = [n \in 0..(m + 1) |-> g[n]]
      OBVIOUS
    <3> HIDE DEF g
    <3> QED
      BY <3>1, <3>2
  <2>6. g[0] = x0
    BY <2>1, <2>3
  <2>7. ASSUME NEW n \in 1..(m + 1) PROVE g[n] = F[<<n, g[n - 1]>>]
    <3>1. CASE n = m + 1
      <4>1. n - 1 = m /\ m \in 0..m
        BY <3>1
      <4> QED
        BY <2>3, <2>4, <3>1, <4>1, Zenon
    <3>2. CASE n # m + 1
      <4>1. n \in 1..m /\ n \in 0..m /\ n - 1 \in 0..m
        BY <3>2
      <4> HIDE DEF g
      <4> QED
        BY <2>1, <2>3, <4>1
    <3> QED
      BY <3>1, <3>2
  <2> HIDE DEF g
  <2>8. G(m + 1, g)
    BY <2>5, <2>6, <2>7
  <2> QED
    BY <2>8
<1> HIDE DEF S
<1>3. N \in S
  BY <1>1, <1>2, SetInduction
<1> USE DEF S
<1>4. PICK f : G(N, f)
  BY <1>3
<1> QED
  BY <1>4

LEMMA JoinedHas ==
  ASSUME NEW S, NEW s \in Seq(S), NEW t \in Seq(S)
  PROVE  s \o t \in Seq(S) /\ ToSet(s \o t) = ToSet(s) \cup ToSet(t)
<1>1. s \o t \in Seq(S) /\ Len(s \o t) = Len(s) + Len(t) /\ Len(s) \in Nat /\ Len(t) \in Nat
  OBVIOUS
<1>2. ASSUME NEW i \in DOMAIN s PROVE i \in DOMAIN (s \o t) /\ (s \o t)[i] = s[i]
  OBVIOUS
<1>3. ASSUME NEW i \in DOMAIN t
      PROVE  Len(s) + i \in DOMAIN (s \o t) /\ (s \o t)[Len(s) + i] = t[i]
  OBVIOUS
<1>4. ASSUME NEW k \in DOMAIN (s \o t)
      PROVE  (k \in DOMAIN s /\ (s \o t)[k] = s[k]) \/ (k - Len(s) \in DOMAIN t /\ (s \o t)[k] = t[k - Len(s)])
  OBVIOUS
<1>5. \A x : x \in ToSet(s \o t) => x \in ToSet(s) \cup ToSet(t)
  BY <1>4 DEF ToSet
<1>6. \A x : x \in ToSet(s) \cup ToSet(t) => x \in ToSet(s \o t)
  BY <1>2, <1>3, Zenon DEF ToSet
<1> QED
  BY <1>1, <1>5, <1>6

\* Flattened, sequences are a sequence with the members of theirs.
LEMMA FlattenedHas ==
  ASSUME NEW S, NEW seqs \in Seq(Seq(S))
  PROVE  /\ FlattenSeq(seqs) \in Seq(S)
         /\ \A i \in DOMAIN seqs : ToSet(seqs[i]) \subseteq ToSet(FlattenSeq(seqs))
         /\ \A x \in ToSet(FlattenSeq(seqs)) : \E i \in DOMAIN seqs : x \in ToSet(seqs[i])
<1> DEFINE n == Len(seqs)
           Joins(g) == g = [i \in 1..n |-> IF i = 1 THEN seqs[i] ELSE g[i - 1] \o seqs[i]]
           h == CHOOSE g : Joins(g)
           X == Seq(S)
           F == [p \in Nat \X X |-> IF p[1] = 1 THEN seqs[1]
                                    ELSE IF p[1] \in 1..n THEN p[2] \o seqs[p[1]] ELSE <<>>]
<1>0. n \in Nat /\ DOMAIN seqs = 1..n /\ \A i \in 1..n : seqs[i] \in X
  OBVIOUS
<1>1. CASE n = 0
  BY <1>0, <1>1 DEF FlattenSeq, ToSet
<1>2. CASE n # 0
  <2>1. FlattenSeq(seqs) = h[n]
    BY <1>2 DEF FlattenSeq
  <2>2. F \in [Nat \X X -> X]
    <3>1. ASSUME NEW p \in Nat \X X
          PROVE  (IF p[1] = 1 THEN seqs[1]
                  ELSE IF p[1] \in 1..n THEN p[2] \o seqs[p[1]] ELSE <<>>) \in X
      <4>1. CASE p[1] = 1
        BY <1>0, <1>2, <4>1
      <4>2. CASE p[1] # 1 /\ p[1] \in 1..n
        <5>1. seqs[p[1]] \in X /\ p[2] \in X
          BY <1>0, <4>2
        <5> QED
          BY <4>2, <5>1, JoinedHas
      <4>3. CASE p[1] # 1 /\ p[1] \notin 1..n
        BY <4>3
      <4> QED
        BY <4>1, <4>2, <4>3
    <3> QED
      BY <3>1
  <2>3. \A k \in Nat, x \in X : k \in 1..n => F[<<k, x>>] = IF k = 1 THEN seqs[1] ELSE x \o seqs[k]
    OBVIOUS
  <2>4. <<>> \in X
    OBVIOUS
  <2> HIDE DEF F
  <2>5. PICK f : Iterates(f, X, <<>>, F, n)
    <3>1. n \in Nat
      OBVIOUS
    <3> HIDE DEF X, n
    <3> QED
      BY <2>2, <2>4, <3>1, IterationIs, Zenon
  <2> USE DEF Iterates
  <2> DEFINE g == [k \in 1..n |-> f[k]]
  <2>6. Joins(g)
    <3>1. ASSUME NEW k \in 1..n PROVE g[k] = IF k = 1 THEN seqs[k] ELSE g[k - 1] \o seqs[k]
      <4>1. k \in Nat /\ k - 1 \in 0..n /\ f[k - 1] \in X /\ g[k] = f[k]
        <5>1. n \in Nat
          OBVIOUS
        <5> HIDE DEF n, X
        <5> QED
          BY <2>5, <5>1
      <4>2. f[k] = IF k = 1 THEN seqs[1] ELSE f[k - 1] \o seqs[k]
        BY <2>3, <2>5, <4>1, Zenon
      <4>3. k # 1 => g[k - 1] = f[k - 1]
        BY <1>0
      <4> QED
        BY <4>1, <4>2, <4>3
    <3> QED
      BY <3>1, Zenon
  <2> HIDE DEF Joins
  <2>7. Joins(h)
    BY <2>6, Zenon
  <2> USE DEF Joins
  <2>8. \A k \in 1..n : h[k] = IF k = 1 THEN seqs[k] ELSE h[k - 1] \o seqs[k]
    BY <2>7, Zenon
  <2> HIDE DEF h, Joins
  <2> DEFINE T == {m \in Nat : m \in 1..n =>
                     /\ h[m] \in X
                     /\ \A i \in 1..m : ToSet(seqs[i]) \subseteq ToSet(h[m])
                     /\ \A x \in ToSet(h[m]) : \E i \in 1..m : x \in ToSet(seqs[i])}
  <2>9. 0 \in T
    OBVIOUS
  <2>10. ASSUME NEW m \in Nat, m \in T PROVE m + 1 \in T
    <3>1. CASE m + 1 \notin 1..n
      BY <3>1
    <3>2. CASE m + 1 \in 1..n /\ m = 0
      BY <1>0, <2>8, <3>2
    <3>3. CASE m + 1 \in 1..n /\ m # 0
      <4>1. m \in 1..n /\ m + 1 # 1 /\ (m + 1) - 1 = m
        BY <1>0, <3>3
      <4>2. h[m + 1] = h[m] \o seqs[m + 1]
        BY <2>8, <3>3, <4>1, Zenon
      <4>3. h[m] \in X /\ seqs[m + 1] \in X
        BY <1>0, <2>10, <3>3, <4>1
      <4>4. /\ h[m + 1] \in X
            /\ ToSet(h[m + 1]) = ToSet(h[m]) \cup ToSet(seqs[m + 1])
        BY <4>2, <4>3, JoinedHas
      <4>5. /\ \A i \in 1..m : ToSet(seqs[i]) \subseteq ToSet(h[m])
            /\ \A x \in ToSet(h[m]) : \E i \in 1..m : x \in ToSet(seqs[i])
        BY <2>10, <4>1
      <4>6. /\ \A i \in 1..(m + 1) : i \in 1..m \/ i = m + 1
            /\ m + 1 \in 1..(m + 1) /\ \A i \in 1..m : i \in 1..(m + 1)
        OBVIOUS
      <4>7. /\ \A i \in 1..(m + 1) : ToSet(seqs[i]) \subseteq ToSet(h[m + 1])
            /\ \A x \in ToSet(h[m + 1]) : \E i \in 1..(m + 1) : x \in ToSet(seqs[i])
        BY <4>4, <4>5, <4>6
      <4>8. m + 1 \in Nat
        OBVIOUS
      <4> HIDE DEF X, n
      <4> QED
        BY <4>4, <4>7, <4>8, Zenon
    <3> QED
      BY <3>1, <3>2, <3>3
  <2> HIDE DEF T
  <2>11. n \in T
    BY <1>0, <2>9, <2>10, SetInduction, Zenon
  <2> USE DEF T
  <2>12. /\ h[n] \in X
         /\ \A i \in 1..n : ToSet(seqs[i]) \subseteq ToSet(h[n])
         /\ \A x \in ToSet(h[n]) : \E i \in 1..n : x \in ToSet(seqs[i])
    <3>1. n \in 1..n
      BY <1>0, <1>2
    <3> HIDE DEF n, X
    <3> QED
      BY <2>11, <3>1
  <2> HIDE DEF T
  <2> QED
    BY <1>0, <2>1, <2>12, Zenon
<1> QED
  BY <1>0, <1>1, <1>2

-----------------------------------------------------------------------------
(***************************************************************************)
(* Validation: what a run refuses before its first request, for any suite  *)
(* and any depth, and what it may still meet.  Doomed and TooDeep are what *)
(* their equations say for any suite; Depths is when the walk over the     *)
(* catalog is done, which carries such a function along (BuildInv).        *)
(* CheckInv says what the steps behind the check's place are, however deep *)
(* it is in includes, and CallsInv what the steps before the run's place   *)
(* can be.                                                                 *)
(***************************************************************************)
\* A finite set in a sequence is all there.
LEMMA ListedHas ==
  ASSUME NEW S, IsFiniteSet(S)
  PROVE  SetToSeq(S) \in Seq(S) /\ \A x \in S : \E i \in DOMAIN SetToSeq(S) : SetToSeq(S)[i] = x
<1> DEFINE n == Cardinality(S)
           s == SetToSeq(S)
<1>1. n \in Nat /\ ExistsBijection(1..n, S)
  BY FS_CardinalityType
<1>2. \E f \in [1..n -> S] : IsInjective(f)
  BY <1>1 DEF ExistsBijection, Bijection, Injection
<1>3. s \in [1..n -> S] /\ IsInjective(s)
  BY <1>2 DEF SetToSeq
<1> HIDE DEF s
<1>4. s \in Injection(1..n, S)
  BY <1>3 DEF Injection
<1>5. Cardinality(1..n) = n
  <2>1. Cardinality(1..n) = IF 1 > n THEN 0 ELSE n - 1 + 1
    BY <1>1, FS_Interval
  <2> QED
    BY <1>1, <2>1
<1>6. s \in Surjection(1..n, S)
  BY <1>4, <1>5, FS_Injection
<1>7. DOMAIN s = 1..n /\ \A x \in S : \E i \in 1..n : s[i] = x
  BY <1>3, <1>6 DEF Surjection
<1>8. s \in Seq(S)
  BY <1>1, <1>3
<1> QED
  BY <1>7, <1>8 DEF s

\* The members of a sequence are finitely many.
LEMMA MembersAreFinite ==
  ASSUME NEW S, NEW s \in Seq(S)
  PROVE  IsFiniteSet(ToSet(s))
<1>1. Len(s) \in Nat /\ DOMAIN s = 1..Len(s)
  OBVIOUS
<1>2. IsFiniteSet(1..Len(s))
  BY <1>1, FS_Interval
<1>3. s \in Surjection(1..Len(s), ToSet(s))
  <2>1. s \in [1..Len(s) -> ToSet(s)]
    BY <1>1 DEF ToSet
  <2> QED
    BY <1>1, <2>1 DEF Surjection, ToSet
<1> QED
  BY <1>2, <1>3, FS_Surjection

LEMMA SuiteIs ==
  ASSUME suite \in Suites
  PROVE  /\ MaxDepth \in Nat /\ MaxDepth >= 1
         /\ suite.macros \in Seq(Seq(StepsOf(suite))) /\ suite.selected \in Seq(DOMAIN suite.own)
         /\ \A sc \in DOMAIN suite.own :
              suite.own[sc] \in Seq(StepsOf(suite)) /\ suite.blocks[sc] \in Seq(DOMAIN suite.background)
         /\ \A b \in DOMAIN suite.background : suite.background[b] \in Seq(StepsOf(suite))
BY ValidationAssumption DEF ValidationAssumption

LEMMA BackgroundsHave ==
  ASSUME suite \in Suites, NEW blocks \in Seq(DOMAIN suite.background)
  PROVE  /\ Backgrounds(blocks) \in Seq(StepsOf(suite))
         /\ \A step : step \in ToSet(Backgrounds(blocks)) <=>
              \E b \in ToSet(blocks) : step \in ToSet(suite.background[b])
<1> DEFINE seqs == [i \in DOMAIN blocks |-> suite.background[blocks[i]]]
           X == StepsOf(suite)
<1>1. \A i \in DOMAIN blocks : blocks[i] \in DOMAIN suite.background /\ suite.background[blocks[i]] \in Seq(X)
  BY SuiteIs
<1>2. Len(blocks) \in Nat /\ DOMAIN blocks = 1..Len(blocks)
  OBVIOUS
<1> HIDE DEF X
<1>3. seqs \in Seq(Seq(X)) /\ DOMAIN seqs = DOMAIN blocks
  BY <1>1, <1>2
<1>4. \A i \in DOMAIN blocks : seqs[i] = suite.background[blocks[i]]
  OBVIOUS
<1>5. Backgrounds(blocks) = FlattenSeq(seqs)
  BY DEF Backgrounds
<1> HIDE DEF seqs
<1>6. /\ FlattenSeq(seqs) \in Seq(X)
      /\ \A i \in DOMAIN seqs : ToSet(seqs[i]) \subseteq ToSet(FlattenSeq(seqs))
      /\ \A x \in ToSet(FlattenSeq(seqs)) : \E i \in DOMAIN seqs : x \in ToSet(seqs[i])
  BY <1>3, FlattenedHas
<1>7. \A b : b \in ToSet(blocks) <=> \E i \in DOMAIN blocks : b = blocks[i]
  BY DEF ToSet
<1>8. \A step : step \in ToSet(Backgrounds(blocks)) <=>
        \E b \in ToSet(blocks) : step \in ToSet(suite.background[b])
  <2>1. ASSUME NEW step \in ToSet(Backgrounds(blocks))
        PROVE  \E b \in ToSet(blocks) : step \in ToSet(suite.background[b])
    <3>1. PICK i \in DOMAIN seqs : step \in ToSet(seqs[i])
      BY <1>5, <1>6
    <3> QED
      BY <1>3, <1>4, <1>7, <3>1, Zenon
  <2>2. ASSUME NEW b \in ToSet(blocks), NEW step \in ToSet(suite.background[b])
        PROVE  step \in ToSet(Backgrounds(blocks))
    <3>1. PICK i \in DOMAIN blocks : b = blocks[i]
      BY <1>7
    <3> QED
      BY <1>3, <1>4, <1>5, <1>6, <2>2, <3>1
  <2> QED
    BY <2>1, <2>2
<1> QED
  BY <1>5, <1>6, <1>8 DEF X

LEMMA StepsAre ==
  ASSUME suite \in Suites, NEW sc \in DOMAIN suite.own
  PROVE  /\ Steps(sc) \in Seq(StepsOf(suite))
         /\ \A step : step \in ToSet(Steps(sc)) <=>
              \/ \E b \in ToSet(suite.blocks[sc]) : step \in ToSet(suite.background[b])
              \/ step \in ToSet(suite.own[sc])
<1>1. suite.own[sc] \in Seq(StepsOf(suite)) /\ suite.blocks[sc] \in Seq(DOMAIN suite.background)
  BY SuiteIs
<1>2. /\ Backgrounds(suite.blocks[sc]) \in Seq(StepsOf(suite))
      /\ \A step : step \in ToSet(Backgrounds(suite.blocks[sc])) <=>
           \E b \in ToSet(suite.blocks[sc]) : step \in ToSet(suite.background[b])
  BY <1>1, BackgroundsHave
<1>3. /\ Steps(sc) \in Seq(StepsOf(suite))
      /\ ToSet(Steps(sc)) = ToSet(Backgrounds(suite.blocks[sc])) \cup ToSet(suite.own[sc])
  BY <1>1, <1>2, JoinedHas DEF Steps
<1> QED
  BY <1>2, <1>3

\* The steps the check goes over have every step of a selected scenario.
LEMMA SelectedStepsAre ==
  ASSUME suite \in Suites
  PROVE  /\ SelectedSteps \in Seq(StepsOf(suite))
         /\ \A sc \in ToSet(suite.selected) :
              sc \in DOMAIN suite.own /\ ToSet(Steps(sc)) \subseteq ToSet(SelectedSteps)
<1> DEFINE D == DOMAIN suite.selected
           X == StepsOf(suite)
           open(i) == ToSet(suite.blocks[suite.selected[i]])
           opens == {open(i) : i \in D}
           blocks == SetToSeq(UNION opens)
           owns == [i \in D |-> suite.own[suite.selected[i]]]
<1>1. /\ Len(suite.selected) \in Nat /\ D = 1..Len(suite.selected)
      /\ \A i \in D : /\ suite.selected[i] \in DOMAIN suite.own
                      /\ suite.own[suite.selected[i]] \in Seq(X)
                      /\ suite.blocks[suite.selected[i]] \in Seq(DOMAIN suite.background)
  BY SuiteIs
<1>2. \A i \in D : IsFiniteSet(open(i)) /\ open(i) \subseteq DOMAIN suite.background
  <2> TAKE i \in D
  <2>1. IsFiniteSet(open(i))
    BY <1>1, MembersAreFinite
  <2>2. open(i) \subseteq DOMAIN suite.background
    BY <1>1 DEF ToSet
  <2> QED
    BY <2>1, <2>2
<1>3. IsFiniteSet(opens)
  <2> DEFINE f == [i \in D |-> open(i)]
  <2>1. IsFiniteSet(D)
    BY <1>1, FS_Interval
  <2>2. f \in Surjection(D, opens)
    BY DEF Surjection
  <2> QED
    BY <2>1, <2>2, FS_Surjection
<1>4. IsFiniteSet(UNION opens)
  BY <1>2, <1>3, FS_UNION
<1>5. UNION opens \subseteq DOMAIN suite.background
  BY <1>2
<1>6. blocks \in Seq(UNION opens) /\ \A x \in UNION opens : \E i \in DOMAIN blocks : blocks[i] = x
  BY <1>4, ListedHas, Zenon
<1>7. blocks \in Seq(DOMAIN suite.background) /\ \A x \in UNION opens : x \in ToSet(blocks)
  <2> HIDE DEF opens, blocks
  <2>1. \A i \in DOMAIN blocks : blocks[i] \in UNION opens
    BY <1>6
  <2>2. Len(blocks) \in Nat /\ DOMAIN blocks = 1..Len(blocks) /\ blocks = [i \in 1..Len(blocks) |-> blocks[i]]
    BY <1>6
  <2>3. blocks \in Seq(DOMAIN suite.background)
    BY <1>5, <2>1, <2>2
  <2> QED
    BY <1>6, <2>3 DEF ToSet
<1>8. SelectedSteps = Backgrounds(blocks) \o FlattenSeq(owns)
  BY DEF SelectedSteps
<1>9. owns \in Seq(Seq(X)) /\ DOMAIN owns = D /\ \A i \in D : owns[i] = suite.own[suite.selected[i]]
  <2> HIDE DEF X
  <2> QED
    BY <1>1
<1>10. \A i \in D : \A x \in open(i) : x \in UNION opens
  OBVIOUS
<1> HIDE DEF blocks, owns, opens
<1>11. FlattenSeq(owns) \in Seq(X) /\ \A i \in D : ToSet(owns[i]) \subseteq ToSet(FlattenSeq(owns))
  BY <1>9, FlattenedHas
<1>12. /\ Backgrounds(blocks) \in Seq(X)
       /\ \A step : step \in ToSet(Backgrounds(blocks)) <=>
            \E b \in ToSet(blocks) : step \in ToSet(suite.background[b])
  BY <1>7, BackgroundsHave
<1>13. /\ SelectedSteps \in Seq(X)
       /\ ToSet(SelectedSteps) = ToSet(Backgrounds(blocks)) \cup ToSet(FlattenSeq(owns))
  BY <1>8, <1>11, <1>12, JoinedHas
<1>14. ASSUME NEW sc \in ToSet(suite.selected)
       PROVE  sc \in DOMAIN suite.own /\ ToSet(Steps(sc)) \subseteq ToSet(SelectedSteps)
  <2>1. PICK i \in D : sc = suite.selected[i]
    BY DEF ToSet
  <2>2. sc \in DOMAIN suite.own
    BY <1>1, <2>1
  <2>3. ASSUME NEW step \in ToSet(Steps(sc)) PROVE step \in ToSet(SelectedSteps)
    <3>1. \/ \E b \in ToSet(suite.blocks[sc]) : step \in ToSet(suite.background[b])
          \/ step \in ToSet(suite.own[sc])
      BY <2>2, StepsAre
    <3>2. CASE step \in ToSet(suite.own[sc])
      BY <1>9, <1>11, <1>13, <2>1, <3>2
    <3>3. ASSUME NEW b \in ToSet(suite.blocks[sc]), step \in ToSet(suite.background[b])
          PROVE  step \in ToSet(SelectedSteps)
      <4>1. b \in open(i)
        BY <2>1, <3>3
      <4>2. b \in ToSet(blocks)
        BY <1>7, <1>10, <4>1, Zenon
      <4> QED
        BY <1>12, <1>13, <3>3, <4>2
    <3> QED
      BY <3>1, <3>2, <3>3
  <2> QED
    BY <2>2, <2>3
<1> QED
  BY <1>13, <1>14

\* The steps of a suite, one by one.
LEMMA StepIs ==
  ASSUME suite \in Suites, NEW steps \in Seq(StepsOf(suite)), NEW step \in ToSet(steps)
  PROVE  /\ step \in StepsOf(suite)
         /\ step.kind \in {"known", "bad", "lost", "macro", "include"}
         /\ step.kind = "macro" => step.to \in DOMAIN suite.macros
         /\ step.kind = "include" => step.to \in DOMAIN suite.own
<1>1. step \in StepsOf(suite)
  BY DEF ToSet
<1> QED
  BY <1>1 DEF StepsOf

\* A step that is refused, or leads to what nests deeper than n more includes.
Breaks(step, n) ==
  \/ step.kind \in {"bad", "lost"}
  \/ step.kind = "include" /\ Doomed[n][step.to]

\* Doomed is what its equation says.
LEMMA DoomedIs ==
  ASSUME suite \in Suites, NEW n \in 0..MaxDepth, NEW sc \in DOMAIN suite.own
  PROVE  Doomed[n][sc] <=> n = 0 \/ \E step \in ToSet(Steps(sc)) : Breaks(step, n - 1)
<1> DEFINE D == [DOMAIN suite.own -> BOOLEAN]
           Doom(g, s) == \E step \in ToSet(Steps(s)) :
                           \/ step.kind \in {"bad", "lost"}
                           \/ step.kind = "include" /\ g[step.to]
           F == [p \in Nat \X D |-> [s \in DOMAIN suite.own |-> Doom(p[2], s)]]
           all == [s \in DOMAIN suite.own |-> TRUE]
           Dooms(g) == g = [k \in 0..MaxDepth |-> [s \in DOMAIN suite.own |-> k = 0 \/ Doom(g[k - 1], s)]]
<1>1. MaxDepth \in Nat
  BY SuiteIs
<1>2. Doomed = CHOOSE g : Dooms(g)
  BY DEF Doomed
<1> HIDE DEF Doom
<1>3. all \in D /\ F \in [Nat \X D -> D]
  <2>1. ASSUME NEW p \in Nat \X D PROVE [s \in DOMAIN suite.own |-> Doom(p[2], s)] \in D
    <3>1. \A s \in DOMAIN suite.own : Doom(p[2], s) \in BOOLEAN
      BY DEF Doom
    <3> QED
      BY <3>1
  <2> QED
    BY <2>1
<1>4. \A k \in Nat, g \in D : F[<<k, g>>] = [s \in DOMAIN suite.own |-> Doom(g, s)]
  OBVIOUS
<1>5. \A s \in DOMAIN suite.own : all[s] = TRUE
  OBVIOUS
<1> HIDE DEF F, D, Dooms
<1>6. PICK f : Iterates(f, D, all, F, MaxDepth)
  BY <1>1, <1>3, IterationIs, Zenon
<1>7. ASSUME NEW k \in 0..MaxDepth
      PROVE  f[k] = [s \in DOMAIN suite.own |-> k = 0 \/ Doom(f[k - 1], s)]
  <2>1. CASE k = 0
    <3>1. f[0] = all
      BY <1>6 DEF Iterates
    <3> QED
      BY <2>1, <3>1, Zenon
  <2>2. CASE k # 0
    <3>1. k \in 1..MaxDepth /\ k - 1 \in 0..MaxDepth /\ k \in Nat
      BY <1>1, <2>2
    <3>2. f[k - 1] \in D /\ f[k] = F[<<k, f[k - 1]>>]
      BY <1>6, <3>1 DEF Iterates
    <3>3. f[k] = [s \in DOMAIN suite.own |-> Doom(f[k - 1], s)]
      BY <1>4, <3>1, <3>2
    <3>4. \A s \in DOMAIN suite.own : Doom(f[k - 1], s) = (k = 0 \/ Doom(f[k - 1], s))
      BY <2>2, Zenon DEF Doom
    <3> QED
      BY <3>3, <3>4
  <2> QED
    BY <2>1, <2>2
<1>8. Dooms(f)
  <2>1. f \in [0..MaxDepth -> D]
    BY <1>6 DEF Iterates
  <2> QED
    BY <1>7, <2>1 DEF Dooms
<1>9. Dooms(Doomed)
  BY <1>2, <1>8, Zenon
<1>10. Doomed[n] = [s \in DOMAIN suite.own |-> n = 0 \/ Doom(Doomed[n - 1], s)]
  BY <1>9, Zenon DEF Dooms
<1>11. Doomed[n][sc] <=> n = 0 \/ Doom(Doomed[n - 1], sc)
  BY <1>10, Zenon
<1> QED
  BY <1>11 DEF Doom, Breaks

\* So is TooDeep.
LEMMA TooDeepIs ==
  ASSUME suite \in Suites, NEW n \in 0..MaxDepth, NEW m \in DOMAIN suite.macros
  PROVE  TooDeep[n][m] <=> n = 0 \/ \E c \in Called(m) : TooDeep[n - 1][c]
<1> DEFINE D == [DOMAIN suite.macros -> BOOLEAN]
           Deep(g, s) == \E step \in ToSet(suite.macros[s]) : step.kind = "macro" /\ g[step.to]
           F == [p \in Nat \X D |-> [s \in DOMAIN suite.macros |-> Deep(p[2], s)]]
           all == [s \in DOMAIN suite.macros |-> TRUE]
           Deeps(g) == g = [k \in 0..MaxDepth |-> [s \in DOMAIN suite.macros |-> k = 0 \/ Deep(g[k - 1], s)]]
<1>1. MaxDepth \in Nat
  BY SuiteIs
<1>2. TooDeep = CHOOSE g : Deeps(g)
  BY DEF TooDeep
<1> HIDE DEF Deep
<1>3. all \in D /\ F \in [Nat \X D -> D]
  <2>1. ASSUME NEW p \in Nat \X D PROVE [s \in DOMAIN suite.macros |-> Deep(p[2], s)] \in D
    <3>1. \A s \in DOMAIN suite.macros : Deep(p[2], s) \in BOOLEAN
      BY DEF Deep
    <3> QED
      BY <3>1
  <2> QED
    BY <2>1
<1>4. \A k \in Nat, g \in D : F[<<k, g>>] = [s \in DOMAIN suite.macros |-> Deep(g, s)]
  OBVIOUS
<1>5. \A s \in DOMAIN suite.macros : all[s] = TRUE
  OBVIOUS
<1> HIDE DEF F, D, Deeps
<1>6. PICK f : Iterates(f, D, all, F, MaxDepth)
  BY <1>1, <1>3, IterationIs, Zenon
<1>7. ASSUME NEW k \in 0..MaxDepth
      PROVE  f[k] = [s \in DOMAIN suite.macros |-> k = 0 \/ Deep(f[k - 1], s)]
  <2>1. CASE k = 0
    <3>1. f[0] = all
      BY <1>6 DEF Iterates
    <3> QED
      BY <2>1, <3>1, Zenon
  <2>2. CASE k # 0
    <3>1. k \in 1..MaxDepth /\ k - 1 \in 0..MaxDepth /\ k \in Nat
      BY <1>1, <2>2
    <3>2. f[k - 1] \in D /\ f[k] = F[<<k, f[k - 1]>>]
      BY <1>6, <3>1 DEF Iterates
    <3>3. f[k] = [s \in DOMAIN suite.macros |-> Deep(f[k - 1], s)]
      BY <1>4, <3>1, <3>2
    <3>4. \A s \in DOMAIN suite.macros : Deep(f[k - 1], s) = (k = 0 \/ Deep(f[k - 1], s))
      BY <2>2, Zenon DEF Deep
    <3> QED
      BY <3>3, <3>4
  <2> QED
    BY <2>1, <2>2
<1>8. Deeps(f)
  <2>1. f \in [0..MaxDepth -> D]
    BY <1>6 DEF Iterates
  <2> QED
    BY <1>7, <2>1 DEF Deeps
<1>9. Deeps(TooDeep)
  BY <1>2, <1>8, Zenon
<1>10. TooDeep[n] = [s \in DOMAIN suite.macros |-> n = 0 \/ Deep(TooDeep[n - 1], s)]
  BY <1>9, Zenon DEF Deeps
<1>11. TooDeep[n][m] <=> n = 0 \/ Deep(TooDeep[n - 1], m)
  BY <1>10, Zenon
<1> QED
  BY <1>11 DEF Deep, Called, CallsIn, ToSet

\* What is read off the suite alone stays with it.
LEMMA SuiteStays ==
  ASSUME suite' = suite
  PROVE  /\ Depths' = Depths /\ Doomed' = Doomed /\ TooDeep' = TooDeep
         /\ SelectedSteps' = SelectedSteps
<1>1. Depths' = Depths
  BY DEF Depths, Called, CallsIn
<1>2. Doomed' = Doomed
  BY DEF Doomed, Steps, Backgrounds
<1>3. TooDeep' = TooDeep
  BY DEF TooDeep
<1>4. SelectedSteps' = SelectedSteps
  BY DEF SelectedSteps, Backgrounds
<1> QED
  BY <1>1, <1>2, <1>3, <1>4

-----------------------------------------------------------------------------
\* The catalog of macros.
LEMMA CalledAre ==
  ASSUME suite \in Suites, NEW m \in DOMAIN suite.macros
  PROVE  /\ Called(m) \subseteq DOMAIN suite.macros /\ IsFiniteSet(Called(m))
         /\ CallsIn(m) \subseteq Nat
         /\ \A i \in CallsIn(m) : suite.macros[m][i].to \in Called(m)
<1>1. suite.macros[m] \in Seq(StepsOf(suite))
  BY SuiteIs
<1>2. Len(suite.macros[m]) \in Nat /\ DOMAIN suite.macros[m] = 1..Len(suite.macros[m])
  BY <1>1
<1>3. ASSUME NEW i \in CallsIn(m)
      PROVE  suite.macros[m][i].to \in DOMAIN suite.macros /\ i \in 1..Len(suite.macros[m])
  <2>1. i \in DOMAIN suite.macros[m] /\ suite.macros[m][i].kind = "macro"
    BY DEF CallsIn
  <2>2. suite.macros[m][i] \in ToSet(suite.macros[m])
    BY <2>1 DEF ToSet
  <2> QED
    BY <1>1, <1>2, <2>1, <2>2, StepIs
<1>4. IsFiniteSet(CallsIn(m))
  <2>1. CallsIn(m) \subseteq 1..Len(suite.macros[m])
    BY <1>3
  <2>2. IsFiniteSet(1..Len(suite.macros[m]))
    BY <1>2, FS_Interval
  <2> QED
    BY <2>1, <2>2, FS_Subset
<1>5. IsFiniteSet(Called(m))
  <2> DEFINE f == [i \in CallsIn(m) |-> suite.macros[m][i].to]
  <2>1. f \in Surjection(CallsIn(m), Called(m))
    BY DEF Surjection, Called
  <2> QED
    BY <1>4, <2>1, FS_Surjection
<1>6. CallsIn(m) \subseteq Nat
  BY <1>2, <1>3
<1> QED
  BY <1>3, <1>5, <1>6 DEF Called

\* d gives every macro of a set one more than the most it gives one it calls.
Heaviest(d, m) == Max({0} \cup {d[c] : c \in Called(m)})
Weighs(d, done) == \A m \in done : d[m] \in Nat /\ d[m] = 1 + Heaviest(d, m)

LEMMA HeaviestIs ==
  ASSUME suite \in Suites, NEW m \in DOMAIN suite.macros, NEW d, \A c \in Called(m) : d[c] \in Nat
  PROVE  /\ Heaviest(d, m) \in Nat
         /\ \A c \in Called(m) : d[c] <= Heaviest(d, m)
         /\ Heaviest(d, m) = 0 \/ \E c \in Called(m) : d[c] = Heaviest(d, m)
<1> DEFINE V == {d[c] : c \in Called(m)}
           S == {0} \cup V
<1>1. IsFiniteSet(Called(m))
  BY CalledAre
<1>2. IsFiniteSet(V)
  <2> DEFINE f == [c \in Called(m) |-> d[c]]
  <2>1. f \in Surjection(Called(m), V)
    BY DEF Surjection
  <2> QED
    BY <1>1, <2>1, FS_Surjection
<1>3. IsFiniteSet({0})
  BY FS_Singleton, Zenon
<1>4. IsFiniteSet(S)
  BY <1>2, <1>3, FS_Union, Zenon
<1>5. S \subseteq Nat /\ S \subseteq Int /\ S # {} /\ \A c \in Called(m) : d[c] \in S
  OBVIOUS
<1>6. \A x \in S : x = 0 \/ \E c \in Called(m) : d[c] = x
  OBVIOUS
<1>7. Heaviest(d, m) = Max(S)
  BY DEF Heaviest
<1> HIDE DEF S
<1>8. Max(S) \in S /\ \A y \in S : Max(S) >= y
  BY <1>4, <1>5, MaxIs, Zenon
<1> QED
  BY <1>5, <1>6, <1>7, <1>8, Zenon

\* The weights are the depths, and Depths has no other.
LEMMA DepthsWeigh ==
  ASSUME suite \in Suites, NEW d, Weighs(d, DOMAIN suite.macros)
  PROVE  Weighs(Depths, DOMAIN suite.macros)
<1> DEFINE M == DOMAIN suite.macros
           Solves(g) == g = [m \in M |-> 1 + Heaviest(g, m)]
           e == [m \in M |-> d[m]]
<1>1. Depths = CHOOSE g : Solves(g)
  BY DEF Depths, Heaviest
<1>2. \A m \in M : Called(m) \subseteq M
  BY CalledAre
<1>3. ASSUME NEW m \in M PROVE Heaviest(e, m) = Heaviest(d, m)
  <2>1. {e[c] : c \in Called(m)} = {d[c] : c \in Called(m)}
    BY <1>2, Zenon
  <2> QED
    BY <2>1, Zenon DEF Heaviest
<1>4. Solves(e)
  BY <1>3 DEF Weighs
<1>5. Solves(Depths)
  <2> HIDE DEF Solves
  <2> QED
    BY <1>1, <1>4, Zenon
<1>6. \A m \in M : Depths[m] = 1 + Heaviest(Depths, m)
  BY <1>5
<1> DEFINE S == {n \in Nat : \A m \in M : d[m] <= n => Depths[m] = d[m]}
<1> HIDE DEF Solves, e
<1>7. \A m \in M : /\ d[m] \in Nat /\ d[m] = 1 + Heaviest(d, m) /\ Heaviest(d, m) \in Nat
                   /\ \A c \in Called(m) : c \in M /\ d[c] \in Nat /\ d[c] <= Heaviest(d, m)
  <2> TAKE m \in M
  <2>1. \A c \in Called(m) : c \in M /\ d[c] \in Nat
    BY <1>2 DEF Weighs
  <2> QED
    BY <2>1, HeaviestIs DEF Weighs
<1>8. 0 \in S
  BY <1>7
<1>9. ASSUME NEW n \in Nat, n \in S PROVE n + 1 \in S
  <2>1. ASSUME NEW m \in M, d[m] <= n + 1 PROVE Depths[m] = d[m]
    <3>1. \A c \in Called(m) : Depths[c] = d[c]
      BY <1>7, <1>9, <2>1
    <3>2. {Depths[c] : c \in Called(m)} = {d[c] : c \in Called(m)}
      BY <3>1
    <3>3. Heaviest(Depths, m) = Heaviest(d, m)
      BY <3>2, Zenon DEF Heaviest
    <3> QED
      BY <1>6, <1>7, <3>3
  <2> QED
    BY <2>1
<1>10. ASSUME NEW m \in M PROVE Depths[m] = d[m]
  <2>1. d[m] \in Nat
    BY <1>7
  <2> HIDE DEF S
  <2>2. d[m] \in S
    BY <1>8, <1>9, <2>1, SetInduction
  <2> USE DEF S
  <2> QED
    BY <2>1, <2>2
<1> QED
  BY <1>6, <1>7, <1>10 DEF Weighs

\* What weighs more than n does not fit in n levels.
LEMMA WeightsNest ==
  ASSUME suite \in Suites, NEW d, Weighs(d, DOMAIN suite.macros), NEW n \in 0..MaxDepth
  PROVE  \A m \in DOMAIN suite.macros : TooDeep[n][m] <=> d[m] > n
<1> DEFINE M == DOMAIN suite.macros
           S == {k \in Nat : k \in 0..MaxDepth => \A m \in M : TooDeep[k][m] <=> d[m] > k}
<1>1. MaxDepth \in Nat
  BY SuiteIs
<1>2. \A m \in M : /\ d[m] \in Nat /\ d[m] = 1 + Heaviest(d, m) /\ Heaviest(d, m) \in Nat
                   /\ \A c \in Called(m) : c \in M /\ d[c] \in Nat /\ d[c] <= Heaviest(d, m)
                   /\ Heaviest(d, m) = 0 \/ \E c \in Called(m) : d[c] = Heaviest(d, m)
  <2> TAKE m \in M
  <2>1. \A c \in Called(m) : c \in M /\ d[c] \in Nat
    BY CalledAre DEF Weighs
  <2> QED
    BY <2>1, HeaviestIs DEF Weighs
<1>3. 0 \in S
  <2>1. ASSUME NEW m \in M, 0 \in 0..MaxDepth PROVE TooDeep[0][m] /\ d[m] > 0
    BY <1>2, <2>1, TooDeepIs
  <2> QED
    BY <2>1
<1>4. ASSUME NEW k \in Nat, k \in S PROVE k + 1 \in S
  <2>1. ASSUME k + 1 \in 0..MaxDepth, NEW m \in M PROVE TooDeep[k + 1][m] <=> d[m] > k + 1
    <3>1. k \in 0..MaxDepth /\ (k + 1) - 1 = k /\ k + 1 # 0
      BY <1>1, <2>1
    <3>2. TooDeep[k + 1][m] <=> \E c \in Called(m) : TooDeep[k][c]
      <4>1. TooDeep[k + 1][m] <=> k + 1 = 0 \/ \E c \in Called(m) : TooDeep[(k + 1) - 1][c]
        BY <2>1, TooDeepIs
      <4> QED
        BY <3>1, <4>1
    <3>3. \A c \in Called(m) : TooDeep[k][c] <=> d[c] > k
      BY <1>2, <1>4, <3>1
    <3> QED
      BY <1>2, <3>2, <3>3
  <2> QED
    BY <2>1
<1> HIDE DEF S
<1>5. n \in S
  BY <1>1, <1>3, <1>4, SetInduction
<1> USE DEF S
<1> QED
  BY <1>5

\* A macro on the way to the one in hand, and where it calls others still.
Ways == [macro : DOMAIN suite.macros, left : SUBSET Nat]

\* A macro that leads back to itself through calls fits in no depth.
LEMMA CycleIsDeep ==
  ASSUME suite \in Suites, NEW p \in Seq(Ways),
         \A k \in DOMAIN p : k + 1 \in DOMAIN p => p[k + 1].macro \in Called(p[k].macro),
         NEW j \in DOMAIN p, p[j].macro \in Called(p[Len(p)].macro)
  PROVE  TooDeep[MaxDepth][p[j].macro]
<1> DEFINE S == {n \in Nat : n \in 0..MaxDepth => \A k \in j..Len(p) : TooDeep[n][p[k].macro]}
<1>1. MaxDepth \in Nat /\ Len(p) \in Nat /\ DOMAIN p = 1..Len(p)
  BY SuiteIs
<1>2. \A k \in j..Len(p) : k \in DOMAIN p /\ p[k].macro \in DOMAIN suite.macros
  <2>1. \A k \in DOMAIN p : p[k] \in Ways
    OBVIOUS
  <2>2. \A k \in DOMAIN p : p[k].macro \in DOMAIN suite.macros
    BY <2>1 DEF Ways
  <2> QED
    BY <1>1, <2>2
<1>3. 0 \in S
  <2>1. ASSUME 0 \in 0..MaxDepth, NEW k \in j..Len(p) PROVE TooDeep[0][p[k].macro]
    BY <1>2, <2>1, TooDeepIs
  <2> QED
    BY <2>1
<1>4. ASSUME NEW n \in Nat, n \in S PROVE n + 1 \in S
  <2>1. ASSUME n + 1 \in 0..MaxDepth, NEW k \in j..Len(p) PROVE TooDeep[n + 1][p[k].macro]
    <3>1. n \in 0..MaxDepth /\ (n + 1) - 1 = n
      BY <1>1, <2>1
    <3>2. \A i \in j..Len(p) : TooDeep[n][p[i].macro]
      BY <1>4, <3>1
    <3>3. \E c \in Called(p[k].macro) : TooDeep[n][c]
      <4>1. CASE k = Len(p)
        <5>1. j \in j..Len(p)
          BY <1>1
        <5> QED
          BY <3>2, <4>1, <5>1
      <4>2. CASE k # Len(p)
        <5>1. PICK i : i = k + 1 /\ k \in DOMAIN p /\ i \in DOMAIN p /\ i \in j..Len(p)
          <6>1. PICK z : z \in Nat /\ z = Len(p) /\ DOMAIN p = 1..z
            BY <1>1
          <6>2. j \in 1..z /\ k \in j..z /\ k # z
            BY <4>2, <6>1
          <6>3. k \in 1..z /\ k + 1 \in 1..z /\ k + 1 \in j..z
            BY ONLY <6>1, <6>2
          <6> QED
            BY <6>1, <6>3
        <5>2. p[i].macro \in Called(p[k].macro)
          BY <5>1
        <5>3. TooDeep[n][p[i].macro]
          BY <3>2, <5>1
        <5> QED
          BY <5>2, <5>3, Zenon
      <4> QED
        BY <4>1, <4>2
    <3> QED
      BY <1>2, <2>1, <3>1, <3>3, TooDeepIs
  <2> QED
    BY <2>1
<1> HIDE DEF S
<1>5. MaxDepth \in S
  BY <1>1, <1>3, <1>4, SetInduction
<1> USE DEF S
<1> QED
  BY <1>1, <1>5

\* What the registry must refuse.
Refusable ==
  \E m \in DOMAIN suite.macros :
    TooDeep[MaxDepth][m] \/ \E s \in ToSet(suite.macros[m]) : s.kind = "bad"
Clean == \A m \in DOMAIN suite.macros : \A s \in ToSet(suite.macros[m]) : s.kind # "bad"

BeforeCheck == {"bodies", "visiting", "unbuilt"}
Later == {"checking", "refused", "running", "done"}

\* The way to the macro in hand: each is called by the one before it, and the
\* calls behind a place lead to macros that are done or to the next one.
WayOK ==
  /\ path \in Seq(Ways)
  /\ \A k \in DOMAIN path : path[k].left \subseteq CallsIn(path[k].macro)
  /\ \A k \in DOMAIN path : k + 1 \in DOMAIN path => path[k + 1].macro \in Called(path[k].macro)
  /\ \A k \in DOMAIN path : \A i \in CallsIn(path[k].macro) \ path[k].left :
       \/ suite.macros[path[k].macro][i].to \in visited
       \/ k # Len(path) /\ suite.macros[path[k].macro][i].to = path[k + 1].macro

\* The macros that are done call macros that are done, so they can be weighed.
DoneOK ==
  /\ visited \subseteq DOMAIN suite.macros
  /\ \A m \in visited : Called(m) \subseteq visited
  /\ \E d : Weighs(d, visited)

PhaseOK ==
  /\ phase \in BeforeCheck \cup Later
  /\ phase = "unbuilt" => Refusable
  /\ phase \notin {"bodies", "unbuilt"} => Clean
  /\ phase \in Later => /\ Weighs(Depths, DOMAIN suite.macros)
                        /\ \A m \in DOMAIN suite.macros : Depths[m] <= MaxDepth

BuildInv == suite \in Suites /\ WayOK /\ DoneOK /\ PhaseOK

LEMMA BuildExact == BuildInv => RegistryExact
<1> SUFFICES ASSUME BuildInv PROVE RegistryExact
  OBVIOUS
<1>1. suite \in Suites /\ PhaseOK /\ MaxDepth \in Nat
  BY SuiteIs DEF BuildInv
<1>2. phase = "unbuilt" => Refusable
  BY <1>1 DEF PhaseOK
<1>3. ASSUME phase \in Later PROVE ~Refusable
  <2>1. Clean /\ Weighs(Depths, DOMAIN suite.macros) /\ \A m \in DOMAIN suite.macros : Depths[m] <= MaxDepth
    BY <1>1, <1>3 DEF PhaseOK, Later
  <2>2. MaxDepth \in 0..MaxDepth
    BY <1>1
  <2>3. \A m \in DOMAIN suite.macros : TooDeep[MaxDepth][m] <=> Depths[m] > MaxDepth
    BY <1>1, <2>1, <2>2, WeightsNest
  <2>4. \A m \in DOMAIN suite.macros : ~TooDeep[MaxDepth][m]
    <3> TAKE m \in DOMAIN suite.macros
    <3>1. Depths[m] \in Nat /\ Depths[m] <= MaxDepth
      BY <2>1 DEF Weighs
    <3> QED
      BY <1>1, <2>3, <3>1
  <2> QED
    BY <2>1, <2>4 DEF Refusable, Clean
<1>4. phase \notin {"bodies", "visiting", "unbuilt"} => phase \in Later
  BY <1>1 DEF PhaseOK, BeforeCheck
<1> QED
  BY <1>2, <1>3, <1>4 DEF RegistryExact, Refusable

LEMMA BuildStarts == SuiteInit => BuildInv
<1> SUFFICES ASSUME SuiteInit PROVE BuildInv
  OBVIOUS
<1> USE DEF SuiteInit
<1>1. WayOK
  BY DEF WayOK
<1>2. DoneOK
  BY DEF DoneOK, Weighs
<1>3. PhaseOK
  BY DEF PhaseOK, BeforeCheck, Later
<1> QED
  BY <1>1, <1>2, <1>3 DEF BuildInv

\* A step that leaves the suite and the walk alone, and the phase to go on.
LEMMA BuildStays ==
  ASSUME BuildInv, suite' = suite, visited' = visited, path' = path,
         phase' = phase \/ (phase \in Later /\ phase' \in Later)
  PROVE  BuildInv'
<1>1. Depths' = Depths /\ TooDeep' = TooDeep
  BY SuiteStays
<1>2. (suite \in Suites)'
  BY DEF BuildInv
<1>3. WayOK'
  <2>1. \A m : CallsIn(m)' = CallsIn(m) /\ Called(m)' = Called(m)
    BY DEF CallsIn, Called
  <2>2. WayOK
    BY DEF BuildInv
  <2> QED
    BY <2>1, <2>2 DEF WayOK, Ways
<1>4. DoneOK'
  <2>1. \A m : Called(m)' = Called(m)
    BY DEF CallsIn, Called
  <2>2. DoneOK
    BY DEF BuildInv
  <2>3. \A d, S : Weighs(d, S)' <=> Weighs(d, S)
    BY <2>1, Zenon DEF Weighs, Heaviest
  <2> QED
    BY <2>1, <2>2, <2>3 DEF DoneOK
<1>5. PhaseOK'
  <2>1. PhaseOK
    BY DEF BuildInv
  <2>2. Weighs(Depths, DOMAIN suite.macros)' <=> Weighs(Depths, DOMAIN suite.macros)
    BY <1>1 DEF Weighs, Heaviest, Called, CallsIn
  <2>3. (Refusable' <=> Refusable) /\ (Clean' <=> Clean)
    BY <1>1 DEF Refusable, Clean
  <2> QED
    BY <1>1, <2>1, <2>2, <2>3 DEF PhaseOK, BeforeCheck, Later
<1> QED
  BY <1>2, <1>3, <1>4, <1>5 DEF BuildInv

LEMMA ReadsBodiesBuilds == BuildInv /\ ReadsBodies => BuildInv'
<1> SUFFICES ASSUME BuildInv, ReadsBodies PROVE BuildInv'
  OBVIOUS
<1> USE DEF ReadsBodies, building
<1>1. suite' = suite /\ visited' = visited /\ path' = path /\ TooDeep' = TooDeep
  BY SuiteStays
<1>2. (suite \in Suites)'
  BY <1>1 DEF BuildInv
<1>3. \A m : CallsIn(m)' = CallsIn(m) /\ Called(m)' = Called(m)
  BY <1>1 DEF CallsIn, Called
<1>4. WayOK'
  BY <1>1, <1>3 DEF BuildInv, WayOK, Ways
<1>5. DoneOK'
  <2>1. \A d, S : Weighs(d, S)' <=> Weighs(d, S)
    BY <1>3, Zenon DEF Weighs, Heaviest
  <2> QED
    BY <1>1, <1>3, <2>1 DEF BuildInv, DoneOK
<1>6. PhaseOK'
  <2>1. CASE Clean
    <3>1. phase' = "visiting" /\ Clean'
      BY <1>1, <2>1 DEF Clean
    <3> QED
      BY <3>1 DEF PhaseOK, BeforeCheck, Later
  <2>2. CASE ~Clean
    <3>1. phase' = "unbuilt" /\ Refusable'
      BY <1>1, <2>2 DEF Clean, Refusable
    <3> QED
      BY <3>1 DEF PhaseOK, BeforeCheck, Later
  <2> QED
    BY <2>1, <2>2
<1> QED
  BY <1>2, <1>4, <1>5, <1>6 DEF BuildInv

\* The walk stays in its phase unless it meets a cycle.
LEMMA WalkPhase ==
  ASSUME BuildInv, phase = "visiting", suite' = suite, phase' = phase \/ (phase' = "unbuilt" /\ Refusable)
  PROVE  (suite \in Suites)' /\ PhaseOK'
<1>1. TooDeep' = TooDeep
  BY SuiteStays
<1>2. (Refusable' <=> Refusable) /\ (Clean' <=> Clean)
  BY <1>1 DEF Refusable, Clean
<1>3. Clean
  BY DEF BuildInv, PhaseOK
<1> QED
  BY <1>2, <1>3 DEF BuildInv, PhaseOK, BeforeCheck, Later

LEMMA VisitsBuilds == BuildInv /\ Visits => BuildInv'
<1> SUFFICES ASSUME BuildInv, Visits PROVE BuildInv'
  OBVIOUS
<1>1. suite' = suite /\ visited' = visited /\ phase' = phase /\ phase = "visiting" /\ path = <<>>
  BY DEF Visits
<1>2. PICK m \in DOMAIN suite.macros \ visited : path' = <<[macro |-> m, left |-> CallsIn(m)]>>
  BY DEF Visits
<1>3. (suite \in Suites)' /\ PhaseOK'
  BY <1>1, WalkPhase
<1>4. \A n : CallsIn(n)' = CallsIn(n) /\ Called(n)' = Called(n)
  BY <1>1 DEF CallsIn, Called
<1>5. CallsIn(m) \subseteq Nat
  BY CalledAre DEF BuildInv
<1>6. WayOK'
  <2>1. path' \in Seq(Ways)
    BY <1>2, <1>5 DEF Ways
  <2>2. Len(path') = 1 /\ DOMAIN path' = {1} /\ path'[1].macro = m /\ path'[1].left = CallsIn(m)
    BY <1>2
  <2> QED
    BY <1>1, <1>4, <2>1, <2>2 DEF WayOK, Ways
<1>7. DoneOK'
  <2>1. \A d, S : Weighs(d, S)' <=> Weighs(d, S)
    BY <1>4, Zenon DEF Weighs, Heaviest
  <2> QED
    BY <1>1, <1>4, <2>1 DEF BuildInv, DoneOK
<1> QED
  BY <1>3, <1>6, <1>7 DEF BuildInv

LEMMA LeavesBuilds == BuildInv /\ Leaves => BuildInv'
<1> SUFFICES ASSUME BuildInv, Leaves PROVE BuildInv'
  OBVIOUS
<1> DEFINE n == Len(path)
           m == path[n].macro
<1>1. /\ suite' = suite /\ phase' = phase /\ phase = "visiting" /\ path # <<>>
      /\ path[n].left = {} /\ visited' = visited \cup {m} /\ path' = Front(path)
  BY DEF Leaves, Last
<1>2. WayOK /\ DoneOK /\ suite \in Suites
  BY DEF BuildInv
<1>3. n \in Nat \ {0} /\ DOMAIN path = 1..n /\ n \in DOMAIN path /\ \A k \in 1..n : path[k] \in Ways
  BY <1>1, <1>2 DEF WayOK
<1>4. m \in DOMAIN suite.macros
  BY <1>3 DEF Ways
<1>5. path' \in Seq(Ways) /\ Len(path') = n - 1 /\ \A k \in 1..(n - 1) : path'[k] = path[k]
  BY <1>1, <1>2, <1>3 DEF Front, WayOK
<1>6. \A k : CallsIn(k)' = CallsIn(k) /\ Called(k)' = Called(k)
  BY <1>1 DEF CallsIn, Called
<1>7. Called(m) \subseteq visited
  <2>1. ASSUME NEW i \in CallsIn(m) PROVE suite.macros[m][i].to \in visited
    BY <1>1, <1>2, <1>3 DEF WayOK
  <2> QED
    BY <2>1 DEF Called
<1> HIDE DEF m, n
<1>8. WayOK'
  <2>1. DOMAIN path' = 1..(n - 1) /\ Ways' = Ways
    BY <1>1, <1>3, <1>5 DEF Ways
  <2>2. ASSUME NEW k \in 1..(n - 1)
        PROVE  /\ path'[k].left \subseteq CallsIn(path'[k].macro)
               /\ k + 1 \in 1..(n - 1) => path'[k + 1].macro \in Called(path'[k].macro)
               /\ \A i \in CallsIn(path'[k].macro) \ path'[k].left :
                    \/ suite.macros[path'[k].macro][i].to \in visited'
                    \/ k # n - 1 /\ suite.macros[path'[k].macro][i].to = path'[k + 1].macro
    <3>1. k \in 1..n /\ k # n /\ k + 1 \in 1..n /\ path'[k] = path[k]
      BY <1>3, <1>5
    <3>2. path[k].left \subseteq CallsIn(path[k].macro)
      BY <1>2, <1>3, <3>1 DEF WayOK
    <3>3. k + 1 \in 1..(n - 1) => path'[k + 1].macro \in Called(path'[k].macro)
      BY <1>2, <1>3, <1>5, <3>1, Zenon DEF WayOK
    <3>4. ASSUME NEW i \in CallsIn(path[k].macro) \ path[k].left
          PROVE  \/ suite.macros[path[k].macro][i].to \in visited'
                 \/ k # n - 1 /\ suite.macros[path[k].macro][i].to = path'[k + 1].macro
      <4>1. \/ suite.macros[path[k].macro][i].to \in visited
            \/ suite.macros[path[k].macro][i].to = path[k + 1].macro
        BY <1>2, <1>3, <3>1 DEF WayOK
      <4>2. CASE k = n - 1
        <5>1. path[k + 1].macro = m
          BY <1>3, <4>2 DEF m, n
        <5> QED
          BY <1>1, <4>1, <5>1
      <4>3. CASE k # n - 1
        <5>1. path'[k + 1] = path[k + 1]
          BY <1>3, <1>5, <4>3
        <5> QED
          BY <1>1, <4>1, <4>3, <5>1
      <4> QED
        BY <4>2, <4>3
    <3> QED
      BY <3>1, <3>2, <3>3, <3>4
  <2> QED
    BY <1>1, <1>5, <1>6, <2>1, <2>2 DEF WayOK
<1>9. DoneOK'
  <2>1. PICK d : Weighs(d, visited)
    BY <1>2 DEF DoneOK
  <2>0. PICK e : e = [x \in visited' |-> IF x \in visited THEN d[x] ELSE 1 + Heaviest(d, m)]
    BY Zenon
  <2>2. \A x \in visited : e[x] = d[x] /\ d[x] \in Nat /\ d[x] = 1 + Heaviest(d, x)
    BY <1>1, <2>0, <2>1 DEF Weighs
  <2>3. \A x \in visited : Called(x) \subseteq visited
    BY <1>2 DEF DoneOK
  <2>4. m \notin visited => e[m] = 1 + Heaviest(d, m)
    BY <1>1, <2>0
  <2>5. ASSUME NEW x, Called(x) \subseteq visited PROVE Heaviest(e, x) = Heaviest(d, x)
    <3>1. {e[c] : c \in Called(x)} = {d[c] : c \in Called(x)}
      BY <2>2, <2>5
    <3> QED
      BY <3>1 DEF Heaviest
  <2>6. Heaviest(d, m) \in Nat
    <3>1. \A c \in Called(m) : d[c] \in Nat
      BY <1>7, <2>2
    <3> QED
      BY <1>2, <1>4, <3>1, HeaviestIs
  <2>7. ASSUME NEW x \in visited' PROVE e[x] \in Nat /\ e[x] = 1 + Heaviest(e, x)
    <3>1. CASE x \in visited
      <4>1. Heaviest(e, x) = Heaviest(d, x)
        BY <2>3, <2>5, <3>1
      <4> QED
        BY <2>2, <3>1, <4>1
    <3>2. CASE x \notin visited
      <4>1. x = m /\ Heaviest(e, m) = Heaviest(d, m)
        BY <1>1, <1>7, <2>5, <3>2
      <4> QED
        BY <2>4, <2>6, <3>2, <4>1
    <3> QED
      BY <3>1, <3>2
  <2>8. Weighs(e, visited)'
    BY <1>6, <2>7 DEF Weighs, Heaviest
  <2>9. visited' \subseteq DOMAIN suite.macros /\ \A x \in visited' : Called(x) \subseteq visited'
    BY <1>1, <1>2, <1>4, <1>7 DEF DoneOK
  <2> QED
    BY <1>1, <1>6, <2>8, <2>9 DEF DoneOK
<1>10. (suite \in Suites)' /\ PhaseOK'
  BY <1>1, WalkPhase
<1> QED
  BY <1>8, <1>9, <1>10 DEF BuildInv

LEMMA FollowsCallBuilds == BuildInv /\ FollowsCall => BuildInv'
<1> SUFFICES ASSUME BuildInv, FollowsCall PROVE BuildInv'
  OBVIOUS
<1> DEFINE n == Len(path)
           m == path[n].macro
           L == path[n].left
           first == Min(L)
           child == suite.macros[m][first].to
           rest == [path EXCEPT ![n].left = @ \ {first}]
<1>1. /\ suite' = suite /\ visited' = visited /\ phase = "visiting" /\ path # <<>> /\ L # {}
      /\ IF \E i \in DOMAIN path : path[i].macro = child
         THEN phase' = "unbuilt" /\ path' = path
         ELSE /\ path' = IF child \in visited THEN rest
                         ELSE Append(rest, [macro |-> child, left |-> CallsIn(child)])
              /\ phase' = phase
  BY Zenon DEF FollowsCall, Last
<1>2. WayOK /\ DoneOK /\ suite \in Suites
  BY DEF BuildInv
<1>3. n \in Nat \ {0} /\ DOMAIN path = 1..n /\ n \in DOMAIN path /\ \A k \in 1..n : path[k] \in Ways
  BY <1>1, <1>2 DEF WayOK
<1>4. /\ \A k \in 1..n : path[k].macro \in DOMAIN suite.macros /\ path[k].left \in SUBSET Nat
      /\ m \in DOMAIN suite.macros /\ L \subseteq Nat
  BY <1>3 DEF Ways
<1>5. first \in L /\ L \subseteq CallsIn(m)
  <2>1. first \in L
    BY <1>1, <1>4, MinIs
  <2> QED
    BY <1>2, <1>3, <2>1 DEF WayOK
<1>6. child \in Called(m) /\ child \in DOMAIN suite.macros /\ CallsIn(child) \subseteq Nat
  <2>1. child \in Called(m)
    BY <1>5 DEF Called
  <2>2. child \in DOMAIN suite.macros
    BY <1>2, <1>4, <2>1, CalledAre
  <2> QED
    BY <1>2, <2>1, <2>2, CalledAre
<1>7. \A k : CallsIn(k)' = CallsIn(k) /\ Called(k)' = Called(k)
  BY <1>1, Zenon DEF CallsIn, Called
<1>8. DoneOK'
  <2>1. \A d, S : Weighs(d, S)' <=> Weighs(d, S)
    BY <1>7, Zenon DEF Weighs, Heaviest
  <2> QED
    BY <1>1, <1>2, <1>7, <2>1 DEF DoneOK
<1>9. Ways' = Ways
  BY <1>1 DEF Ways
<1>10. CASE \E i \in DOMAIN path : path[i].macro = child
  <2>1. phase' = "unbuilt" /\ path' = path
    BY <1>1, <1>10
  <2>2. WayOK'
    BY <1>1, <1>2, <1>7, <1>9, <2>1 DEF WayOK
  <2>3. Refusable
    <3>1. PICK i \in DOMAIN path : path[i].macro = child
      BY <1>10
    <3>2. path[i].macro \in Called(path[Len(path)].macro)
      BY <1>6, <3>1
    <3>3. /\ path \in Seq(Ways)
          /\ \A k \in DOMAIN path : k + 1 \in DOMAIN path => path[k + 1].macro \in Called(path[k].macro)
      BY <1>2 DEF WayOK
    <3>4. TooDeep[MaxDepth][path[i].macro]
      BY <1>2, <3>2, <3>3, CycleIsDeep
    <3> QED
      BY <1>3, <1>4, <3>4 DEF Refusable
  <2>4. (suite \in Suites)' /\ PhaseOK'
    BY <1>1, <2>1, <2>3, WalkPhase
  <2> QED
    BY <1>8, <2>2, <2>4 DEF BuildInv
<1>11. CASE ~\E i \in DOMAIN path : path[i].macro = child
  <2>1. phase' = phase
    BY <1>1, <1>11
  <2>2. (suite \in Suites)' /\ PhaseOK'
    BY <1>1, <2>1, WalkPhase
  <2>3. /\ DOMAIN rest = 1..n /\ \A k \in 1..n : k # n => rest[k] = path[k]
        /\ rest[n].macro = m /\ rest[n].left = L \ {first} /\ rest[n] \in Ways
    <3>1. path[n] \in Ways
      BY <1>3
    <3>2. rest[n] = [path[n] EXCEPT !.left = L \ {first}]
      BY <1>3
    <3>3. rest[n].macro = m /\ rest[n].left = L \ {first} /\ rest[n] \in Ways
      BY <1>4, <3>1, <3>2 DEF Ways
    <3> QED
      BY <1>3, <3>3
  <2> HIDE DEF rest
  <2>4. rest \in Seq(Ways) /\ Len(rest) = n
    <3>1. \A k \in 1..n : rest[k] \in Ways
      BY <1>3, <2>3, Zenon
    <3>2. rest = [k \in 1..n |-> rest[k]]
      BY <2>3, Zenon DEF rest
    <3> QED
      BY <1>3, <3>1, <3>2
  <2>5. \A k \in 1..n : /\ rest[k].macro = path[k].macro /\ rest[k].left \subseteq path[k].left
                        /\ k # n => rest[k].left = path[k].left
    BY <2>3
  <2> HIDE DEF m, first, child, L, n
  <2>6. \A k \in 1..n : k + 1 \in 1..n => path[k + 1].macro \in Called(path[k].macro)
    BY <1>2, <1>3, Zenon DEF WayOK
  <2>7. \A k \in 1..n, i \in Nat : k # n /\ i \in CallsIn(rest[k].macro) \ rest[k].left =>
          \/ suite.macros[rest[k].macro][i].to \in visited
          \/ suite.macros[rest[k].macro][i].to = path[k + 1].macro
    BY <1>2, <1>3, <2>5 DEF WayOK
  <2>8. \A i \in CallsIn(m) \ (L \ {first}) : suite.macros[m][i].to \in visited \/ i = first
    BY <1>2, <1>3 DEF WayOK, m, L, n
  <2>9. \A k \in 1..n : rest[k].left \subseteq CallsIn(rest[k].macro) /\ CallsIn(rest[k].macro) \subseteq Nat
    BY <1>2, <1>3, <1>4, <2>5, CalledAre DEF WayOK
  <2>10. \A k \in 1..n : k # n => k + 1 \in 1..n /\ rest[k + 1].macro = path[k + 1].macro
    <3>1. \A k \in 1..n : k # n => k + 1 \in 1..n
      BY <1>3
    <3> QED
      BY <2>5, <3>1
  <2>11. suite.macros[m][first].to = child
    BY DEF child, m, first
  <2>12. CASE child \in visited
    <3>1. path' = rest
      BY <1>1, <1>11, <2>12
    <3>2. ASSUME NEW k \in 1..n, NEW i \in CallsIn(rest[k].macro) \ rest[k].left
          PROVE  \/ suite.macros[rest[k].macro][i].to \in visited
                 \/ k # n /\ suite.macros[rest[k].macro][i].to = rest[k + 1].macro
      <4>1. CASE k = n
        BY <2>3, <2>8, <2>11, <2>12, <4>1
      <4>2. CASE k # n
        BY <2>7, <2>9, <2>10, <4>2, Zenon
      <4> QED
        BY <4>1, <4>2
    <3>3. \A k \in 1..n : k + 1 \in 1..n => rest[k + 1].macro \in Called(rest[k].macro)
      BY <2>5, <2>6
    <3>4. WayOK'
      BY <1>1, <1>7, <1>9, <2>3, <2>4, <2>9, <3>1, <3>2, <3>3 DEF WayOK
    <3> QED
      BY <1>8, <2>2, <3>4 DEF BuildInv
  <2>13. CASE child \notin visited
    <3> DEFINE new == [macro |-> child, left |-> CallsIn(child)]
               longer == Append(rest, new)
    <3>1. path' = longer
      BY <1>1, <1>11, <2>13
    <3>2. new \in Ways /\ new.macro = child /\ new.left = CallsIn(child)
      BY <1>6 DEF Ways
    <3> HIDE DEF new
    <3>3. /\ longer \in Seq(Ways) /\ Len(longer) = n + 1 /\ DOMAIN longer = 1..(n + 1)
          /\ longer[n + 1] = new /\ \A k \in 1..n : longer[k] = rest[k]
      BY <1>3, <2>4, <3>2
    <3> HIDE DEF longer
    <3>4. ASSUME NEW k \in 1..(n + 1)
          PROVE  /\ longer[k].left \subseteq CallsIn(longer[k].macro)
                 /\ k + 1 \in 1..(n + 1) => longer[k + 1].macro \in Called(longer[k].macro)
                 /\ \A i \in CallsIn(longer[k].macro) \ longer[k].left :
                      \/ suite.macros[longer[k].macro][i].to \in visited
                      \/ k # n + 1 /\ suite.macros[longer[k].macro][i].to = longer[k + 1].macro
      <4>1. CASE k = n + 1
        <5>1. k + 1 \notin 1..(n + 1)
          BY <1>3, <4>1
        <5> QED
          BY <3>2, <3>3, <4>1, <5>1
      <4>2. CASE k = n
        <5>1. longer[k] = rest[n] /\ longer[k + 1] = new /\ n # n + 1 /\ n \in 1..n
          BY <1>3, <3>3, <4>2
        <5> QED
          BY <1>6, <2>3, <2>8, <2>9, <2>11, <3>2, <4>2, <5>1
      <4>3. CASE k \in 1..n /\ k # n
        <5>1. longer[k] = rest[k] /\ k + 1 \in 1..n /\ longer[k + 1] = rest[k + 1] /\ k # n + 1
          BY <1>3, <2>10, <3>3, <4>3
        <5>2. rest[k + 1].macro \in Called(rest[k].macro)
          BY <2>5, <2>6, <4>3, <5>1
        <5> QED
          BY <2>7, <2>9, <2>10, <4>3, <5>1, <5>2, Zenon
      <4> QED
        BY <1>3, <4>1, <4>2, <4>3
    <3>5. WayOK'
      BY <1>1, <1>7, <1>9, <3>1, <3>3, <3>4 DEF WayOK
    <3> QED
      BY <1>8, <2>2, <3>5 DEF BuildInv
  <2> QED
    BY <2>12, <2>13
<1> QED
  BY <1>10, <1>11

LEMMA MeasuresBuilds == BuildInv /\ Measures => BuildInv'
<1> SUFFICES ASSUME BuildInv, Measures PROVE BuildInv'
  OBVIOUS
<1>1. /\ suite' = suite /\ visited' = visited /\ path' = path /\ phase = "visiting"
      /\ visited = DOMAIN suite.macros
      /\ phase' = IF \E m \in visited : Depths[m] > MaxDepth THEN "unbuilt" ELSE "checking"
  BY DEF Measures, building
<1>2. WayOK /\ DoneOK /\ suite \in Suites /\ Clean
  BY <1>1 DEF BuildInv, PhaseOK
<1>3. \A m : CallsIn(m)' = CallsIn(m) /\ Called(m)' = Called(m)
  BY <1>1 DEF CallsIn, Called
<1>4. \A d, S : Weighs(d, S)' <=> Weighs(d, S)
  BY <1>3, Zenon DEF Weighs, Heaviest
<1>5. WayOK' /\ DoneOK'
  BY <1>1, <1>2, <1>3, <1>4 DEF WayOK, DoneOK, Ways
<1>6. Depths' = Depths /\ TooDeep' = TooDeep
  BY <1>1, SuiteStays
<1>7. Weighs(Depths, DOMAIN suite.macros)
  BY <1>1, <1>2, DepthsWeigh DEF DoneOK
<1>8. Weighs(Depths, DOMAIN suite.macros)'
  BY <1>1, <1>3, <1>6, <1>7, Zenon DEF Weighs, Heaviest
<1>9. MaxDepth \in 0..MaxDepth /\ \A m \in visited : Depths[m] \in Nat
  BY <1>1, <1>2, <1>7, SuiteIs DEF Weighs
<1>10. PhaseOK'
  <2>1. CASE \E m \in visited : Depths[m] > MaxDepth
    <3>1. PICK m \in visited : Depths[m] > MaxDepth
      BY <2>1
    <3>2. TooDeep[MaxDepth][m]
      BY <1>1, <1>2, <1>7, <1>9, <3>1, WeightsNest
    <3>3. phase' = "unbuilt" /\ Refusable'
      BY <1>1, <1>6, <2>1, <3>1, <3>2 DEF Refusable
    <3> QED
      BY <3>3 DEF PhaseOK, BeforeCheck, Later
  <2>2. CASE ~\E m \in visited : Depths[m] > MaxDepth
    <3>1. phase' = "checking" /\ Clean'
      BY <1>1, <1>2, <2>2 DEF Clean
    <3>2. \A m \in DOMAIN suite.macros' : Depths'[m] <= MaxDepth
      BY <1>1, <1>6, <1>9, <2>2
    <3> QED
      BY <1>8, <3>1, <3>2 DEF PhaseOK, BeforeCheck, Later
  <2> QED
    BY <2>1, <2>2
<1> QED
  BY <1>1, <1>2, <1>5, <1>10 DEF BuildInv

LEMMA BuildNext == BuildInv /\ [SuiteNext]_suiteVars => BuildInv'
<1> SUFFICES ASSUME BuildInv, [SuiteNext]_suiteVars PROVE BuildInv'
  OBVIOUS
<1>1. CASE ReadsBodies
  BY <1>1, ReadsBodiesBuilds
<1>2. CASE Visits
  BY <1>2, VisitsBuilds
<1>3. CASE FollowsCall
  BY <1>3, FollowsCallBuilds
<1>4. CASE Leaves
  BY <1>4, LeavesBuilds
<1>5. CASE Measures
  BY <1>5, MeasuresBuilds
<1>6. CASE Accepts \/ Descends \/ Reports \/ Returns
  BY <1>6, BuildStays DEF Accepts, Descends, Reports, Returns, building
<1>7. CASE Decides \/ Ends
  BY <1>7, BuildStays DEF Decides, Ends, building, Later
<1>8. CASE ScenarioStarts \/ StepEnds \/ Calls \/ Meets \/ BodyEnds
  BY <1>8, BuildStays DEF ScenarioStarts, StepEnds, Calls, Meets, BodyEnds, Executes, building
<1>9. CASE UNCHANGED suiteVars
  BY <1>9, BuildStays DEF suiteVars
<1> QED
  BY <1>1, <1>2, <1>3, <1>4, <1>5, <1>6, <1>7, <1>8, <1>9 DEF SuiteNext

-----------------------------------------------------------------------------
\* The check of the steps a run would execute.
LEMMA TailsAre ==
  ASSUME NEW X, NEW s \in Seq(X), s # <<>>
  PROVE  /\ Head(s) \in ToSet(s) /\ Tail(s) \in Seq(X)
         /\ \A x : x \in ToSet(s) <=> x = Head(s) \/ x \in ToSet(Tail(s))
<1>1. PICK n : n \in Nat /\ n = Len(s) /\ n >= 1 /\ DOMAIN s = 1..n
  OBVIOUS
<1>2. PICK t : t = Tail(s) /\ t \in Seq(X) /\ Len(t) = n - 1 /\ DOMAIN t = 1..(n - 1)
  <2>1. Tail(s) \in Seq(X) /\ Len(Tail(s)) = n - 1 /\ DOMAIN Tail(s) = 1..(n - 1)
    BY <1>1
  <2> QED
    BY <2>1, Zenon
<1>3. \A i \in 1..(n - 1) : t[i] = s[i + 1]
  BY <1>1, <1>2
<1>4. 1 \in DOMAIN s /\ Head(s) = s[1]
  BY <1>1
<1>5. ASSUME NEW i \in DOMAIN s PROVE s[i] = Head(s) \/ \E j \in DOMAIN t : t[j] = s[i]
  <2>1. CASE i = 1
    BY <1>4, <2>1
  <2>2. CASE i # 1
    <3>1. i - 1 \in DOMAIN t /\ (i - 1) + 1 = i
      BY <1>1, <1>2, <2>2
    <3> QED
      BY <1>2, <1>3, <3>1
  <2> QED
    BY <2>1, <2>2
<1>6. ASSUME NEW j \in DOMAIN t PROVE j + 1 \in DOMAIN s /\ t[j] = s[j + 1]
  BY <1>1, <1>2, <1>3
<1> QED
  BY <1>2, <1>4, <1>5, <1>6 DEF ToSet

\* An include that is open, and its steps to come.
Open == [scenario : DOMAIN suite.own, left : Seq(StepsOf(suite))]
Leads(s, scenario) == s.kind = "include" /\ s.to = scenario

\* Every step of an open include is to come, could run, or is the include that
\* is open in it.
StackOK ==
  /\ stack \in Seq(Open) /\ Len(stack) <= MaxDepth
  /\ \A k \in DOMAIN stack : ToSet(stack[k].left) \subseteq ToSet(Steps(stack[k].scenario))
  /\ \A k \in DOMAIN stack : \A s \in ToSet(Steps(stack[k].scenario)) :
       \/ s \in ToSet(stack[k].left) \/ ~Breaks(s, MaxDepth - k)
       \/ k # Len(stack) /\ Leads(s, stack[k + 1].scenario)
  /\ \A k \in DOMAIN stack : k + 1 \in DOMAIN stack =>
       \E s \in ToSet(Steps(stack[k].scenario)) : Leads(s, stack[k + 1].scenario)

\* The problems so far, and the include the top-level step in hand is.
ProblemsOK ==
  /\ at \in 0..Len(SelectedSteps)
  /\ problems = {i \in 1..at : Breaks(SelectedSteps[i], MaxDepth)}
  /\ stack # <<>> => at < Len(SelectedSteps) /\ Leads(SelectedSteps[at + 1], stack[1].scenario)

Decided == phase \in {"running", "done"} => problems = {} /\ at = Len(SelectedSteps)

CheckInv == StackOK /\ ProblemsOK /\ Decided

LEMMA CheckExact == suite \in Suites /\ CheckInv => ProblemsExact
<1> SUFFICES ASSUME suite \in Suites, CheckInv, at = Len(SelectedSteps) PROVE
        problems = {i \in DOMAIN SelectedSteps : Breaks(SelectedSteps[i], MaxDepth)}
  BY DEF ProblemsExact, Breaks
<1>1. DOMAIN SelectedSteps = 1..at
  BY SelectedStepsAre
<1> QED
  BY <1>1 DEF CheckInv, ProblemsOK

LEMMA CheckStarts == SuiteInit => CheckInv
<1> SUFFICES ASSUME SuiteInit PROVE CheckInv
  OBVIOUS
<1> USE DEF SuiteInit
<1>1. SelectedSteps \in Seq(StepsOf(suite)) /\ MaxDepth \in Nat
  BY SelectedStepsAre, SuiteIs
<1>2. StackOK
  BY <1>1 DEF StackOK
<1>3. ProblemsOK
  <2>1. 0 \in 0..Len(SelectedSteps) /\ 1..0 = {}
    BY <1>1
  <2> QED
    BY <2>1 DEF ProblemsOK
<1>4. Decided
  BY DEF Decided
<1> QED
  BY <1>2, <1>3, <1>4 DEF CheckInv

\* The steps that leave the check alone.
LEMMA CheckStays ==
  ASSUME suite' = suite, at' = at, stack' = stack, problems' = problems, CheckInv,
         phase' \in {"running", "done"} => phase \in {"running", "done"}
  PROVE  CheckInv'
<1>1. Doomed' = Doomed /\ SelectedSteps' = SelectedSteps
  BY SuiteStays
<1>2. \A sc : Steps(sc)' = Steps(sc)
  BY DEF Steps, Backgrounds
<1>3. StackOK'
  BY <1>1, <1>2, Zenon DEF CheckInv, StackOK, Open, Leads, Breaks, StepsOf
<1>4. ProblemsOK'
  BY <1>1 DEF CheckInv, ProblemsOK, Leads, Breaks
<1>5. Decided'
  BY <1>1 DEF CheckInv, Decided
<1> QED
  BY <1>3, <1>4, <1>5 DEF CheckInv

\* The step in hand is one of the innermost include's, and goes from it.
LEMMA RestIs ==
  ASSUME suite \in Suites, StackOK, stack # <<>>, Last(stack).left # <<>>
  PROVE  /\ Rest \in Seq(Open) /\ Len(Rest) = Len(stack)
         /\ Step \in ToSet(Steps(stack[Len(stack)].scenario))
         /\ \A k \in DOMAIN stack :
              /\ Rest[k].scenario = stack[k].scenario
              /\ ToSet(Rest[k].left) \subseteq ToSet(stack[k].left)
              /\ \A s \in ToSet(stack[k].left) :
                   s \in ToSet(Rest[k].left) \/ (k = Len(stack) /\ s = Step)
<1>1. PICK K : K \in Nat \ {0} /\ K = Len(stack) /\ DOMAIN stack = 1..K /\ \A k \in 1..K : stack[k] \in Open
  BY DEF StackOK
<1> DEFINE L == stack[K].left
<1>2. /\ L \in Seq(StepsOf(suite)) /\ L # <<>> /\ K \in DOMAIN stack
      /\ \A k \in 1..K : stack[k].scenario \in DOMAIN suite.own /\ stack[k].left \in Seq(StepsOf(suite))
  BY <1>1 DEF Open, Last
<1>3. Step = Head(L)
  BY <1>1 DEF Step, Last
<1>4. Tail(L) \in Seq(StepsOf(suite)) /\ Step \in ToSet(L)
      /\ \A x : x \in ToSet(L) <=> x = Step \/ x \in ToSet(Tail(L))
  BY <1>2, <1>3, TailsAre
<1>5. Step \in ToSet(Steps(stack[Len(stack)].scenario))
  BY <1>1, <1>2, <1>4, Zenon DEF StackOK
<1>6. DOMAIN Rest = 1..K /\ \A k \in 1..K : k # K => Rest[k] = stack[k]
  BY <1>1 DEF Rest
<1>7. /\ Rest[K].scenario = stack[K].scenario /\ Rest[K].left = Tail(L)
      /\ Rest[K] \in Open
  <2>1. Rest[K] = [stack[K] EXCEPT !.left = Tail(L)]
    BY <1>1, <1>2 DEF Rest
  <2> HIDE DEF L
  <2>2. stack[K] \in Open
    BY <1>1
  <2> QED
    BY <1>4, <2>1, <2>2, Zenon DEF Open
<1>8. Rest \in Seq(Open) /\ Len(Rest) = K
  <2>1. \A k \in 1..K : Rest[k] \in Open
    BY <1>1, <1>6, <1>7
  <2>2. Rest = [k \in 1..K |-> Rest[k]]
    BY <1>6 DEF Rest
  <2> QED
    BY <1>1, <2>1, <2>2
<1> HIDE DEF L
<1>9. ASSUME NEW k \in 1..K
      PROVE  /\ Rest[k].scenario = stack[k].scenario
             /\ ToSet(Rest[k].left) \subseteq ToSet(stack[k].left)
             /\ \A s \in ToSet(stack[k].left) : s \in ToSet(Rest[k].left) \/ (k = K /\ s = Step)
  <2>1. CASE k = K
    BY <1>4, <1>7, <2>1 DEF L
  <2>2. CASE k # K
    BY <1>6, <2>2
  <2> QED
    BY <2>1, <2>2
<1> QED
  BY <1>1, <1>5, <1>8, <1>9, Zenon

\* A top-level step is done: it could run, or it is a problem.
LEMMA OneMore ==
  ASSUME suite \in Suites, suite' = suite, ProblemsOK, at < Len(SelectedSteps),
         at' = at + 1, stack' = <<>>,
         problems' = IF Breaks(SelectedSteps[at + 1], MaxDepth) THEN problems \cup {at + 1} ELSE problems
  PROVE  ProblemsOK'
<1>1. Doomed' = Doomed /\ SelectedSteps' = SelectedSteps
  BY SuiteStays
<1>2. PICK n : n \in Nat /\ n = Len(SelectedSteps) /\ at \in 0..n /\ at + 1 \in 0..n
  <2>1. Len(SelectedSteps) \in Nat
    BY SelectedStepsAre
  <2> QED
    BY <2>1 DEF ProblemsOK
<1> DEFINE Bad(i) == Breaks(SelectedSteps[i], MaxDepth)
<1>3. problems = {i \in 1..at : Bad(i)}
  BY DEF ProblemsOK
<1>4. problems' = {i \in 1..(at + 1) : Bad(i)}
  <2> HIDE DEF Bad
  <2>1. problems' = IF Bad(at + 1) THEN problems \cup {at + 1} ELSE problems
    BY DEF Bad
  <2>2. 1..(at + 1) = (1..at) \cup {at + 1}
    BY <1>2
  <2> QED
    BY <1>3, <2>1, <2>2
<1> QED
  BY <1>1, <1>2, <1>4 DEF ProblemsOK, Breaks

\* In the phase of the check nothing is decided.
LEMMA Undecided ==
  ASSUME phase = "checking", phase' = phase
  PROVE  Decided'
BY DEF Decided

LEMMA AcceptsChecks == suite \in Suites /\ CheckInv /\ Accepts => CheckInv'
<1> SUFFICES ASSUME suite \in Suites, CheckInv, Accepts PROVE CheckInv'
  OBVIOUS
<1>1. /\ suite' = suite /\ phase' = phase /\ phase = "checking" /\ problems' = problems /\ stack' = Rest
      /\ IF stack = <<>> THEN at < Len(SelectedSteps) ELSE Last(stack).left # <<>>
      /\ at' = (IF stack = <<>> THEN at + 1 ELSE at) /\ Step.kind \in {"known", "macro"}
  BY DEF Accepts, Unread
<1>2. StackOK /\ ProblemsOK
  BY DEF CheckInv
<1>3. Decided'
  BY <1>1, Undecided
<1>4. Doomed' = Doomed /\ SelectedSteps' = SelectedSteps /\ \A sc : Steps(sc)' = Steps(sc)
  BY <1>1, SuiteStays DEF Steps, Backgrounds
<1>5. Open' = Open
  BY <1>1 DEF Open, StepsOf
<1>6. \A n : ~Breaks(Step, n)
  BY <1>1 DEF Breaks
<1>7. CASE stack = <<>>
  <2>1. stack' = <<>>
    BY <1>1, <1>7 DEF Rest
  <2>2. StackOK'
    <3>1. MaxDepth \in Nat
      BY SuiteIs
    <3> QED
      BY <2>1, <3>1 DEF StackOK
  <2>3. Step = SelectedSteps[at + 1]
    BY <1>7 DEF Step
  <2>4. ProblemsOK'
    BY <1>1, <1>2, <1>6, <1>7, <2>1, <2>3, OneMore
  <2> QED
    BY <1>3, <2>2, <2>4 DEF CheckInv
<1>8. CASE stack # <<>>
  <2>1. PICK K : K \in Nat \ {0} /\ K = Len(stack) /\ DOMAIN stack = 1..K
    BY <1>2, <1>8 DEF StackOK
  <2>2. Last(stack).left # <<>>
    BY <1>1, <1>8
  <2>3. PICK R : R = Rest
    OBVIOUS
  <2>4. /\ R \in Seq(Open) /\ Len(R) = K
        /\ \A k \in 1..K :
             /\ R[k].scenario = stack[k].scenario
             /\ ToSet(R[k].left) \subseteq ToSet(stack[k].left)
             /\ \A s \in ToSet(stack[k].left) : s \in ToSet(R[k].left) \/ (k = K /\ s = Step)
    BY <1>2, <1>8, <2>1, <2>2, <2>3, RestIs, Zenon
  <2>5. DOMAIN R = 1..K
    BY <2>1, <2>4
  <2>6. StackOK'
    <3>1. \A k \in 1..K : ToSet(R[k].left) \subseteq ToSet(Steps(R[k].scenario))
      BY <1>2, <2>1, <2>4, Zenon DEF StackOK
    <3>2. ASSUME NEW k \in 1..K, NEW s \in ToSet(Steps(R[k].scenario))
          PROVE  \/ s \in ToSet(R[k].left) \/ ~Breaks(s, MaxDepth - k)
                 \/ k # K /\ Leads(s, R[k + 1].scenario)
      <4>1. \/ s \in ToSet(stack[k].left) \/ ~Breaks(s, MaxDepth - k)
            \/ k # K /\ Leads(s, stack[k + 1].scenario)
        BY <1>2, <2>1, <2>4 DEF StackOK
      <4>2. k # K => R[k + 1].scenario = stack[k + 1].scenario
        BY <2>1, <2>4
      <4> QED
        BY <1>6, <2>4, <4>1, <4>2, Zenon
    <3>3. \A k \in 1..K : k + 1 \in 1..K => \E s \in ToSet(Steps(R[k].scenario)) : Leads(s, R[k + 1].scenario)
      BY <1>2, <2>1, <2>4 DEF StackOK
    <3>4. K <= MaxDepth /\ stack' = R
      BY <1>1, <1>2, <2>1, <2>3 DEF StackOK
    <3>5. \A s, n : Breaks(s, n)' <=> Breaks(s, n)
      BY <1>4 DEF Breaks
    <3> QED
      BY <1>4, <1>5, <2>4, <2>5, <3>1, <3>2, <3>3, <3>4, <3>5, Zenon DEF StackOK
  <2>7. ProblemsOK'
    <3>1. stack' # <<>> /\ stack'[1].scenario = stack[1].scenario /\ at' = at
      BY <1>1, <1>8, <2>1, <2>3, <2>4
    <3> QED
      BY <1>1, <1>2, <1>4, <1>8, <3>1 DEF ProblemsOK, Leads, Breaks
  <2> QED
    BY <1>3, <2>6, <2>7 DEF CheckInv
<1> QED
  BY <1>7, <1>8

LEMMA StackBecomes ==
  ASSUME suite' = suite, NEW R \in Seq(Open), stack' = R, Len(R) <= MaxDepth,
         \A k \in DOMAIN R : ToSet(R[k].left) \subseteq ToSet(Steps(R[k].scenario)),
         \A k \in DOMAIN R : \A s \in ToSet(Steps(R[k].scenario)) :
           \/ s \in ToSet(R[k].left) \/ ~Breaks(s, MaxDepth - k)
           \/ k # Len(R) /\ Leads(s, R[k + 1].scenario),
         \A k \in DOMAIN R : k + 1 \in DOMAIN R =>
           \E s \in ToSet(Steps(R[k].scenario)) : Leads(s, R[k + 1].scenario)
  PROVE  StackOK'
<1>1. Doomed' = Doomed /\ \A sc : Steps(sc)' = Steps(sc)
  BY SuiteStays DEF Steps, Backgrounds
<1>2. Open' = Open
  BY DEF Open, StepsOf
<1>3. \A s, n : Breaks(s, n)' <=> Breaks(s, n)
  BY <1>1 DEF Breaks
<1> QED
  BY <1>1, <1>2, <1>3 DEF StackOK

\* A top-level step in hand that is no include open.
LEMMA StackEmpties ==
  ASSUME suite \in Suites, suite' = suite, stack' = <<>>
  PROVE  StackOK'
<1>1. MaxDepth \in Nat /\ Len(<<>>) = 0 /\ DOMAIN <<>> = {} /\ <<>> \in Seq(Open)
  BY SuiteIs
<1> QED
  BY <1>1 DEF StackOK

LEMMA DescendsChecks == suite \in Suites /\ CheckInv /\ Descends => CheckInv'
<1> SUFFICES ASSUME suite \in Suites, CheckInv, Descends PROVE CheckInv'
  OBVIOUS
<1> DEFINE to == Step.to
           new == [scenario |-> to, left |-> Steps(to)]
<1>1. /\ suite' = suite /\ phase' = phase /\ phase = "checking" /\ problems' = problems /\ at' = at
      /\ IF stack = <<>> THEN at < Len(SelectedSteps) ELSE Last(stack).left # <<>>
      /\ stack' = Append(Rest, new) /\ Step.kind = "include" /\ Len(stack) < MaxDepth
  BY DEF Descends, Unread, Follows
<1>2. StackOK /\ ProblemsOK
  BY DEF CheckInv
<1>3. Decided'
  BY <1>1, Undecided
<1>4. PICK K : K \in Nat /\ K = Len(stack) /\ DOMAIN stack = 1..K /\ (stack = <<>> <=> K = 0)
  BY <1>2 DEF StackOK
<1>5. MaxDepth \in Nat /\ SelectedSteps \in Seq(StepsOf(suite))
  BY SuiteIs, SelectedStepsAre
<1>6. PICK R : R = Rest
  OBVIOUS
<1>7. /\ R \in Seq(Open) /\ Len(R) = K
      /\ \A k \in 1..K :
           /\ R[k].scenario = stack[k].scenario
           /\ ToSet(R[k].left) \subseteq ToSet(stack[k].left)
           /\ \A s \in ToSet(stack[k].left) : s \in ToSet(R[k].left) \/ (k = K /\ s = Step)
  <2>1. CASE K = 0
    BY <1>4, <1>6, <2>1 DEF Rest
  <2>2. CASE K # 0
    BY <1>1, <1>2, <1>4, <1>6, <2>2, RestIs, Zenon
  <2> QED
    BY <2>1, <2>2, Zenon
<1>8. to \in DOMAIN suite.own
  <2>1. CASE K = 0
    <3>1. Step = SelectedSteps[at + 1] /\ at < Len(SelectedSteps) /\ at \in Nat
      BY <1>1, <1>2, <1>4, <2>1 DEF Step, ProblemsOK
    <3>2. at + 1 \in DOMAIN SelectedSteps
      BY <1>5, <3>1
    <3>3. Step \in ToSet(SelectedSteps)
      BY <3>1, <3>2 DEF ToSet
    <3> QED
      BY <1>1, <1>5, <3>3, StepIs
  <2>2. CASE K # 0
    <3>1. Step \in ToSet(Steps(stack[K].scenario))
      BY <1>1, <1>2, <1>4, <2>2, RestIs
    <3>2. stack[K].scenario \in DOMAIN suite.own
      <4>1. stack[K] \in Open
        BY <1>2, <1>4, <2>2 DEF StackOK
      <4> QED
        BY <4>1 DEF Open
    <3> QED
      BY <1>1, <3>1, <3>2, StepIs, StepsAre
  <2> QED
    BY <2>1, <2>2
<1>9. new \in Open /\ new.scenario = to /\ new.left = Steps(to)
  <2>1. Steps(to) \in Seq(StepsOf(suite))
    BY <1>8, StepsAre
  <2> QED
    BY <1>8, <2>1 DEF Open
<1>10. Leads(Step, to)
  BY <1>1 DEF Leads
<1> HIDE DEF new, to
<1>11. PICK N : N = Append(R, new)
  BY Zenon
<1>12. /\ N \in Seq(Open) /\ Len(N) = K + 1 /\ DOMAIN N = 1..(K + 1) /\ stack' = N
       /\ N[K + 1] = new /\ \A k \in 1..K : N[k] = R[k]
  BY <1>1, <1>4, <1>6, <1>7, <1>9, <1>11
<1>13. \A k \in 1..(K + 1) : ToSet(N[k].left) \subseteq ToSet(Steps(N[k].scenario))
  <2>1. \A k \in 1..K : ToSet(R[k].left) \subseteq ToSet(Steps(R[k].scenario))
    BY <1>2, <1>4, <1>7, Zenon DEF StackOK
  <2>2. \A k \in 1..(K + 1) : k \in 1..K \/ k = K + 1
    BY <1>4
  <2> QED
    BY <1>9, <1>12, <2>1, <2>2, Zenon
<1>14. \A k \in 1..K : N[k].scenario = stack[k].scenario
  BY <1>7, <1>12
<1>15. K # 0 => K \in 1..K /\ Step \in ToSet(Steps(stack[K].scenario))
  BY <1>1, <1>2, <1>4, RestIs
<1>16. ASSUME NEW k \in 1..(K + 1), NEW s \in ToSet(Steps(N[k].scenario))
       PROVE  \/ s \in ToSet(N[k].left) \/ ~Breaks(s, MaxDepth - k)
              \/ k # K + 1 /\ Leads(s, N[k + 1].scenario)
  <2>1. CASE k = K + 1
    BY <1>9, <1>12, <2>1
  <2>2. CASE k \in 1..K
    <3>1. \/ s \in ToSet(stack[k].left) \/ ~Breaks(s, MaxDepth - k)
          \/ k # K /\ Leads(s, stack[k + 1].scenario)
      BY <1>2, <1>4, <1>14, <2>2 DEF StackOK
    <3>2. k # K + 1 /\ (k # K => k + 1 \in 1..K)
      BY <1>4, <2>2
    <3>3. CASE s \in ToSet(stack[k].left)
      <4>1. s \in ToSet(N[k].left) \/ (k = K /\ s = Step)
        BY <1>7, <1>12, <2>2, <3>3
      <4>2. k = K => N[k + 1].scenario = to
        BY <1>9, <1>12
      <4> QED
        BY <1>10, <3>2, <4>1, <4>2
    <3> QED
      BY <1>14, <3>1, <3>2, <3>3
  <2> QED
    BY <1>4, <2>1, <2>2
<1>17. ASSUME NEW k \in 1..(K + 1), k + 1 \in 1..(K + 1)
       PROVE  \E s \in ToSet(Steps(N[k].scenario)) : Leads(s, N[k + 1].scenario)
  <2>1. k \in 1..K /\ (k # K => k + 1 \in 1..K)
    BY <1>4, <1>17
  <2>2. CASE k = K
    <3>1. N[k + 1].scenario = to /\ Step \in ToSet(Steps(N[k].scenario))
      BY <1>9, <1>12, <1>14, <1>15, <2>1, <2>2
    <3> QED
      BY <1>10, <3>1
  <2>3. CASE k # K
    <3>1. \E s \in ToSet(Steps(stack[k].scenario)) : Leads(s, stack[k + 1].scenario)
      BY <1>2, <1>4, <2>1, <2>3, Zenon DEF StackOK
    <3> QED
      BY <1>14, <2>1, <2>3, <3>1
  <2> QED
    BY <2>2, <2>3
<1>18. StackOK'
  <2>1. Len(N) <= MaxDepth
    BY <1>1, <1>4, <1>5, <1>12
  <2> QED
    BY <1>1, <1>12, <1>13, <1>16, <1>17, <2>1, StackBecomes, Zenon
<1>19. ProblemsOK'
  <2>1. Doomed' = Doomed /\ SelectedSteps' = SelectedSteps
    BY <1>1, SuiteStays
  <2>2. at < Len(SelectedSteps) /\ Leads(SelectedSteps[at + 1], N[1].scenario)
    <3>1. CASE K = 0
      <4>1. Step = SelectedSteps[at + 1] /\ N[1] = new
        BY <1>4, <1>12, <3>1 DEF Step
      <4> QED
        BY <1>1, <1>4, <1>9, <1>10, <3>1, <4>1
    <3>2. CASE K # 0
      BY <1>2, <1>4, <1>14, <3>2 DEF ProblemsOK
    <3> QED
      BY <3>1, <3>2
  <2> QED
    BY <1>1, <1>2, <1>12, <2>1, <2>2 DEF ProblemsOK, Breaks
<1> QED
  BY <1>3, <1>18, <1>19 DEF CheckInv

\* An include none of whose steps breaks could run.
LEMMA IncludeRuns ==
  ASSUME suite \in Suites, NEW sc \in DOMAIN suite.own, NEW k \in 1..MaxDepth,
         \A s \in ToSet(Steps(sc)) : ~Breaks(s, MaxDepth - k)
  PROVE  \A s : Leads(s, sc) => ~Breaks(s, MaxDepth - (k - 1))
<1>1. PICK n : n = MaxDepth - (k - 1) /\ n \in 0..MaxDepth /\ n # 0 /\ n - 1 = MaxDepth - k
  BY SuiteIs
<1>2. ~Doomed[n][sc]
  BY <1>1, DoomedIs
<1> QED
  BY <1>1, <1>2 DEF Leads, Breaks

LEMMA ReturnsChecks == suite \in Suites /\ CheckInv /\ Returns => CheckInv'
<1> SUFFICES ASSUME suite \in Suites, CheckInv, Returns PROVE CheckInv'
  OBVIOUS
<1>1. /\ suite' = suite /\ phase' = phase /\ phase = "checking" /\ problems' = problems
      /\ stack # <<>> /\ Last(stack).left = <<>> /\ stack' = Front(stack)
      /\ at' = IF Len(stack) = 1 THEN at + 1 ELSE at
  BY DEF Returns
<1>2. StackOK /\ ProblemsOK /\ MaxDepth \in Nat
  BY SuiteIs DEF CheckInv
<1>3. Decided'
  BY <1>1, Undecided
<1>4. PICK K : K \in Nat \ {0} /\ K = Len(stack) /\ DOMAIN stack = 1..K /\ K <= MaxDepth
  BY <1>1, <1>2 DEF StackOK
<1>5. PICK sc : sc = stack[K].scenario /\ sc \in DOMAIN suite.own
  <2>1. stack[K] \in Open
    BY <1>2, <1>4 DEF StackOK
  <2> QED
    BY <2>1 DEF Open
<1>6. \A s \in ToSet(Steps(sc)) : ~Breaks(s, MaxDepth - K)
  <2>1. ToSet(stack[K].left) = {} /\ K \in 1..K
    BY <1>1, <1>4 DEF Last, ToSet
  <2> QED
    BY <1>2, <1>4, <1>5, <2>1, Zenon DEF StackOK
<1>7. \A s : Leads(s, sc) => ~Breaks(s, MaxDepth - (K - 1))
  <2>1. K \in 1..MaxDepth
    BY <1>2, <1>4
  <2> QED
    BY <1>5, <1>6, <2>1, IncludeRuns
<1>8. PICK N : N = Front(stack)
  OBVIOUS
<1>9. /\ N \in Seq(Open) /\ Len(N) = K - 1 /\ DOMAIN N = 1..(K - 1)
      /\ \A k \in 1..(K - 1) : N[k] = stack[k] /\ stack' = N
  BY <1>1, <1>2, <1>4, <1>8 DEF Front, StackOK
<1>10. CASE K = 1
  <2>1. stack' = <<>> /\ at' = at + 1
    BY <1>1, <1>4, <1>8, <1>9, <1>10
  <2>2. at < Len(SelectedSteps) /\ Leads(SelectedSteps[at + 1], sc)
    BY <1>1, <1>2, <1>5, <1>10 DEF ProblemsOK
  <2>3. ~Breaks(SelectedSteps[at + 1], MaxDepth)
    <3>1. MaxDepth - (K - 1) = MaxDepth
      BY <1>2, <1>10
    <3> QED
      BY <1>7, <2>2, <3>1
  <2>4. ProblemsOK'
    BY <1>1, <1>2, <2>1, <2>2, <2>3, OneMore
  <2> QED
    BY <1>1, <1>3, <2>1, <2>4, StackEmpties DEF CheckInv
<1>11. CASE K # 1
  <2>0. stack' = N /\ \A k \in 1..(K - 1) : k \in 1..K /\ k # K
    BY <1>1, <1>4, <1>8
  <2>1. \A k \in 1..(K - 1) : ToSet(N[k].left) \subseteq ToSet(Steps(N[k].scenario))
    BY <1>2, <1>4, <1>9, <2>0, Zenon DEF StackOK
  <2>2. ASSUME NEW k \in 1..(K - 1), NEW s \in ToSet(Steps(N[k].scenario))
        PROVE  \/ s \in ToSet(N[k].left) \/ ~Breaks(s, MaxDepth - k)
               \/ k # K - 1 /\ Leads(s, N[k + 1].scenario)
    <3>1. \/ s \in ToSet(N[k].left) \/ ~Breaks(s, MaxDepth - k)
          \/ Leads(s, stack[k + 1].scenario)
      BY <1>2, <1>4, <1>9, <2>0, Zenon DEF StackOK
    <3>2. CASE k = K - 1
      <4>1. stack[k + 1].scenario = sc /\ MaxDepth - (K - 1) = MaxDepth - k
        BY <1>4, <1>5, <3>2
      <4> QED
        BY <1>7, <3>1, <4>1
    <3>3. CASE k # K - 1
      <4>1. N[k + 1] = stack[k + 1]
        BY <1>4, <1>9, <3>3
      <4> QED
        BY <3>1, <3>3, <4>1
    <3> QED
      BY <3>2, <3>3
  <2>3. ASSUME NEW k \in 1..(K - 1), k + 1 \in 1..(K - 1)
        PROVE  \E s \in ToSet(Steps(N[k].scenario)) : Leads(s, N[k + 1].scenario)
    <3>1. N[k] = stack[k] /\ N[k + 1] = stack[k + 1] /\ k \in 1..K /\ k + 1 \in 1..K
      BY <1>4, <1>9, <2>3
    <3> QED
      BY <1>2, <1>4, <3>1, Zenon DEF StackOK
  <2>4. StackOK'
    <3>1. Len(N) <= MaxDepth
      BY <1>2, <1>4, <1>9
    <3> QED
      BY <1>1, <1>9, <2>0, <2>1, <2>2, <2>3, <3>1, StackBecomes, Zenon
  <2>5. ProblemsOK'
    <3>1. Doomed' = Doomed /\ SelectedSteps' = SelectedSteps
      BY <1>1, SuiteStays
    <3>2. stack'[1] = stack[1] /\ at' = at
      BY <1>1, <1>4, <1>9, <1>11, <2>0
    <3> QED
      BY <1>1, <1>2, <3>1, <3>2 DEF ProblemsOK, Breaks
  <2> QED
    BY <1>3, <2>4, <2>5 DEF CheckInv
<1> QED
  BY <1>10, <1>11

\* What breaks in the innermost include breaks the top-level step.
LEMMA BreaksOutward ==
  ASSUME suite \in Suites, StackOK, NEW K \in Nat \ {0}, K = Len(stack),
         NEW s \in ToSet(Steps(stack[K].scenario)), Breaks(s, MaxDepth - K)
  PROVE  \A x : Leads(x, stack[1].scenario) => Breaks(x, MaxDepth)
<1> DEFINE S == {m \in Nat : m < K => Doomed[MaxDepth - (K - m) + 1][stack[K - m].scenario]}
<1>1. MaxDepth \in Nat /\ K <= MaxDepth /\ DOMAIN stack = 1..K
  BY SuiteIs DEF StackOK
<1>2. \A k \in 1..K : stack[k].scenario \in DOMAIN suite.own
  <2>1. \A k \in 1..K : stack[k] \in Open
    BY <1>1 DEF StackOK
  <2> QED
    BY <2>1 DEF Open
<1>3. \A k \in 1..K : /\ MaxDepth - k + 1 \in 0..MaxDepth /\ MaxDepth - k + 1 # 0
                      /\ (MaxDepth - k + 1) - 1 = MaxDepth - k
  BY <1>1
<1>4. ASSUME NEW k \in 1..K, NEW x \in ToSet(Steps(stack[k].scenario)), Breaks(x, MaxDepth - k)
      PROVE  Doomed[MaxDepth - k + 1][stack[k].scenario]
  <2>1. PICK n : n = MaxDepth - k + 1 /\ n \in 0..MaxDepth /\ n - 1 = MaxDepth - k
    BY <1>3
  <2>2. \E y \in ToSet(Steps(stack[k].scenario)) : Breaks(y, n - 1)
    BY <1>4, <2>1
  <2>3. Doomed[n][stack[k].scenario]
    BY <1>2, <2>1, <2>2, DoomedIs
  <2> QED
    BY <2>1, <2>3
<1>5. 0 \in S
  <2>1. K \in 1..K /\ K - 0 = K
    OBVIOUS
  <2> QED
    BY <1>4, <2>1
<1>6. ASSUME NEW m \in Nat, m \in S PROVE m + 1 \in S
  <2>1. ASSUME m + 1 < K PROVE Doomed[MaxDepth - (K - (m + 1)) + 1][stack[K - (m + 1)].scenario]
    <3>1. PICK k : /\ k = K - (m + 1) /\ k \in 1..K /\ k + 1 \in 1..K /\ k + 1 = K - m /\ m < K
                   /\ MaxDepth - (K - m) + 1 = MaxDepth - k
      BY <1>1, <2>1
    <3>2. Doomed[MaxDepth - k][stack[k + 1].scenario]
      BY <1>6, <3>1
    <3>3. PICK x \in ToSet(Steps(stack[k].scenario)) : Leads(x, stack[k + 1].scenario)
      BY <1>1, <3>1, Zenon DEF StackOK
    <3>4. Breaks(x, MaxDepth - k)
      BY <3>2, <3>3 DEF Leads, Breaks
    <3> QED
      BY <1>4, <3>1, <3>4, Zenon
  <2> QED
    BY <2>1
<1> HIDE DEF S
<1>7. K - 1 \in S
  <2>1. \A n \in Nat : n \in S
    BY <1>5, <1>6, SetInduction
  <2> QED
    BY <2>1
<1> USE DEF S
<1>8. Doomed[MaxDepth][stack[1].scenario]
  <2>1. K - 1 < K /\ K - (K - 1) = 1 /\ MaxDepth - 1 + 1 = MaxDepth
    BY <1>1
  <2> QED
    BY <1>7, <2>1
<1> QED
  BY <1>8 DEF Leads, Breaks

\* An include of one that is open never ends.
LEMMA CycleBreaks ==
  ASSUME suite \in Suites, StackOK, NEW K \in Nat \ {0}, K = Len(stack),
         NEW s \in ToSet(Steps(stack[K].scenario)), NEW j \in 1..K, Leads(s, stack[j].scenario)
  PROVE  \A n \in 0..MaxDepth : Breaks(s, n)
<1> DEFINE S == {n \in Nat : n \in 0..MaxDepth => \A k \in j..K : Doomed[n][stack[k].scenario]}
<1>1. MaxDepth \in Nat /\ K <= MaxDepth /\ DOMAIN stack = 1..K /\ j \in j..K
  BY SuiteIs DEF StackOK
<1>2. \A k \in 1..K : stack[k].scenario \in DOMAIN suite.own
  <2>1. \A k \in 1..K : stack[k] \in Open
    BY <1>1 DEF StackOK
  <2> QED
    BY <2>1 DEF Open
<1>3. 0 \in S
  <2>1. ASSUME 0 \in 0..MaxDepth, NEW k \in j..K PROVE Doomed[0][stack[k].scenario]
    BY <1>2, <2>1, DoomedIs
  <2> QED
    BY <2>1
<1>4. ASSUME NEW n \in Nat, n \in S PROVE n + 1 \in S
  <2>1. ASSUME n + 1 \in 0..MaxDepth, NEW k \in j..K PROVE Doomed[n + 1][stack[k].scenario]
    <3>1. n \in 0..MaxDepth /\ (n + 1) - 1 = n
      BY <1>1, <2>1
    <3>2. \A i \in j..K : Doomed[n][stack[i].scenario]
      BY <1>4, <3>1
    <3>3. \E x \in ToSet(Steps(stack[k].scenario)) : Breaks(x, n)
      <4>1. CASE k = K
        BY <1>1, <3>2, <4>1 DEF Leads, Breaks
      <4>2. CASE k # K
        <5>1. PICK i : i = k + 1 /\ k \in 1..K /\ i \in 1..K /\ i \in j..K
          BY <4>2
        <5>2. PICK x \in ToSet(Steps(stack[k].scenario)) : Leads(x, stack[i].scenario)
          BY <1>1, <5>1, Zenon DEF StackOK
        <5>3. Breaks(x, n)
          BY <3>2, <5>1, <5>2 DEF Leads, Breaks
        <5> QED
          BY <5>2, <5>3
      <4> QED
        BY <4>1, <4>2
    <3> QED
      BY <1>2, <2>1, <3>1, <3>3, DoomedIs
  <2> QED
    BY <2>1
<1> HIDE DEF S
<1>5. \A n \in Nat : n \in S
  BY <1>3, <1>4, SetInduction
<1> USE DEF S
<1> QED
  BY <1>1, <1>5 DEF Leads, Breaks

LEMMA ReportsChecks == suite \in Suites /\ CheckInv /\ Reports => CheckInv'
<1> SUFFICES ASSUME suite \in Suites, CheckInv, Reports PROVE CheckInv'
  OBVIOUS
<1>1. /\ suite' = suite /\ phase' = phase /\ phase = "checking" /\ problems' = problems \cup {at + 1}
      /\ IF stack = <<>> THEN at < Len(SelectedSteps) ELSE Last(stack).left # <<>>
      /\ at' = at + 1 /\ stack' = <<>> /\ Step.kind \notin {"known", "macro"} /\ ~Follows
  BY DEF Reports, Unread
<1>2. StackOK /\ ProblemsOK
  BY DEF CheckInv
<1>3. Decided'
  BY <1>1, Undecided
<1>4. PICK K : K \in Nat /\ K = Len(stack) /\ DOMAIN stack = 1..K /\ (stack = <<>> <=> K = 0)
  BY <1>2 DEF StackOK
<1>5. MaxDepth \in Nat /\ MaxDepth >= 1 /\ SelectedSteps \in Seq(StepsOf(suite))
  BY SuiteIs, SelectedStepsAre
<1>6. /\ at < Len(SelectedSteps) /\ Breaks(SelectedSteps[at + 1], MaxDepth)
  <2>1. CASE K = 0
    <3>1. Step = SelectedSteps[at + 1] /\ at < Len(SelectedSteps) /\ at \in Nat
      BY <1>1, <1>2, <1>4, <2>1 DEF Step, ProblemsOK
    <3>2. at + 1 \in DOMAIN SelectedSteps
      BY <1>5, <3>1
    <3>3. Step \in ToSet(SelectedSteps)
      BY <3>1, <3>2 DEF ToSet
    <3>4. Step.kind \in {"bad", "lost", "include"}
      BY <1>1, <1>5, <3>3, StepIs
    <3>5. Step.kind # "include"
      BY <1>1, <1>4, <1>5, <2>1 DEF Follows
    <3> QED
      BY <3>1, <3>4, <3>5 DEF Breaks
  <2>2. CASE K # 0
    <3>1. Step \in ToSet(Steps(stack[K].scenario))
      BY <1>1, <1>2, <1>4, <2>2, RestIs
    <3>2. stack[K].scenario \in DOMAIN suite.own /\ K <= MaxDepth
      <4>1. stack[K] \in Open /\ K <= MaxDepth
        BY <1>2, <1>4, <2>2 DEF StackOK
      <4> QED
        BY <4>1 DEF Open
    <3>3. Step.kind \in {"bad", "lost", "include"} /\ (Step.kind = "include" => Step.to \in DOMAIN suite.own)
      BY <1>1, <3>1, <3>2, StepIs, StepsAre
    <3>4. Breaks(Step, MaxDepth - K)
      <4>1. CASE Step.kind # "include"
        BY <3>3, <4>1 DEF Breaks
      <4>2. CASE Step.kind = "include" /\ K >= MaxDepth
        <5>1. MaxDepth - K = 0 /\ 0 \in 0..MaxDepth
          BY <1>4, <1>5, <3>2, <4>2
        <5>2. Doomed[0][Step.to]
          BY <3>3, <4>2, <5>1, DoomedIs
        <5> QED
          BY <4>2, <5>1, <5>2 DEF Breaks
      <4>3. CASE Step.kind = "include" /\ K < MaxDepth
        <5>1. PICK j \in 1..K : stack[j].scenario = Step.to
          BY <1>1, <1>4, <4>3 DEF Follows
        <5>2. Leads(Step, stack[j].scenario) /\ MaxDepth - K \in 0..MaxDepth
          BY <1>4, <1>5, <4>3, <5>1 DEF Leads
        <5>3. \A n \in 0..MaxDepth : Breaks(Step, n)
          BY <1>2, <1>4, <2>2, <3>1, <5>2, CycleBreaks
        <5> QED
          BY <5>2, <5>3
      <4> QED
        BY <1>4, <1>5, <4>1, <4>2, <4>3
    <3>5. \A x : Leads(x, stack[1].scenario) => Breaks(x, MaxDepth)
      BY <1>2, <1>4, <2>2, <3>1, <3>4, BreaksOutward
    <3> QED
      BY <1>2, <1>4, <2>2, <3>5 DEF ProblemsOK
  <2> QED
    BY <2>1, <2>2
<1>7. StackOK' /\ ProblemsOK'
  BY <1>1, <1>2, <1>6, StackEmpties, OneMore
<1> QED
  BY <1>3, <1>7 DEF CheckInv

LEMMA DecidesChecks == suite \in Suites /\ CheckInv /\ Decides => CheckInv'
<1> SUFFICES ASSUME suite \in Suites, CheckInv, Decides PROVE CheckInv'
  OBVIOUS
<1>1. /\ suite' = suite /\ at' = at /\ stack' = stack /\ problems' = problems /\ stack = <<>>
      /\ at = Len(SelectedSteps) /\ phase' = IF problems = {} THEN "running" ELSE "refused"
  BY DEF Decides, checking
<1>2. Doomed' = Doomed /\ SelectedSteps' = SelectedSteps
  BY <1>1, SuiteStays
<1>3. StackOK'
  BY <1>1, StackEmpties
<1>4. ProblemsOK'
  BY <1>1, <1>2 DEF CheckInv, ProblemsOK, Breaks
<1>5. Decided'
  BY <1>1, <1>2 DEF Decided
<1> QED
  BY <1>3, <1>4, <1>5 DEF CheckInv

LEMMA CheckNext == suite \in Suites /\ CheckInv /\ [SuiteNext]_suiteVars => CheckInv'
<1> SUFFICES ASSUME suite \in Suites, CheckInv, [SuiteNext]_suiteVars PROVE CheckInv'
  OBVIOUS
<1>1. CASE Accepts
  BY <1>1, AcceptsChecks
<1>2. CASE Descends
  BY <1>2, DescendsChecks
<1>3. CASE Reports
  BY <1>3, ReportsChecks
<1>4. CASE Returns
  BY <1>4, ReturnsChecks
<1>5. CASE Decides
  BY <1>5, DecidesChecks
<1>6. CASE ReadsBodies \/ Visits \/ FollowsCall \/ Leaves \/ Measures
  BY <1>6, CheckStays DEF ReadsBodies, Visits, FollowsCall, Leaves, Measures, checking
<1>7. CASE ScenarioStarts \/ StepEnds \/ Calls \/ Meets \/ BodyEnds \/ Ends
  BY <1>7, CheckStays DEF ScenarioStarts, StepEnds, Calls, Meets, BodyEnds, Ends, Executes, checking
<1>8. CASE UNCHANGED suiteVars
  BY <1>8, CheckStays DEF suiteVars
<1> QED
  BY <1>1, <1>2, <1>3, <1>4, <1>5, <1>6, <1>7, <1>8 DEF SuiteNext

-----------------------------------------------------------------------------
\* The run of what was not refused.
Frames == [kind : {"scenario", "macro", "include"}, left : Seq(StepsOf(suite))]

\* No macro is on the way to body k, or nothing else below the scenario.
Checked(c, k) == \A i \in 1..k : c[i].kind # "macro"
Nested(c, k) == \A i \in 2..k : c[i].kind = "macro"

\* A macro's body has no step the registry refuses.  Where the check has been,
\* every step to come could run; below macros alone, every macro still fits.
FrameOK(c, k) ==
  /\ c[k].kind = "scenario" <=> k = 1
  /\ c[k].kind = "macro" => \A s \in ToSet(c[k].left) : s.kind # "bad"
  /\ Checked(c, k) => \A s \in ToSet(c[k].left) : ~Breaks(s, MaxDepth - (k - 1))
  /\ Nested(c, k) => \A s \in ToSet(c[k].left) : s.kind = "macro" => Depths[s.to] <= MaxDepth - (k - 1)

FramesOK(c) ==
  /\ c \in Seq(Frames) /\ Len(c) <= MaxDepth + 1
  /\ \A k \in DOMAIN c : FrameOK(c, k)

CallsInv ==
  /\ left \in Seq(DOMAIN suite.own) /\ ToSet(left) \subseteq ToSet(suite.selected)
  /\ calls # <<>> => phase = "running" /\ left # <<>>
  /\ FramesOK(calls)
  /\ MetBeyondCheck

LEMMA FrameStays ==
  ASSUME NEW c, NEW d, NEW k \in Nat \ {0}, FrameOK(c, k), \A i \in 1..k : d[i].kind = c[i].kind,
         ToSet(d[k].left) \subseteq ToSet(c[k].left)
  PROVE  FrameOK(d, k)
<1>1. k \in 1..k /\ \A i \in 2..k : i \in 1..k
  OBVIOUS
<1>2. (Checked(d, k) <=> Checked(c, k)) /\ (Nested(d, k) <=> Nested(c, k))
  BY <1>1 DEF Checked, Nested
<1> QED
  BY <1>1, <1>2 DEF FrameOK

LEMMA CallsBecome ==
  ASSUME suite' = suite, NEW R, calls' = R, FramesOK(R)
  PROVE  FramesOK(calls)'
<1>1. Doomed' = Doomed /\ Depths' = Depths
  BY SuiteStays
<1>2. Frames' = Frames
  BY DEF Frames, StepsOf
<1>3. \A s, n : Breaks(s, n)' <=> Breaks(s, n)
  BY <1>1 DEF Breaks
<1>4. \A k : FrameOK(R, k)' <=> FrameOK(R, k)
  BY <1>1, <1>3 DEF FrameOK
<1>5. FramesOK(R)'
  BY <1>2, <1>4 DEF FramesOK
<1> QED
  BY <1>5

LEMMA CallsEmpty ==
  ASSUME suite \in Suites
  PROVE  FramesOK(<<>>)
<1>1. MaxDepth \in Nat /\ Len(<<>>) = 0 /\ DOMAIN <<>> = {} /\ <<>> \in Seq(Frames)
  BY SuiteIs
<1> QED
  BY <1>1 DEF FramesOK

\* What the checks have left to a run.
LEMMA RunningIs ==
  ASSUME BuildInv, CheckInv, phase = "running"
  PROVE  /\ Clean /\ Weighs(Depths, DOMAIN suite.macros)
         /\ \A m \in DOMAIN suite.macros : Depths[m] <= MaxDepth
         /\ \A sc \in ToSet(suite.selected) : \A s \in ToSet(Steps(sc)) : ~Breaks(s, MaxDepth)
<1>1. suite \in Suites /\ PhaseOK /\ phase \in Later
  BY DEF BuildInv, Later
<1>2. /\ Clean /\ Weighs(Depths, DOMAIN suite.macros)
      /\ \A m \in DOMAIN suite.macros : Depths[m] <= MaxDepth
  BY <1>1 DEF PhaseOK
<1>3. problems = {} /\ at = Len(SelectedSteps) /\ SelectedSteps \in Seq(StepsOf(suite))
  BY <1>1, SelectedStepsAre DEF CheckInv, Decided
<1>4. \A i \in 1..at : ~Breaks(SelectedSteps[i], MaxDepth)
  BY <1>3 DEF CheckInv, ProblemsOK
<1>5. \A s \in ToSet(SelectedSteps) : ~Breaks(s, MaxDepth)
  <2>1. DOMAIN SelectedSteps = 1..at
    BY <1>3
  <2> QED
    BY <1>4, <2>1 DEF ToSet
<1> QED
  BY <1>1, <1>2, <1>5, SelectedStepsAre

\* The step in hand, and the bodies once it is done.
LEMMA AdvancedIs ==
  ASSUME suite \in Suites, FramesOK(calls), calls # <<>>, Last(calls).left # <<>>
  PROVE  /\ Advanced \in Seq(Frames) /\ Len(Advanced) = Len(calls)
         /\ FramesOK(Advanced)
         /\ Now \in ToSet(calls[Len(calls)].left) /\ Now \in StepsOf(suite)
         /\ \A k \in DOMAIN calls : Advanced[k].kind = calls[k].kind
<1>1. PICK K : K \in Nat \ {0} /\ K = Len(calls) /\ DOMAIN calls = 1..K /\ \A k \in 1..K : calls[k] \in Frames
  BY DEF FramesOK
<1> DEFINE L == calls[K].left
<1>2. L \in Seq(StepsOf(suite)) /\ L # <<>> /\ K \in DOMAIN calls
  BY <1>1 DEF Frames, Last
<1>3. Now = Head(L)
  BY <1>1 DEF Now, Last
<1>4. Tail(L) \in Seq(StepsOf(suite)) /\ Now \in ToSet(L) /\ ToSet(Tail(L)) \subseteq ToSet(L)
  BY <1>2, <1>3, TailsAre
<1>5. Now \in StepsOf(suite)
  BY <1>2, <1>4 DEF ToSet
<1>6. PICK A : A = Advanced
  OBVIOUS
<1>7. DOMAIN A = 1..K /\ \A k \in 1..K : k # K => A[k] = calls[k]
  BY <1>1, <1>6 DEF Advanced
<1>8. A[K].kind = calls[K].kind /\ A[K].left = Tail(L) /\ A[K] \in Frames
  <2>1. A[K] = [calls[K] EXCEPT !.left = Tail(L)]
    BY <1>1, <1>2, <1>6, Zenon DEF Advanced
  <2> HIDE DEF L
  <2>2. calls[K] \in Frames
    BY <1>1
  <2> QED
    BY <1>4, <2>1, <2>2, Zenon DEF Frames
<1>9. A \in Seq(Frames) /\ Len(A) = K
  <2>1. \A k \in 1..K : A[k] \in Frames
    BY <1>1, <1>7, <1>8
  <2>2. A = [k \in 1..K |-> A[k]]
    BY <1>6, <1>7, Zenon DEF Advanced
  <2> QED
    BY <1>1, <2>1, <2>2
<1> HIDE DEF L
<1>10. \A k \in 1..K : A[k].kind = calls[k].kind /\ ToSet(A[k].left) \subseteq ToSet(calls[k].left)
  <2> SUFFICES ASSUME NEW k \in 1..K
               PROVE  A[k].kind = calls[k].kind /\ ToSet(A[k].left) \subseteq ToSet(calls[k].left)
    OBVIOUS
  <2>1. CASE k = K
    BY <1>4, <1>8, <2>1 DEF L
  <2>2. CASE k # K
    BY <1>7, <2>2
  <2> QED
    BY <2>1, <2>2
<1>11. FramesOK(A)
  <2>1. ASSUME NEW k \in 1..K PROVE FrameOK(A, k)
    <3>1. FrameOK(calls, k) /\ k \in Nat \ {0}
      BY <1>1 DEF FramesOK
    <3>2. \A i \in 1..k : i \in 1..K
      BY <1>1
    <3>3. PICK c : c = calls
      OBVIOUS
    <3>4. FrameOK(c, k) /\ \A i \in 1..k : A[i].kind = c[i].kind
      BY <1>10, <3>1, <3>2, <3>3
    <3>5. ToSet(A[k].left) \subseteq ToSet(c[k].left)
      BY <1>10, <3>3
    <3> QED
      BY <3>1, <3>4, <3>5, FrameStays
  <2> QED
    BY <1>1, <1>7, <1>9, <2>1 DEF FramesOK
<1> QED
  BY <1>1, <1>4, <1>5, <1>6, <1>9, <1>10, <1>11 DEF L

LEMMA LeftStays ==
  ASSUME suite' = suite, left' = left, left \in Seq(DOMAIN suite.own), ToSet(left) \subseteq ToSet(suite.selected)
  PROVE  (left \in Seq(DOMAIN suite.own))' /\ (ToSet(left) \subseteq ToSet(suite.selected))'
OBVIOUS

LEMMA LeftGoes ==
  ASSUME suite' = suite, left' = Tail(left), left # <<>>,
         left \in Seq(DOMAIN suite.own), ToSet(left) \subseteq ToSet(suite.selected)
  PROVE  (left \in Seq(DOMAIN suite.own))' /\ (ToSet(left) \subseteq ToSet(suite.selected))'
<1>1. Tail(left) \in Seq(DOMAIN suite.own) /\ ToSet(Tail(left)) \subseteq ToSet(left)
  BY TailsAre
<1> QED
  BY <1>1

\* The steps that leave the bodies and what they met alone.
LEMMA CallsStay ==
  ASSUME CallsInv, suite' = suite, calls' = calls, left' = left, met' = met, calls # <<>> => phase' = phase
  PROVE  CallsInv'
<1>1. PICK R : R = calls
  OBVIOUS
<1>2. FramesOK(calls)'
  BY <1>1, CallsBecome DEF CallsInv
<1> QED
  BY <1>2, LeftStays DEF CallsInv, MetBeyondCheck

\* The end of a scenario, however it comes.
LEMMA CallsEnd ==
  ASSUME suite \in Suites, CallsInv, calls # <<>>, suite' = suite, calls' = <<>>, left' = Tail(left), MetBeyondCheck'
  PROVE  CallsInv'
<1>1. FramesOK(calls)'
  BY CallsEmpty, CallsBecome
<1> QED
  BY <1>1, LeftGoes DEF CallsInv

LEMMA StartsRuns == BuildInv /\ CheckInv /\ CallsInv /\ ScenarioStarts => CallsInv'
<1> SUFFICES ASSUME BuildInv, CheckInv, CallsInv, ScenarioStarts PROVE CallsInv'
  OBVIOUS
<1>1. /\ suite' = suite /\ phase' = phase /\ phase = "running" /\ left # <<>> /\ left' = left /\ met' = met
      /\ calls' = <<Body("scenario", Steps(Head(left)))>>
  BY DEF ScenarioStarts
<1>2. PICK sc : sc = Head(left) /\ sc \in ToSet(suite.selected) /\ sc \in DOMAIN suite.own
  <2>1. Head(left) \in ToSet(left)
    BY <1>1, TailsAre DEF CallsInv
  <2>2. Head(left) \in ToSet(suite.selected) /\ Head(left) \in DOMAIN suite.own
    BY <2>1, SelectedStepsAre DEF CallsInv, BuildInv
  <2> QED
    BY <2>2
<1>3. PICK f : f = Body("scenario", Steps(sc)) /\ f \in Frames /\ f.kind = "scenario" /\ f.left = Steps(sc)
  <2>1. Steps(sc) \in Seq(StepsOf(suite))
    BY <1>2, StepsAre DEF BuildInv
  <2>2. LET f == Body("scenario", Steps(sc)) IN f \in Frames /\ f.kind = "scenario" /\ f.left = Steps(sc)
    BY <2>1 DEF Body, Frames
  <2> QED
    BY <2>2, Zenon
<1>4. PICK R : R = <<f>>
  BY Zenon
<1>5. R \in Seq(Frames) /\ Len(R) = 1 /\ DOMAIN R = {1} /\ R[1] = f /\ calls' = R /\ R # <<>>
  BY <1>1, <1>2, <1>3, <1>4
<1>6. MaxDepth \in Nat /\ MaxDepth - (1 - 1) = MaxDepth /\ 1 <= MaxDepth + 1
  BY SuiteIs DEF BuildInv
<1>7. /\ \A s \in ToSet(f.left) : ~Breaks(s, MaxDepth)
      /\ \A s \in ToSet(f.left) : s.kind = "macro" => Depths[s.to] <= MaxDepth
  <2>1. \A s \in ToSet(f.left) : s.kind = "macro" => s.to \in DOMAIN suite.macros
    BY <1>2, <1>3, StepsAre, StepIs DEF BuildInv
  <2> QED
    BY <1>1, <1>2, <1>3, <2>1, RunningIs
<1>8. FrameOK(R, 1)
  BY <1>3, <1>5, <1>6, <1>7 DEF FrameOK
<1>9. FramesOK(R)
  BY <1>5, <1>6, <1>8 DEF FramesOK
<1>10. FramesOK(calls)'
  BY <1>1, <1>5, <1>9, CallsBecome
<1> QED
  BY <1>1, <1>10, LeftStays DEF CallsInv, MetBeyondCheck

\* The bodies once the step in hand is done, and none is added.
LEMMA GoesOnRuns ==
  ASSUME suite \in Suites, CallsInv, suite' = suite, phase' = phase, calls # <<>>, Last(calls).left # <<>>,
         calls' = Advanced, left' = left, met' = met
  PROVE  CallsInv'
<1>1. PICK R : R = Advanced /\ R # <<>> /\ FramesOK(R)
  <2>1. FramesOK(Advanced) /\ Len(Advanced) = Len(calls) /\ Len(calls) # 0
    BY AdvancedIs DEF CallsInv, FramesOK
  <2> QED
    BY <2>1
<1>2. FramesOK(calls)'
  BY <1>1, CallsBecome
<1> QED
  BY <1>1, <1>2, LeftStays DEF CallsInv, MetBeyondCheck

LEMMA StepEndsRuns == suite \in Suites /\ CallsInv /\ StepEnds => CallsInv'
<1> SUFFICES ASSUME suite \in Suites, CallsInv, StepEnds PROVE CallsInv'
  OBVIOUS
<1>1. /\ suite' = suite /\ phase' = phase /\ met' = met /\ calls # <<>> /\ Last(calls).left # <<>>
      /\ (calls' = Advanced /\ left' = left) \/ (calls' = <<>> /\ left' = Tail(left))
  BY DEF StepEnds, Executes, ScenarioFails
<1>2. CASE calls' = Advanced /\ left' = left
  BY <1>1, <1>2, GoesOnRuns
<1>3. CASE calls' = <<>> /\ left' = Tail(left)
  <2>1. MetBeyondCheck'
    BY <1>1 DEF CallsInv, MetBeyondCheck
  <2> QED
    BY <1>1, <1>3, <2>1, CallsEnd
<1> QED
  BY <1>1, <1>2, <1>3

LEMMA BodyEndsRuns == suite \in Suites /\ CallsInv /\ BodyEnds => CallsInv'
<1> SUFFICES ASSUME suite \in Suites, CallsInv, BodyEnds PROVE CallsInv'
  OBVIOUS
<1>1. /\ suite' = suite /\ phase' = phase /\ met' = met /\ calls # <<>> /\ calls' = Front(calls)
      /\ left' = IF Len(calls) = 1 THEN Tail(left) ELSE left
  BY DEF BodyEnds
<1>2. MetBeyondCheck'
  BY <1>1 DEF CallsInv, MetBeyondCheck
<1>3. PICK K : K \in Nat \ {0} /\ K = Len(calls) /\ DOMAIN calls = 1..K /\ K <= MaxDepth + 1
  BY <1>1 DEF CallsInv, FramesOK
<1>4. PICK R : R = Front(calls)
  OBVIOUS
<1>5. R \in Seq(Frames) /\ Len(R) = K - 1 /\ DOMAIN R = 1..(K - 1) /\ \A k \in 1..(K - 1) : R[k] = calls[k]
  BY <1>1, <1>3, <1>4 DEF Front, CallsInv, FramesOK
<1>6. CASE K = 1
  <2>1. calls' = <<>> /\ left' = Tail(left)
    BY <1>1, <1>3, <1>4, <1>5, <1>6
  <2> QED
    BY <1>1, <1>2, <2>1, CallsEnd
<1>7. CASE K # 1
  <2>1. R # <<>>
    BY <1>3, <1>5, <1>7
  <2>2. PICK c : c = calls
    OBVIOUS
  <2>3. ASSUME NEW k \in 1..(K - 1) PROVE FrameOK(R, k)
    <3>1. FrameOK(c, k) /\ k \in Nat \ {0}
      BY <1>3, <2>2 DEF CallsInv, FramesOK
    <3>2. \A i \in 1..k : R[i].kind = c[i].kind
      BY <1>3, <1>5, <2>2
    <3>3. ToSet(R[k].left) \subseteq ToSet(c[k].left)
      BY <1>5, <2>2
    <3> QED
      BY <3>1, <3>2, <3>3, FrameStays
  <2>4. Len(R) <= MaxDepth + 1
    BY <1>3, <1>5, SuiteIs
  <2>5. FramesOK(R)
    BY <1>5, <2>3, <2>4 DEF FramesOK
  <2>6. FramesOK(calls)'
    BY <1>1, <1>4, <2>5, CallsBecome
  <2>7. left' = left /\ calls' # <<>>
    BY <1>1, <1>3, <1>4, <1>7, <2>1
  <2> QED
    BY <1>1, <1>2, <2>6, <2>7, LeftStays DEF CallsInv
<1> QED
  BY <1>6, <1>7

LEMMA DecidesRuns == suite \in Suites /\ CallsInv /\ Decides => CallsInv'
<1> SUFFICES ASSUME suite \in Suites, CallsInv, Decides PROVE CallsInv'
  OBVIOUS
<1>1. /\ suite' = suite /\ calls' = calls /\ met' = met /\ phase = "checking"
      /\ left' = IF problems = {} THEN suite.selected ELSE <<>>
  BY DEF Decides
<1>2. calls = <<>>
  BY <1>1 DEF CallsInv
<1>3. FramesOK(calls)'
  BY <1>1, <1>2, CallsEmpty, CallsBecome
<1>4. left' \in Seq(DOMAIN suite.own) /\ ToSet(left') \subseteq ToSet(suite.selected)
  <2>1. suite.selected \in Seq(DOMAIN suite.own) /\ ToSet(<<>>) = {} /\ <<>> \in Seq(DOMAIN suite.own)
    BY SuiteIs DEF ToSet
  <2> QED
    BY <1>1, <2>1, Zenon
<1> QED
  BY <1>1, <1>2, <1>3, <1>4 DEF CallsInv, MetBeyondCheck

\* What the step in hand calls is checked, or within the depth left, as it was.
LEMMA CallsRuns == BuildInv /\ CheckInv /\ CallsInv /\ Calls => CallsInv'
<1> SUFFICES ASSUME BuildInv, CheckInv, CallsInv, Calls PROVE CallsInv'
  OBVIOUS
<1> DEFINE new == IF Now.kind = "macro" THEN Body("macro", suite.macros[Now.to])
                  ELSE Body("include", Steps(Now.to))
<1>1. /\ suite' = suite /\ phase' = phase /\ left' = left /\ met' = met /\ phase = "running"
      /\ calls # <<>> /\ Last(calls).left # <<>> /\ Now.kind \in {"macro", "include"}
      /\ Len(calls) - 1 < MaxDepth /\ calls' = Append(Advanced, new)
  BY DEF Calls, Executes, Depth
<1>2. suite \in Suites /\ FramesOK(calls) /\ MaxDepth \in Nat
  BY SuiteIs DEF BuildInv, CallsInv
<1>3. PICK K : K \in Nat \ {0} /\ K = Len(calls) /\ DOMAIN calls = 1..K /\ K <= MaxDepth /\ K \in 1..K
  BY <1>1, <1>2 DEF FramesOK
<1>4. PICK A : A = Advanced
  OBVIOUS
<1>5. /\ A \in Seq(Frames) /\ Len(A) = K /\ DOMAIN A = 1..K /\ FramesOK(A)
      /\ \A k \in 1..K : A[k].kind = calls[k].kind
  BY <1>1, <1>2, <1>3, <1>4, AdvancedIs
<1>6. PICK s : s = Now /\ s \in StepsOf(suite) /\ s \in ToSet(calls[K].left)
  BY <1>1, <1>2, <1>3, AdvancedIs
<1>7. /\ s.kind \in {"macro", "include"} /\ (s.kind = "macro" => s.to \in DOMAIN suite.macros)
      /\ s.kind = "include" => s.to \in DOMAIN suite.own
  BY <1>1, <1>6 DEF StepsOf
<1>8. FrameOK(calls, K)
  BY <1>2, <1>3 DEF FramesOK
<1>9. /\ new.kind = s.kind /\ new \in Frames
      /\ new.left = IF s.kind = "macro" THEN suite.macros[s.to] ELSE Steps(s.to)
  <2>1. CASE s.kind = "macro"
    <3>1. suite.macros[s.to] \in Seq(StepsOf(suite))
      BY <1>2, <1>7, <2>1, SuiteIs
    <3> QED
      BY <1>6, <2>1, <3>1 DEF Body, Frames
  <2>2. CASE s.kind = "include"
    <3>1. Steps(s.to) \in Seq(StepsOf(suite))
      BY <1>2, <1>7, <2>2, StepsAre
    <3> QED
      BY <1>6, <2>2, <3>1 DEF Body, Frames
  <2> QED
    BY <1>7, <2>1, <2>2
<1> HIDE DEF new
<1>10. PICK R : R = Append(A, new)
  BY Zenon
<1>11. /\ R \in Seq(Frames) /\ Len(R) = K + 1 /\ DOMAIN R = 1..(K + 1) /\ R # <<>>
       /\ R[K + 1] = new /\ calls' = R /\ \A k \in 1..K : R[k] = A[k]
  BY <1>1, <1>3, <1>4, <1>5, <1>9, <1>10
<1>12. \A k \in 1..K : R[k].kind = calls[k].kind
  BY <1>5, <1>11
<1>13. ASSUME NEW k \in 1..K PROVE FrameOK(R, k)
  <2>1. FrameOK(A, k) /\ k \in Nat \ {0}
    BY <1>5, <1>13 DEF FramesOK
  <2>2. \A i \in 1..k : R[i].kind = A[i].kind
    BY <1>3, <1>11
  <2>3. ToSet(R[k].left) \subseteq ToSet(A[k].left)
    BY <1>11
  <2> QED
    BY <2>1, <2>2, <2>3, FrameStays
<1>14. new.kind = "macro" => \A x \in ToSet(new.left) : x.kind # "bad"
  BY <1>1, <1>7, <1>9, RunningIs DEF Clean
<1>15. Checked(R, K + 1) => \A x \in ToSet(new.left) : ~Breaks(x, MaxDepth - ((K + 1) - 1))
  <2> SUFFICES ASSUME Checked(R, K + 1)
               PROVE  \A x \in ToSet(new.left) : ~Breaks(x, MaxDepth - ((K + 1) - 1))
    OBVIOUS
  <2>1. Checked(calls, K) /\ s.kind = "include"
    <3>1. K + 1 \in 1..(K + 1) /\ \A i \in 1..K : i \in 1..(K + 1)
      BY <1>3
    <3> QED
      BY <1>7, <1>9, <1>11, <1>12, <3>1 DEF Checked
  <2>2. ~Breaks(s, MaxDepth - (K - 1))
    BY <1>6, <1>8, <2>1 DEF FrameOK
  <2>3. PICK n : n = MaxDepth - (K - 1) /\ n \in 0..MaxDepth /\ n # 0 /\ n - 1 = MaxDepth - ((K + 1) - 1)
    BY <1>2, <1>3
  <2>4. ~Doomed[n][s.to]
    BY <2>1, <2>2, <2>3 DEF Breaks
  <2>5. \A x \in ToSet(Steps(s.to)) : ~Breaks(x, n - 1)
    BY <1>2, <1>7, <2>1, <2>3, <2>4, DoomedIs
  <2> QED
    BY <1>9, <2>1, <2>3, <2>5
<1>16. Nested(R, K + 1) => \A x \in ToSet(new.left) : x.kind = "macro" => Depths[x.to] <= MaxDepth - ((K + 1) - 1)
  <2> SUFFICES ASSUME Nested(R, K + 1), NEW x \in ToSet(new.left), x.kind = "macro"
               PROVE  Depths[x.to] <= MaxDepth - ((K + 1) - 1)
    OBVIOUS
  <2>1. Nested(calls, K) /\ s.kind = "macro"
    <3>1. K + 1 \in 2..(K + 1) /\ \A i \in 2..K : i \in 2..(K + 1) /\ i \in 1..K
      BY <1>3
    <3> QED
      BY <1>9, <1>11, <1>12, <3>1 DEF Nested
  <2>2. PICK m : m = s.to /\ m \in DOMAIN suite.macros
    BY <1>7, <2>1
  <2>3. Depths[m] <= MaxDepth - (K - 1)
    BY <1>6, <1>8, <2>1, <2>2 DEF FrameOK
  <2>4. x.to \in Called(m)
    <3>1. x \in ToSet(suite.macros[m])
      BY <1>9, <2>1, <2>2
    <3> QED
      BY <3>1 DEF ToSet, Called, CallsIn
  <2>5. Weighs(Depths, DOMAIN suite.macros)
    BY <1>1, RunningIs
  <2>6. \A c \in Called(m) : c \in DOMAIN suite.macros
    BY <1>2, <2>2, CalledAre
  <2>7. Depths[m] = 1 + Heaviest(Depths, m) /\ \A c \in Called(m) : Depths[c] \in Nat
    BY <2>2, <2>5, <2>6 DEF Weighs
  <2>8. PICK d : d = Depths
    OBVIOUS
  <2>9. \A c \in Called(m) : d[c] \in Nat
    BY <2>7, <2>8
  <2>10. Heaviest(d, m) \in Nat /\ \A c \in Called(m) : d[c] <= Heaviest(d, m)
    BY <1>2, <2>2, <2>9, HeaviestIs
  <2>11. d[x.to] \in Nat /\ d[x.to] <= Heaviest(d, m) /\ 1 + Heaviest(d, m) <= MaxDepth - (K - 1)
    BY <2>3, <2>4, <2>7, <2>8, <2>9, <2>10
  <2> QED
    BY <1>2, <1>3, <2>8, <2>10, <2>11
<1>17. FrameOK(R, K + 1)
  <2>1. R[K + 1].kind # "scenario" /\ K + 1 # 1
    BY <1>3, <1>7, <1>9, <1>11
  <2> QED
    BY <1>11, <1>14, <1>15, <1>16, <2>1 DEF FrameOK
<1>18. FramesOK(R)
  <2>1. \A k \in 1..(K + 1) : k \in 1..K \/ k = K + 1
    BY <1>3
  <2>2. Len(R) <= MaxDepth + 1
    BY <1>2, <1>3, <1>11
  <2> QED
    BY <1>11, <1>13, <1>17, <2>1, <2>2 DEF FramesOK
<1>19. FramesOK(calls)'
  BY <1>1, <1>11, <1>18, CallsBecome
<1> QED
  BY <1>1, <1>11, <1>19, LeftStays DEF CallsInv, MetBeyondCheck

\* A step a run refuses is behind a macro and then an include, or nests deeper
\* with both than with either.
LEMMA MetIs ==
  ASSUME BuildInv, CheckInv, CallsInv, Meets,
         NEW way, way = Append([i \in DOMAIN calls |-> calls[i].kind], Now.kind)
  PROVE  \/ \E i, j \in DOMAIN way : i < j /\ way[i] = "macro" /\ way[j] \in {"include", "lost"}
         \/ Refusal = "deep" /\ {"macro", "include"} \subseteq ToSet(way)
<1>1. phase = "running" /\ calls # <<>> /\ Last(calls).left # <<>> /\ Refusal # "none"
  BY DEF Meets, Executes
<1>2. suite \in Suites /\ FramesOK(calls) /\ MaxDepth \in Nat /\ MaxDepth >= 1
  BY SuiteIs DEF BuildInv, CallsInv
<1>3. PICK K : K \in Nat \ {0} /\ K = Len(calls) /\ DOMAIN calls = 1..K /\ K <= MaxDepth + 1 /\ K \in 1..K
  BY <1>1, <1>2 DEF FramesOK
<1>4. PICK s : s = Now /\ s \in StepsOf(suite) /\ s \in ToSet(calls[K].left)
  BY <1>1, <1>2, <1>3, AdvancedIs
<1>5. /\ s.kind \in {"known", "bad", "lost", "macro", "include"}
      /\ (s.kind = "macro" => s.to \in DOMAIN suite.macros) /\ (s.kind = "include" => s.to \in DOMAIN suite.own)
  BY <1>4 DEF StepsOf
<1>6. FrameOK(calls, K) /\ \A k \in 1..K : (calls[k].kind = "scenario" <=> k = 1)
  BY <1>2, <1>3, Zenon DEF FramesOK, FrameOK
<1>7. \A k \in 1..K : calls[k].kind \in {"scenario", "macro", "include"}
  <2>1. \A k \in 1..K : calls[k] \in Frames
    BY <1>2, <1>3 DEF FramesOK
  <2> QED
    BY <2>1 DEF Frames
<1>8. DOMAIN way = 1..(K + 1) /\ way[K + 1] = s.kind /\ \A k \in 1..K : way[k] = calls[k].kind
  <2>1. PICK kinds : kinds = [i \in DOMAIN calls |-> calls[i].kind]
    OBVIOUS
  <2>2. kinds \in Seq({"scenario", "macro", "include"}) /\ Len(kinds) = K
    <3>1. kinds = [i \in 1..K |-> calls[i].kind]
      BY <1>3, <2>1
    <3> QED
      BY <1>3, <1>7, <3>1
  <2>3. way = Append(kinds, s.kind)
    BY <1>4, <2>1
  <2>4. \A i \in 1..(K + 1) : i # K + 1 => i \in 1..K
    BY <1>3
  <2> QED
    BY <1>3, <2>1, <2>2, <2>3
<1>9. K + 1 \in 1..(K + 1) /\ \A k \in 1..K : k \in 1..(K + 1) /\ k < K + 1
  BY <1>3
<1>10. /\ s.kind # "known" /\ (K - 1 >= MaxDepth \/ s.kind \in {"bad", "lost"})
       /\ s.kind # "bad" /\ K - 1 >= MaxDepth => Refusal = "deep"
  BY <1>1, <1>3, <1>4 DEF Refusal, Depth
<1>11. CASE Checked(calls, K)
  <2>1. ~Breaks(s, MaxDepth - (K - 1))
    BY <1>4, <1>6, <1>11 DEF FrameOK
  <2>2. s.kind # "include"
    <3> SUFFICES ASSUME s.kind = "include" PROVE FALSE
      OBVIOUS
    <3>1. MaxDepth - (K - 1) = 0 /\ 0 \in 0..MaxDepth
      BY <1>2, <1>3, <1>10
    <3>2. Doomed[0][s.to]
      BY <1>2, <1>5, <3>1, DoomedIs
    <3> QED
      BY <2>1, <3>1, <3>2 DEF Breaks
  <2>3. s.kind = "macro" /\ K - 1 >= MaxDepth /\ Refusal = "deep"
    BY <1>5, <1>10, <2>1, <2>2 DEF Breaks
  <2>4. 2 \in 1..K
    BY <1>2, <1>3, <2>3
  <2>5. calls[2].kind = "include"
    BY <1>6, <1>7, <1>11, <2>4 DEF Checked
  <2>6. way[2] = "include" /\ way[K + 1] = "macro" /\ 2 \in DOMAIN way /\ K + 1 \in DOMAIN way
    BY <1>8, <1>9, <2>3, <2>4, <2>5
  <2> QED
    BY <2>3, <2>6, Zenon DEF ToSet
<1>12. CASE ~Checked(calls, K)
  <2>1. PICK i \in 1..K : calls[i].kind = "macro"
    BY <1>12 DEF Checked
  <2>2. CASE s.kind \in {"include", "lost"}
    BY <1>8, <1>9, <2>1, <2>2, Zenon
  <2>3. CASE s.kind = "bad"
    <3>1. calls[K].kind # "macro"
      BY <1>4, <1>6, <2>3 DEF FrameOK
    <3>2. K # 1 /\ i # K
      BY <1>3, <1>6, <2>1, <3>1
    <3>3. calls[K].kind = "include" /\ i < K
      BY <1>3, <1>6, <1>7, <2>1, <3>1, <3>2
    <3> QED
      BY <1>3, <1>8, <1>9, <2>1, <3>3
  <2>4. CASE s.kind = "macro"
    <3>1. Refusal = "deep" /\ K - 1 >= MaxDepth
      BY <1>10, <2>4
    <3>2. ~Nested(calls, K)
      <4> SUFFICES ASSUME Nested(calls, K) PROVE FALSE
        OBVIOUS
      <4>1. Depths[s.to] <= MaxDepth - (K - 1)
        BY <1>4, <1>6, <2>4 DEF FrameOK
      <4>2. Weighs(Depths, DOMAIN suite.macros)
        BY <1>1, RunningIs
      <4>3. PICK d : d = Depths
        OBVIOUS
      <4>4. Heaviest(d, s.to) \in Nat /\ d[s.to] = 1 + Heaviest(d, s.to)
        <5>1. \A c \in Called(s.to) : c \in DOMAIN suite.macros
          BY <1>2, <1>5, <2>4, CalledAre
        <5>2. \A c \in Called(s.to) : d[c] \in Nat
          BY <4>2, <4>3, <5>1 DEF Weighs
        <5> QED
          BY <1>2, <1>5, <2>4, <4>2, <4>3, <5>2, HeaviestIs DEF Weighs
      <4> QED
        BY <1>2, <1>3, <3>1, <4>1, <4>3, <4>4
    <3>3. PICK j \in 2..K : calls[j].kind # "macro"
      BY <3>2 DEF Nested
    <3>4. j \in 1..K /\ calls[j].kind = "include"
      BY <1>3, <1>6, <1>7, <3>3
    <3>5. way[j] = "include" /\ way[K + 1] = "macro" /\ j \in DOMAIN way /\ K + 1 \in DOMAIN way
      BY <1>8, <1>9, <2>4, <3>4
    <3> QED
      BY <3>1, <3>5, Zenon DEF ToSet
  <2> QED
    BY <1>5, <1>10, <2>2, <2>3, <2>4, Zenon
<1> QED
  BY <1>11, <1>12, Zenon

LEMMA MeetsRuns == BuildInv /\ CheckInv /\ CallsInv /\ Meets => CallsInv'
<1> SUFFICES ASSUME BuildInv, CheckInv, CallsInv, Meets PROVE CallsInv'
  OBVIOUS
<1>1. PICK way : way = Append([i \in DOMAIN calls |-> calls[i].kind], Now.kind)
  BY Zenon
<1> DEFINE unread == \E i, j \in DOMAIN way : i < j /\ way[i] = "macro" /\ way[j] \in {"include", "lost"}
           mixed == {"macro", "include"} \subseteq ToSet(way)
<1>2. /\ suite' = suite /\ phase' = phase /\ calls # <<>> /\ calls' = <<>> /\ left' = Tail(left)
      /\ met' = met \cup {[what |-> Refusal, unread |-> unread, mixed |-> mixed]}
  BY <1>1 DEF Meets, Executes, ScenarioFails
<1>3. unread \/ (Refusal = "deep" /\ mixed)
  BY <1>1, MetIs, Zenon
<1> HIDE DEF unread, mixed
<1>4. MetBeyondCheck'
  BY <1>2, <1>3 DEF CallsInv, MetBeyondCheck
<1> QED
  BY <1>2, <1>4, CallsEnd DEF BuildInv

LEMMA RunsNext == BuildInv /\ CheckInv /\ CallsInv /\ [SuiteNext]_suiteVars => CallsInv'
<1> SUFFICES ASSUME BuildInv, CheckInv, CallsInv, [SuiteNext]_suiteVars PROVE CallsInv'
  OBVIOUS
<1>1. suite \in Suites
  BY DEF BuildInv
<1>2. CASE ReadsBodies \/ Visits \/ FollowsCall \/ Leaves \/ Measures
  <2>1. phase # "running" /\ suite' = suite /\ calls' = calls /\ left' = left /\ met' = met
    BY <1>2 DEF ReadsBodies, Visits, FollowsCall, Leaves, Measures, running
  <2> QED
    BY <2>1, CallsStay DEF CallsInv
<1>3. CASE Accepts \/ Descends \/ Reports \/ Returns
  <2>1. phase # "running" /\ suite' = suite /\ calls' = calls /\ left' = left /\ met' = met
    BY <1>3 DEF Accepts, Descends, Reports, Returns, Unread, running
  <2> QED
    BY <2>1, CallsStay DEF CallsInv
<1>4. CASE Decides
  BY <1>1, <1>4, DecidesRuns
<1>5. CASE ScenarioStarts
  BY <1>5, StartsRuns
<1>6. CASE StepEnds
  BY <1>1, <1>6, StepEndsRuns
<1>7. CASE Calls
  BY <1>7, CallsRuns
<1>8. CASE Meets
  BY <1>8, MeetsRuns
<1>9. CASE BodyEnds
  BY <1>1, <1>9, BodyEndsRuns
<1>10. CASE Ends
  <2>1. calls = <<>> /\ suite' = suite /\ calls' = calls /\ left' = left /\ met' = met
    BY <1>10 DEF Ends, running
  <2> QED
    BY <2>1, CallsStay
<1>11. CASE UNCHANGED suiteVars
  BY <1>11, CallsStay DEF suiteVars
<1> QED
  BY <1>2, <1>3, <1>4, <1>5, <1>6, <1>7, <1>8, <1>9, <1>10, <1>11 DEF SuiteNext

LEMMA RunsStart == SuiteInit => CallsInv
<1> SUFFICES ASSUME SuiteInit PROVE CallsInv
  OBVIOUS
<1> USE DEF SuiteInit
<1>1. FramesOK(<<>>)
  BY CallsEmpty
<1>2. ToSet(<<>>) = {}
  BY DEF ToSet
<1> QED
  BY <1>1, <1>2 DEF CallsInv, MetBeyondCheck

\* What is refused before the first request is exactly what could not run: the
\* registry for a macro with a bad step or one that cannot run within the depth
\* (validate_macros), the check for every top-level step that could not run
\* (validate.rs: check); and a run that started meets nothing of either where
\* they looked (run_step, run_include), whatever the suite and the depth.
THEOREM ChecksAreExact == SuiteSpec => []ChecksExact
<1> DEFINE Inv == BuildInv /\ CheckInv /\ CallsInv
<1>1. SuiteInit => Inv
  BY BuildStarts, CheckStarts, RunsStart
<1>2. Inv /\ [SuiteNext]_suiteVars => Inv'
  <2> SUFFICES ASSUME BuildInv, CheckInv, CallsInv, [SuiteNext]_suiteVars PROVE Inv'
    OBVIOUS
  <2>1. BuildInv'
    BY BuildNext
  <2>2. CheckInv'
    BY CheckNext DEF BuildInv
  <2>3. CallsInv'
    BY RunsNext
  <2> QED
    BY <2>1, <2>2, <2>3
<1>3. Inv => ChecksExact
  BY BuildExact, CheckExact DEF ChecksExact, BuildInv, CallsInv
<1> QED
  BY <1>1, <1>2, <1>3, PTL DEF SuiteSpec
=============================================================================
