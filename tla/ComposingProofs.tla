--------------------------- MODULE ComposingProofs ---------------------------
(***************************************************************************)
(* What a request becomes is right for every text, template, number of     *)
(* recipients and set of SIMs, not only for those that a run tries: the    *)
(* count of segments, what render returns, the turns that the SIMs take    *)
(* and the SIM that a sender resolves to.                                  *)
(***************************************************************************)
EXTENDS Composing, Integers, FiniteSetTheorems, WellFoundedInduction, TLAPS

LEMMA Times ==
  ASSUME NEW a \in Nat, NEW b \in Nat, NEW m \in Nat, a <= b
  PROVE  a * m <= b * m
<1>1. PICK d \in Nat : b = a + d
  <2>1. b - a \in Nat /\ b = a + (b - a)
    OBVIOUS
  <2> QED BY <2>1
<1>2. (a + d) * m = a * m + d * m
  OBVIOUS
<1>3. d * m \in Nat /\ a * m \in Nat
  OBVIOUS
<1> QED BY <1>1, <1>2, <1>3

(* Rounding up: the least multiple of m that is not below n.               *)
LEMMA RoundedUp ==
  ASSUME NEW n \in Nat \ {0}, NEW m \in Nat \ {0}
  PROVE  LET q == (n + m - 1) \div m IN
         /\ q \in Nat \ {0}
         /\ n <= q * m
         /\ (q - 1) * m < n
<1> DEFINE q == (n + m - 1) \div m
<1>1. q \in Nat /\ q * m <= n + m - 1 /\ n + m - 1 < q * m + m
  OBVIOUS
<1>2. q >= 1
  OBVIOUS
<1>3. (q - 1) * m = q * m - m
  OBVIOUS
<1> QED BY <1>1, <1>2, <1>3

LEMMA Sizes ==
  ASSUME NEW t \in Text
  PROVE  /\ Length(t) \in Nat
         /\ OneSms(t) \in Nat \ {0} /\ EachSms(t) \in Nat \ {0}
         /\ EachSms(t) <= OneSms(t)
BY SegmentsAssumption DEF Text, Length, OneSms, EachSms, Septets, Gsm

(* In the length that the code takes k SMS suffice and fewer do not.       *)
Fits(t, k) == Length(t) <= Capacity(t, k)
Fewest(t, k) == k \in Nat \ {0} /\ Fits(t, k) /\ \A j \in 1..(k - 1) : ~Fits(t, j)

LEMMA CountIsFewest == \A t \in Text : Fewest(t, CountSegments(t))
<1> SUFFICES ASSUME NEW t \in Text PROVE Fewest(t, CountSegments(t))
  OBVIOUS
<1> DEFINE n == Length(t)  one == OneSms(t)  m == EachSms(t)
<1>1. n \in Nat /\ one \in Nat \ {0} /\ m \in Nat \ {0} /\ m <= one
  BY Sizes
<1>2. CASE n <= one
  BY <1>2 DEF Fewest, Fits, Capacity, CountSegments
<1>3. CASE ~(n <= one)
  <2> DEFINE q == (n + m - 1) \div m
  <2>1. n \in Nat \ {0}
    BY <1>1, <1>3
  <2>2. q \in Nat \ {0} /\ n <= q * m /\ (q - 1) * m < n
    BY <1>1, <2>1, RoundedUp
  <2>3. CountSegments(t) = q
    BY <1>3 DEF CountSegments
  <2>4. q # 1
    BY <1>1, <1>3, <2>2
  <2>5. Fits(t, q)
    BY <2>2, <2>4 DEF Fits, Capacity
  <2>6. ASSUME NEW j \in 1..(q - 1) PROVE ~Fits(t, j)
    <3>1. CASE j = 1
      BY <1>3, <3>1 DEF Fits, Capacity
    <3>2. CASE j # 1
      <4>1. j \in Nat /\ q - 1 \in Nat /\ j <= q - 1
        BY <2>2
      <4>2. j * m <= (q - 1) * m
        BY <1>1, <4>1, Times
      <4>3. j * m \in Nat /\ (q - 1) * m \in Nat
        BY <1>1, <4>1
      <4>4. ~(n <= j * m)
        BY <1>1, <2>2, <4>2, <4>3
      <4> QED BY <3>2, <4>4 DEF Fits, Capacity
    <3> QED BY <3>1, <3>2
  <2> HIDE DEF q
  <2> QED BY <2>2, <2>3, <2>5, <2>6 DEF Fewest
<1> QED BY <1>2, <1>3

LEMMA CodeLength ==
  ASSUME NEW t \in Text
  PROVE  /\ Units(t) \in Nat /\ Pairs(t) \in Nat
         /\ Length(t) <= Units(t)
         /\ t.astral = 0 => Length(t) = Units(t)
BY DEF Text, Length, Units, Pairs, Septets, Gsm

(* What count_segments computes is never more than the text needs, enough  *)
(* for a text without characters beyond the BMP if its order allows, and   *)
(* enough in every order if no segment boundary can meet an escaped one.   *)
THEOREM CountIsRight == \A t \in Text : CountedRight(t, CountSegments(t))
<1> SUFFICES ASSUME NEW t \in Text PROVE CountedRight(t, CountSegments(t))
  OBVIOUS
<1> DEFINE k == CountSegments(t)
<1>1. k \in Nat \ {0} /\ Fits(t, k) /\ \A j \in 1..(k - 1) : ~Fits(t, j)
  BY CountIsFewest DEF Fewest
<1>2. /\ Units(t) \in Nat /\ Pairs(t) \in Nat /\ Length(t) \in Nat
      /\ Length(t) <= Units(t)
      /\ t.astral = 0 => Length(t) = Units(t)
  BY CodeLength, Sizes
<1>3. \A j \in Nat : Capacity(t, j) \in Nat
  BY Sizes DEF Capacity
<1> HIDE DEF k
<1>4. \A j \in 1..(k - 1) : ~CanHold(t, j)
  <2> SUFFICES ASSUME NEW j \in 1..(k - 1) PROVE ~CanHold(t, j)
    OBVIOUS
  <2>1. j \in Nat /\ ~Fits(t, j)
    BY <1>1
  <2> QED BY <1>2, <1>3, <2>1 DEF Fits, CanHold
<1>5. t.astral = 0 => CanHold(t, k)
  BY <1>1, <1>2 DEF Fits, CanHold
<1>6. t.astral = 0 /\ (k = 1 \/ Pairs(t) = 0) => Holds(t, k)
  <2>1. k = 1 \/ Pairs(t) = 0 => Wasted(t, k) = 0
    BY <1>1, <1>2 DEF Wasted
  <2> QED BY <1>2, <1>5, <2>1 DEF CanHold, Holds
<1> HIDE DEF Fits
<1>7. CountedRight(t, k)
  BY <1>1, <1>4, <1>5, <1>6 DEF CountedRight
<1> QED BY <1>7 DEF k

(* The limit of that: a text of emoji that has no more characters than fit *)
(* one SMS, but more units, is counted as one that cannot hold it.  The    *)
(* test test_short_text_fits_one_segment expects the one.                  *)
THEOREM EmojiUndercounted ==
  ASSUME NEW n \in Nat, n <= UcsSingle, UcsSingle < 2 * n
  PROVE  LET t == [basic |-> 0, extended |-> 0, other |-> 0, astral |-> n] IN
         /\ CountSegments(t) = 1
         /\ ~CanHold(t, 1)
<1> DEFINE t == [basic |-> 0, extended |-> 0, other |-> 0, astral |-> n]
<1>1. n # 0 /\ UcsSingle \in Nat
  BY SegmentsAssumption
<1>2. ~Gsm(t) /\ OneSms(t) = UcsSingle
  BY <1>1 DEF Gsm, OneSms
<1>3. Length(t) = n /\ Units(t) = 2 * n
  BY <1>2 DEF Length, Units
<1>4. CountSegments(t) = 1
  BY <1>2, <1>3 DEF CountSegments
<1>5. ~CanHold(t, 1)
  BY <1>1, <1>2, <1>3 DEF CanHold, Capacity
<1> QED BY <1>4, <1>5

(* Text that is added makes no SMS cheaper, not even an extended or a UCS-2 *)
(* character that changes how all the others are counted.                  *)
THEOREM NeverCheaper ==
  \A t, u \in Text : CountSegments(t) <= CountSegments(Join(t, u))
<1> SUFFICES ASSUME NEW t \in Text, NEW u \in Text
             PROVE  CountSegments(t) <= CountSegments(Join(t, u))
  OBVIOUS
<1> DEFINE v == Join(t, u)  k == CountSegments(v)
<1>1. v \in Text
  BY DEF Text, Join
<1>2. Fewest(t, CountSegments(t)) /\ Fewest(v, k)
  BY <1>1, CountIsFewest
<1>3. k \in Nat \ {0} /\ Fits(v, k)
  BY <1>2 DEF Fewest
<1>4. CASE Gsm(v) \/ ~Gsm(t)
  <2>1. Length(t) <= Length(v) /\ OneSms(t) = OneSms(v) /\ EachSms(t) = EachSms(v)
    BY <1>4 DEF Text, Join, Length, OneSms, EachSms, Septets, Gsm
  <2>2. k * EachSms(v) \in Nat /\ OneSms(v) \in Nat /\ Length(v) \in Nat /\ Length(t) \in Nat
    BY <1>1, <1>3, Sizes
  <2>3. Fits(t, k)
    BY <1>3, <2>1, <2>2 DEF Fits, Capacity
  <2> QED BY <1>2, <1>3, <2>3 DEF Fewest
<1>5. CASE ~Gsm(v) /\ Gsm(t)
  <2>1. Length(t) <= 2 * Length(v)
    BY <1>5 DEF Text, Join, Length, Septets, Gsm
  <2>2. /\ OneSms(t) = Single /\ EachSms(t) = Multi
        /\ OneSms(v) = UcsSingle /\ EachSms(v) = UcsMulti
    BY <1>5 DEF OneSms, EachSms
  <2>3. Length(t) \in Nat /\ Length(v) \in Nat
    BY <1>1, Sizes
  <2>4. Fits(t, k)
    <3>1. CASE k = 1
      BY <1>3, <2>1, <2>2, <2>3, <3>1, SegmentsAssumption DEF Fits, Capacity
    <3>2. CASE k # 1
      <4>1. Length(v) <= k * UcsMulti
        BY <1>3, <2>2, <3>2 DEF Fits, Capacity
      <4>2. (2 * UcsMulti) * k <= Multi * k
        BY <1>3, SegmentsAssumption, Times
      <4>3. (2 * UcsMulti) * k = 2 * (k * UcsMulti) /\ Multi * k = k * Multi
        BY <1>3, SegmentsAssumption
      <4>4. k * UcsMulti \in Nat /\ k * Multi \in Nat
        BY <1>3, SegmentsAssumption
      <4>5. Length(t) <= k * Multi
        BY <2>1, <2>3, <4>1, <4>2, <4>3, <4>4
      <4> QED BY <2>2, <3>2, <4>5 DEF Fits, Capacity
    <3> QED BY <3>1, <3>2
  <2> QED BY <1>2, <1>3, <2>4 DEF Fewest
<1> QED BY <1>4, <1>5
-----------------------------------------------------------------------------
(* A set of numbers that is not empty has a least one.                     *)
LEMMA LeastNumber ==
  ASSUME NEW S, S \subseteq Nat, S # {}
  PROVE  \E n \in S : \A k \in S : ~(k < n)
<1> DEFINE R == OpToRel(<, Nat)
<1>1. IsWellFoundedOn(R, Nat)
  BY NatLessThanWellFounded
<1>2. \A m, n \in Nat : m < n => <<m, n>> \in R
  BY DEF OpToRel
<1> HIDE DEF R
<1>3. \E n \in S : \A k \in S : <<k, n>> \notin R
  BY <1>1, WFMin
<1> QED BY <1>2, <1>3

(* Induction over the numbers, about a set instead of a predicate.         *)
LEMMA Induction ==
  ASSUME NEW S, 0 \in S, \A n \in Nat : n \in S => n + 1 \in S
  PROVE  Nat \subseteq S
<1> SUFFICES ASSUME Nat \ S # {} PROVE FALSE
  OBVIOUS
<1>1. PICK n \in Nat \ S : \A k \in Nat \ S : ~(k < n)
  BY LeastNumber
<1>2. n # 0 /\ n - 1 \in Nat /\ n - 1 < n /\ (n - 1) + 1 = n
  BY <1>1
<1> QED BY <1>1, <1>2

(* The sums that filling in a template adds up, over any of its places.    *)
Pick(s) == CHOOSE i \in s : TRUE

Sums(g, S, base, f) ==
  g = [s \in SUBSET S |-> IF s = {} THEN base ELSE Join(f[Pick(s)], g[s \ {Pick(s)}])]

LEMMA Picked == ASSUME NEW s, s # {} PROVE Pick(s) \in s
BY DEF Pick

LEMMA SumsExist ==
  ASSUME NEW S, IsFiniteSet(S), NEW base, NEW f
  PROVE  \E g : Sums(g, S, base, f)
<1> DEFINE Rhs(g, s) == IF s = {} THEN base ELSE Join(f[Pick(s)], g[s \ {Pick(s)}])
           Upto(g, n) == \A s \in SUBSET S : Cardinality(s) <= n => g[s] = Rhs(g, s)
           N == {n \in Nat : \E g : Upto(g, n)}
<1>1. \A s \in SUBSET S : IsFiniteSet(s) /\ Cardinality(s) \in Nat
  BY FS_Subset, FS_CardinalityType
<1>2. \A s \in SUBSET S : s # {} =>
        s \ {Pick(s)} \in SUBSET S /\ Cardinality(s \ {Pick(s)}) = Cardinality(s) - 1
  BY <1>1, Picked, FS_RemoveElement
<1>3. 0 \in N
  <2> DEFINE g == [s \in SUBSET S |-> base]
  <2>1. Upto(g, 0)
    BY <1>1, FS_EmptySet
  <2> HIDE DEF g
  <2> QED BY <2>1
<1>4. ASSUME NEW n \in Nat, n \in N PROVE n + 1 \in N
  <2>1. PICK g : Upto(g, n)
    BY <1>4
  <2> DEFINE h == [s \in SUBSET S |-> IF Cardinality(s) = n + 1 THEN Rhs(g, s) ELSE g[s]]
  <2>2. ASSUME NEW s \in SUBSET S, Cardinality(s) <= n + 1 PROVE h[s] = Rhs(h, s)
    <3>1. h[s] = Rhs(g, s)
      BY <1>1, <2>1, <2>2
    <3>2. s # {} => h[s \ {Pick(s)}] = g[s \ {Pick(s)}]
      BY <1>1, <1>2, <2>2
    <3> HIDE DEF h
    <3> QED BY <3>1, <3>2
  <2> HIDE DEF h
  <2>3. Upto(h, n + 1)
    BY <2>2
  <2> HIDE DEF Upto
  <2> QED BY <2>3
<1> HIDE DEF N
<1>5. Nat \subseteq N
  BY <1>3, <1>4, Induction
<1>6. Cardinality(S) \in N
  BY <1>1, <1>5
<1>7. PICK g : Upto(g, Cardinality(S))
  BY <1>6 DEF N
<1> DEFINE G == [s \in SUBSET S |-> g[s]]
<1>8. ASSUME NEW s \in SUBSET S PROVE G[s] = Rhs(G, s)
  <2>1. Cardinality(s) <= Cardinality(S)
    BY FS_Subset
  <2>2. g[s] = Rhs(g, s)
    BY <1>7, <2>1
  <2>3. s # {} => G[s \ {Pick(s)}] = g[s \ {Pick(s)}]
    OBVIOUS
  <2> QED BY <2>2, <2>3
<1>9. G = [s \in SUBSET S |-> Rhs(G, s)]
  <2>1. G = [s \in SUBSET S |-> G[s]]
    OBVIOUS
  <2> HIDE DEF G
  <2> QED BY <1>8, <2>1
<1> HIDE DEF G
<1> QED BY <1>9 DEF Sums

(* A template that misses no variable becomes a text.                      *)
LEMMA RenderType ==
  ASSUME NEW template, NEW vars, IsFiniteSet(DOMAIN template.names), template.text \in Text,
         Missing(template, vars) = {}, \A n \in DOMAIN vars : vars[n] \in Text
  PROVE  Render(template, vars) \in Text
<1> DEFINE S == DOMAIN template.names
           base == template.text
           f == [i \in S |-> vars[template.names[i]]]
           Fold == CHOOSE g : g = [s \in SUBSET S |->
                     IF s = {} THEN base
                     ELSE Join(vars[template.names[Pick(s)]], g[s \ {Pick(s)}])]
<1>1. Render(template, vars) = Fold[S]
  BY Zenon DEF Render, MapThenFoldSet, Pick
<1>2. PICK g : Sums(g, S, base, f)
  BY SumsExist
<1>3. \A i \in S : f[i] \in Text
  BY DEF Missing
<1>4. ASSUME NEW s \in SUBSET S, s # {} PROVE f[Pick(s)] = vars[template.names[Pick(s)]]
  BY <1>4, Picked
<1>5. g = [s \in SUBSET S |-> IF s = {} THEN base
                               ELSE Join(vars[template.names[Pick(s)]], g[s \ {Pick(s)}])]
  <2> HIDE DEF f
  <2>1. g = [s \in SUBSET S |-> IF s = {} THEN base ELSE Join(f[Pick(s)], g[s \ {Pick(s)}])]
    BY <1>2, Zenon DEF Sums
  <2> QED BY <1>4, <2>1
<1>6. Fold = [s \in SUBSET S |-> IF s = {} THEN base
                               ELSE Join(vars[template.names[Pick(s)]], Fold[s \ {Pick(s)}])]
  BY <1>5, Zenon
<1> HIDE DEF Fold
<1> DEFINE N == {n \in Nat : \A s \in SUBSET S : Cardinality(s) <= n => Fold[s] \in Text}
<1>7. \A s \in SUBSET S : IsFiniteSet(s) /\ Cardinality(s) \in Nat
  BY FS_Subset, FS_CardinalityType
<1>8. Fold[{}] \in Text
  BY <1>6
<1>9. 0 \in N
  BY <1>7, <1>8, FS_EmptySet
<1>10. ASSUME NEW n \in Nat, n \in N PROVE n + 1 \in N
  <2>1. ASSUME NEW s \in SUBSET S, Cardinality(s) <= n + 1, s # {}
        PROVE  Fold[s] \in Text
    <3> DEFINE r == s \ {Pick(s)}
    <3>1. Pick(s) \in s /\ r \in SUBSET S
      BY <2>1, Picked
    <3>2. Cardinality(r) = Cardinality(s) - 1
      BY <1>7, <3>1, FS_RemoveElement
    <3>3. Fold[r] \in Text
      BY <1>7, <1>10, <2>1, <3>1, <3>2
    <3>4. Fold[s] = Join(f[Pick(s)], Fold[r])
      BY <1>4, <1>6, <2>1
    <3>5. f[Pick(s)] \in Text
      BY <1>3, <3>1
    <3> HIDE DEF f, r
    <3> QED BY <3>3, <3>4, <3>5 DEF Join, Text
  <2>2. \A s \in SUBSET S : Cardinality(s) <= n + 1 => Fold[s] \in Text
    BY <1>8, <2>1
  <2> QED BY <2>2
<1> HIDE DEF N
<1>11. Nat \subseteq N
  BY <1>9, <1>10, Induction
<1>12. Cardinality(S) \in N
  BY <1>7, <1>11
<1>13. Fold[S] \in Text
  BY <1>7, <1>12 DEF N
<1> QED BY <1>1, <1>13
-----------------------------------------------------------------------------
(* _resolve_sim is an error or one SIM, never a choice among several; it   *)
(* is an error only for a number that no SIM has or a device without SIMs, *)
(* and a sender that is not named gets a default SIM if there is one.      *)
LEMMA FirstFacts ==
  ASSUME NEW S, S \subseteq Nat
  PROVE  /\ \A r, s \in First(S) : r = s
         /\ S # {} => First(S) # {}
         /\ First(S) \subseteq S
<1>1. \A r, s \in First(S) : r = s
  BY DEF First
<1>2. ASSUME S # {} PROVE First(S) # {}
  <2>1. PICK n \in S : \A k \in S : ~(k < n)
    BY <1>2, LeastNumber
  <2>2. n \in First(S)
    BY <2>1 DEF First
  <2> QED BY <2>2
<1> QED BY <1>1, <1>2 DEF First

THEOREM OneSim ==
  ASSUME NEW sims, DOMAIN sims \subseteq Nat, NEW from
  PROVE  LET found == ResolveSim(sims, from) IN
         /\ \A r, s \in found : r = s
         /\ found = {} <=> \A s \in DOMAIN sims : from # "" /\ sims[s].number # from
         /\ from # "" => \A s \in found : sims[s].number = from
         /\ from = "" /\ (\E s \in DOMAIN sims : sims[s].default) =>
              \A s \in found : sims[s].default
<1> DEFINE named == {s \in DOMAIN sims : sims[s].number = from}
           defaults == {s \in DOMAIN sims : sims[s].default}
<1>1. named \subseteq Nat /\ defaults \subseteq Nat
  OBVIOUS
<1>2. CASE from # ""
  <2>1. ResolveSim(sims, from) = First(named)
    BY <1>2 DEF ResolveSim
  <2>2. /\ \A r, s \in First(named) : r = s
        /\ named # {} => First(named) # {}
        /\ First(named) \subseteq named
    BY <1>1, FirstFacts
  <2>3. named = {} <=> \A s \in DOMAIN sims : sims[s].number # from
    OBVIOUS
  <2>4. \A s \in named : sims[s].number = from
    OBVIOUS
  <2> HIDE DEF named
  <2> QED BY <1>2, <2>1, <2>2, <2>3, <2>4
<1>3. CASE from = ""
  <2> DEFINE chosen == IF defaults # {} THEN defaults ELSE DOMAIN sims
  <2>1. ResolveSim(sims, from) = First(chosen)
    BY <1>3 DEF ResolveSim
  <2>2. chosen \subseteq Nat /\ chosen \subseteq DOMAIN sims /\ (chosen = {} <=> DOMAIN sims = {})
    BY <1>1
  <2>3. (\E s \in DOMAIN sims : sims[s].default) => \A s \in chosen : sims[s].default
    OBVIOUS
  <2> HIDE DEF chosen, defaults
  <2>4. /\ \A r, s \in First(chosen) : r = s
        /\ chosen # {} => First(chosen) # {}
        /\ First(chosen) \subseteq chosen
    BY <2>2, FirstFacts
  <2> QED BY <1>3, <2>1, <2>2, <2>3, <2>4
<1> QED BY <1>2, <1>3
-----------------------------------------------------------------------------
(* Whose turn it is among k after a messages is what division leaves over. *)
LEMMA Remainder ==
  ASSUME NEW k \in Nat \ {0}, NEW a \in Nat, NEW r \in 0..(k - 1)
  PROVE  a % k = r <=> \E m \in Nat : a = m * k + r
<1> DEFINE q == a \div k  s == a % k
<1>1. q \in Nat /\ s \in 0..(k - 1)
  OBVIOUS
<1>2. a = q * k + s
  OBVIOUS
<1> HIDE DEF q, s
<1>3. ASSUME NEW m \in Nat, a = m * k + r PROVE s = r
  <2>1. q * k \in Nat /\ m * k \in Nat
    BY <1>1
  <2>2. ASSUME NEW u \in Nat, NEW v \in Nat, u < v PROVE u * k + k <= v * k
    <3>1. (u + 1) * k <= v * k
      BY <2>2, Times
    <3>2. (u + 1) * k = u * k + k
      OBVIOUS
    <3> QED BY <3>1, <3>2
  <2>3. CASE q < m
    BY <1>1, <1>2, <1>3, <2>1, <2>2, <2>3
  <2>4. CASE m < q
    BY <1>1, <1>2, <1>3, <2>1, <2>2, <2>4
  <2>5. CASE q = m
    BY <1>1, <1>2, <1>3, <2>1, <2>5
  <2> QED BY <1>1, <2>3, <2>4, <2>5
<1>4. s = r => \E m \in Nat : a = m * k + r
  BY <1>1, <1>2
<1> QED BY <1>3, <1>4 DEF s

(* The messages out of n that the p-th of k SIMs sends.                    *)
Turns(n, k, p) == {j \in 1..n : ((j - 1) % k) + 1 = p}

LEMMA TurnFacts ==
  ASSUME NEW n \in Nat, NEW k \in Nat \ {0}, NEW p \in 1..k
  PROVE  /\ IsFiniteSet(Turns(n, k, p)) /\ Cardinality(Turns(n, k, p)) \in Nat
         /\ \A j \in 1..n : j \in Turns(n, k, p) <=> \E m \in Nat : j = m * k + p
<1>1. IsFiniteSet(Turns(n, k, p))
  <2>1. IsFiniteSet(1..n)
    BY FS_Interval
  <2> QED BY <2>1, FS_Subset DEF Turns
<1>2. ASSUME NEW j \in 1..n PROVE j \in Turns(n, k, p) <=> \E m \in Nat : j = m * k + p
  <2>1. j - 1 \in Nat /\ p - 1 \in 0..(k - 1)
    OBVIOUS
  <2>2. (j - 1) % k = p - 1 <=> \E m \in Nat : j - 1 = m * k + (p - 1)
    <3> DEFINE a == j - 1  r == p - 1
    <3>1. a \in Nat /\ r \in 0..(k - 1)
      BY <2>1
    <3> HIDE DEF a, r
    <3>2. a % k = r <=> \E m \in Nat : a = m * k + r
      BY <3>1, Remainder
    <3> QED BY <3>2 DEF a, r
  <2>3. \A m \in Nat : m * k \in Nat
    OBVIOUS
  <2>4. \A m \in Nat : j - 1 = m * k + (p - 1) <=> j = m * k + p
    BY <2>3
  <2>5. (j - 1) % k \in Nat
    BY <2>1
  <2>6. (j - 1) % k = p - 1 <=> ((j - 1) % k) + 1 = p
    BY <2>5
  <2>7. j \in Turns(n, k, p) <=> (j - 1) % k = p - 1
    BY <2>6, Zenon DEF Turns
  <2>8. (\E m \in Nat : j - 1 = m * k + (p - 1)) <=> \E m \in Nat : j = m * k + p
    BY <2>4, Zenon
  <2> QED BY <2>2, <2>7, <2>8, Zenon
<1> QED BY <1>1, <1>2, FS_CardinalityType

(* Taking turns, no one sends more than one message more than another.     *)
LEMMA TurnsEven ==
  ASSUME NEW n \in Nat, NEW k \in Nat \ {0}, NEW p \in 1..k, NEW q \in 1..k
  PROVE  Cardinality(Turns(n, k, p)) <= Cardinality(Turns(n, k, q)) + 1
<1> DEFINE P == Turns(n, k, p)  Q == Turns(n, k, q)
<1>1. /\ IsFiniteSet(P) /\ IsFiniteSet(Q) /\ Cardinality(P) \in Nat /\ Cardinality(Q) \in Nat
      /\ \A j \in 1..n : j \in P <=> \E m \in Nat : j = m * k + p
      /\ \A j \in 1..n : j \in Q <=> \E m \in Nat : j = m * k + q
  BY TurnFacts
<1>2. P \subseteq 1..n /\ Q \subseteq 1..n
  BY DEF Turns
<1> HIDE DEF P, Q
<1>3. CASE q <= p
  <2> DEFINE f == [j \in P |-> j - (p - q)]
  <2>1. ASSUME NEW j \in P PROVE f[j] \in Q
    <3>1. PICK m \in Nat : j = m * k + p
      BY <1>1, <1>2
    <3>2. m * k \in Nat
      OBVIOUS
    <3>3. f[j] = m * k + q /\ f[j] \in 1..n
      BY <1>2, <1>3, <3>1, <3>2
    <3> HIDE DEF f
    <3> QED BY <1>1, <3>3, Zenon
  <2>2. f \in Injection(P, Q)
    BY <1>2, <2>1 DEF Injection, IsInjective
  <2>3. Cardinality(P) <= Cardinality(Q)
    BY <1>1, <2>2, FS_Injection
  <2> QED BY <1>1, <2>3 DEF P, Q
<1>4. CASE p < q
  <2> DEFINE R == P \ {p}
             f == [j \in R |-> j - k + (q - p)]
  <2>1. ASSUME NEW j \in R PROVE f[j] \in Q
    <3>1. PICK m \in Nat : j = m * k + p
      BY <1>1, <1>2
    <3>2. m # 0
      BY <3>1
    <3>3. m - 1 \in Nat /\ m * k = (m - 1) * k + k /\ (m - 1) * k \in Nat
      BY <3>2
    <3>4. f[j] = (m - 1) * k + q /\ f[j] \in 1..n
      BY <1>2, <1>4, <3>1, <3>3
    <3> HIDE DEF f
    <3> QED BY <1>1, <3>3, <3>4, Zenon
  <2>2. f \in Injection(R, Q)
    BY <1>2, <2>1 DEF Injection, IsInjective
  <2>3. Cardinality(R) <= Cardinality(Q)
    BY <1>1, <2>2, FS_Injection
  <2>4. IsFiniteSet(R) /\ Cardinality(P) <= Cardinality(R) + 1
    BY <1>1, FS_RemoveElement
  <2> HIDE DEF R
  <2>5. Cardinality(R) \in Nat
    BY <2>4, FS_CardinalityType
  <2>6. Cardinality(P) <= Cardinality(Q) + 1
    BY <1>1, <2>3, <2>4, <2>5
  <2> QED BY <2>6 DEF P, Q
<1> QED BY <1>3, <1>4
=============================================================================
