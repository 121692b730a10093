------------------------------ MODULE SetTheorems ------------------------------
(***************************************************************************)
(* Induction over sets of naturals, and the sum of a function over a       *)
(* finite set: the library's operator folds in an unspecified order, so    *)
(* that only these facts make it a sum.                                    *)
(***************************************************************************)
EXTENDS Integers, Functions, FiniteSetTheorems, WellFoundedInduction, TLAPS

\* Every set of naturals that is not empty has a least element.
LEMMA LeastNat ==
    ASSUME NEW S \in SUBSET Nat, S # {}
    PROVE  \E x \in S : \A y \in S : x <= y
<1> DEFINE R == OpToRel(<, Nat)
<1>1. IsWellFoundedOn(R, Nat)
  BY NatLessThanWellFounded
<1>2. \A x, y \in Nat : <<y, x>> \in R <=> y < x
  BY DEF OpToRel
<1> HIDE DEF R
<1>3. PICK x \in S : \A y \in S : ~(<<y, x>> \in R)
  BY <1>1, WFMin
<1>4. ASSUME NEW y \in S PROVE x <= y
  <2>1. x \in Nat /\ y \in Nat
    OBVIOUS
  <2>2. ~(y < x)
    BY <1>2, <1>3, <2>1
  <2> QED  BY <2>1, <2>2
<1> QED  BY <1>4, Zenon

\* Induction over the naturals for a set of them.
LEMMA NatSetInduction ==
    ASSUME NEW S, 0 \in S, \A n \in Nat : n \in S => n + 1 \in S
    PROVE  Nat \subseteq S
<1> DEFINE T == Nat \ S
<1>1. SUFFICES ASSUME T # {} PROVE FALSE
  OBVIOUS
<1>2. T \in SUBSET Nat
  OBVIOUS
<1> HIDE DEF T
<1>3. PICK x \in T : \A y \in T : x <= y
  BY <1>1, <1>2, LeastNat
<1>4. x \in Nat \ S
  BY DEF T
<1>5. x - 1 \in Nat
  BY <1>4
<1>6. x - 1 \in T
  BY <1>4, <1>5 DEF T
<1> QED  BY <1>3, <1>4, <1>6

-----------------------------------------------------------------------------
(* Sums *)

\* The element that the fold takes out of a set first.
Picked(s) == CHOOSE x \in s : TRUE

\* What a fold of f with + does on a family of sets.
SumsUp(f, sum, family) ==
    \A s \in family :
        sum[s] = IF s = {} THEN 0 ELSE f[Picked(s)] + sum[s \ {Picked(s)}]

\* The equation of the fold has a solution.
LEMMA SumExists ==
    ASSUME NEW f, NEW S, IsFiniteSet(S)
    PROVE  /\ \E sum : /\ SumsUp(f, sum, SUBSET S)
                       /\ sum[S] = SumFunctionOnSet(f, S)
<1> DEFINE Upto(m) == {s \in SUBSET S : Cardinality(s) <= m}
           After(g, s) == IF s = {} THEN 0 ELSE f[Picked(s)] + g[s \ {Picked(s)}]
           Has(m) == \E g : g = [s \in Upto(m) |-> After(g, s)]
           T == {m \in Nat : Has(m)}
           fold == CHOOSE g : g = [s \in SUBSET S |-> After(g, s)]
<1>1. \A s \in SUBSET S : IsFiniteSet(s) /\ Cardinality(s) \in Nat
                          /\ Cardinality(s) <= Cardinality(S)
  BY FS_Subset, FS_CardinalityType
<1>2. \A s \in SUBSET S : s # {} =>
            /\ Picked(s) \in s /\ s \ {Picked(s)} \in SUBSET S
            /\ Cardinality(s \ {Picked(s)}) = Cardinality(s) - 1
  <2> SUFFICES ASSUME NEW s \in SUBSET S, s # {}
               PROVE  /\ Picked(s) \in s
                      /\ Cardinality(s \ {Picked(s)}) = Cardinality(s) - 1
    OBVIOUS
  <2>1. Picked(s) \in s
    BY DEF Picked
  <2> QED  BY <1>1, <2>1, FS_RemoveElement
<1>3. 0 \in T
  <2> DEFINE g == [s \in Upto(0) |-> 0]
  <2>1. \A s \in Upto(0) : s = {}
    BY <1>1, FS_EmptySet
  <2>2. g = [s \in Upto(0) |-> After(g, s)]
    BY <2>1
  <2>3. Has(0)
    BY <2>2
  <2> QED  BY <2>3
<1>4. ASSUME NEW m \in Nat, m \in T PROVE m + 1 \in T
  <2>1. PICK g : g = [s \in Upto(m) |-> After(g, s)]
    BY <1>4
  <2> DEFINE h == [s \in Upto(m + 1) |-> IF s \in Upto(m) THEN g[s] ELSE After(g, s)]
  <2>2. ASSUME NEW s \in Upto(m + 1) PROVE h[s] = After(h, s)
    <3>1. CASE s = {}
      <4>1. s \in Upto(m)
        BY <3>1, FS_EmptySet
      <4> QED  BY <2>1, <3>1, <4>1
    <3>2. CASE s # {}
      <4> DEFINE r == s \ {Picked(s)}
      <4>1. r \in Upto(m) /\ r \in Upto(m + 1)
        BY <1>1, <1>2, <3>2
      <4>2. h[r] = g[r]
        BY <4>1
      <4>3. h[s] = After(g, s)
        BY <2>1
      <4> HIDE DEF h
      <4> QED  BY <3>2, <4>2, <4>3
    <3> QED  BY <3>1, <3>2
  <2>3. h = [s \in Upto(m + 1) |-> After(h, s)]
    <3> HIDE DEF After, Upto
    <3> QED  BY <2>2
  <2>4. Has(m + 1)
    BY <2>3
  <2> HIDE DEF Has
  <2> QED  BY <2>4
<1>5. Cardinality(S) \in T
  <2>1. Cardinality(S) \in Nat
    BY FS_CardinalityType
  <2> HIDE DEF T
  <2> QED  BY <1>3, <1>4, <2>1, NatSetInduction
<1>6. fold = [s \in SUBSET S |-> After(fold, s)]
  <2>1. Has(Cardinality(S)) /\ Upto(Cardinality(S)) = SUBSET S
    BY <1>1, <1>5
  <2> HIDE DEF After, Upto
  <2> QED  BY <2>1
<1>7. SumFunctionOnSet(f, S) = fold[S]
  BY DEF SumFunctionOnSet, FoldFunctionOnSet, MapThenFoldSet, Picked
<1> HIDE DEF fold
<1>8. SumsUp(f, fold, SUBSET S)
  BY <1>6 DEF SumsUp
<1> QED  BY <1>7, <1>8

\* Whatever larger family it is solved on, its solution on a set is the same.
LEMMA SumUnique ==
    ASSUME NEW f, NEW S, IsFiniteSet(S), NEW sum, NEW sum2, NEW F, NEW F2,
           SUBSET S \subseteq F, SUBSET S \subseteq F2,
           SumsUp(f, sum, F), SumsUp(f, sum2, F2)
    PROVE  sum[S] = sum2[S]
<1> DEFINE Same(m) == \A s \in SUBSET S : Cardinality(s) <= m => sum[s] = sum2[s]
           T == {m \in Nat : Same(m)}
<1>1. \A s \in SUBSET S : IsFiniteSet(s) /\ Cardinality(s) \in Nat
                          /\ s \in F /\ s \in F2
  BY FS_Subset, FS_CardinalityType
<1>2. 0 \in T
  <2>1. \A s \in SUBSET S : Cardinality(s) <= 0 => s = {}
    BY <1>1, FS_EmptySet
  <2> QED  BY <1>1, <2>1 DEF SumsUp
<1>3. ASSUME NEW m \in Nat, m \in T PROVE m + 1 \in T
  <2>1. ASSUME NEW s \in SUBSET S, Cardinality(s) <= m + 1 PROVE sum[s] = sum2[s]
    <3>1. CASE s = {}
      BY <1>1, <3>1 DEF SumsUp
    <3>2. CASE s # {}
      <4> DEFINE r == s \ {Picked(s)}
      <4>1. Picked(s) \in s
        BY <3>2 DEF Picked
      <4>2. r \in SUBSET S /\ Cardinality(r) <= m
        BY <1>1, <2>1, <4>1, FS_RemoveElement
      <4>3. sum[r] = sum2[r]
        BY <1>3, <4>2
      <4> QED  BY <1>1, <3>2, <4>3 DEF SumsUp
    <3> QED  BY <3>1, <3>2
  <2> QED  BY <2>1
<1>4. Cardinality(S) \in T
  <2>1. Cardinality(S) \in Nat
    BY FS_CardinalityType
  <2> HIDE DEF T
  <2> QED  BY <1>2, <1>3, <2>1, NatSetInduction
<1>5. Cardinality(S) <= Cardinality(S)
  BY FS_CardinalityType
<1> QED  BY <1>4, <1>5

\* The sum of nothing, and of a set from which the fold takes one element.
LEMMA SumUnfolds ==
    ASSUME NEW f, NEW S, IsFiniteSet(S)
    PROVE  SumFunctionOnSet(f, S) =
                IF S = {} THEN 0
                ELSE f[Picked(S)] + SumFunctionOnSet(f, S \ {Picked(S)})
<1>1. PICK sum : SumsUp(f, sum, SUBSET S) /\ sum[S] = SumFunctionOnSet(f, S)
  BY SumExists
<1>2. sum[S] = IF S = {} THEN 0 ELSE f[Picked(S)] + sum[S \ {Picked(S)}]
  BY <1>1 DEF SumsUp
<1>3. ASSUME S # {}
      PROVE  sum[S \ {Picked(S)}] = SumFunctionOnSet(f, S \ {Picked(S)})
  <2> DEFINE R == S \ {Picked(S)}
  <2>1. IsFiniteSet(R) /\ SUBSET R \subseteq SUBSET S
    BY FS_Subset
  <2> HIDE DEF R
  <2>2. PICK sum2 : SumsUp(f, sum2, SUBSET R) /\ sum2[R] = SumFunctionOnSet(f, R)
    BY <2>1, SumExists
  <2>3. sum[R] = sum2[R]
    BY <1>1, <2>1, <2>2, SumUnique
  <2> QED  BY <2>2, <2>3 DEF R
<1> QED  BY <1>1, <1>2, <1>3

\* Functions that agree on a set have the same sum over it.
LEMMA SumsAgree ==
    ASSUME NEW f, NEW g, NEW S, IsFiniteSet(S), \A x \in S : f[x] = g[x]
    PROVE  SumFunctionOnSet(f, S) = SumFunctionOnSet(g, S)
<1> DEFINE Agree(m) == \A s \in SUBSET S : Cardinality(s) <= m =>
                            SumFunctionOnSet(f, s) = SumFunctionOnSet(g, s)
           T == {m \in Nat : Agree(m)}
<1>1. \A s \in SUBSET S : IsFiniteSet(s) /\ Cardinality(s) \in Nat
  BY FS_Subset, FS_CardinalityType
<1>2. 0 \in T
  <2>1. \A s \in SUBSET S : Cardinality(s) <= 0 => s = {}
    BY <1>1, FS_EmptySet
  <2>2. SumFunctionOnSet(f, {}) = SumFunctionOnSet(g, {})
    BY SumUnfolds, FS_EmptySet
  <2> QED  BY <2>1, <2>2
<1>3. ASSUME NEW m \in Nat, m \in T PROVE m + 1 \in T
  <2>1. ASSUME NEW s \in SUBSET S, Cardinality(s) <= m + 1, s # {}
        PROVE  SumFunctionOnSet(f, s) = SumFunctionOnSet(g, s)
    <3> DEFINE r == s \ {Picked(s)}
    <3>1. Picked(s) \in s
      BY <2>1 DEF Picked
    <3>2. r \in SUBSET S /\ Cardinality(r) <= m
      BY <1>1, <2>1, <3>1, FS_RemoveElement
    <3>3. SumFunctionOnSet(f, r) = SumFunctionOnSet(g, r)
      BY <1>3, <3>2
    <3>4. f[Picked(s)] = g[Picked(s)]
      BY <3>1
    <3> QED  BY <1>1, <2>1, <3>3, <3>4, SumUnfolds
  <2>2. SumFunctionOnSet(f, {}) = SumFunctionOnSet(g, {})
    BY SumUnfolds, FS_EmptySet
  <2> QED  BY <2>1, <2>2
<1>4. Cardinality(S) \in T
  <2>1. Cardinality(S) \in Nat
    BY FS_CardinalityType
  <2> HIDE DEF T
  <2> QED  BY <1>2, <1>3, <2>1, NatSetInduction
<1>5. Cardinality(S) <= Cardinality(S)
  BY FS_CardinalityType
<1> QED  BY <1>4, <1>5

\* Any element may be taken out first, as + is commutative and associative.
LEMMA SumTakesAny ==
    ASSUME NEW f, NEW S, IsFiniteSet(S), \A x \in S : f[x] \in Int
    PROVE  /\ SumFunctionOnSet(f, S) \in Int
           /\ \A x \in S : SumFunctionOnSet(f, S) = f[x] + SumFunctionOnSet(f, S \ {x})
<1> DEFINE Sum(s) == SumFunctionOnSet(f, s)
           Sums(s) == Sum(s) \in Int /\ \A x \in s : Sum(s) = f[x] + Sum(s \ {x})
           T == {m \in Nat : \A s \in SUBSET S : Cardinality(s) <= m => Sums(s)}
<1>1. \A s \in SUBSET S : IsFiniteSet(s) /\ Cardinality(s) \in Nat
  BY FS_Subset, FS_CardinalityType
<1>2. Sums({})
  <2>1. IsFiniteSet({})
    BY FS_EmptySet
  <2>2. Sum({}) = 0
    BY <2>1, SumUnfolds
  <2> QED  BY <2>2
<1>3. \A s \in SUBSET S : s # {} =>
            Picked(s) \in s /\ Sum(s) = f[Picked(s)] + Sum(s \ {Picked(s)})
  BY <1>1, SumUnfolds DEF Picked
<1>4. \A s \in SUBSET S : \A x \in s : Cardinality(s \ {x}) = Cardinality(s) - 1
  BY <1>1, FS_RemoveElement
<1> HIDE DEF Sum
<1>5. 0 \in T
  <2>1. \A s \in SUBSET S : Cardinality(s) <= 0 => s = {}
    BY <1>1, FS_EmptySet
  <2> QED  BY <1>2, <2>1
<1>6. ASSUME NEW m \in Nat, m \in T PROVE m + 1 \in T
  <2>1. ASSUME NEW s \in SUBSET S, Cardinality(s) <= m + 1, s # {}
        PROVE  Sums(s)
    <3> DEFINE p == Picked(s)
    <3>1. p \in s /\ Sum(s) = f[p] + Sum(s \ {p})
      BY <1>3, <2>1
    <3>2. \A x \in s : Sums(s \ {x})
      <4>1. ASSUME NEW x \in s PROVE Sums(s \ {x})
        <5>1. s \ {x} \in SUBSET S /\ Cardinality(s \ {x}) <= m
          BY <1>1, <1>4, <2>1
        <5> QED  BY <1>6, <5>1
      <4> QED  BY <4>1
    <3> HIDE DEF p
    <3>3. Sum(s) \in Int
      BY <3>1, <3>2
    <3>4. ASSUME NEW x \in s, x # p PROVE Sum(s) = f[x] + Sum(s \ {x})
      <4> DEFINE r == s \ {x, p}
      <4>1. r = (s \ {x}) \ {p} /\ r = (s \ {p}) \ {x} /\ p \in s \ {x} /\ x \in s \ {p}
        BY <3>1, <3>4
      <4>2. Sum(s \ {p}) = f[x] + Sum((s \ {p}) \ {x})
            /\ Sum(s \ {x}) = f[p] + Sum((s \ {x}) \ {p})
        BY <3>1, <3>2, <4>1
      <4>3. Sum(s \ {p}) = f[x] + Sum(r) /\ Sum(s \ {x}) = f[p] + Sum(r)
        BY <4>1, <4>2
      <4>4. Sum(r) \in Int
        <5>1. Cardinality((s \ {x}) \ {p}) <= m /\ r \in SUBSET S
          <6>1. Cardinality(s \ {x}) = Cardinality(s) - 1 /\ s \ {x} \in SUBSET S
            BY <1>4
          <6>2. Cardinality((s \ {x}) \ {p}) = Cardinality(s \ {x}) - 1
            BY <1>4, <4>1, <6>1
          <6> QED  BY <1>1, <2>1, <6>1, <6>2
        <5>2. Sums(r)
          BY <1>6, <4>1, <5>1
        <5> QED  BY <5>2
      <4>5. f[x] \in Int /\ f[p] \in Int
        BY <3>1
      <4> HIDE DEF r
      <4> QED  BY <3>1, <4>3, <4>4, <4>5
    <3> QED  BY <3>1, <3>3, <3>4
  <2> QED  BY <1>2, <2>1
<1>7. Cardinality(S) \in T
  <2>1. Cardinality(S) \in Nat
    BY FS_CardinalityType
  <2> HIDE DEF T
  <2> QED  BY <1>5, <1>6, <2>1, NatSetInduction
<1>8. Sums(S)
  <2>1. Cardinality(S) <= Cardinality(S)
    BY FS_CardinalityType
  <2> QED  BY <1>7, <2>1
<1> QED  BY <1>8 DEF Sum

\* A sum changes by what one of its terms changes by.
LEMMA SumChangesBy ==
    ASSUME NEW f, NEW g, NEW S, IsFiniteSet(S),
           \A x \in S : f[x] \in Int /\ g[x] \in Int,
           NEW y \in S, \A x \in S : x # y => g[x] = f[x]
    PROVE  /\ SumFunctionOnSet(f, S) \in Int
           /\ SumFunctionOnSet(g, S) = SumFunctionOnSet(f, S) + g[y] - f[y]
<1> DEFINE R == S \ {y}
           a == SumFunctionOnSet(f, S)
           b == SumFunctionOnSet(g, S)
           c == SumFunctionOnSet(f, R)
           d == SumFunctionOnSet(g, R)
<1>1. IsFiniteSet(R) /\ \A x \in R : g[x] = f[x] /\ f[x] \in Int
  BY FS_Subset
<1>2. c = d /\ c \in Int
  BY <1>1, SumsAgree, SumTakesAny
<1>3. a \in Int /\ a = f[y] + c /\ b = g[y] + d
  BY SumTakesAny
<1> HIDE DEF a, b, c, d, R
<1>4. b = a + g[y] - f[y]
  BY <1>2, <1>3
<1> QED  BY <1>3, <1>4 DEF a, b

\* A new element adds its term.
LEMMA SumGrows ==
    ASSUME NEW f, NEW S, IsFiniteSet(S), NEW y, y \notin S,
           \A x \in S \cup {y} : f[x] \in Int
    PROVE  /\ SumFunctionOnSet(f, S) \in Int
           /\ SumFunctionOnSet(f, S \cup {y}) = SumFunctionOnSet(f, S) + f[y]
<1> DEFINE R == S \cup {y}
           a == SumFunctionOnSet(f, S)
           b == SumFunctionOnSet(f, R)
<1>1. IsFiniteSet(R) /\ R \ {y} = S /\ y \in R
  BY FS_AddElement
<1> HIDE DEF R
<1>2. b = f[y] + SumFunctionOnSet(f, R \ {y})
  BY <1>1, SumTakesAny DEF R
<1>3. a \in Int /\ f[y] \in Int /\ b = f[y] + a
  BY <1>1, <1>2, SumTakesAny
<1> HIDE DEF a, b
<1>4. b = a + f[y]
  BY <1>3
<1> QED  BY <1>3, <1>4 DEF a, b, R
=============================================================================
