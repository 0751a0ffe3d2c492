---------------------------- MODULE SumTheorems ----------------------------
(***************************************************************************)
(* Sums over finite sets of indices, SumFunction of the community modules: *)
(* its value does not depend on the order in which CHOOSE takes the        *)
(* indices.  The library states induction for operators, so the proofs     *)
(* here argue from a smallest counterexample instead, a set.               *)
(***************************************************************************)
EXTENDS Integers, FiniteSets, Functions, FiniteSetTheorems, NaturalsInduction,
        WellFoundedInduction, TLAPS

\* Every set of natural numbers that is not empty has a smallest element.
LEMMA Smallest ==
    ASSUME NEW T \in SUBSET Nat, T # {}
    PROVE  \E n \in T : \A m \in T : n <= m
<1> DEFINE R == {ss \in Nat \X Nat : ss[1] < ss[2]}
<1>1. IsWellFoundedOn(R, Nat)
  BY NatLessThanWellFounded DEF OpToRel
<1>2. PICK n \in T : \A m \in T : ~ (<<m, n>> \in R)
  BY <1>1, WFMin
<1>3. ASSUME NEW m \in T PROVE n <= m
  <2>1. m \in Nat /\ n \in Nat
    OBVIOUS
  <2>2. ASSUME m < n PROVE FALSE
    <3>1. <<m, n>>[1] < <<m, n>>[2]
      BY <2>2
    <3>2. <<m, n>> \in R
      BY <2>1, <3>1, Zenon
    <3> QED BY <1>2, <3>2
  <2> QED BY <2>1, <2>2
<1> QED BY <1>3

\* A set P holds all subsets of D when it holds every one whose own subsets it holds.
LEMMA BySubsets ==
    ASSUME NEW D, IsFiniteSet(D), NEW P,
           \A S \in SUBSET D : (\A R \in SUBSET S : R # S => R \in P) => S \in P
    PROVE  \A S \in SUBSET D : S \in P
<1> DEFINE Missing == {n \in Nat : \E S \in SUBSET D : S \notin P /\ Cardinality(S) = n}
<1>1. \A S \in SUBSET D : IsFiniteSet(S) /\ Cardinality(S) \in Nat
  BY FS_Subset, FS_CardinalityType
<1>2. SUFFICES ASSUME NEW S0 \in SUBSET D, S0 \notin P PROVE FALSE
  OBVIOUS
<1>3. Missing # {}
  BY <1>1, <1>2
<1>4. PICK n \in Missing : \A m \in Missing : n <= m
  BY <1>3, Smallest
<1>5. PICK S \in SUBSET D : S \notin P /\ Cardinality(S) = n
  BY <1>4
<1>6. ASSUME NEW R \in SUBSET S, R # S PROVE R \in P
  <2>1. Cardinality(R) <= Cardinality(S) /\ Cardinality(R) # Cardinality(S)
    BY <1>1, <1>6, FS_Subset
  <2>2. R \in SUBSET D /\ Cardinality(R) \in Nat /\ n \in Nat
    BY <1>1, <1>4
  <2>3. Cardinality(R) \notin Missing
    BY <1>4, <1>5, <2>1, <2>2
  <2> QED BY <2>2, <2>3
<1> QED BY <1>5, <1>6

\* One step of the fold: g is the sum over smaller sets.
Body(f, g, S) == IF S = {} THEN 0 ELSE LET x == CHOOSE x \in S : TRUE IN f[x] + g[S \ {x}]

LEMMA SumUnfolds ==
    ASSUME NEW f
    PROVE SumFunction(f) = LET iter[s \in SUBSET DOMAIN f] == Body(f, iter, s) IN iter[DOMAIN f]
  BY DEF SumFunction, SumFunctionOnSet, FoldFunctionOnSet, MapThenFoldSet, Body

\* g adds up f over the sets of at most n indices.
Sums(f, g, n) == /\ g \in [SUBSET DOMAIN f -> Int]
                 /\ \A S \in SUBSET DOMAIN f : Cardinality(S) <= n => g[S] = Body(f, g, S)

\* A set that is not empty is one larger than it is without the index chosen.
LEMMA Chosen ==
    ASSUME NEW S, IsFiniteSet(S), S # {}
    PROVE  LET x == CHOOSE x \in S : TRUE
           IN  /\ x \in S /\ Cardinality(S) \in Nat
               /\ Cardinality(S \ {x}) = Cardinality(S) - 1
<1> DEFINE x == CHOOSE x \in S : TRUE
<1>1. x \in S OBVIOUS
<1> HIDE DEF x
<1>2. Cardinality(S \ {x}) = Cardinality(S) - 1
  BY <1>1, FS_RemoveElement
<1>3. Cardinality(S) \in Nat
  BY FS_CardinalityType
<1>4. x \in S /\ Cardinality(S) \in Nat /\ Cardinality(S \ {x}) = Cardinality(S) - 1
  BY <1>1, <1>2, <1>3
<1> QED BY <1>4 DEF x

\* Sums exist: those of larger sets are defined from those of smaller ones.
LEMMA SumsExist ==
    ASSUME NEW f, IsFiniteSet(DOMAIN f), \A x \in DOMAIN f : f[x] \in Int, NEW N \in Nat
    PROVE  \E g : Sums(f, g, N)
<1> DEFINE Missing == {n \in Nat : ~ \E g : Sums(f, g, n)}
<1>0. \A S \in SUBSET DOMAIN f : IsFiniteSet(S) /\ Cardinality(S) \in Nat
  BY FS_Subset, FS_CardinalityType
<1>1. SUFFICES ASSUME Missing # {} PROVE FALSE
  OBVIOUS
<1>2. PICK n \in Missing : \A m \in Missing : n <= m
  BY <1>1, Smallest
<1>3. ASSUME NEW g, g \in [SUBSET DOMAIN f -> Int], NEW S \in SUBSET DOMAIN f
      PROVE  Body(f, g, S) \in Int
  <2>1. CASE S = {}
    BY <2>1 DEF Body
  <2>2. CASE S # {}
    <3> DEFINE x == CHOOSE x \in S : TRUE
    <3>1. x \in S
      BY <2>2
    <3> HIDE DEF x
    <3>2. f[x] \in Int /\ g[S \ {x}] \in Int
      BY <3>1, <1>3
    <3>3. Body(f, g, S) = f[x] + g[S \ {x}]
      BY <2>2 DEF Body, x
    <3> QED BY <3>2, <3>3
  <2> QED BY <2>1, <2>2
<1>4. CASE n = 0
  <2> DEFINE g == [S \in SUBSET DOMAIN f |-> 0]
  <2>1. ASSUME NEW S \in SUBSET DOMAIN f, Cardinality(S) <= 0
        PROVE  g[S] = Body(f, g, S)
    <3>1. S = {}
      BY <1>0, <2>1, FS_EmptySet
    <3> QED BY <3>1 DEF Body
  <2>2. Sums(f, g, 0)
    BY <2>1 DEF Sums
  <2> QED BY <1>4, <2>2
<1>5. CASE n # 0
  <2>1. n \in Nat /\ n - 1 \in Nat /\ n - 1 \notin Missing
    BY <1>2, <1>5
  <2>2. PICK g : Sums(f, g, n - 1)
    BY <2>1
  <2> DEFINE h == [S \in SUBSET DOMAIN f |-> Body(f, g, S)]
  <2>3. h \in [SUBSET DOMAIN f -> Int]
    BY <1>3, <2>2 DEF Sums
  <2>4. ASSUME NEW S \in SUBSET DOMAIN f, Cardinality(S) <= n
        PROVE  h[S] = Body(f, h, S)
    <3>1. CASE S = {}
      BY <3>1 DEF Body
    <3>2. CASE S # {}
      <4> DEFINE x == CHOOSE x \in S : TRUE
      <4>1. Cardinality(S \ {x}) <= n - 1
        BY <1>0, <2>1, <2>4, <3>2, Chosen
      <4>2. h[S \ {x}] = g[S \ {x}]
        BY <2>2, <4>1 DEF Sums
      <4>3. Body(f, h, S) = f[x] + h[S \ {x}] /\ Body(f, g, S) = f[x] + g[S \ {x}]
        BY <3>2 DEF Body
      <4> HIDE DEF x, h
      <4>4. h[S] = Body(f, g, S)
        BY DEF h
      <4> QED BY <4>2, <4>3, <4>4
    <3> QED BY <3>1, <3>2
  <2>5. Sums(f, h, n)
    BY <2>3, <2>4 DEF Sums
  <2> QED BY <2>5
<1> QED BY <1>4, <1>5

\* The sum of f over the indices S.
Total(f) == CHOOSE g : g = [S \in SUBSET DOMAIN f |-> Body(f, g, S)]

IntegerFunction(f) == IsFiniteSet(DOMAIN f) /\ \A x \in DOMAIN f : f[x] \in Int

LEMMA TotalSums ==
    ASSUME NEW f, IntegerFunction(f)
    PROVE  /\ Total(f) \in [SUBSET DOMAIN f -> Int]
           /\ \A S \in SUBSET DOMAIN f : Total(f)[S] = Body(f, Total(f), S)
           /\ SumFunction(f) = Total(f)[DOMAIN f]
<1> USE DEF IntegerFunction
<1>1. Cardinality(DOMAIN f) \in Nat
  BY FS_CardinalityType
<1>2. PICK g : Sums(f, g, Cardinality(DOMAIN f))
  BY <1>1, SumsExist
<1>3. g = [S \in SUBSET DOMAIN f |-> Body(f, g, S)]
  BY <1>2, FS_Subset DEF Sums
<1>4. Total(f) = [S \in SUBSET DOMAIN f |-> Body(f, Total(f), S)]
  BY <1>3 DEF Total
<1>5. SumFunction(f) = Total(f)[DOMAIN f]
  BY SumUnfolds DEF Total
<1> HIDE DEF Total
<1>6. ASSUME NEW h, h = [S \in SUBSET DOMAIN f |-> Body(f, h, S)], NEW S \in SUBSET DOMAIN f
      PROVE  h[S] = Body(f, h, S)
  BY <1>6
<1>7. Total(f) \in [SUBSET DOMAIN f -> Int]
  <2> DEFINE P == {S \in SUBSET DOMAIN f : Total(f)[S] \in Int}
  <2>1. ASSUME NEW S \in SUBSET DOMAIN f, \A R \in SUBSET S : R # S => R \in P
        PROVE  S \in P
    <3>1. CASE S = {}
      BY <1>4, <1>6, <3>1 DEF Body
    <3>2. CASE S # {}
      <4> DEFINE x == CHOOSE x \in S : TRUE
      <4>1. x \in S
        BY <3>2
      <4>2. Total(f)[S] = f[x] + Total(f)[S \ {x}]
        BY <1>4, <1>6, <3>2 DEF Body
      <4> HIDE DEF x
      <4>3. S \ {x} \in P
        BY <2>1, <4>1
      <4>4. f[x] \in Int /\ Total(f)[S \ {x}] \in Int
        BY <4>1, <4>3
      <4> QED BY <4>2, <4>4
    <3> QED BY <3>1, <3>2
  <2> HIDE DEF P
  <2>2. \A S \in SUBSET DOMAIN f : S \in P
    BY <2>1, BySubsets
  <2>3. \A S \in SUBSET DOMAIN f : Total(f)[S] \in Int
    BY <2>2 DEF P
  <2> QED BY <1>4, <2>3
<1> QED BY <1>4, <1>5, <1>6, <1>7

\* Any index may be taken out first.
LEMMA TotalWithout ==
    ASSUME NEW f, IntegerFunction(f), NEW S0 \in SUBSET DOMAIN f, NEW x0 \in S0
    PROVE  Total(f)[S0] = f[x0] + Total(f)[S0 \ {x0}]
<1> DEFINE P == {S \in SUBSET DOMAIN f : \A x \in S : Total(f)[S] = f[x] + Total(f)[S \ {x}]}
<1>1. /\ Total(f) \in [SUBSET DOMAIN f -> Int]
      /\ \A S \in SUBSET DOMAIN f : Total(f)[S] = Body(f, Total(f), S)
  BY TotalSums
<1>2. IsFiniteSet(DOMAIN f) /\ \A x \in DOMAIN f : f[x] \in Int
  BY DEF IntegerFunction
<1>3. ASSUME NEW S \in SUBSET DOMAIN f, \A R \in SUBSET S : R # S => R \in P, NEW x \in S
      PROVE  Total(f)[S] = f[x] + Total(f)[S \ {x}]
  <2> DEFINE c == CHOOSE y \in S : TRUE
  <2>1. c \in S
    OBVIOUS
  <2>2. Total(f)[S] = f[c] + Total(f)[S \ {c}]
    BY <1>1 DEF Body
  <2> HIDE DEF c
  <2>3. CASE c # x
    <3>1. S \ {c} \in P /\ x \in S \ {c} /\ S \ {x} \in P /\ c \in S \ {x}
      BY <1>3, <2>1, <2>3
    <3>2. Total(f)[S \ {c}] = f[x] + Total(f)[(S \ {c}) \ {x}]
      BY <3>1
    <3>3. Total(f)[S \ {x}] = f[c] + Total(f)[(S \ {x}) \ {c}]
      BY <3>1
    <3>4. (S \ {c}) \ {x} = (S \ {x}) \ {c}
      OBVIOUS
    <3>5. f[c] \in Int /\ f[x] \in Int
      BY <1>2, <2>1
    <3>6. (S \ {x}) \ {c} \in SUBSET DOMAIN f
      OBVIOUS
    <3>7. PICK r \in Int : Total(f)[(S \ {x}) \ {c}] = r
      BY <1>1, <3>6, Zenon
    <3>8. Total(f)[S \ {c}] = f[x] + r
      BY <3>2, <3>4, <3>7, Zenon
    <3>9. Total(f)[S \ {x}] = f[c] + r
      BY <3>3, <3>7, Zenon
    <3> QED BY <2>2, <3>5, <3>7, <3>8, <3>9
  <2> QED BY <2>2, <2>3
<1>4. ASSUME NEW S \in SUBSET DOMAIN f, \A R \in SUBSET S : R # S => R \in P
      PROVE  S \in P
  BY <1>3, <1>4
<1> HIDE DEF P
<1>5. \A S \in SUBSET DOMAIN f : S \in P
  BY <1>2, <1>4, BySubsets
<1> QED BY <1>5 DEF P

\* The sum depends on the values at its indices only.
LEMMA TotalAgrees ==
    ASSUME NEW f, NEW g, IntegerFunction(f), IntegerFunction(g), DOMAIN f = DOMAIN g,
           NEW S0 \in SUBSET DOMAIN f, \A x \in S0 : f[x] = g[x]
    PROVE  Total(f)[S0] = Total(g)[S0]
<1> DEFINE P == {S \in SUBSET S0 : Total(f)[S] = Total(g)[S]}
<1>1. /\ \A S \in SUBSET DOMAIN f : Total(f)[S] = Body(f, Total(f), S)
      /\ \A S \in SUBSET DOMAIN f : Total(g)[S] = Body(g, Total(g), S)
  BY TotalSums
<1>2. IsFiniteSet(S0)
  BY FS_Subset DEF IntegerFunction
<1>3. ASSUME NEW S \in SUBSET S0, \A R \in SUBSET S : R # S => R \in P
      PROVE  S \in P
  <2>1. CASE S = {}
    BY <1>1, <2>1 DEF Body
  <2>2. CASE S # {}
    <3> DEFINE x == CHOOSE x \in S : TRUE
    <3>1. x \in S
      BY <2>2
    <3>2. Total(f)[S] = f[x] + Total(f)[S \ {x}] /\ Total(g)[S] = g[x] + Total(g)[S \ {x}]
      BY <1>1, <2>2 DEF Body
    <3> HIDE DEF x
    <3>3. Total(f)[S \ {x}] = Total(g)[S \ {x}] /\ f[x] = g[x]
      BY <1>3, <3>1
    <3> QED BY <3>2, <3>3
  <2> QED BY <2>1, <2>2
<1> HIDE DEF P
<1>4. S0 \in P
  BY <1>2, <1>3, BySubsets
<1> QED BY <1>4 DEF P

\* A sum of integers is an integer.
THEOREM SumType ==
    ASSUME NEW f, IsFiniteSet(DOMAIN f), \A x \in DOMAIN f : f[x] \in Int
    PROVE  SumFunction(f) \in Int
<1>1. IntegerFunction(f)
  BY DEF IntegerFunction
<1>2. DOMAIN f \in SUBSET DOMAIN f
  OBVIOUS
<1>3. Total(f)[DOMAIN f] \in Int
  BY <1>1, <1>2, TotalSums, Zenon
<1> QED BY <1>1, <1>3, TotalSums

\* When one value changes, the sum changes by as much.
THEOREM SumChange ==
    ASSUME NEW D, IsFiniteSet(D), NEW f, NEW g, DOMAIN f = D, DOMAIN g = D, NEW x \in D,
           \A y \in D : f[y] \in Int /\ g[y] \in Int,
           \A y \in D \ {x} : f[y] = g[y]
    PROVE  SumFunction(g) = SumFunction(f) + g[x] - f[x]
<1>1. IntegerFunction(f) /\ IntegerFunction(g)
  BY DEF IntegerFunction
<1>2. Total(f)[D] = f[x] + Total(f)[D \ {x}] /\ Total(g)[D] = g[x] + Total(g)[D \ {x}]
  BY <1>1, TotalWithout
<1>3. Total(f)[D \ {x}] = Total(g)[D \ {x}]
  BY <1>1, TotalAgrees
<1>4. SumFunction(f) = Total(f)[D] /\ SumFunction(g) = Total(g)[D]
  BY <1>1, TotalSums
<1>5. Total(f)[D \ {x}] \in Int /\ f[x] \in Int /\ g[x] \in Int
  BY <1>1, TotalSums
<1> QED BY <1>2, <1>3, <1>4, <1>5

\* A sum of zeros is zero.
THEOREM SumZero ==
    ASSUME NEW f, IsFiniteSet(DOMAIN f), \A x \in DOMAIN f : f[x] = 0
    PROVE  SumFunction(f) = 0
<1> DEFINE P == {S \in SUBSET DOMAIN f : Total(f)[S] = 0}
<1>1. IntegerFunction(f)
  BY DEF IntegerFunction
<1>2. \A S \in SUBSET DOMAIN f : Total(f)[S] = Body(f, Total(f), S)
  BY <1>1, TotalSums
<1>3. ASSUME NEW S \in SUBSET DOMAIN f, \A R \in SUBSET S : R # S => R \in P
      PROVE  S \in P
  <2>1. CASE S = {}
    BY <1>2, <2>1 DEF Body
  <2>2. CASE S # {}
    <3> DEFINE x == CHOOSE x \in S : TRUE
    <3>1. x \in S
      BY <2>2
    <3>2. Total(f)[S] = f[x] + Total(f)[S \ {x}]
      BY <1>2, <2>2 DEF Body
    <3> HIDE DEF x
    <3>3. Total(f)[S \ {x}] = 0 /\ f[x] = 0
      BY <1>3, <3>1
    <3> QED BY <3>2, <3>3
  <2> QED BY <2>1, <2>2
<1> HIDE DEF P
<1>4. DOMAIN f \in P
  BY <1>3, BySubsets
<1> QED BY <1>1, <1>4, TotalSums DEF P

\* A sum of natural numbers is no smaller than any of them.
THEOREM SumBound ==
    ASSUME NEW f, IsFiniteSet(DOMAIN f), \A x \in DOMAIN f : f[x] \in Nat
    PROVE  /\ SumFunction(f) \in Nat
           /\ \A x \in DOMAIN f : f[x] <= SumFunction(f)
<1> DEFINE P == {S \in SUBSET DOMAIN f : Total(f)[S] \in Nat}
<1>1. IntegerFunction(f)
  BY DEF IntegerFunction
<1>2. \A S \in SUBSET DOMAIN f : Total(f)[S] = Body(f, Total(f), S)
  BY <1>1, TotalSums
<1>3. ASSUME NEW S \in SUBSET DOMAIN f, \A R \in SUBSET S : R # S => R \in P
      PROVE  S \in P
  <2>1. CASE S = {}
    <3>1. Total(f)[S] = Body(f, Total(f), S) /\ Body(f, Total(f), S) = 0
      BY <1>2, <2>1 DEF Body
    <3> QED BY <3>1
  <2>2. CASE S # {}
    <3> DEFINE x == CHOOSE x \in S : TRUE
    <3>1. x \in S
      BY <2>2
    <3>2. Total(f)[S] = f[x] + Total(f)[S \ {x}]
      BY <1>2, <2>2 DEF Body
    <3> HIDE DEF x
    <3>3. Total(f)[S \ {x}] \in Nat /\ f[x] \in Nat
      BY <1>3, <3>1
    <3> QED BY <3>2, <3>3
  <2> QED BY <2>1, <2>2
<1> HIDE DEF P
<1>4. \A S \in SUBSET DOMAIN f : S \in P
  BY <1>3, BySubsets
<1>5. \A S \in SUBSET DOMAIN f : Total(f)[S] \in Nat
  BY <1>4 DEF P
<1>6. ASSUME NEW x \in DOMAIN f PROVE f[x] <= Total(f)[DOMAIN f]
  <2>1. Total(f)[DOMAIN f] = f[x] + Total(f)[DOMAIN f \ {x}]
    BY <1>1, TotalWithout
  <2>2. Total(f)[DOMAIN f \ {x}] \in Nat /\ f[x] \in Nat
    BY <1>5
  <2> QED BY <2>1, <2>2
<1> QED BY <1>1, <1>5, <1>6, TotalSums

\* A sum over more arguments is no larger when what they add is zero and each of
\* the others is no larger.
THEOREM SumAtMost ==
    ASSUME NEW D, IsFiniteSet(D), NEW C \in SUBSET D, NEW f, NEW g, DOMAIN f = D, DOMAIN g = C,
           \A x \in D : f[x] \in Int, \A x \in C : g[x] \in Int /\ f[x] <= g[x],
           \A x \in D \ C : f[x] = 0
    PROVE  SumFunction(f) <= SumFunction(g)
<1> DEFINE P == {S \in SUBSET D : Total(f)[S] <= Total(g)[S \cap C]}
<1>1. IntegerFunction(f) /\ IntegerFunction(g)
  BY FS_Subset DEF IntegerFunction
<1>2. /\ \A S \in SUBSET D : Total(f)[S] = Body(f, Total(f), S) /\ Total(f)[S] \in Int
      /\ \A S \in SUBSET C : Total(g)[S] = Body(g, Total(g), S) /\ Total(g)[S] \in Int
      /\ SumFunction(f) = Total(f)[D] /\ SumFunction(g) = Total(g)[C]
  BY <1>1, TotalSums
<1>3. ASSUME NEW S \in SUBSET D, \A R \in SUBSET S : R # S => R \in P
      PROVE  S \in P
  <2>1. CASE S = {}
    <3>1. Total(f)[S] = 0 /\ S \cap C = {}
      BY <1>2, <2>1 DEF Body
    <3>2. Total(g)[S \cap C] = 0
      BY <1>2, <3>1 DEF Body
    <3> QED BY <3>1, <3>2
  <2>2. CASE S # {}
    <3>1. PICK x \in S : TRUE
      BY <2>2
    <3>2. Total(f)[S] = f[x] + Total(f)[S \ {x}] /\ f[x] \in Int
      BY <1>1, <3>1, TotalWithout
    <3>3. /\ Total(f)[S \ {x}] <= Total(g)[(S \ {x}) \cap C]
          /\ Total(f)[S \ {x}] \in Int /\ Total(g)[(S \ {x}) \cap C] \in Int
      BY <1>2, <1>3, <3>1
    <3>4. Total(f)[S] <= Total(g)[S \cap C]
      <4>1. CASE x \in C
        <5>1. x \in S \cap C /\ S \cap C \in SUBSET C /\ (S \cap C) \ {x} = (S \ {x}) \cap C
          BY <3>1, <4>1
        <5>2. S \cap C \in SUBSET DOMAIN g /\ x \in S \cap C
          BY <5>1
        <5>3. Total(g)[S \cap C] = g[x] + Total(g)[(S \cap C) \ {x}]
          BY ONLY <1>1, <5>2, TotalWithout
        <5>4. g[x] \in Int /\ f[x] <= g[x]
          BY <4>1
        <5> QED BY <3>2, <3>3, <5>1, <5>3, <5>4
      <4>2. CASE x \notin C
        <5>1. f[x] = 0 /\ (S \ {x}) \cap C = S \cap C
          BY <3>1, <4>2
        <5>2. Total(g)[(S \ {x}) \cap C] = Total(g)[S \cap C]
          BY <5>1
        <5> QED BY <3>2, <3>3, <5>1, <5>2
      <4> QED BY <4>1, <4>2
    <3> QED BY <3>4
  <2> QED BY <2>1, <2>2
<1> HIDE DEF P
<1>4. D \in P
  BY <1>3, BySubsets
<1>5. Total(f)[D] <= Total(g)[D \cap C] /\ D \cap C = C
  BY <1>4 DEF P
<1> QED BY <1>2, <1>5
=============================================================================
