----------------------------- MODULE Sums_proofs -----------------------------
(***************************************************************************)
(* What the components need to know of sums: how a total changes with one  *)
(* of its values, its type, its order, and the sum of the first n values.  *)
(* The fold behind Total is defined by recursion over subsets; that this   *)
(* recursion defines a function, and one that does not depend on the order *)
(* of its choices, is shown by induction over cardinalities.  The          *)
(* induction is first-order: the set of the numbers for which the claim    *)
(* holds has no smallest counterexample.                                   *)
(***************************************************************************)
EXTENDS Sums, FiniteSets, FiniteSetTheorems, WellFoundedInduction, TLAPS

\* Every set of numbers that is not empty has a smallest one ...
LEMMA SmallestNumber ==
  ASSUME NEW T, T \subseteq Nat, T # {}
  PROVE  \E n \in T : \A m \in T : ~(m < n)
<1>1. \E x \in T : \A y \in T : ~(<<y, x>> \in OpToRel(<, Nat))
  BY WFMin, NatLessThanWellFounded
<1> QED BY <1>1 DEF OpToRel

\* ... hence a set with 0 and every successor in it has them all.
LEMMA ByInduction ==
  ASSUME NEW T, 0 \in T, \A n \in Nat : n \in T => n + 1 \in T
  PROVE  Nat \subseteq T
<1> SUFFICES ASSUME Nat \ T # {} PROVE FALSE
  OBVIOUS
<1>1. PICK n \in Nat \ T : \A m \in Nat \ T : ~(m < n)
  BY SmallestNumber
<1>2. n # 0 /\ n - 1 \in Nat
  OBVIOUS
<1>3. n - 1 \in T
  BY <1>1, <1>2
<1>4. (n - 1) + 1 \in T
  BY <1>2, <1>3
<1> QED BY <1>4

\* The element with which FoldFunction goes on.
SomeOf(s) == CHOOSE x \in s : TRUE

\* g gives the sum of f over each subset of S.
SumsOf(g, f, S) ==
  g = [s \in SUBSET S |-> IF s = {} THEN 0 ELSE f[SomeOf(s)] + g[s \ {SomeOf(s)}]]

\* The function that CHOOSE in the definition of the fold picks.
TheSums(f, S) == CHOOSE g : SumsOf(g, f, S)

\* Total is that function at the whole domain.
LEMMA TotalIsTheSum ==
  ASSUME NEW f
  PROVE  Total(f) = TheSums(f, DOMAIN f)[DOMAIN f]
BY DEF Total, FoldFunction, FoldFunctionOnSet, MapThenFoldSet, TheSums, SumsOf, SomeOf

\* It is an element.
LEMMA SomeIsIn ==
  ASSUME NEW s, s # {}
  PROVE  SomeOf(s) \in s
BY DEF SomeOf

\* A finite set without one of its elements.
LEMMA TakeOneOut ==
  ASSUME NEW s, IsFiniteSet(s), NEW x \in s
  PROVE  /\ IsFiniteSet(s \ {x})
         /\ Cardinality(s \ {x}) \in Nat /\ Cardinality(s) \in Nat
         /\ Cardinality(s) = Cardinality(s \ {x}) + 1
<1>1. IsFiniteSet(s \ {x}) /\ Cardinality(s \ {x}) = Cardinality(s) - 1
  BY FS_RemoveElement
<1>2. Cardinality(s \ {x}) \in Nat /\ Cardinality(s) \in Nat
  BY <1>1, FS_CardinalityType
<1> QED BY <1>1, <1>2

\* Up to a cardinality.
Upto(S, n) == {s \in SUBSET S : Cardinality(s) <= n}
SumsUpto(g, f, S, n) ==
  g = [s \in Upto(S, n) |-> IF s = {} THEN 0 ELSE f[SomeOf(s)] + g[s \ {SomeOf(s)}]]

\* Subsets of a finite set.
LEMMA SubsetFacts ==
  ASSUME NEW S, IsFiniteSet(S), NEW s \in SUBSET S
  PROVE  /\ IsFiniteSet(s) /\ Cardinality(s) \in Nat
         /\ Cardinality(s) <= Cardinality(S) /\ Cardinality(S) \in Nat
         /\ s = {} <=> Cardinality(s) = 0
BY FS_Subset, FS_CardinalityType, FS_EmptySet

\* By induction over n there are sums over the subsets of up to n elements ...
LEMMA SumsExistUpto ==
  ASSUME NEW S, IsFiniteSet(S), NEW f
  PROVE  \A n \in Nat : \E g : SumsUpto(g, f, S, n)
<1> DEFINE T == {n \in Nat : \E g : SumsUpto(g, f, S, n)}
<1>1. 0 \in T
  <2> DEFINE g == [s \in Upto(S, 0) |-> 0]
  <2>1. \A s \in Upto(S, 0) : s = {}
    BY SubsetFacts DEF Upto
  <2>2. SumsUpto(g, f, S, 0)
    BY <2>1 DEF SumsUpto
  <2> QED BY <2>2
<1>2. ASSUME NEW n \in Nat, n \in T
      PROVE  n + 1 \in T
  <2>1. PICK g : SumsUpto(g, f, S, n)
    BY <1>2
  <2> DEFINE h == [s \in Upto(S, n + 1) |->
                     IF s = {} THEN 0 ELSE f[SomeOf(s)] + g[s \ {SomeOf(s)}]]
  <2>2. \A s \in Upto(S, n) : h[s] = g[s]
    <3>1. Upto(S, n) \subseteq Upto(S, n + 1)
      BY SubsetFacts DEF Upto
    <3>2. \A s \in Upto(S, n) : g[s] = IF s = {} THEN 0 ELSE f[SomeOf(s)] + g[s \ {SomeOf(s)}]
      BY <2>1 DEF SumsUpto
    <3> QED BY <3>1, <3>2
  <2>3. \A s \in Upto(S, n + 1) : s # {} => s \ {SomeOf(s)} \in Upto(S, n)
    BY SomeIsIn, TakeOneOut, SubsetFacts DEF Upto
  <2>4. \A s \in Upto(S, n + 1) : s # {} => h[s \ {SomeOf(s)}] = g[s \ {SomeOf(s)}]
    BY <2>2, <2>3
  <2>5. h = [s \in Upto(S, n + 1) |->
               IF s = {} THEN 0 ELSE f[SomeOf(s)] + h[s \ {SomeOf(s)}]]
    BY <2>4
  <2>6. SumsUpto(h, f, S, n + 1)
    BY <2>5 DEF SumsUpto
  <2> QED BY <2>6
<1>3. Nat \subseteq T
  BY <1>1, <1>2, ByInduction
<1> QED BY <1>3

\* ... hence over all of them: the CHOOSE picks what it is meant to.
LEMMA SumsExist ==
  ASSUME NEW S, IsFiniteSet(S), NEW f
  PROVE  SumsOf(TheSums(f, S), f, S)
<1>1. PICK g : SumsUpto(g, f, S, Cardinality(S))
  BY SumsExistUpto, FS_CardinalityType
<1>2. Upto(S, Cardinality(S)) = SUBSET S
  BY SubsetFacts DEF Upto
<1>3. SumsOf(g, f, S)
  BY <1>1, <1>2 DEF SumsUpto, SumsOf
<1> QED BY <1>3 DEF TheSums

\* A sum depends on the values in the set only.
LEMMA SumsAgree ==
  ASSUME NEW S, IsFiniteSet(S), NEW f, NEW g, SumsOf(g, f, S),
         NEW R, IsFiniteSet(R), NEW e, NEW h, SumsOf(h, e, R),
         NEW d, d \subseteq S, d \subseteq R, \A x \in d : f[x] = e[x]
  PROVE  g[d] = h[d]
<1> DEFINE T == {n \in Nat : \A s \in SUBSET d : Cardinality(s) = n => g[s] = h[s]}
<1>0. IsFiniteSet(d)
  BY FS_Subset
<1>1. 0 \in T
  BY <1>0, SubsetFacts DEF SumsOf
<1>2. ASSUME NEW n \in Nat, n \in T
      PROVE  n + 1 \in T
  <2> SUFFICES ASSUME NEW s \in SUBSET d, Cardinality(s) = n + 1
               PROVE  g[s] = h[s]
    OBVIOUS
  <2>1. s # {} /\ IsFiniteSet(s)
    BY <1>0, SubsetFacts
  <2>2. SomeOf(s) \in s
    BY <2>1, SomeIsIn
  <2>3. Cardinality(s \ {SomeOf(s)}) = n
    <3>1. Cardinality(s) = Cardinality(s \ {SomeOf(s)}) + 1 /\ Cardinality(s \ {SomeOf(s)}) \in Nat
      BY <2>1, <2>2, TakeOneOut
    <3> QED BY <3>1
  <2>4. g[s \ {SomeOf(s)}] = h[s \ {SomeOf(s)}]
    BY <2>3, <1>2
  <2>5. g[s] = f[SomeOf(s)] + g[s \ {SomeOf(s)}]
    BY <2>1 DEF SumsOf
  <2>6. h[s] = e[SomeOf(s)] + h[s \ {SomeOf(s)}]
    BY <2>1 DEF SumsOf
  <2> QED BY <2>2, <2>4, <2>5, <2>6
<1>3. Nat \subseteq T
  BY <1>1, <1>2, ByInduction
<1> QED BY <1>0, <1>3, FS_CardinalityType

\* Whichever element is taken first.
Integral(f, S) == \A x \in S : f[x] \in Int
Splits(g, f, S) ==
  \A s \in SUBSET S : g[s] \in Int /\ \A x \in s : g[s] = f[x] + g[s \ {x}]

\* Any element can be taken out of a sum, not just the one the fold takes.
LEMMA SumsSplit ==
  ASSUME NEW S, IsFiniteSet(S), NEW f, Integral(f, S), NEW g, SumsOf(g, f, S)
  PROVE  Splits(g, f, S)
<1> DEFINE P(s) == g[s] \in Int /\ \A x \in s : g[s] = f[x] + g[s \ {x}]
           T == {n \in Nat : \A s \in SUBSET S : Cardinality(s) <= n => P(s)}
<1>1. 0 \in T
  <2> SUFFICES ASSUME NEW s \in SUBSET S, Cardinality(s) <= 0
               PROVE  P(s)
    OBVIOUS
  <2>1. s = {}
    BY SubsetFacts
  <2>2. g[s] = 0
    BY <2>1 DEF SumsOf
  <2> QED BY <2>1, <2>2
<1>2. ASSUME NEW n \in Nat, n \in T
      PROVE  n + 1 \in T
  <2> SUFFICES ASSUME NEW s \in SUBSET S, Cardinality(s) = n + 1
               PROVE  P(s)
    <3> SUFFICES ASSUME NEW s \in SUBSET S, Cardinality(s) <= n + 1
                 PROVE  P(s)
      OBVIOUS
    <3>1. CASE Cardinality(s) = n + 1
      BY <3>1
    <3>2. CASE Cardinality(s) <= n
      BY <3>2, <1>2
    <3>3. Cardinality(s) \in Nat
      BY SubsetFacts
    <3> HIDE DEF P
    <3> QED BY <3>1, <3>2, <3>3
  <2> DEFINE y == SomeOf(s)
  <2>1. s # {} /\ IsFiniteSet(s)
    BY SubsetFacts
  <2>2. y \in s
    BY <2>1, SomeIsIn
  <2>3. \A x \in s : s \ {x} \in SUBSET S /\ Cardinality(s \ {x}) <= n
    BY <2>1, TakeOneOut
  <2>4. \A x \in s : P(s \ {x})
    BY <2>3, <1>2
  <2>5. g[s] = f[y] + g[s \ {y}]
    BY <2>1 DEF SumsOf
  <2> HIDE DEF y
  <2>6. ASSUME NEW x \in s
        PROVE  g[s] = f[x] + g[s \ {x}]
    <3>1. CASE x = y
      BY <3>1, <2>5
    <3>2. CASE x # y
      <4>1. g[s \ {y}] = f[x] + g[(s \ {y}) \ {x}]
        BY <2>4, <2>2, <3>2
      <4>2. g[s \ {x}] = f[y] + g[(s \ {x}) \ {y}]
        BY <2>4, <2>2, <3>2
      <4>3. (s \ {y}) \ {x} = (s \ {x}) \ {y}
        OBVIOUS
      <4>4. g[(s \ {x}) \ {y}] \in Int
        <5>1. IsFiniteSet(s \ {x}) /\ y \in s \ {x}
          BY <2>1, <2>2, <3>2, FS_RemoveElement
        <5>2. /\ Cardinality(s \ {x}) = Cardinality((s \ {x}) \ {y}) + 1
              /\ Cardinality((s \ {x}) \ {y}) \in Nat
          BY <5>1, TakeOneOut
        <5>3. Cardinality((s \ {x}) \ {y}) <= n
          BY <5>2, <2>3
        <5>4. (s \ {x}) \ {y} \in SUBSET S
          OBVIOUS
        <5> QED BY <5>3, <5>4, <1>2
      <4>5. f[x] \in Int /\ f[y] \in Int
        BY <2>2 DEF Integral
      <4> DEFINE rest == g[(s \ {x}) \ {y}]
      <4>6. rest \in Int
        BY <4>4
      <4>7. g[s] = f[y] + (f[x] + rest)
        BY <4>1, <4>3, <2>5
      <4>8. f[x] + g[s \ {x}] = f[x] + (f[y] + rest)
        BY <4>2
      <4> HIDE DEF rest
      <4>9. f[y] + (f[x] + rest) = f[x] + (f[y] + rest)
        BY <4>5, <4>6
      <4> QED BY <4>7, <4>8, <4>9
    <3> QED BY <3>1, <3>2
  <2>7. g[s] \in Int
    <3>1. f[y] \in Int
      BY <2>2 DEF Integral
    <3>2. g[s \ {y}] \in Int
      BY <2>2, <2>4
    <3> QED BY <2>5, <3>1, <3>2
  <2> QED BY <2>6, <2>7
<1>3. Nat \subseteq T
  BY <1>1, <1>2, ByInduction
<1>4. \A s \in SUBSET S : P(s)
  <2> SUFFICES ASSUME NEW s \in SUBSET S
               PROVE  P(s)
    OBVIOUS
  <2>1. Cardinality(s) \in Nat
    BY SubsetFacts
  <2> QED BY <2>1, <1>3
<1> QED BY <1>4 DEF Splits

\* A function without one of its arguments.
Without(f, a) == [x \in (DOMAIN f) \ {a} |-> f[x]]

\* A total is one value and the total of the others.
LEMMA TotalSplit ==
  ASSUME NEW S, IsFiniteSet(S), NEW f, DOMAIN f = S, \A x \in S : f[x] \in Int, NEW a \in S
  PROVE  /\ Total(f) \in Int
         /\ Total(Without(f, a)) \in Int
         /\ Total(f) = f[a] + Total(Without(f, a))
<1> DEFINE e == Without(f, a)
           g == TheSums(f, S)
           h == TheSums(e, S \ {a})
<1>1. IsFiniteSet(S \ {a})
  BY FS_Subset
<1>2. SumsOf(g, f, S) /\ SumsOf(h, e, S \ {a})
  BY <1>1, SumsExist
<1>3. Total(f) = g[S] /\ Total(e) = h[S \ {a}]
  <2>1. DOMAIN e = S \ {a}
    BY DEF Without
  <2>2. Total(f) = TheSums(f, S)[S]
    BY TotalIsTheSum
  <2> HIDE DEF e
  <2> QED BY <2>1, <2>2, TotalIsTheSum
<1>4. \A x \in S \ {a} : f[x] = e[x]
  BY DEF Without
<1> HIDE DEF e, g, h
<1>5. g[S \ {a}] = h[S \ {a}]
  BY <1>1, <1>2, <1>4, SumsAgree
<1>6. /\ g[S] \in Int /\ g[S \ {a}] \in Int
      /\ g[S] = f[a] + g[S \ {a}]
  <2>1. \A s \in SUBSET S : /\ g[s] \in Int
                            /\ \A x \in s : g[s] = f[x] + g[s \ {x}]
    <3>1. SumsOf(g, f, S) /\ Integral(f, S)
      BY <1>2 DEF Integral
    <3>2. Splits(g, f, S)
      BY <3>1, SumsSplit
    <3> QED BY <3>2 DEF Splits
  <2> QED BY <2>1
<1> QED BY <1>3, <1>5, <1>6 DEF e

\* Nothing adds up to nothing.
LEMMA TotalOfNone ==
  ASSUME NEW f, DOMAIN f = {}
  PROVE  Total(f) = 0
<1>1. SumsOf(TheSums(f, {}), f, {})
  BY SumsExist, FS_EmptySet
<1> QED BY <1>1, TotalIsTheSum DEF SumsOf

\* Integers add up to an integer.
LEMMA TotalType ==
  ASSUME NEW S, IsFiniteSet(S), NEW f \in [S -> Int]
  PROVE  Total(f) \in Int
<1>1. CASE S = {}
  BY <1>1, TotalOfNone
<1>2. CASE S # {}
  BY <1>2, TotalSplit
<1> QED BY <1>1, <1>2

\* Two functions that differ at one place.
IntegersOn(f, S) == f \in [S -> Int]
SameBut(e, f, S, a) == \A x \in S \ {a} : e[x] = f[x]

\* When one value changes, the total changes as much.
LEMMA TotalChange ==
  ASSUME NEW S, IsFiniteSet(S), NEW f, IntegersOn(f, S), NEW e, IntegersOn(e, S),
         NEW a \in S, SameBut(e, f, S, a)
  PROVE  /\ Total(f) \in Int /\ Total(e) \in Int
         /\ Total(e) = (Total(f) - f[a]) + e[a]
<1> USE DEF IntegersOn, SameBut
<1>1. Without(e, a) = Without(f, a)
  BY DEF Without
<1>2. /\ DOMAIN f = S /\ \A x \in S : f[x] \in Int
      /\ DOMAIN e = S /\ \A x \in S : e[x] \in Int
  OBVIOUS
<1>3. /\ Total(f) \in Int /\ Total(Without(f, a)) \in Int
      /\ Total(f) = f[a] + Total(Without(f, a))
  BY <1>2, TotalSplit
<1>4. Total(e) \in Int /\ Total(e) = e[a] + Total(Without(e, a))
  BY <1>2, TotalSplit
<1> QED BY <1>1, <1>2, <1>3, <1>4

\* One value goes up or down.
Raised(e, f, a, n) == e = [f EXCEPT ![a] = @ + n]

\* The same for a value that is raised by n.
LEMMA TotalRaised ==
  ASSUME NEW S, IsFiniteSet(S), NEW f, IntegersOn(f, S), NEW a \in S, NEW n \in Int,
         NEW e, Raised(e, f, a, n)
  PROVE  Total(f) \in Int /\ Total(e) = Total(f) + n
<1>1. IntegersOn(e, S) /\ SameBut(e, f, S, a)
  BY DEF IntegersOn, SameBut, Raised
<1>2. Total(f) \in Int /\ Total(e) \in Int /\ Total(e) = (Total(f) - f[a]) + e[a]
  BY <1>1, TotalChange
<1>3. f[a] \in Int /\ e[a] = f[a] + n
  BY DEF IntegersOn, Raised
<1> QED BY <1>2, <1>3

\* A function that is below another everywhere; with itself as the other it
\* gives the sum of zeroes and the sign of a sum.
LEMMA TotalBelow ==
  ASSUME NEW S, IsFiniteSet(S), NEW f \in [S -> Int], NEW e \in [S -> Int],
         \A x \in S : f[x] <= e[x]
  PROVE  Total(f) <= Total(e)
<1> DEFINE F(s) == Total([x \in s |-> f[x]])
           E(s) == Total([x \in s |-> e[x]])
           T == {n \in Nat : \A s \in SUBSET S : Cardinality(s) = n => F(s) <= E(s)}
<1>1. 0 \in T
  <2> SUFFICES ASSUME NEW s \in SUBSET S, Cardinality(s) = 0
               PROVE  F(s) <= E(s)
    OBVIOUS
  <2>1. s = {}
    BY SubsetFacts
  <2>2. F(s) = 0 /\ E(s) = 0
    BY <2>1, TotalOfNone
  <2> QED BY <2>2
<1>2. ASSUME NEW n \in Nat, n \in T
      PROVE  n + 1 \in T
  <2> SUFFICES ASSUME NEW s \in SUBSET S, Cardinality(s) = n + 1
               PROVE  F(s) <= E(s)
    OBVIOUS
  <2>1. s # {} /\ IsFiniteSet(s)
    BY SubsetFacts
  <2>2. PICK a \in s : TRUE
    BY <2>1
  <2>3. Cardinality(s) = Cardinality(s \ {a}) + 1 /\ Cardinality(s \ {a}) \in Nat
    BY <2>1, TakeOneOut
  <2>4. F(s \ {a}) <= E(s \ {a})
    BY <2>3, <1>2
  <2> DEFINE fs == [x \in s |-> f[x]]
             es == [x \in s |-> e[x]]
  <2>5. Without(fs, a) = [x \in s \ {a} |-> f[x]]
    BY DEF Without
  <2>6. Without(es, a) = [x \in s \ {a} |-> e[x]]
    BY DEF Without
  <2>7. fs[a] = f[a] /\ es[a] = e[a] /\ f[a] \in Int /\ e[a] \in Int /\ f[a] <= e[a]
    OBVIOUS
  <2>8. DOMAIN fs = s /\ \A x \in s : fs[x] \in Int
    OBVIOUS
  <2>9. DOMAIN es = s /\ \A x \in s : es[x] \in Int
    OBVIOUS
  <2> HIDE DEF fs, es
  <2>10. /\ Total(Without(fs, a)) \in Int
         /\ Total(fs) = fs[a] + Total(Without(fs, a))
    BY <2>1, <2>8, TotalSplit
  <2>11. /\ Total(Without(es, a)) \in Int
         /\ Total(es) = es[a] + Total(Without(es, a))
    BY <2>1, <2>9, TotalSplit
  <2>12. /\ F(s \ {a}) \in Int /\ Total(fs) = f[a] + F(s \ {a})
    BY <2>5, <2>7, <2>10
  <2>13. /\ E(s \ {a}) \in Int /\ Total(es) = e[a] + E(s \ {a})
    BY <2>6, <2>7, <2>11
  <2>14. F(s) = Total(fs) /\ E(s) = Total(es)
    BY DEF fs, es
  <2> HIDE DEF F, E
  <2> QED BY <2>4, <2>7, <2>12, <2>13, <2>14
<1>3. Nat \subseteq T
  BY <1>1, <1>2, ByInduction
<1>4. F(S) <= E(S)
  BY <1>3, FS_CardinalityType
<1>5. [x \in S |-> f[x]] = f /\ [x \in S |-> e[x]] = e
  OBVIOUS
<1> QED BY <1>4, <1>5

\* Zeroes add up to zero.
LEMMA TotalOfZeroes ==
  ASSUME NEW S, IsFiniteSet(S)
  PROVE  Total([x \in S |-> 0]) = 0
<1> DEFINE z == [x \in S |-> 0]
           T == {n \in Nat : \A s \in SUBSET S : Cardinality(s) = n => Total([x \in s |-> 0]) = 0}
<1>1. 0 \in T
  <2> SUFFICES ASSUME NEW s \in SUBSET S, Cardinality(s) = 0
               PROVE  Total([x \in s |-> 0]) = 0
    OBVIOUS
  <2>1. s = {}
    BY SubsetFacts
  <2> QED BY <2>1, TotalOfNone
<1>2. ASSUME NEW n \in Nat, n \in T
      PROVE  n + 1 \in T
  <2> SUFFICES ASSUME NEW s \in SUBSET S, Cardinality(s) = n + 1
               PROVE  Total([x \in s |-> 0]) = 0
    OBVIOUS
  <2>1. s # {} /\ IsFiniteSet(s)
    BY SubsetFacts
  <2>2. PICK a \in s : TRUE
    BY <2>1
  <2>3. Cardinality(s) = Cardinality(s \ {a}) + 1 /\ Cardinality(s \ {a}) \in Nat
    BY <2>1, TakeOneOut
  <2>4. Total([x \in s \ {a} |-> 0]) = 0
    BY <2>3, <1>2
  <2> DEFINE zs == [x \in s |-> 0]
  <2>5. Without(zs, a) = [x \in s \ {a} |-> 0]
    BY DEF Without
  <2>6. DOMAIN zs = s /\ zs[a] = 0 /\ \A x \in s : zs[x] \in Int
    OBVIOUS
  <2> HIDE DEF zs
  <2>7. Total(zs) = zs[a] + Total(Without(zs, a))
    BY <2>1, <2>6, TotalSplit
  <2> QED BY <2>4, <2>5, <2>6, <2>7 DEF zs
<1>3. Nat \subseteq T
  BY <1>1, <1>2, ByInduction
<1> QED BY <1>3, FS_CardinalityType

\* A sum of natural numbers is one.
LEMMA TotalNat ==
  ASSUME NEW S, IsFiniteSet(S), NEW f \in [S -> Nat]
  PROVE  Total(f) \in Nat
<1> DEFINE z == [x \in S |-> 0]
<1>1. z \in [S -> Int] /\ f \in [S -> Int] /\ \A x \in S : z[x] <= f[x]
  OBVIOUS
<1>2. Total(z) = 0
  BY TotalOfZeroes
<1> HIDE DEF z
<1>3. Total(z) <= Total(f)
  BY <1>1, TotalBelow
<1>4. Total(f) \in Int
  BY <1>1, TotalType
<1> QED BY <1>2, <1>3, <1>4
-----------------------------------------------------------------------------
(* Sums over the positions of a sequence.                                  *)

\* The first n numbers are finitely many.
LEMMA IntervalFacts ==
  ASSUME NEW n \in Nat
  PROVE  IsFiniteSet(1 .. n)
BY FS_Interval

\* The sum of no values.
LEMMA TotalToZero ==
  ASSUME NEW f
  PROVE  TotalTo(0, f) = 0
<1>1. DOMAIN [i \in 1 .. 0 |-> f[i]] = {}
  OBVIOUS
<1> QED BY <1>1, TotalOfNone DEF TotalTo

\* The sum of the first n naturals is one.
LEMMA TotalToType ==
  ASSUME NEW n \in Nat, NEW f, \A i \in 1 .. n : f[i] \in Nat
  PROVE  TotalTo(n, f) \in Nat
<1>1. [i \in 1 .. n |-> f[i]] \in [1 .. n -> Nat]
  OBVIOUS
<1> QED BY <1>1, IntervalFacts, TotalNat DEF TotalTo

\* Only the first n values count.
LEMMA TotalToAgree ==
  ASSUME NEW n \in Nat, NEW f, NEW e, \A i \in 1 .. n : f[i] = e[i]
  PROVE  TotalTo(n, f) = TotalTo(n, e)
<1>1. [i \in 1 .. n |-> f[i]] = [i \in 1 .. n |-> e[i]]
  OBVIOUS
<1> QED BY <1>1 DEF TotalTo

\* The last value.
LEMMA TotalToLast ==
  ASSUME NEW n \in Nat, NEW f, \A i \in 1 .. n + 1 : f[i] \in Nat
  PROVE  TotalTo(n + 1, f) = TotalTo(n, f) + f[n + 1]
<1> DEFINE h == [i \in 1 .. n + 1 |-> f[i]]
<1>1. Without(h, n + 1) = [i \in 1 .. n |-> f[i]]
  <2>1. (1 .. n + 1) \ {n + 1} = 1 .. n
    OBVIOUS
  <2>2. DOMAIN h = 1 .. n + 1 /\ \A i \in 1 .. n : h[i] = f[i]
    OBVIOUS
  <2> HIDE DEF h
  <2> QED BY <2>1, <2>2 DEF Without
<1>2. DOMAIN h = 1 .. n + 1 /\ (\A i \in 1 .. n + 1 : h[i] \in Int) /\ h[n + 1] = f[n + 1]
  OBVIOUS
<1>3. n + 1 \in 1 .. n + 1 /\ IsFiniteSet(1 .. n + 1)
  BY IntervalFacts
<1>4. TotalTo(n + 1, f) = Total(h)
  BY DEF TotalTo
<1> HIDE DEF h
<1>5. /\ Total(Without(h, n + 1)) \in Int
      /\ Total(h) = h[n + 1] + Total(Without(h, n + 1))
  BY <1>2, <1>3, TotalSplit
<1>6. TotalTo(n, f) = Total(Without(h, n + 1))
  BY <1>1 DEF TotalTo
<1>7. f[n + 1] \in Nat
  BY <1>3
<1> QED BY <1>2, <1>4, <1>5, <1>6, <1>7

\* The first one.
LEMMA TotalToFirst ==
  ASSUME NEW n \in Nat, NEW f, \A i \in 1 .. n + 1 : f[i] \in Nat,
         NEW e, \A i \in 1 .. n : e[i] = f[i + 1]
  PROVE  TotalTo(n + 1, f) = f[1] + TotalTo(n, e)
<1> DEFINE T == {m \in Nat : m <= n => TotalTo(m + 1, f) = f[1] + TotalTo(m, e)}
<1>1. 0 \in T
  <2>1. TotalTo(0 + 1, f) = TotalTo(0, f) + f[0 + 1]
    BY TotalToLast
  <2>2. TotalTo(0, f) = 0 /\ TotalTo(0, e) = 0
    BY TotalToZero
  <2>3. f[1] \in Nat
    OBVIOUS
  <2> QED BY <2>1, <2>2, <2>3
<1>2. ASSUME NEW m \in Nat, m \in T
      PROVE  m + 1 \in T
  <2> SUFFICES ASSUME m + 1 <= n
               PROVE  TotalTo((m + 1) + 1, f) = f[1] + TotalTo(m + 1, e)
    OBVIOUS
  <2>1. \A i \in 1 .. (m + 1) + 1 : f[i] \in Nat
    OBVIOUS
  <2>2. TotalTo((m + 1) + 1, f) = TotalTo(m + 1, f) + f[(m + 1) + 1]
    BY <2>1, TotalToLast
  <2>3. TotalTo(m + 1, f) = f[1] + TotalTo(m, e)
    BY <1>2
  <2>4. \A i \in 1 .. m + 1 : e[i] \in Nat
    OBVIOUS
  <2>5. e[m + 1] = f[(m + 1) + 1]
    OBVIOUS
  <2>6. TotalTo(m + 1, e) = TotalTo(m, e) + e[m + 1]
    BY <2>4, TotalToLast
  <2>7. TotalTo(m, e) \in Nat
    BY <2>4, TotalToType
  <2>8. f[1] \in Nat /\ e[m + 1] \in Nat
    BY <2>4
  <2> QED BY <2>2, <2>3, <2>5, <2>6, <2>7, <2>8
<1>3. Nat \subseteq T
  BY <1>1, <1>2, ByInduction
<1>4. n \in T
  BY <1>3
<1> QED BY <1>4
=============================================================================
