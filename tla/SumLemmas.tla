----------------------------- MODULE SumLemmas -----------------------------
(***************************************************************************)
(* SumFunctionOnSet(f, S) of the community modules: what it is for every   *)
(* finite S.  The library states its induction principles for an operator, *)
(* which the provers do not instantiate; here induction is the choice of a *)
(* smallest counterexample, a set.                                         *)
(***************************************************************************)
EXTENDS Integers, FiniteSets, Functions, FiniteSetTheorems, WellFoundedInduction, TLAPS

Pick(s) == CHOOSE x \in s : TRUE

\* g gives the sum of f over every subset of S, as the fold defines it.
IsSum(g, f, S) ==
    g = [s \in SUBSET S |-> IF s = {} THEN 0 ELSE f[Pick(s)] + g[s \ {Pick(s)}]]

LEMMA SumIsChosen ==
    ASSUME NEW f, NEW S
    PROVE  SumFunctionOnSet(f, S) = (CHOOSE g : IsSum(g, f, S))[S]
BY DEF SumFunctionOnSet, FoldFunctionOnSet, MapThenFoldSet, IsSum, Pick

LEMMA PickIn == ASSUME NEW s, s # {} PROVE Pick(s) \in s
BY DEF Pick

IsSmallest(s, C) == s \in C /\ \A t \in C : t \subseteq s => t = s

\* A collection of subsets of a finite set has a smallest one.
LEMMA SmallestSet ==
    ASSUME NEW S, IsFiniteSet(S), NEW C, C \subseteq SUBSET S, C # {}
    PROVE  \E s : IsSmallest(s, C)
<1>1. IsWellFoundedOn(StrictSubsetOrdering(S), SUBSET S)
    BY FS_StrictSubsetOrderingWellFounded, FS_FiniteSubsetsOfFinite
<1>2. PICK s \in C : \A t \in C : <<t, s>> \notin StrictSubsetOrdering(S)
    BY <1>1, WFMin
<1>3. ASSUME NEW t \in C, t \subseteq s, t # s
      PROVE  FALSE
    <2>1. s \in SUBSET S /\ t \in SUBSET S
        OBVIOUS
    <2>2. <<t, s>> \in (SUBSET S) \X (SUBSET S)
        BY <2>1
    <2>3. <<t, s>> \in StrictSubsetOrdering(S)
        BY <1>3, <2>2 DEF StrictSubsetOrdering
    <2> QED
        BY <1>2, <2>3
<1> QED
    BY <1>3 DEF IsSmallest

\* A set of naturals has a least one.
LEMMA LeastNumber ==
    ASSUME NEW T, T \subseteq Nat, T # {}
    PROVE  \E n \in T : \A m \in T : n <= m
<1>1. PICK k \in T : TRUE
    OBVIOUS
<1> DEFINE C == {0..n : n \in {m \in T : m <= k}}
<1>2. IsFiniteSet(0..k)
    BY <1>1, FS_Interval
<1>3. C \subseteq SUBSET (0..k)
    BY <1>1
<1>4. C # {}
    BY <1>1
<1> HIDE DEF C
<1>5. PICK s : IsSmallest(s, C)
    BY <1>2, <1>3, <1>4, SmallestSet
<1>6. PICK n \in T : n <= k /\ s = 0..n
    BY <1>5 DEF C, IsSmallest
<1>7. ASSUME NEW m \in T, m < n
      PROVE  FALSE
    <2>1. m <= k /\ n \in Nat /\ m \in Nat /\ k \in Nat
        BY <1>1, <1>6, <1>7
    <2>2. 0..m \in C
        BY <2>1 DEF C
    <2>3. 0..m \subseteq s
        BY <1>6, <1>7, <2>1
    <2>4. n \in s /\ n \notin 0..m
        BY <1>6, <1>7, <2>1
    <2> QED
        BY <1>5, <2>2, <2>3, <2>4 DEF IsSmallest
<1>8. ASSUME NEW m \in T PROVE n <= m
    BY <1>7, <1>8
<1> QED
    BY <1>6, <1>8

-----------------------------------------------------------------------------
(* The recursion has a solution, and one only.                             *)

LEMMA SumExists ==
    ASSUME NEW f, NEW S, IsFiniteSet(S)
    PROVE  \E g : IsSum(g, f, S)
<1> DEFINE Layer(n) == {s \in SUBSET S : Cardinality(s) <= n}
           Solves(g, n) ==
               g = [s \in Layer(n) |-> IF s = {} THEN 0 ELSE f[Pick(s)] + g[s \ {Pick(s)}]]
           Stuck == {n \in Nat : ~ \E g : Solves(g, n)}
<1>1. \A s \in SUBSET S : IsFiniteSet(s) /\ Cardinality(s) \in Nat
    BY FS_Subset, FS_CardinalityType
<1>2. \E g : Solves(g, 0)
    <2>1. \A s \in Layer(0) : s = {}
        BY <1>1, FS_EmptySet
    <2> HIDE DEF Layer
    <2> DEFINE g0 == [s \in Layer(0) |-> 0]
    <2>2. Solves(g0, 0)
        BY <2>1
    <2> QED
        BY <2>2
<1>3. ASSUME NEW n \in Nat, NEW g, Solves(g, n)
      PROVE  \E h : Solves(h, n + 1)
    <2> DEFINE h == [s \in Layer(n + 1) |->
                       IF s = {} THEN 0 ELSE f[Pick(s)] + g[s \ {Pick(s)}]]
    <2>1. ASSUME NEW s \in Layer(n + 1), s # {}
          PROVE  s \ {Pick(s)} \in Layer(n)
        <3>1. Cardinality(s \ {Pick(s)}) = Cardinality(s) - 1
            BY <1>1, <2>1, PickIn, FS_RemoveElement
        <3> QED
            BY <1>1, <2>1, <3>1
    <2>2. ASSUME NEW s \in Layer(n) PROVE s \in Layer(n + 1) 
        BY <1>1
    <2> HIDE DEF Layer
    <2>3. ASSUME NEW s \in Layer(n) PROVE h[s] = g[s]
        BY <1>3, <2>2
    <2>4. Solves(h, n + 1)
        BY <2>1, <2>3
    <2> QED
        BY <2>4
<1>4. Stuck = {}
    <2> SUFFICES ASSUME Stuck # {} PROVE FALSE
        OBVIOUS
    <2> HIDE DEF Solves
    <2>1. PICK n \in Stuck : \A m \in Stuck : n <= m
        BY LeastNumber
    <2>2. n \in Nat /\ n # 0
        BY <1>2
    <2>3. n - 1 \in Nat /\ n - 1 \notin Stuck
        BY <2>1, <2>2
    <2>4. \E g : Solves(g, n - 1)
        BY <2>3
    <2>5. \E h : Solves(h, (n - 1) + 1)
        BY <1>3, <2>3, <2>4
    <2> QED
        BY <2>2, <2>5
<1>5. PICK g : Solves(g, Cardinality(S))
    BY <1>1, <1>4
<1>6. Layer(Cardinality(S)) = SUBSET S
    BY FS_Subset
<1>7. IsSum(g, f, S)
    BY <1>5, <1>6 DEF IsSum
<1> QED
    BY <1>7

\* Solutions agree where the functions they sum do.
LEMMA SumUnique ==
    ASSUME NEW S, IsFiniteSet(S), NEW T \in SUBSET S, NEW f, NEW e, NEW g, NEW h,
           IsSum(g, f, S), IsSum(h, e, T), \A x \in T : f[x] = e[x]
    PROVE  \A s \in SUBSET T : g[s] = h[s]
<1> DEFINE C == {s \in SUBSET T : g[s] # h[s]}
<1> SUFFICES ASSUME C # {} PROVE FALSE
    OBVIOUS
<1>1. IsFiniteSet(T)
    BY FS_Subset
<1>2. C \subseteq SUBSET T
    OBVIOUS
<1> HIDE DEF C
<1>3. PICK s : IsSmallest(s, C)
    BY <1>1, <1>2, SmallestSet
<1>4. s \in SUBSET T /\ s \in SUBSET S /\ g[s] # h[s]
    BY <1>3 DEF C, IsSmallest
<1>5. g[s] = IF s = {} THEN 0 ELSE f[Pick(s)] + g[s \ {Pick(s)}]
    BY <1>4 DEF IsSum
<1>6. h[s] = IF s = {} THEN 0 ELSE e[Pick(s)] + h[s \ {Pick(s)}]
    BY <1>4 DEF IsSum
<1>7. s # {} /\ Pick(s) \in s
    BY <1>4, <1>5, <1>6, PickIn
<1>8. g[s \ {Pick(s)}] = h[s \ {Pick(s)}]
    BY <1>3, <1>4, <1>7 DEF C, IsSmallest
<1> QED
    BY <1>4, <1>5, <1>6, <1>7, <1>8

LEMMA SumIsSum ==
    ASSUME NEW f, NEW S, IsFiniteSet(S)
    PROVE  \E g : IsSum(g, f, S) /\ g[S] = SumFunctionOnSet(f, S)
<1> DEFINE g == CHOOSE g : IsSum(g, f, S)
<1>1. IsSum(g, f, S)
    BY SumExists
<1>2. SumFunctionOnSet(f, S) = g[S]
    BY SumIsChosen
<1> HIDE DEF g
<1> QED
    BY <1>1, <1>2

-----------------------------------------------------------------------------
(* What the models need to know of sums.                                   *)

\* Only the values on S matter.
LEMMA SumEqual ==
    ASSUME NEW S, IsFiniteSet(S), NEW f, NEW e, \A x \in S : f[x] = e[x]
    PROVE  SumFunctionOnSet(f, S) = SumFunctionOnSet(e, S)
<1>1. PICK g : IsSum(g, f, S) /\ g[S] = SumFunctionOnSet(f, S)
    BY SumIsSum
<1>2. PICK h : IsSum(h, e, S) /\ h[S] = SumFunctionOnSet(e, S)
    BY SumIsSum
<1>3. \A s \in SUBSET S : g[s] = h[s]
    BY <1>1, <1>2, SumUnique
<1> QED
    BY <1>1, <1>2, <1>3

LEMMA SumEmpty == ASSUME NEW f PROVE SumFunctionOnSet(f, {}) = 0
<1>1. PICK g : IsSum(g, f, {}) /\ g[{}] = SumFunctionOnSet(f, {})
    BY SumIsSum, FS_EmptySet
<1> QED
    BY <1>1 DEF IsSum

LEMMA SumPick ==
    ASSUME NEW S, IsFiniteSet(S), S # {}, NEW f
    PROVE  SumFunctionOnSet(f, S) = f[Pick(S)] + SumFunctionOnSet(f, S \ {Pick(S)})
<1> DEFINE T == S \ {Pick(S)}
<1>1. IsFiniteSet(T) /\ T \in SUBSET S
    BY FS_Subset
<1> HIDE DEF T
<1>2. PICK g : IsSum(g, f, S) /\ g[S] = SumFunctionOnSet(f, S)
    BY SumIsSum
<1>3. PICK h : IsSum(h, f, T) /\ h[T] = SumFunctionOnSet(f, T)
    BY <1>1, SumIsSum
<1>4. \A s \in SUBSET T : g[s] = h[s]
    BY <1>1, <1>2, <1>3, SumUnique
<1>5. g[S] = f[Pick(S)] + g[T]
    BY <1>2 DEF IsSum, T
<1> QED
    BY <1>2, <1>3, <1>4, <1>5 DEF T

LEMMA SumIsInt ==
    ASSUME NEW S, IsFiniteSet(S), NEW f, \A x \in S : f[x] \in Int
    PROVE  SumFunctionOnSet(f, S) \in Int
<1> DEFINE C == {s \in SUBSET S : SumFunctionOnSet(f, s) \notin Int}
<1> SUFFICES ASSUME C # {} PROVE FALSE
    OBVIOUS
<1>1. C \subseteq SUBSET S
    OBVIOUS
<1> HIDE DEF C
<1>2. PICK s : IsSmallest(s, C)
    BY <1>1, SmallestSet
<1>3. s \in SUBSET S /\ SumFunctionOnSet(f, s) \notin Int
    BY <1>2 DEF C, IsSmallest
<1>4. IsFiniteSet(s)
    BY <1>3, FS_Subset
<1>5. s # {}
    BY <1>3, SumEmpty
<1>6. Pick(s) \in s /\ f[Pick(s)] \in Int
    BY <1>3, <1>5, PickIn
<1>7. SumFunctionOnSet(f, s \ {Pick(s)}) \in Int
    BY <1>2, <1>3, <1>6 DEF C, IsSmallest
<1>8. SumFunctionOnSet(f, s) = f[Pick(s)] + SumFunctionOnSet(f, s \ {Pick(s)})
    BY <1>4, <1>5, SumPick
<1> QED
    BY <1>3, <1>6, <1>7, <1>8

LEMMA SumIsNat ==
    ASSUME NEW S, IsFiniteSet(S), NEW f, \A x \in S : f[x] \in Nat
    PROVE  SumFunctionOnSet(f, S) \in Nat
<1> DEFINE C == {s \in SUBSET S : SumFunctionOnSet(f, s) \notin Nat}
<1> SUFFICES ASSUME C # {} PROVE FALSE
    OBVIOUS
<1>1. C \subseteq SUBSET S
    OBVIOUS
<1> HIDE DEF C
<1>2. PICK s : IsSmallest(s, C)
    BY <1>1, SmallestSet
<1>3. s \in SUBSET S /\ SumFunctionOnSet(f, s) \notin Nat
    BY <1>2 DEF C, IsSmallest
<1>4. IsFiniteSet(s)
    BY <1>3, FS_Subset
<1>5. s # {}
    BY <1>3, SumEmpty
<1>6. Pick(s) \in s /\ f[Pick(s)] \in Nat
    BY <1>3, <1>5, PickIn
<1>7. SumFunctionOnSet(f, s \ {Pick(s)}) \in Nat
    BY <1>2, <1>3, <1>6 DEF C, IsSmallest
<1>8. SumFunctionOnSet(f, s) = f[Pick(s)] + SumFunctionOnSet(f, s \ {Pick(s)})
    BY <1>4, <1>5, SumPick
<1> QED
    BY <1>3, <1>6, <1>7, <1>8

\* Any element may be taken out, not the picked one only.
LEMMA SumRemove ==
    ASSUME NEW S, IsFiniteSet(S), NEW f, \A x \in S : f[x] \in Int, NEW a \in S
    PROVE  SumFunctionOnSet(f, S) = f[a] + SumFunctionOnSet(f, S \ {a})
<1> DEFINE Splits(s) == \A x \in s :
               SumFunctionOnSet(f, s) = f[x] + SumFunctionOnSet(f, s \ {x})
           C == {s \in SUBSET S : ~Splits(s)}
<1> SUFFICES ASSUME C # {} PROVE FALSE
    OBVIOUS
<1>1. C \subseteq SUBSET S
    OBVIOUS
<1> HIDE DEF C
<1>2. PICK s : IsSmallest(s, C)
    BY <1>1, SmallestSet
<1>3. s \in SUBSET S /\ ~Splits(s)
    BY <1>2 DEF C, IsSmallest
<1>4. PICK x \in s : SumFunctionOnSet(f, s) # f[x] + SumFunctionOnSet(f, s \ {x})
    BY <1>3
<1> DEFINE p == Pick(s)
<1>5. p \in s /\ IsFiniteSet(s) /\ s # {}
    BY <1>3, <1>4, PickIn, FS_Subset
<1> HIDE DEF p
<1>6. SumFunctionOnSet(f, s) = f[p] + SumFunctionOnSet(f, s \ {p})
    BY <1>5, SumPick DEF p
<1>7. x # p
    BY <1>4, <1>6
<1>8. Splits(s \ {p}) /\ Splits(s \ {x})
    BY <1>2, <1>3, <1>4, <1>5 DEF C, IsSmallest
<1> DEFINE T == (s \ {p}) \ {x}
<1>9. SumFunctionOnSet(f, s \ {p}) = f[x] + SumFunctionOnSet(f, T)
    BY <1>4, <1>7, <1>8
<1>10. SumFunctionOnSet(f, s \ {x}) = f[p] + SumFunctionOnSet(f, T)
    <2>1. (s \ {x}) \ {p} = T
        OBVIOUS
    <2> QED
        BY <1>5, <1>7, <1>8, <2>1
<1>11. IsFiniteSet(T) /\ T \in SUBSET S
    BY <1>3, FS_Subset
<1>12. SumFunctionOnSet(f, T) \in Int /\ f[x] \in Int /\ f[p] \in Int
    BY <1>3, <1>4, <1>5, <1>11, SumIsInt
<1> QED
    BY <1>4, <1>6, <1>9, <1>10, <1>12

LEMMA SumAdd ==
    ASSUME NEW S, IsFiniteSet(S), NEW a, a \notin S,
           NEW f, \A x \in S \cup {a} : f[x] \in Int
    PROVE  SumFunctionOnSet(f, S \cup {a}) = SumFunctionOnSet(f, S) + f[a]
<1>1. IsFiniteSet(S \cup {a})
    BY FS_AddElement
<1>2. (S \cup {a}) \ {a} = S
    OBVIOUS
<1>3. SumFunctionOnSet(f, S \cup {a}) = f[a] + SumFunctionOnSet(f, S)
    BY <1>1, <1>2, SumRemove
<1>4. SumFunctionOnSet(f, S) \in Int
    BY SumIsInt
<1> QED
    BY <1>3, <1>4

\* A change of one value changes the sum by as much.
LEMMA SumChange ==
    ASSUME NEW S, IsFiniteSet(S), NEW a \in S,
           NEW f, \A x \in S : f[x] \in Int,
           NEW e, \A x \in S \ {a} : e[x] = f[x], e[a] \in Int
    PROVE  SumFunctionOnSet(e, S) = SumFunctionOnSet(f, S) + e[a] - f[a]
<1>1. IsFiniteSet(S \ {a})
    BY FS_RemoveElement
<1>2. SumFunctionOnSet(e, S \ {a}) = SumFunctionOnSet(f, S \ {a})
    BY <1>1, SumEqual
<1>3. SumFunctionOnSet(e, S) = e[a] + SumFunctionOnSet(e, S \ {a})
    <2>1. \A x \in S : e[x] \in Int
        OBVIOUS
    <2> QED
        BY <2>1, SumRemove
<1>4. SumFunctionOnSet(f, S) = f[a] + SumFunctionOnSet(f, S \ {a})
    BY SumRemove
<1>5. SumFunctionOnSet(f, S \ {a}) \in Int
    BY <1>1, SumIsInt
<1> QED
    BY <1>2, <1>3, <1>4, <1>5

\* Sums of disjoint sets add up.
LEMMA SumUnion ==
    ASSUME NEW S, IsFiniteSet(S), NEW T, IsFiniteSet(T), S \cap T = {},
           NEW f, \A x \in S \cup T : f[x] \in Int
    PROVE  SumFunctionOnSet(f, S \cup T) = SumFunctionOnSet(f, S) + SumFunctionOnSet(f, T)
<1> DEFINE Adds(s) == SumFunctionOnSet(f, S \cup s) = SumFunctionOnSet(f, S) + SumFunctionOnSet(f, s)
           C == {s \in SUBSET T : ~Adds(s)}
<1> SUFFICES ASSUME C # {} PROVE FALSE
    OBVIOUS
<1>1. C \subseteq SUBSET T
    OBVIOUS
<1> HIDE DEF C
<1>2. PICK s : IsSmallest(s, C)
    BY <1>1, SmallestSet
<1>3. s \in SUBSET T /\ ~Adds(s)
    BY <1>2 DEF C, IsSmallest
<1>4. SumFunctionOnSet(f, S) \in Int
    BY SumIsInt
<1>5. s # {}
    <2>1. S \cup {} = S
        OBVIOUS
    <2> QED
        BY <1>3, <1>4, <2>1, SumEmpty
<1>6. PICK a : a \in s
    BY <1>5
<1>7. a \in T /\ a \notin S /\ f[a] \in Int
    BY <1>3, <1>6
<1> DEFINE t == s \ {a}
<1>8. IsFiniteSet(t) /\ IsFiniteSet(s) /\ IsFiniteSet(S \cup t) /\ IsFiniteSet(S \cup s)
    BY <1>3, FS_Subset, FS_Union
<1>9. Adds(t)
    BY <1>2, <1>3, <1>6 DEF C, IsSmallest
<1>10. SumFunctionOnSet(f, s) = f[a] + SumFunctionOnSet(f, t)
    <2>1. \A x \in s : f[x] \in Int
        BY <1>3
    <2> QED
        BY <1>6, <1>8, <2>1, SumRemove
<1>11. SumFunctionOnSet(f, S \cup s) = f[a] + SumFunctionOnSet(f, S \cup t)
    <2>1. \A x \in S \cup s : f[x] \in Int
        BY <1>3
    <2>2. (S \cup s) \ {a} = S \cup t /\ a \in S \cup s
        BY <1>6, <1>7
    <2> QED
        BY <1>8, <2>1, <2>2, SumRemove
<1>12. SumFunctionOnSet(f, t) \in Int
    <2>1. \A x \in t : f[x] \in Int
        BY <1>3
    <2> QED
        BY <1>8, <2>1, SumIsInt
<1> QED
    BY <1>3, <1>4, <1>7, <1>9, <1>10, <1>11, <1>12

\* A part sums to no more than the whole, if nothing is negative.
LEMMA SumPart ==
    ASSUME NEW S, IsFiniteSet(S), NEW T, T \subseteq S, NEW f, \A x \in S : f[x] \in Nat
    PROVE  SumFunctionOnSet(f, T) <= SumFunctionOnSet(f, S)
<1>1. IsFiniteSet(T) /\ IsFiniteSet(S \ T)
    BY FS_Subset, FS_Difference
<1>2. T \cup (S \ T) = S /\ T \cap (S \ T) = {}
    OBVIOUS
<1>3. SumFunctionOnSet(f, S) = SumFunctionOnSet(f, T) + SumFunctionOnSet(f, S \ T)
    <2>1. \A x \in T \cup (S \ T) : f[x] \in Int
        OBVIOUS
    <2> QED
        BY <1>1, <1>2, <2>1, SumUnion
<1>4. SumFunctionOnSet(f, T) \in Nat /\ SumFunctionOnSet(f, S \ T) \in Nat
    BY <1>1, SumIsNat
<1> QED
    BY <1>3, <1>4

LEMMA SumAtMost ==
    ASSUME NEW S, IsFiniteSet(S), NEW f, NEW e,
           \A x \in S : f[x] \in Int /\ e[x] \in Int /\ f[x] <= e[x]
    PROVE  SumFunctionOnSet(f, S) <= SumFunctionOnSet(e, S)
<1> DEFINE C == {s \in SUBSET S : ~(SumFunctionOnSet(f, s) <= SumFunctionOnSet(e, s))}
<1> SUFFICES ASSUME C # {} PROVE FALSE
    OBVIOUS
<1>1. C \subseteq SUBSET S
    OBVIOUS
<1> HIDE DEF C
<1>2. PICK s : IsSmallest(s, C)
    BY <1>1, SmallestSet
<1>3. s \in SUBSET S /\ ~(SumFunctionOnSet(f, s) <= SumFunctionOnSet(e, s))
    BY <1>2 DEF C, IsSmallest
<1> DEFINE p == Pick(s)
           t == s \ {p}
<1>4. s # {}
    BY <1>3, SumEmpty
<1>5. p \in s /\ IsFiniteSet(s) /\ IsFiniteSet(t)
    BY <1>3, <1>4, PickIn, FS_Subset
<1>6. /\ SumFunctionOnSet(f, s) = f[p] + SumFunctionOnSet(f, t)
      /\ SumFunctionOnSet(e, s) = e[p] + SumFunctionOnSet(e, t)
    BY <1>4, <1>5, SumPick
<1> HIDE DEF p
<1>7. SumFunctionOnSet(f, t) <= SumFunctionOnSet(e, t)
    BY <1>2, <1>3, <1>5 DEF C, IsSmallest
<1>8. SumFunctionOnSet(f, t) \in Int /\ SumFunctionOnSet(e, t) \in Int
    <2>1. \A x \in t : f[x] \in Int /\ e[x] \in Int
        BY <1>3
    <2> HIDE DEF t
    <2> QED
        BY <1>5, <2>1, SumIsInt
<1>9. f[p] \in Int /\ e[p] \in Int /\ f[p] <= e[p]
    BY <1>3, <1>5
<1> QED
    BY <1>3, <1>6, <1>7, <1>8, <1>9

\* Sums add up term by term.
LEMMA SumOfSums ==
    ASSUME NEW S, IsFiniteSet(S), NEW f, NEW e, NEW g,
           \A x \in S : f[x] \in Int /\ e[x] \in Int /\ g[x] = f[x] + e[x]
    PROVE  SumFunctionOnSet(g, S) = SumFunctionOnSet(f, S) + SumFunctionOnSet(e, S)
<1> DEFINE Adds(s) == SumFunctionOnSet(g, s) = SumFunctionOnSet(f, s) + SumFunctionOnSet(e, s)
           C == {s \in SUBSET S : ~Adds(s)}
<1> SUFFICES ASSUME C # {} PROVE FALSE
    OBVIOUS
<1>1. C \subseteq SUBSET S
    OBVIOUS
<1> HIDE DEF C
<1>2. PICK s : IsSmallest(s, C)
    BY <1>1, SmallestSet
<1>3. s \in SUBSET S /\ ~Adds(s)
    BY <1>2 DEF C, IsSmallest
<1> DEFINE p == Pick(s)
           t == s \ {p}
<1>4. s # {}
    <2>1. Adds({})
        BY SumEmpty
    <2> QED
        BY <1>3, <2>1
<1>5. p \in s /\ IsFiniteSet(s) /\ IsFiniteSet(t)
    BY <1>3, <1>4, PickIn, FS_Subset
<1>6. /\ SumFunctionOnSet(f, s) = f[p] + SumFunctionOnSet(f, t)
      /\ SumFunctionOnSet(e, s) = e[p] + SumFunctionOnSet(e, t)
      /\ SumFunctionOnSet(g, s) = g[p] + SumFunctionOnSet(g, t)
    BY <1>4, <1>5, SumPick
<1> HIDE DEF p
<1>7. Adds(t)
    BY <1>2, <1>3, <1>5 DEF C, IsSmallest
<1>8. SumFunctionOnSet(f, t) \in Int /\ SumFunctionOnSet(e, t) \in Int
    <2>1. \A x \in t : f[x] \in Int /\ e[x] \in Int
        BY <1>3
    <2> HIDE DEF t
    <2> QED
        BY <1>5, <2>1, SumIsInt
<1>9. f[p] \in Int /\ e[p] \in Int /\ g[p] = f[p] + e[p]
    BY <1>3, <1>5
<1> QED
    BY <1>3, <1>6, <1>7, <1>8, <1>9

\* One element changes its value, or enters or leaves the set.
LEMMA SumReplace ==
    ASSUME NEW D, IsFiniteSet(D), NEW S \in SUBSET D, NEW T \in SUBSET D, NEW a,
           S \ {a} = T \ {a},
           NEW f, \A x \in S : f[x] \in Int,
           NEW e, \A x \in T : e[x] \in Int,
           \A x \in S \ {a} : e[x] = f[x]
    PROVE  SumFunctionOnSet(e, T) = SumFunctionOnSet(f, S)
                + (IF a \in T THEN e[a] ELSE 0) - (IF a \in S THEN f[a] ELSE 0)
<1> DEFINE R == S \ {a}
<1>1. IsFiniteSet(S) /\ IsFiniteSet(T) /\ IsFiniteSet(R)
    BY FS_Subset
<1>2. SumFunctionOnSet(e, R) = SumFunctionOnSet(f, R)
    BY <1>1, SumEqual
<1>3. SumFunctionOnSet(f, S) = SumFunctionOnSet(f, R) + (IF a \in S THEN f[a] ELSE 0)
    <2>1. CASE a \in S
        <3>1. SumFunctionOnSet(f, S) = f[a] + SumFunctionOnSet(f, R)
            BY <1>1, <2>1, SumRemove
        <3>2. SumFunctionOnSet(f, R) \in Int /\ f[a] \in Int
            BY <1>1, <2>1, SumIsInt
        <3> QED
            BY <2>1, <3>1, <3>2
    <2>2. CASE a \notin S
        <3>1. R = S
            BY <2>2
        <3>2. SumFunctionOnSet(f, S) \in Int
            BY <1>1, SumIsInt
        <3>3. SumFunctionOnSet(f, R) = SumFunctionOnSet(f, S)
            BY <3>1
        <3> HIDE DEF R
        <3> QED
            BY <2>2, <3>2, <3>3
    <2> QED
        BY <2>1, <2>2
<1>4. SumFunctionOnSet(e, T) = SumFunctionOnSet(e, R) + (IF a \in T THEN e[a] ELSE 0)
    <2>1. CASE a \in T
        <3>1. SumFunctionOnSet(e, T) = e[a] + SumFunctionOnSet(e, R)
            BY <1>1, <2>1, SumRemove
        <3>2. SumFunctionOnSet(e, R) \in Int /\ e[a] \in Int
            BY <1>1, <2>1, SumIsInt
        <3> QED
            BY <2>1, <3>1, <3>2
    <2>2. CASE a \notin T
        <3>1. R = T
            BY <2>2
        <3>2. SumFunctionOnSet(e, T) \in Int
            BY <1>1, SumIsInt
        <3>3. SumFunctionOnSet(e, R) = SumFunctionOnSet(e, T)
            BY <3>1
        <3> HIDE DEF R
        <3> QED
            BY <2>2, <3>2, <3>3
    <2> QED
        BY <2>1, <2>2
<1>5. SumFunctionOnSet(f, R) \in Int
    BY <1>1, SumIsInt
<1>6. /\ (IF a \in T THEN e[a] ELSE 0) \in Int
      /\ (IF a \in S THEN f[a] ELSE 0) \in Int
    OBVIOUS
<1> HIDE DEF R
<1> QED
    BY <1>2, <1>3, <1>4, <1>5, <1>6

LEMMA SumOfZeros ==
    ASSUME NEW S, IsFiniteSet(S), NEW f, \A x \in S : f[x] = 0
    PROVE  SumFunctionOnSet(f, S) = 0
<1>1. \A x \in S : f[x] \in Int /\ f[x] \in Int /\ f[x] = f[x] + f[x]
    OBVIOUS
<1> DEFINE sum == SumFunctionOnSet(f, S)
<1>2. sum = sum + sum
    BY <1>1, SumOfSums
<1>3. sum \in Int
    BY <1>1, SumIsInt
<1>4. sum = 0
    <2> HIDE DEF sum
    <2> QED
        BY <1>2, <1>3
<1> QED
    BY <1>4
=============================================================================
