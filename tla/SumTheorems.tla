----------------------------- MODULE SumTheorems -----------------------------
(***************************************************************************)
(* Sums of a function over a finite set: the facts about SumFunctionOnSet  *)
(* of the community module Functions that the theorems about balances,     *)
(* accounts and their requests rest on.                                    *)
(***************************************************************************)
EXTENDS Functions, FiniteSetTheorems, TLAPS

-----------------------------------------------------------------------------
(* Induction, over the numbers and over the subsets of a finite set, with  *)
(* the cases for which a statement holds as a set.                         *)

LEMMA NatCases ==
    ASSUME NEW B \in SUBSET Nat, 0 \in B, \A n \in B : n + 1 \in B
    PROVE  B = Nat
<1> DEFINE R == {ss \in Nat \X Nat : ss[1] < ss[2]}
           F == Nat \ B
<1>1. IsWellFoundedOn(R, Nat)
  BY NatLessThanWellFounded DEF OpToRel
<1>2. SUFFICES ASSUME F # {} PROVE FALSE
  OBVIOUS
<1>3. PICK m \in F : \A y \in F : ~(<<y, m>> \in R)
  <2>1. F \subseteq Nat
    OBVIOUS
  <2> HIDE DEF R, F
  <2> QED BY <1>1, <1>2, <2>1, WFMin
<1>4. m \in Nat /\ m # 0
  BY <1>3
<1>5. m - 1 \in Nat /\ <<m - 1, m>> \in R
  BY <1>4
<1>6. m - 1 \in B
  BY <1>3, <1>5
<1> QED BY <1>3, <1>4, <1>6

\* Among the subsets of a finite set that have a property one is smallest.
LEMMA SmallestSubset ==
    ASSUME NEW S, IsFiniteSet(S), NEW B \in SUBSET (SUBSET S), B # {}
    PROVE  \E T \in B : \A U \in B : U \subseteq T => U = T
<1>1. IsWellFoundedOn(StrictSubsetOrdering(S), SUBSET S)
  BY FS_StrictSubsetOrderingWellFounded, FS_FiniteSubsetsOfFinite
<1>2. \E T \in B : \A U \in B : ~(<<U, T>> \in StrictSubsetOrdering(S))
  BY <1>1, WFMin
<1> QED BY <1>2 DEF StrictSubsetOrdering

LEMMA SubsetCases ==
    ASSUME NEW S, IsFiniteSet(S), NEW B \in SUBSET (SUBSET S), {} \in B,
           \A T \in B : \A x \in S \ T : T \cup {x} \in B
    PROVE  S \in B
<1>1. SUFFICES ASSUME S \notin B PROVE FALSE
  OBVIOUS
<1> DEFINE F == (SUBSET S) \ B
<1>2. PICK T \in F : \A U \in F : U \subseteq T => U = T
  <2>1. F # {} /\ F \in SUBSET (SUBSET S)
    BY <1>1
  <2> HIDE DEF F
  <2> QED BY <2>1, SmallestSubset
<1>3. PICK x \in T : TRUE
  BY <1>2
<1>4. T \ {x} \in B /\ x \in S \ (T \ {x})
  BY <1>2, <1>3
<1>5. (T \ {x}) \cup {x} = T
  BY <1>3
<1> QED BY <1>2, <1>4, <1>5

-----------------------------------------------------------------------------
(* The recursive definition                                                *)

Picked(s) == CHOOSE x \in s : TRUE

\* the function whose value at S is the sum
IsIter(g, f, S) ==
    g = [s \in SUBSET S |-> IF s = {} THEN 0 ELSE f[Picked(s)] + g[s \ {Picked(s)}]]

LEMMA PickedIn == \A s : s # {} => Picked(s) \in s
BY DEF Picked

LEMMA SumIsIter ==
    ASSUME NEW f, NEW S
    PROVE  SumFunctionOnSet(f, S) = (CHOOSE g : IsIter(g, f, S))[S]
BY DEF SumFunctionOnSet, FoldFunctionOnSet, MapThenFoldSet, IsIter, Picked

\* the same for the sets of at most n elements
IsIterUpto(g, f, S, n) ==
    g = [s \in SUBSET S |->
           IF s = {} \/ Cardinality(s) > n THEN 0 ELSE f[Picked(s)] + g[s \ {Picked(s)}]]

LEMMA WithoutPicked ==
    ASSUME NEW S, IsFiniteSet(S)
    PROVE  \A s \in SUBSET S : /\ Cardinality(s) \in Nat
                               /\ Cardinality(s) = 0 <=> s = {}
                               /\ s # {} => /\ Picked(s) \in s /\ s \ {Picked(s)} \in SUBSET S
                                            /\ Cardinality(s \ {Picked(s)}) = Cardinality(s) - 1
BY FS_Subset, FS_CardinalityType, FS_RemoveElement, FS_EmptySet, PickedIn

LEMMA IterExistsUpto ==
    ASSUME NEW f, NEW S, IsFiniteSet(S), NEW n \in Nat, NEW g, IsIterUpto(g, f, S, n)
    PROVE  \E h : IsIterUpto(h, f, S, n + 1)
<1> DEFINE h == [s \in SUBSET S |->
                   IF s = {} \/ Cardinality(s) > n + 1 THEN 0
                   ELSE f[Picked(s)] + g[s \ {Picked(s)}]]
<1>1. ASSUME NEW s \in SUBSET S, Cardinality(s) <= n
      PROVE  h[s] = g[s]
  <2>1. Cardinality(s) \in Nat
    BY FS_Subset, FS_CardinalityType
  <2>2. ~(Cardinality(s) > n) /\ ~(Cardinality(s) > n + 1)
    <3> HIDE DEF h
    <3> QED BY <1>1, <2>1
  <2>3. h[s] = IF s = {} THEN 0 ELSE f[Picked(s)] + g[s \ {Picked(s)}]
    BY <2>2
  <2>4. g[s] = IF s = {} THEN 0 ELSE f[Picked(s)] + g[s \ {Picked(s)}]
    BY <2>2 DEF IsIterUpto
  <2> QED BY <2>3, <2>4
<1>2. ASSUME NEW s \in SUBSET S, s # {}, ~(Cardinality(s) > n + 1)
      PROVE  h[s \ {Picked(s)}] = g[s \ {Picked(s)}]
  <2>1. s \ {Picked(s)} \in SUBSET S /\ Cardinality(s \ {Picked(s)}) <= n
    BY <1>2, WithoutPicked
  <2> HIDE DEF h
  <2> QED BY <1>1, <2>1
<1>3. h = [s \in SUBSET S |->
             IF s = {} \/ Cardinality(s) > n + 1 THEN 0
             ELSE f[Picked(s)] + h[s \ {Picked(s)}]]
  <2>1. ASSUME NEW s \in SUBSET S
        PROVE  h[s] = IF s = {} \/ Cardinality(s) > n + 1 THEN 0
                      ELSE f[Picked(s)] + h[s \ {Picked(s)}]
    <3>1. h[s] = IF s = {} \/ Cardinality(s) > n + 1 THEN 0
                 ELSE f[Picked(s)] + g[s \ {Picked(s)}]
      OBVIOUS
    <3> HIDE DEF h
    <3> QED BY <1>2, <3>1
  <2>2. h = [s \in SUBSET S |-> h[s]]
    OBVIOUS
  <2> HIDE DEF h
  <2> QED BY <2>1, <2>2
<1> HIDE DEF h
<1>4. IsIterUpto(h, f, S, n + 1)
  BY <1>3 DEF IsIterUpto
<1> QED BY <1>4

LEMMA IterExists ==
    ASSUME NEW f, NEW S, IsFiniteSet(S)
    PROVE  \E g : IsIter(g, f, S)
<1> DEFINE B == {n \in Nat : \E g : IsIterUpto(g, f, S, n)}
<1>1. 0 \in B
  <2> DEFINE z == [s \in SUBSET S |-> 0]
  <2>1. ASSUME NEW s \in SUBSET S
        PROVE  s = {} \/ Cardinality(s) > 0
    <3>1. Cardinality(s) \in Nat /\ (Cardinality(s) = 0 <=> s = {})
      BY FS_Subset, FS_CardinalityType, FS_EmptySet
    <3> HIDE DEF z
    <3> QED BY <3>1
  <2>2. z = [s \in SUBSET S |-> IF s = {} \/ Cardinality(s) > 0 THEN 0
                                ELSE f[Picked(s)] + z[s \ {Picked(s)}]]
    BY <2>1
  <2> HIDE DEF z
  <2>3. IsIterUpto(z, f, S, 0)
    BY <2>2 DEF IsIterUpto
  <2> QED BY <2>3
<1>2. \A n \in B : n + 1 \in B
  BY IterExistsUpto
<1>3. Cardinality(S) \in B
  <2>1. B \in SUBSET Nat /\ Cardinality(S) \in Nat
    BY FS_CardinalityType
  <2> HIDE DEF B
  <2> QED BY <1>1, <1>2, <2>1, NatCases
<1>4. PICK g : IsIterUpto(g, f, S, Cardinality(S))
  BY <1>3
<1>5. \A s \in SUBSET S : ~(Cardinality(s) > Cardinality(S))
  BY FS_Subset, FS_CardinalityType
<1>6. IsIter(g, f, S)
  BY <1>4, <1>5 DEF IsIter, IsIterUpto
<1> QED BY <1>6

LEMMA IterUnique ==
    ASSUME NEW f, NEW S, IsFiniteSet(S), NEW T \in SUBSET S,
           NEW g, IsIter(g, f, S), NEW h, IsIter(h, f, T)
    PROVE  \A s \in SUBSET T : g[s] = h[s]
<1> DEFINE F == {s \in SUBSET T : g[s] # h[s]}
<1>1. SUFFICES ASSUME F # {} PROVE FALSE
  OBVIOUS
<1>2. PICK s \in F : \A u \in F : u \subseteq s => u = s
  <2>1. F \in SUBSET (SUBSET T) /\ IsFiniteSet(T)
    BY FS_Subset
  <2> HIDE DEF F
  <2> QED BY <1>1, <2>1, SmallestSubset
<1>3. s # {}
  BY <1>2 DEF IsIter
<1>4. Picked(s) \in s /\ s \ {Picked(s)} \in SUBSET T
  BY <1>2, <1>3, PickedIn
<1>5. g[s \ {Picked(s)}] = h[s \ {Picked(s)}]
  BY <1>2, <1>4
<1>6. g[s] = f[Picked(s)] + g[s \ {Picked(s)}] /\ h[s] = f[Picked(s)] + h[s \ {Picked(s)}]
  BY <1>2, <1>3 DEF IsIter
<1> QED BY <1>2, <1>5, <1>6

LEMMA SumEquation ==
    ASSUME NEW f, NEW S, IsFiniteSet(S)
    PROVE  SumFunctionOnSet(f, S) =
             IF S = {} THEN 0 ELSE f[Picked(S)] + SumFunctionOnSet(f, S \ {Picked(S)})
<1> DEFINE g == CHOOSE g : IsIter(g, f, S)
           T == S \ {Picked(S)}
           h == CHOOSE h : IsIter(h, f, T)
<1>1. IsFiniteSet(T) /\ T \in SUBSET S
  BY FS_Subset
<1>2. IsIter(g, f, S) /\ IsIter(h, f, T)
  BY <1>1, IterExists
<1>3. SumFunctionOnSet(f, S) = g[S] /\ SumFunctionOnSet(f, T) = h[T]
  BY SumIsIter
<1> HIDE DEF g, h, T
<1>4. g[T] = h[T]
  BY <1>1, <1>2, IterUnique
<1>5. g[S] = IF S = {} THEN 0 ELSE f[Picked(S)] + g[T]
  BY <1>2 DEF IsIter, T
<1> QED BY <1>3, <1>4, <1>5 DEF T

-----------------------------------------------------------------------------
(* The facts                                                               *)

LEMMA SumEmpty == \A f : SumFunctionOnSet(f, {}) = 0
BY SumEquation, FS_EmptySet

LEMMA SumType ==
    ASSUME NEW S, IsFiniteSet(S), NEW f, \A x \in S : f[x] \in Int
    PROVE  SumFunctionOnSet(f, S) \in Int
<1> DEFINE F == {T \in SUBSET S : SumFunctionOnSet(f, T) \notin Int}
<1>1. SUFFICES ASSUME F # {} PROVE FALSE
  OBVIOUS
<1>2. PICK T \in F : \A U \in F : U \subseteq T => U = T
  <2>1. F \in SUBSET (SUBSET S)
    OBVIOUS
  <2> HIDE DEF F
  <2> QED BY <1>1, <2>1, SmallestSubset
<1>3. T # {}
  BY <1>2, SumEmpty
<1>4. Picked(T) \in T
  BY <1>3, PickedIn
<1>5. SumFunctionOnSet(f, T \ {Picked(T)}) \in Int
  BY <1>2, <1>4
<1>6. SumFunctionOnSet(f, T) = f[Picked(T)] + SumFunctionOnSet(f, T \ {Picked(T)})
  BY <1>2, <1>3, SumEquation, FS_Subset
<1> QED BY <1>2, <1>4, <1>5, <1>6

\* Any element may be taken first.
LEMMA SumRemove ==
    ASSUME NEW S, IsFiniteSet(S), NEW f, \A x \in S : f[x] \in Int, NEW x \in S
    PROVE  SumFunctionOnSet(f, S) = f[x] + SumFunctionOnSet(f, S \ {x})
<1> DEFINE Sum(T) == SumFunctionOnSet(f, T)
           F == {T \in SUBSET S : \E y \in T : Sum(T) # f[y] + Sum(T \ {y})}
<1>1. SUFFICES ASSUME F # {} PROVE FALSE
  OBVIOUS
<1>2. PICK T \in F : \A U \in F : U \subseteq T => U = T
  <2>1. F \in SUBSET (SUBSET S)
    OBVIOUS
  <2> HIDE DEF F
  <2> QED BY <1>1, <2>1, SmallestSubset
<1>3. PICK y \in T : Sum(T) # f[y] + Sum(T \ {y})
  BY <1>2
<1> DEFINE z == Picked(T)
<1>4. z \in T
  BY <1>3, PickedIn
<1>5. \A U \in SUBSET T : Sum(U) \in Int
  BY <1>2, SumType, FS_Subset
<1>6. Sum(T) = f[z] + Sum(T \ {z})
  BY <1>2, <1>3, SumEquation, FS_Subset
<1>7. z # y
  BY <1>3, <1>6
<1>8. \A U \in SUBSET T : U # T => \A v \in U : Sum(U) = f[v] + Sum(U \ {v})
  BY <1>2
<1> HIDE DEF Sum, F, z
<1>9. Sum(T \ {z}) = f[y] + Sum((T \ {z}) \ {y})
  BY <1>3, <1>4, <1>7, <1>8
<1>10. Sum(T \ {y}) = f[z] + Sum((T \ {y}) \ {z})
  BY <1>3, <1>4, <1>7, <1>8
<1>11. (T \ {z}) \ {y} = (T \ {y}) \ {z}
  OBVIOUS
<1>12. /\ f[y] \in Int /\ f[z] \in Int /\ Sum((T \ {z}) \ {y}) \in Int
  BY <1>2, <1>3, <1>4, <1>5 DEF F
<1>13. Sum((T \ {y}) \ {z}) = Sum((T \ {z}) \ {y})
  BY <1>11
<1>14. Sum(T) = f[z] + (f[y] + Sum((T \ {z}) \ {y}))
  BY <1>6, <1>9
<1>15. f[y] + Sum(T \ {y}) = f[y] + (f[z] + Sum((T \ {z}) \ {y}))
  BY <1>10, <1>13
<1>16. Sum(T) = f[y] + Sum(T \ {y})
  BY <1>12, <1>14, <1>15
<1> QED BY <1>3, <1>16

LEMMA SumAdd ==
    ASSUME NEW S, IsFiniteSet(S), NEW x, x \notin S,
           NEW f, \A y \in S \cup {x} : f[y] \in Int
    PROVE  SumFunctionOnSet(f, S \cup {x}) = f[x] + SumFunctionOnSet(f, S)
<1>1. IsFiniteSet(S \cup {x}) /\ (S \cup {x}) \ {x} = S
  BY FS_AddElement
<1> QED BY <1>1, SumRemove

\* Functions that agree on a set have the same sum; one that is nowhere
\* greater has no greater sum.
LEMMA SumMonotone ==
    ASSUME NEW S, IsFiniteSet(S), NEW f, NEW g,
           \A x \in S : f[x] \in Int /\ g[x] \in Int /\ f[x] <= g[x]
    PROVE  SumFunctionOnSet(f, S) <= SumFunctionOnSet(g, S)
<1> DEFINE B == {T \in SUBSET S : SumFunctionOnSet(f, T) <= SumFunctionOnSet(g, T)}
<1>1. {} \in B
  BY SumEmpty
<1>2. ASSUME NEW T \in B, NEW x \in S \ T
      PROVE  T \cup {x} \in B
  <2>1. IsFiniteSet(T) /\ T \subseteq S
    BY FS_Subset
  <2>2. /\ SumFunctionOnSet(f, T \cup {x}) = f[x] + SumFunctionOnSet(f, T)
        /\ SumFunctionOnSet(g, T \cup {x}) = g[x] + SumFunctionOnSet(g, T)
    <3> HIDE DEF B
    <3> QED BY <2>1, SumAdd
  <2>3. SumFunctionOnSet(f, T) \in Int /\ SumFunctionOnSet(g, T) \in Int
    <3> HIDE DEF B
    <3> QED BY <2>1, SumType
  <2> QED BY <2>2, <2>3
<1>3. S \in B
  <2>1. B \in SUBSET (SUBSET S)
    OBVIOUS
  <2> HIDE DEF B
  <2> QED BY <1>1, <1>2, <2>1, SubsetCases
<1> QED BY <1>3

LEMMA SumSame ==
    ASSUME NEW S, IsFiniteSet(S), NEW f, NEW g, \A x \in S : f[x] \in Int /\ f[x] = g[x]
    PROVE  SumFunctionOnSet(f, S) = SumFunctionOnSet(g, S)
<1>1. /\ SumFunctionOnSet(f, S) <= SumFunctionOnSet(g, S)
      /\ SumFunctionOnSet(g, S) <= SumFunctionOnSet(f, S)
  BY SumMonotone
<1>2. SumFunctionOnSet(f, S) \in Int /\ SumFunctionOnSet(g, S) \in Int
  BY SumType
<1> QED BY <1>1, <1>2

LEMMA SumZero ==
    ASSUME NEW S, IsFiniteSet(S), NEW f, \A x \in S : f[x] = 0
    PROVE  SumFunctionOnSet(f, S) = 0
<1> DEFINE B == {T \in SUBSET S : SumFunctionOnSet(f, T) = 0}
<1>1. {} \in B
  BY SumEmpty
<1>2. ASSUME NEW T \in B, NEW x \in S \ T
      PROVE  T \cup {x} \in B
  <2>1. IsFiniteSet(T) /\ T \subseteq S
    BY FS_Subset
  <2>2. SumFunctionOnSet(f, T \cup {x}) = f[x] + SumFunctionOnSet(f, T)
    <3> HIDE DEF B
    <3> QED BY <2>1, SumAdd
  <2> QED BY <2>2
<1>3. S \in B
  <2>1. B \in SUBSET (SUBSET S)
    OBVIOUS
  <2> HIDE DEF B
  <2> QED BY <1>1, <1>2, <2>1, SubsetCases
<1> QED BY <1>3

\* When one value changes the sum changes by as much.
LEMMA SumUpdate ==
    ASSUME NEW S, IsFiniteSet(S), NEW f, NEW g, NEW x \in S,
           \A y \in S : f[y] \in Int /\ g[y] \in Int,
           \A y \in S \ {x} : f[y] = g[y]
    PROVE  SumFunctionOnSet(g, S) = SumFunctionOnSet(f, S) + (g[x] - f[x])
<1>1. /\ SumFunctionOnSet(f, S) = f[x] + SumFunctionOnSet(f, S \ {x})
      /\ SumFunctionOnSet(g, S) = g[x] + SumFunctionOnSet(g, S \ {x})
  BY SumRemove
<1>2. IsFiniteSet(S \ {x})
  BY FS_Subset
<1>3. SumFunctionOnSet(f, S \ {x}) = SumFunctionOnSet(g, S \ {x})
  BY <1>2, SumSame
<1>4. SumFunctionOnSet(f, S \ {x}) \in Int
  BY <1>2, SumType
<1> QED BY <1>1, <1>3, <1>4

LEMMA SumUnion ==
    ASSUME NEW S, IsFiniteSet(S), NEW T, IsFiniteSet(T), S \cap T = {},
           NEW f, \A x \in S \cup T : f[x] \in Int
    PROVE  SumFunctionOnSet(f, S \cup T) = SumFunctionOnSet(f, S) + SumFunctionOnSet(f, T)
<1> DEFINE B == {U \in SUBSET T : SumFunctionOnSet(f, S \cup U)
                                   = SumFunctionOnSet(f, S) + SumFunctionOnSet(f, U)}
<1>1. SumFunctionOnSet(f, S) \in Int
  BY SumType
<1>2. {} \in B
  BY <1>1, SumEmpty
<1>3. ASSUME NEW U \in B, NEW x \in T \ U
      PROVE  U \cup {x} \in B
  <2>1. IsFiniteSet(U) /\ IsFiniteSet(S \cup U) /\ U \subseteq T
    BY FS_Subset, FS_Union
  <2>2. SumFunctionOnSet(f, U \cup {x}) = f[x] + SumFunctionOnSet(f, U)
    <3> HIDE DEF B
    <3> QED BY <2>1, SumAdd
  <2>3. SumFunctionOnSet(f, (S \cup U) \cup {x}) = f[x] + SumFunctionOnSet(f, S \cup U)
    <3> HIDE DEF B
    <3> QED BY <2>1, SumAdd
  <2>4. (S \cup U) \cup {x} = S \cup (U \cup {x})
    OBVIOUS
  <2>5. SumFunctionOnSet(f, U) \in Int /\ f[x] \in Int
    <3> HIDE DEF B
    <3> QED BY <2>1, SumType
  <2>6. SumFunctionOnSet(f, S \cup (U \cup {x}))
        = f[x] + (SumFunctionOnSet(f, S) + SumFunctionOnSet(f, U))
    BY <2>3, <2>4
  <2>7. SumFunctionOnSet(f, S \cup (U \cup {x}))
        = SumFunctionOnSet(f, S) + SumFunctionOnSet(f, U \cup {x})
    BY <1>1, <2>2, <2>5, <2>6
  <2> QED BY <2>7
<1>4. T \in B
  <2>1. B \in SUBSET (SUBSET T)
    OBVIOUS
  <2> HIDE DEF B
  <2> QED BY <1>2, <1>3, <2>1, SubsetCases
<1> QED BY <1>4

\* A union has no more elements than its parts are bounded by together.
LEMMA SumCovers ==
    ASSUME NEW S, IsFiniteSet(S), NEW F, NEW c,
           \A x \in S : IsFiniteSet(F[x]) /\ c[x] \in Int /\ Cardinality(F[x]) <= c[x]
    PROVE  Cardinality(UNION {F[x] : x \in S}) <= SumFunctionOnSet(c, S)
<1> DEFINE All(T) == UNION {F[x] : x \in T}
           B == {T \in SUBSET S : /\ IsFiniteSet(All(T))
                                  /\ Cardinality(All(T)) <= SumFunctionOnSet(c, T)}
<1>1. {} \in B
  <2>1. All({}) = {}
    OBVIOUS
  <2> QED BY <2>1, SumEmpty, FS_EmptySet
<1>2. ASSUME NEW T \in B, NEW x \in S \ T
      PROVE  T \cup {x} \in B
  <2>1. /\ IsFiniteSet(T) /\ T \subseteq S
        /\ IsFiniteSet(All(T)) /\ Cardinality(All(T)) <= SumFunctionOnSet(c, T)
    BY FS_Subset
  <2>2. All(T \cup {x}) = All(T) \cup F[x]
    OBVIOUS
  <2> HIDE DEF All, B
  <2>3. SumFunctionOnSet(c, T \cup {x}) = c[x] + SumFunctionOnSet(c, T)
    BY <2>1, SumAdd
  <2>4. SumFunctionOnSet(c, T) \in Int /\ c[x] \in Int /\ Cardinality(F[x]) <= c[x]
    BY <2>1, SumType
  <2>5. /\ IsFiniteSet(All(T) \cup F[x])
        /\ Cardinality(All(T) \cup F[x])
           = Cardinality(All(T)) + Cardinality(F[x]) - Cardinality(All(T) \cap F[x])
    BY <2>1, FS_Union
  <2>6. IsFiniteSet(All(T) \cap F[x])
    BY <2>1, FS_Subset
  <2>7. /\ Cardinality(All(T)) \in Nat /\ Cardinality(F[x]) \in Nat
        /\ Cardinality(All(T) \cap F[x]) \in Nat
    BY <2>1, <2>6, FS_CardinalityType
  <2>8. Cardinality(All(T) \cup F[x]) <= SumFunctionOnSet(c, T \cup {x})
    BY <2>1, <2>3, <2>4, <2>5, <2>7
  <2> QED BY <2>1, <2>2, <2>5, <2>8 DEF B
<1>3. S \in B
  <2>1. B \in SUBSET (SUBSET S)
    OBVIOUS
  <2> HIDE DEF B
  <2> QED BY <1>1, <1>2, <2>1, SubsetCases
<1> QED BY <1>3
=============================================================================
