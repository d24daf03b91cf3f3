-------------------------------- MODULE Sums --------------------------------
(***************************************************************************)
(* Sums over finite sets: what MapThenSumSet of FiniteSetsExt computes.     *)
(* Its recursion takes the elements of a set in an order nobody knows; each *)
(* lemma is shown by the least number for which it could be false, the      *)
(* number of elements of the set.                                           *)
(***************************************************************************)
EXTENDS Integers, FiniteSets, FiniteSetTheorems, WellFoundedInduction, TLAPS

Chosen(s) == CHOOSE x \in s : TRUE

\* g is the function from the subsets of S that the fold of f computes.
Acc(g, f, S) ==
  g = [s \in SUBSET S |-> IF s = {} THEN 0 ELSE f[Chosen(s)] + g[s \ {Chosen(s)}]]

\* The sum of f[x] for the x in S.
SumOver(f, S) == (CHOOSE g : Acc(g, f, S))[S]

---------------------------------------------------------------------------
(* Induction. *)

\* A set of numbers that is not empty has a least one.
LEMMA LeastNat ==
  ASSUME NEW T, T \subseteq Nat, T # {}
  PROVE  \E n \in T : \A m \in T : n <= m
<1>1. IsWellFoundedOn(OpToRel(<, Nat), Nat)
  BY NatLessThanWellFounded
<1>2. PICK n \in T : \A m \in T : <<m, n>> \notin OpToRel(<, Nat)
  BY <1>1, WFMin
<1>3. \A m \in T : ~(m < n)
  BY <1>2 DEF OpToRel
<1>4. QED
  BY <1>3

\* A collection of subsets of a finite set has one with the fewest elements,
\* and no member of the collection is smaller than that one.
LEMMA LeastSubset ==
  ASSUME NEW S, IsFiniteSet(S), NEW B, B \subseteq SUBSET S, B # {}
  PROVE  \E s \in B : /\ IsFiniteSet(s)
                      /\ \A x \in s : s \ {x} \notin B
<1> DEFINE T == {Cardinality(s) : s \in B}
<1>1. \A s \in B : IsFiniteSet(s) /\ Cardinality(s) \in Nat
  BY FS_Subset, FS_CardinalityType
<1>2. T \subseteq Nat /\ T # {}
  BY <1>1
<1>3. PICK n \in T : \A m \in T : n <= m
  <2> HIDE DEF T
  <2>1. QED
    BY <1>2, LeastNat
<1>4. PICK s \in B : Cardinality(s) = n
  BY <1>3
<1>5. ASSUME NEW x \in s, s \ {x} \in B PROVE FALSE
  <2>1. Cardinality(s \ {x}) = Cardinality(s) - 1
    BY <1>1, <1>5, FS_RemoveElement
  <2>2. Cardinality(s \ {x}) \in T
    BY <1>5
  <2>3. n <= Cardinality(s \ {x})
    BY <1>3, <2>2
  <2>4. QED
    BY <1>1, <1>4, <2>1, <2>3
<1>6. QED
  BY <1>1, <1>4, <1>5

LEMMA DisjointCardinality ==
  ASSUME NEW S, IsFiniteSet(S), NEW R, IsFiniteSet(R), S \cap R = {}
  PROVE  /\ IsFiniteSet(S \cup R)
         /\ Cardinality(S \cup R) = Cardinality(S) + Cardinality(R)
<1>1. Cardinality(S) \in Nat /\ Cardinality(R) \in Nat
  BY FS_CardinalityType
<1>2. Cardinality(S \cap R) = 0
  BY FS_EmptySet
<1>3. /\ IsFiniteSet(S \cup R)
      /\ Cardinality(S \cup R) = Cardinality(S) + Cardinality(R) - Cardinality(S \cap R)
  BY FS_Union
<1>4. QED
  BY <1>1, <1>2, <1>3

---------------------------------------------------------------------------
(* The fold. *)

LEMMA AnyOf == ASSUME NEW s, s # {} PROVE Chosen(s) \in s
BY DEF Chosen

\* The recursion has a solution.
LEMMA AccExists ==
  ASSUME NEW f, NEW S, IsFiniteSet(S)
  PROVE  \E g : Acc(g, f, S)
<1> DEFINE Upto(n) == {s \in SUBSET S : Cardinality(s) <= n}
           Part(g, n) == g = [s \in Upto(n) |->
                                IF s = {} THEN 0 ELSE f[Chosen(s)] + g[s \ {Chosen(s)}]]
           Bad == {n \in Nat : ~ \E g : Part(g, n)}
<1>1. \A s \in SUBSET S : IsFiniteSet(s) /\ Cardinality(s) \in Nat
  BY FS_Subset, FS_CardinalityType
<1>2. Bad = {}
  <2> SUFFICES ASSUME Bad # {} PROVE FALSE
    OBVIOUS
  <2>1. PICK n \in Bad : \A m \in Bad : n <= m
    <3>1. Bad \subseteq Nat
      OBVIOUS
    <3> HIDE DEF Bad
    <3>2. QED
      BY <3>1, LeastNat
  <2>2. n \in Nat /\ \A g : ~Part(g, n)
    BY <2>1
  <2>3. CASE n = 0
    <3> DEFINE g == [s \in Upto(0) |-> 0]
    <3>1. \A s \in Upto(0) : s = {}
      BY <1>1, FS_EmptySet
    <3>2. Part(g, 0)
      BY <3>1
    <3>3. QED
      BY <2>2, <2>3, <3>2
  <2>4. CASE n # 0
    <3>1. n - 1 \in Nat /\ n - 1 \notin Bad
      <4>1. n - 1 \in Nat /\ ~(n <= n - 1)
        BY <2>2, <2>4
      <4> HIDE DEF Bad
      <4>2. QED
        BY <2>1, <4>1
    <3>2. PICK h : Part(h, n - 1)
      BY <3>1
    <3> DEFINE g == [s \in Upto(n) |->
                       IF s = {} THEN 0 ELSE f[Chosen(s)] + h[s \ {Chosen(s)}]]
    <3>3. \A s \in Upto(n) : s # {} =>
             s \ {Chosen(s)} \in Upto(n - 1) /\ s \ {Chosen(s)} \in Upto(n)
      <4> SUFFICES ASSUME NEW s \in Upto(n), s # {}
                   PROVE  s \ {Chosen(s)} \in Upto(n - 1) /\ s \ {Chosen(s)} \in Upto(n)
        OBVIOUS
      <4>1. Chosen(s) \in s
        BY AnyOf
      <4>2. Cardinality(s \ {Chosen(s)}) = Cardinality(s) - 1
        BY <1>1, <4>1, FS_RemoveElement
      <4>3. QED
        BY <1>1, <2>2, <4>2
    <3>4. \A s \in Upto(n - 1) : s \in Upto(n) /\ g[s] = h[s]
      <4> SUFFICES ASSUME NEW s \in Upto(n - 1)
                   PROVE  s \in Upto(n) /\ g[s] = h[s]
        OBVIOUS
      <4>1. s \in Upto(n)
        BY <1>1, <2>2
      <4>2. h[s] = IF s = {} THEN 0 ELSE f[Chosen(s)] + h[s \ {Chosen(s)}]
        BY <3>2
      <4>3. QED
        BY <4>1, <4>2
    <3>5. \A s \in Upto(n) :
            g[s] = IF s = {} THEN 0 ELSE f[Chosen(s)] + g[s \ {Chosen(s)}]
      BY <3>3, <3>4
    <3>6. g = [s \in Upto(n) |-> g[s]]
      OBVIOUS
    <3>7. Part(g, n)
      <4> HIDE DEF g, Upto
      <4>1. QED
        BY <3>5, <3>6
    <3>8. QED
      BY <2>2, <3>7
  <2>5. QED
    BY <2>3, <2>4
<1>3. Cardinality(S) \in Nat /\ Upto(Cardinality(S)) = SUBSET S
  BY <1>1, FS_Subset
<1>4. PICK g : Part(g, Cardinality(S))
  BY <1>2, <1>3
<1>5. Acc(g, f, S)
  BY <1>3, <1>4 DEF Acc
<1>6. QED
  BY <1>5

\* Two such functions agree where the functions they add up do.
LEMMA AccSame ==
  ASSUME NEW f, NEW S, NEW g, Acc(g, f, S),
         NEW e, NEW R, NEW h, Acc(h, e, R),
         NEW K \in SUBSET (S \cap R), IsFiniteSet(K),
         \A k \in K : f[k] = e[k]
  PROVE  g[K] = h[K]
<1> DEFINE Bad == {s \in SUBSET K : g[s] # h[s]}
<1>1. SUFFICES ASSUME Bad # {} PROVE FALSE
  OBVIOUS
<1>2. PICK s \in Bad : \A x \in s : s \ {x} \notin Bad
  <2>1. Bad \subseteq SUBSET K
    OBVIOUS
  <2> HIDE DEF Bad
  <2>2. QED
    BY <1>1, <2>1, LeastSubset
<1>3. s \in SUBSET S /\ s \in SUBSET R
  OBVIOUS
<1>4. CASE s = {}
  BY <1>2, <1>3, <1>4 DEF Acc
<1>5. CASE s # {}
  <2>1. Chosen(s) \in s /\ Chosen(s) \in K
    BY <1>5, AnyOf
  <2>2. g[s] = f[Chosen(s)] + g[s \ {Chosen(s)}]
    BY <1>3, <1>5 DEF Acc
  <2>3. h[s] = e[Chosen(s)] + h[s \ {Chosen(s)}]
    BY <1>3, <1>5 DEF Acc
  <2>4. g[s \ {Chosen(s)}] = h[s \ {Chosen(s)}]
    BY <1>2, <2>1
  <2>5. QED
    BY <2>1, <2>2, <2>3, <2>4
<1>6. QED
  BY <1>4, <1>5

LEMMA AccType ==
  ASSUME NEW f, NEW S, IsFiniteSet(S), \A k \in S : f[k] \in Int,
         NEW g, Acc(g, f, S), NEW K \in SUBSET S
  PROVE  g[K] \in Int
<1> DEFINE Bad == {s \in SUBSET S : g[s] \notin Int}
<1>1. SUFFICES ASSUME Bad # {} PROVE FALSE
  OBVIOUS
<1>2. PICK s \in Bad : \A x \in s : s \ {x} \notin Bad
  <2>1. Bad \subseteq SUBSET S
    OBVIOUS
  <2> HIDE DEF Bad
  <2>2. QED
    BY <1>1, <2>1, LeastSubset
<1>3. CASE s = {}
  BY <1>2, <1>3 DEF Acc
<1>4. CASE s # {}
  <2>1. Chosen(s) \in s /\ Chosen(s) \in S
    BY <1>4, AnyOf
  <2>2. g[s] = f[Chosen(s)] + g[s \ {Chosen(s)}]
    BY <1>4 DEF Acc
  <2>3. g[s \ {Chosen(s)}] \in Int
    BY <1>2, <2>1
  <2>4. QED
    BY <2>1, <2>2, <2>3
<1>5. QED
  BY <1>3, <1>4

\* Whichever element is taken out first.
LEMMA AccTakes ==
  ASSUME NEW f, NEW S, IsFiniteSet(S), \A k \in S : f[k] \in Int,
         NEW g, Acc(g, f, S), NEW K \in SUBSET S, NEW x \in K
  PROVE  g[K] = f[x] + g[K \ {x}]
<1> DEFINE Bad == {s \in SUBSET S : \E y \in s : g[s] # f[y] + g[s \ {y}]}
<1>1. SUFFICES ASSUME Bad # {} PROVE FALSE
  OBVIOUS
<1>2. PICK s \in Bad : \A y \in s : s \ {y} \notin Bad
  <2>1. Bad \subseteq SUBSET S
    OBVIOUS
  <2> HIDE DEF Bad
  <2>2. QED
    BY <1>1, <2>1, LeastSubset
<1>3. PICK y \in s : g[s] # f[y] + g[s \ {y}]
  OBVIOUS
<1> DEFINE z == Chosen(s)
<1>4. z \in s /\ s \in SUBSET S
  BY AnyOf
<1>5. g[s] = f[z] + g[s \ {z}]
  BY <1>4 DEF Acc
<1> HIDE DEF z
<1>6. y # z
  BY <1>3, <1>5
<1>7. g[s \ {z}] = f[y] + g[(s \ {z}) \ {y}]
  BY <1>2, <1>4, <1>6
<1>8. g[s \ {y}] = f[z] + g[(s \ {y}) \ {z}]
  BY <1>2, <1>4, <1>6
<1>9. (s \ {z}) \ {y} = (s \ {y}) \ {z}
  OBVIOUS
<1>10. g[(s \ {y}) \ {z}] \in Int /\ f[y] \in Int /\ f[z] \in Int
  <2>1. (s \ {y}) \ {z} \in SUBSET S
    OBVIOUS
  <2>2. QED
    BY <1>4, <2>1, AccType
<1> DEFINE rest == g[(s \ {y}) \ {z}]
<1>11. rest \in Int /\ g[s \ {z}] = f[y] + rest /\ g[s \ {y}] = f[z] + rest
  BY <1>7, <1>8, <1>9, <1>10
<1> HIDE DEF rest
<1>12. f[z] + (f[y] + rest) = f[y] + (f[z] + rest)
  BY <1>10, <1>11
<1>13. QED
  BY <1>3, <1>5, <1>11, <1>12

---------------------------------------------------------------------------
(* Sums. *)

LEMMA SumAcc ==
  ASSUME NEW f, NEW S, IsFiniteSet(S), NEW g, Acc(g, f, S), NEW K \in SUBSET S
  PROVE  SumOver(f, K) = g[K]
<1>1. IsFiniteSet(K)
  BY FS_Subset
<1>2. \E h : Acc(h, f, K)
  BY <1>1, AccExists
<1> DEFINE h == CHOOSE h : Acc(h, f, K)
<1>3. Acc(h, f, K)
  BY <1>2
<1> HIDE DEF h
<1>4. h[K] = g[K]
  BY <1>1, <1>3, AccSame
<1>5. QED
  BY <1>4 DEF SumOver, h

LEMMA SumOfNone == ASSUME NEW f PROVE SumOver(f, {}) = 0
<1>1. IsFiniteSet({})
  BY FS_EmptySet
<1>2. PICK g : Acc(g, f, {})
  BY <1>1, AccExists
<1>3. SumOver(f, {}) = g[{}]
  BY <1>1, <1>2, SumAcc
<1>4. QED
  BY <1>2, <1>3 DEF Acc

LEMMA SumType ==
  ASSUME NEW f, NEW S, IsFiniteSet(S), \A k \in S : f[k] \in Int
  PROVE  SumOver(f, S) \in Int
<1>1. PICK g : Acc(g, f, S)
  BY AccExists
<1>2. QED
  BY <1>1, SumAcc, AccType

LEMMA SumSame ==
  ASSUME NEW f, NEW e, NEW S, IsFiniteSet(S), \A k \in S : f[k] = e[k]
  PROVE  SumOver(f, S) = SumOver(e, S)
<1>1. PICK g : Acc(g, f, S)
  BY AccExists
<1>2. PICK h : Acc(h, e, S)
  BY AccExists
<1>3. g[S] = h[S]
  BY <1>1, <1>2, AccSame
<1>4. QED
  BY <1>1, <1>2, <1>3, SumAcc

LEMMA SumAdds ==
  ASSUME NEW f, NEW S, IsFiniteSet(S), NEW x, x \notin S,
         \A k \in S \cup {x} : f[k] \in Int
  PROVE  SumOver(f, S \cup {x}) = SumOver(f, S) + f[x]
<1> DEFINE T == S \cup {x}
<1>1. IsFiniteSet(T)
  BY FS_AddElement
<1>2. PICK g : Acc(g, f, T)
  BY <1>1, AccExists
<1>3. g[T] = f[x] + g[T \ {x}]
  <2>1. x \in T /\ T \in SUBSET T /\ \A k \in T : f[k] \in Int
    OBVIOUS
  <2> HIDE DEF T
  <2>2. QED
    BY <1>1, <1>2, <2>1, AccTakes
<1>4. T \ {x} = S /\ f[x] \in Int
  OBVIOUS
<1>5. SumOver(f, T) = g[T] /\ SumOver(f, S) = g[S]
  BY <1>1, <1>2, SumAcc
<1>6. g[S] \in Int
  BY <1>1, <1>2, AccType
<1>7. g[T] = f[x] + g[S]
  BY <1>3, <1>4
<1> HIDE DEF T
<1>8. SumOver(f, T) = SumOver(f, S) + f[x]
  BY <1>4, <1>5, <1>6, <1>7
<1>9. QED
  BY <1>8 DEF T

LEMMA SumUnion ==
  ASSUME NEW f, NEW S, IsFiniteSet(S), NEW R, IsFiniteSet(R), S \cap R = {},
         \A k \in S \cup R : f[k] \in Int
  PROVE  SumOver(f, S \cup R) = SumOver(f, S) + SumOver(f, R)
<1> DEFINE Bad == {s \in SUBSET R : SumOver(f, S \cup s) # SumOver(f, S) + SumOver(f, s)}
<1>1. SUFFICES ASSUME Bad # {} PROVE FALSE
  OBVIOUS
<1>2. PICK s \in Bad : IsFiniteSet(s) /\ \A y \in s : s \ {y} \notin Bad
  <2>1. Bad \subseteq SUBSET R
    OBVIOUS
  <2> HIDE DEF Bad
  <2>2. QED
    BY <1>1, <2>1, LeastSubset
<1>3. SumOver(f, S) \in Int
  BY SumType
<1>4. CASE s = {}
  BY <1>2, <1>3, <1>4, SumOfNone
<1>5. CASE s # {}
  <2>1. PICK x \in s : TRUE
    BY <1>5
  <2> DEFINE r == s \ {x}
  <2>2. SumOver(f, S \cup r) = SumOver(f, S) + SumOver(f, r)
    BY <1>2, <2>1
  <2>3. /\ x \notin S \cup r /\ S \cup s = (S \cup r) \cup {x}
        /\ x \notin r /\ s = r \cup {x}
        /\ r \in SUBSET R /\ \A k \in r \cup {x} : f[k] \in Int
    BY <2>1
  <2>4. IsFiniteSet(r) /\ IsFiniteSet(S \cup r)
    BY <1>2, FS_RemoveElement, FS_Union
  <2> HIDE DEF r
  <2>5. SumOver(f, S \cup s) = SumOver(f, S \cup r) + f[x]
    BY <2>3, <2>4, SumAdds
  <2>6. SumOver(f, s) = SumOver(f, r) + f[x]
    BY <2>3, <2>4, SumAdds
  <2>7. SumOver(f, r) \in Int /\ f[x] \in Int
    BY <2>3, <2>4, SumType
  <2>8. QED
    BY <1>2, <1>3, <2>2, <2>5, <2>6, <2>7
<1>6. QED
  BY <1>4, <1>5

\* The sizes of the classes of E add up to its size.
LEMMA SumOfClasses ==
  ASSUME NEW E, IsFiniteSet(E), NEW M, IsFiniteSet(M), NEW c \in [E -> M],
         NEW f, \A t \in M : f[t] = Cardinality({x \in E : c[x] = t})
  PROVE  SumOver(f, M) = Cardinality(E)
<1> DEFINE Class(t) == {x \in E : c[x] = t}
           Of(s) == {x \in E : c[x] \in s}
           Bad == {s \in SUBSET M : SumOver(f, s) # Cardinality(Of(s))}
<1>1. Of(M) = E
  OBVIOUS
<1>2. SUFFICES ASSUME Bad # {} PROVE FALSE
  BY <1>1
<1>3. PICK s \in Bad : IsFiniteSet(s) /\ \A y \in s : s \ {y} \notin Bad
  <2>1. Bad \subseteq SUBSET M
    OBVIOUS
  <2> HIDE DEF Bad
  <2>2. QED
    BY <1>2, <2>1, LeastSubset
<1>4. \A t : IsFiniteSet(Class(t)) /\ Cardinality(Class(t)) \in Nat
  <2> SUFFICES ASSUME NEW t
               PROVE  IsFiniteSet(Class(t)) /\ Cardinality(Class(t)) \in Nat
    OBVIOUS
  <2>1. Class(t) \in SUBSET E
    OBVIOUS
  <2> HIDE DEF Class
  <2>2. QED
    BY <2>1, FS_Subset, FS_CardinalityType
<1>5. \A r : IsFiniteSet(Of(r)) /\ Cardinality(Of(r)) \in Nat
  <2> SUFFICES ASSUME NEW r
               PROVE  IsFiniteSet(Of(r)) /\ Cardinality(Of(r)) \in Nat
    OBVIOUS
  <2>1. Of(r) \in SUBSET E
    OBVIOUS
  <2> HIDE DEF Of
  <2>2. QED
    BY <2>1, FS_Subset, FS_CardinalityType
<1>6. CASE s = {}
  <2>1. Of({}) = {}
    OBVIOUS
  <2>2. QED
    BY <1>3, <1>6, <2>1, SumOfNone, FS_EmptySet
<1>7. CASE s # {}
  <2>1. PICK x \in s : TRUE
    BY <1>7
  <2> DEFINE r == s \ {x}
  <2>2. SumOver(f, r) = Cardinality(Of(r))
    BY <1>3, <2>1
  <2>3. x \notin r /\ s = r \cup {x} /\ r \in SUBSET M /\ x \in M
    BY <2>1
  <2>4. IsFiniteSet(r)
    BY <1>3, FS_RemoveElement
  <2>5. Of(s) = Of(r) \cup Class(x) /\ Of(r) \cap Class(x) = {}
    BY <2>1
  <2>6. Cardinality(Of(s)) = Cardinality(Of(r)) + Cardinality(Class(x))
    <3>1. Cardinality({}) = 0
      BY FS_EmptySet
    <3>2. IsFiniteSet(Of(r)) /\ IsFiniteSet(Class(x))
      BY <1>4, <1>5
    <3>3. Cardinality(Of(r)) \in Nat /\ Cardinality(Class(x)) \in Nat
      BY <1>4, <1>5
    <3> HIDE DEF Of, Class
    <3>4. Cardinality(Of(r) \cup Class(x))
            = Cardinality(Of(r)) + Cardinality(Class(x)) - Cardinality(Of(r) \cap Class(x))
      BY <3>2, FS_Union
    <3>5. Cardinality(Of(r) \cap Class(x)) = 0
      BY <2>5, <3>1
    <3>6. Cardinality(Of(r) \cup Class(x)) = Cardinality(Of(r)) + Cardinality(Class(x))
      BY <3>3, <3>4, <3>5
    <3>7. QED
      BY <2>5, <3>6
  <2>7. \A t \in M : f[t] = Cardinality(Class(t))
    OBVIOUS
  <2>8. SumOver(f, s) = SumOver(f, r) + f[x]
    <3>1. \A k \in r \cup {x} : f[k] \in Int
      <4> HIDE DEF Class, r
      <4>1. QED
        BY <1>4, <2>3, <2>7
    <3> HIDE DEF r
    <3>2. QED
      BY <2>3, <2>4, <3>1, SumAdds
  <2>9. QED
    BY <1>3, <2>2, <2>3, <2>6, <2>7, <2>8
<1>8. QED
  BY <1>6, <1>7
LEMMA SumPlus ==
  ASSUME NEW S, IsFiniteSet(S), NEW f, NEW e, NEW h,
         \A k \in S : f[k] \in Int /\ e[k] \in Int /\ h[k] = f[k] + e[k]
  PROVE  SumOver(h, S) = SumOver(f, S) + SumOver(e, S)
<1> DEFINE Bad == {s \in SUBSET S : SumOver(h, s) # SumOver(f, s) + SumOver(e, s)}
<1>1. SUFFICES ASSUME Bad # {} PROVE FALSE
  OBVIOUS
<1>2. PICK s \in Bad : IsFiniteSet(s) /\ \A y \in s : s \ {y} \notin Bad
  <2>1. Bad \subseteq SUBSET S
    OBVIOUS
  <2> HIDE DEF Bad
  <2>2. QED
    BY <1>1, <2>1, LeastSubset
<1>3. CASE s = {}
  BY <1>2, <1>3, SumOfNone
<1>4. CASE s # {}
  <2>1. PICK x \in s : TRUE
    BY <1>4
  <2> DEFINE r == s \ {x}
  <2>2. SumOver(h, r) = SumOver(f, r) + SumOver(e, r)
    BY <1>2, <2>1
  <2>3. x \notin r /\ s = r \cup {x} /\ x \in S /\ r \in SUBSET S
    BY <2>1
  <2>4. IsFiniteSet(r)
    BY <1>2, FS_RemoveElement
  <2>5. \A k \in r \cup {x} : f[k] \in Int /\ e[k] \in Int /\ h[k] \in Int
    BY <2>3
  <2> HIDE DEF r
  <2>6. /\ SumOver(f, s) = SumOver(f, r) + f[x]
        /\ SumOver(e, s) = SumOver(e, r) + e[x]
        /\ SumOver(h, s) = SumOver(h, r) + h[x]
    BY <2>3, <2>4, <2>5, SumAdds
  <2>7. SumOver(f, r) \in Int /\ SumOver(e, r) \in Int
    BY <2>4, <2>5, SumType
  <2>8. h[x] = f[x] + e[x] /\ f[x] \in Int /\ e[x] \in Int
    BY <2>3
  <2>9. QED
    BY <1>2, <2>2, <2>6, <2>7, <2>8
<1>5. QED
  BY <1>3, <1>4

LEMMA SumOfZeros ==
  ASSUME NEW S, IsFiniteSet(S), NEW f, \A k \in S : f[k] = 0
  PROVE  SumOver(f, S) = 0
<1>1. \A k \in S : f[k] \in Int /\ f[k] \in Int /\ f[k] = f[k] + f[k]
  OBVIOUS
<1>2. SumOver(f, S) = SumOver(f, S) + SumOver(f, S)
  BY <1>1, SumPlus
<1>3. SumOver(f, S) \in Int
  BY <1>1, SumType
<1>4. QED
  BY <1>2, <1>3

LEMMA SumOfOne ==
  ASSUME NEW x, NEW f, f[x] \in Int
  PROVE  SumOver(f, {x}) = f[x]
<1>1. IsFiniteSet({}) /\ {x} = {} \cup {x}
  BY FS_EmptySet
<1>2. SumOver(f, {} \cup {x}) = SumOver(f, {}) + f[x]
  BY <1>1, SumAdds
<1>3. QED
  BY <1>1, <1>2, SumOfNone

LEMMA SumOfOnes ==
  ASSUME NEW S, IsFiniteSet(S), NEW f, \A k \in S : f[k] = 1
  PROVE  SumOver(f, S) = Cardinality(S)
<1> DEFINE c == [x \in S |-> x]
<1>1. c \in [S -> S]
  OBVIOUS
<1>2. ASSUME NEW t \in S
      PROVE  f[t] = Cardinality({x \in S : c[x] = t})
  <2>1. {x \in S : c[x] = t} = {t}
    OBVIOUS
  <2>2. Cardinality({t}) = 1
    BY FS_Singleton
  <2>3. QED
    BY <2>1, <2>2
<1> HIDE DEF c
<1>3. QED
  BY <1>1, <1>2, SumOfClasses

\* What is 0 outside of K adds nothing.
LEMMA SumWithin ==
  ASSUME NEW S, IsFiniteSet(S), NEW K \in SUBSET S, NEW f,
         \A k \in S : f[k] \in Int, \A k \in S \ K : f[k] = 0
  PROVE  SumOver(f, S) = SumOver(f, K)
<1> DEFINE R == S \ K
<1>1. K \cap R = {} /\ S = K \cup R /\ R \in SUBSET S
  OBVIOUS
<1>2. IsFiniteSet(K) /\ IsFiniteSet(R)
  BY <1>1, FS_Subset
<1>3. SumOver(f, R) = 0
  BY <1>2, SumOfZeros
<1>4. SumOver(f, K) \in Int
  BY <1>2, SumType
<1> HIDE DEF R
<1>5. SumOver(f, K \cup R) = SumOver(f, K) + SumOver(f, R)
  BY <1>1, <1>2, SumUnion
<1>6. QED
  BY <1>1, <1>3, <1>4, <1>5

\* A change of the summands in K changes the sum by what they change.
LEMMA SumMoves ==
  ASSUME NEW S, IsFiniteSet(S), NEW K, IsFiniteSet(K), NEW f, NEW e, NEW h,
         \A k \in S \cup K : f[k] \in Int /\ e[k] \in Int,
         \A k \in K \ S : f[k] = 0,
         \A k \in S \ K : e[k] = f[k],
         \A k \in K : h[k] = e[k] - f[k]
  PROVE  SumOver(e, S \cup K) = SumOver(f, S) + SumOver(h, K)
<1> DEFINE T == S \cup K
           g == [k \in T |-> e[k] - f[k]]
<1>1. IsFiniteSet(T) /\ S \in SUBSET T /\ K \in SUBSET T
  BY FS_Union
<1>2. \A k \in T : f[k] \in Int /\ g[k] \in Int /\ e[k] = f[k] + g[k]
  OBVIOUS
<1>3. (\A k \in T \ K : g[k] = 0) /\ (\A k \in T \ S : f[k] = 0) /\ \A k \in K : g[k] = h[k]
  OBVIOUS
<1> HIDE DEF T, g
<1>4. SumOver(e, T) = SumOver(f, T) + SumOver(g, T)
  BY <1>1, <1>2, SumPlus
<1>5. SumOver(f, T) = SumOver(f, S)
  BY <1>1, <1>2, <1>3, SumWithin
<1>6. SumOver(g, T) = SumOver(g, K)
  BY <1>1, <1>2, <1>3, SumWithin
<1>7. SumOver(g, K) = SumOver(h, K)
  BY <1>3, SumSame
<1>8. QED
  BY <1>4, <1>5, <1>6, <1>7 DEF T

\* Two summands that cancel out, key by key.
LEMMA SumCancels ==
  ASSUME NEW S, IsFiniteSet(S), NEW f, NEW e,
         \A k \in S : f[k] \in Int /\ e[k] = -f[k]
  PROVE  SumOver(e, S) = -SumOver(f, S)
<1> DEFINE z == [k \in S |-> 0]
<1>1. \A k \in S : f[k] \in Int /\ e[k] \in Int /\ z[k] = f[k] + e[k]
  OBVIOUS
<1>2. SumOver(z, S) = 0
  BY SumOfZeros
<1> HIDE DEF z
<1>3. SumOver(z, S) = SumOver(f, S) + SumOver(e, S)
  BY <1>1, SumPlus
<1>4. SumOver(f, S) \in Int /\ SumOver(e, S) \in Int
  BY <1>1, SumType
<1>5. QED
  BY <1>2, <1>3, <1>4

LEMMA SumOfNats ==
  ASSUME NEW S, IsFiniteSet(S), NEW f, \A k \in S : f[k] \in Nat
  PROVE  SumOver(f, S) \in Nat
<1> DEFINE Bad == {s \in SUBSET S : SumOver(f, s) \notin Nat}
<1>1. SUFFICES ASSUME Bad # {} PROVE FALSE
  OBVIOUS
<1>2. PICK s \in Bad : IsFiniteSet(s) /\ \A y \in s : s \ {y} \notin Bad
  <2>1. Bad \subseteq SUBSET S
    OBVIOUS
  <2> HIDE DEF Bad
  <2>2. QED
    BY <1>1, <2>1, LeastSubset
<1>3. CASE s = {}
  BY <1>2, <1>3, SumOfNone
<1>4. CASE s # {}
  <2>1. PICK x \in s : TRUE
    BY <1>4
  <2> DEFINE r == s \ {x}
  <2>2. SumOver(f, r) \in Nat
    BY <1>2, <2>1
  <2>3. x \notin r /\ s = r \cup {x} /\ f[x] \in Nat /\ \A k \in r \cup {x} : f[k] \in Int
    BY <2>1
  <2>4. IsFiniteSet(r)
    BY <1>2, FS_RemoveElement
  <2> HIDE DEF r
  <2>5. SumOver(f, s) = SumOver(f, r) + f[x]
    BY <2>3, <2>4, SumAdds
  <2>6. QED
    BY <1>2, <2>2, <2>3, <2>5
<1>5. QED
  BY <1>3, <1>4

\* Summands that are no smaller have no smaller sum; if the sum is the same,
\* so is each of them.
LEMMA SumAtLeast ==
  ASSUME NEW S, IsFiniteSet(S), NEW f, NEW e,
         \A k \in S : f[k] \in Int /\ e[k] \in Int /\ f[k] >= e[k]
  PROVE  /\ SumOver(f, S) \in Int /\ SumOver(e, S) \in Int
         /\ SumOver(f, S) >= SumOver(e, S)
         /\ SumOver(f, S) = SumOver(e, S) => \A k \in S : f[k] = e[k]
<1> DEFINE h == [k \in S |-> f[k] - e[k]]
<1>1. \A k \in S : h[k] \in Nat /\ e[k] \in Int /\ f[k] = e[k] + h[k]
  OBVIOUS
<1> HIDE DEF h
<1>2. SumOver(f, S) = SumOver(e, S) + SumOver(h, S)
  BY <1>1, SumPlus
<1>3. SumOver(e, S) \in Int /\ SumOver(f, S) \in Int
  BY SumType
<1>4. SumOver(h, S) \in Nat
  BY <1>1, SumOfNats
<1>5. ASSUME NEW x \in S, SumOver(h, S) = 0
      PROVE  h[x] = 0
  <2> DEFINE r == S \ {x}
  <2>1. IsFiniteSet(r) /\ x \notin r /\ S = r \cup {x} /\ \A k \in r : h[k] \in Nat
    BY <1>1, FS_RemoveElement
  <2> HIDE DEF r
  <2>2. SumOver(h, r) \in Nat
    BY <2>1, SumOfNats
  <2>3. \A k \in r \cup {x} : h[k] \in Int
    BY <1>1, <2>1
  <2>4. SumOver(h, S) = SumOver(h, r) + h[x]
    BY <2>1, <2>3, SumAdds
  <2>5. QED
    BY <1>1, <1>5, <2>2, <2>4
<1>6. SumOver(f, S) = SumOver(e, S) => \A k \in S : f[k] = e[k]
  <2> SUFFICES ASSUME SumOver(f, S) = SumOver(e, S), NEW k \in S
               PROVE  f[k] = e[k]
    OBVIOUS
  <2>1. SumOver(h, S) = 0
    BY <1>2, <1>3, <1>4
  <2>2. h[k] = 0
    BY <1>5, <2>1
  <2>3. QED
    BY <1>1, <2>2
<1>7. QED
  BY <1>2, <1>3, <1>4, <1>6

\* A factor of all summands is a factor of the sum.
LEMMA SumTimes ==
  ASSUME NEW S, IsFiniteSet(S), NEW c \in Int, NEW f, NEW h,
         \A k \in S : f[k] \in Int /\ h[k] = c * f[k]
  PROVE  SumOver(h, S) = c * SumOver(f, S)
<1> DEFINE Bad == {s \in SUBSET S : SumOver(h, s) # c * SumOver(f, s)}
<1>1. SUFFICES ASSUME Bad # {} PROVE FALSE
  OBVIOUS
<1>2. PICK s \in Bad : IsFiniteSet(s) /\ \A y \in s : s \ {y} \notin Bad
  <2>1. Bad \subseteq SUBSET S
    OBVIOUS
  <2> HIDE DEF Bad
  <2>2. QED
    BY <1>1, <2>1, LeastSubset
<1>3. CASE s = {}
  BY <1>2, <1>3, SumOfNone
<1>4. CASE s # {}
  <2>1. PICK x \in s : TRUE
    BY <1>4
  <2> DEFINE r == s \ {x}
  <2>2. SumOver(h, r) = c * SumOver(f, r)
    BY <1>2, <2>1
  <2>3. x \notin r /\ s = r \cup {x} /\ x \in S /\ r \in SUBSET S
    BY <2>1
  <2>4. IsFiniteSet(r)
    BY <1>2, FS_RemoveElement
  <2>5. \A k \in r \cup {x} : f[k] \in Int /\ h[k] \in Int
    BY <2>3
  <2> HIDE DEF r
  <2>6. /\ SumOver(f, s) = SumOver(f, r) + f[x]
        /\ SumOver(h, s) = SumOver(h, r) + h[x]
    BY <2>3, <2>4, <2>5, SumAdds
  <2>7. SumOver(f, r) \in Int
    BY <2>4, <2>5, SumType
  <2>8. h[x] = c * f[x] /\ f[x] \in Int
    BY <2>3
  <2>9. \A a, b \in Int : c * a + c * b = c * (a + b)
    OBVIOUS
  <2>10. SumOver(h, s) = c * SumOver(f, s)
    BY <2>2, <2>6, <2>7, <2>8, <2>9
  <2>11. QED
    BY <1>2, <2>10
<1>5. QED
  BY <1>3, <1>4

LEMMA SumOfSame ==
  ASSUME NEW S, IsFiniteSet(S), NEW c \in Int, NEW h, \A k \in S : h[k] = c
  PROVE  SumOver(h, S) = c * Cardinality(S)
<1> DEFINE one == [k \in S |-> 1]
<1>1. SumOver(one, S) = Cardinality(S)
  BY SumOfOnes
<1>2. \A k \in S : one[k] \in Int /\ h[k] = c * one[k]
  OBVIOUS
<1> HIDE DEF one
<1>3. QED
  BY <1>1, <1>2, SumTimes

=============================================================================
