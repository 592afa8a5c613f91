------------------------------- MODULE FiniteSums -------------------------------
(***************************************************************************)
(* Sums over finite sets: what MapThenSumSet computes, as a function that  *)
(* the provers can reason about.  The library's induction theorems take an *)
(* operator as a parameter, which no prover here can instantiate; each     *)
(* fact of all finite sets is proved from a least counterexample instead.  *)
(***************************************************************************)
EXTENDS Integers, FiniteSets, WellFoundedInduction, FiniteSetTheorems, TLAPS

(* Pick chooses one element of a nonempty set.                             *)
Pick(s) == CHOOSE x \in s : TRUE

(* g gives each subset of S the sum of f over it.                          *)
Summing(f, S, g) ==
  g = [s \in SUBSET S |-> IF s = {} THEN 0 ELSE f[Pick(s)] + g[s \ {Pick(s)}]]

(* The sum of f over a finite set S.                                       *)
Total(f, S) == (CHOOSE g : Summing(f, S, g))[S]

(* The element picked is one of the set.                                   *)
LEMMA PickIn == ASSUME NEW s, s # {} PROVE Pick(s) \in s
  BY DEF Pick

(* A nonempty set of numbers has a least one.                              *)
LEMMA Least ==
  ASSUME NEW T \in SUBSET Nat, T # {}
  PROVE  \E n \in T : \A m \in T : n <= m
  <1>1. PICK n \in T : \A m \in T : ~(<<m, n>> \in OpToRel(<, Nat))
    BY WFMin, NatLessThanWellFounded
  <1>2. \A m \in T : ~(m < n)
    BY <1>1 DEF OpToRel
  <1> QED BY <1>2

(* g sums f over the subsets of S of at most n elements.                   *)
SmallSums(f, S, n, g) ==
  \A s \in SUBSET S : Cardinality(s) <= n =>
     g[s] = IF s = {} THEN 0 ELSE f[Pick(s)] + g[s \ {Pick(s)}]

(* Such a function exists for every n: a least n without one has a         *)
(* predecessor, whose sums extend to the next size.                        *)
LEMMA SmallSumsExist ==
  ASSUME NEW f, NEW S, IsFiniteSet(S), NEW n \in Nat
  PROVE  \E g : SmallSums(f, S, n, g)
  <1> DEFINE bad == {k \in Nat : ~\E g : SmallSums(f, S, k, g)}
  <1>1. SUFFICES ASSUME bad # {} PROVE FALSE
    OBVIOUS
  <1>2. PICK k \in bad : \A m \in bad : k <= m
    <2>1. bad \in SUBSET Nat
      OBVIOUS
    <2> HIDE DEF bad
    <2> QED BY <1>1, <2>1, Least
  <1>3. k # 0
    <2> DEFINE z == [s \in SUBSET S |-> 0]
    <2>1. SmallSums(f, S, 0, z)
      <3> SUFFICES ASSUME NEW s \in SUBSET S, Cardinality(s) <= 0
          PROVE z[s] = IF s = {} THEN 0 ELSE f[Pick(s)] + z[s \ {Pick(s)}]
        BY DEF SmallSums
      <3>1. IsFiniteSet(s)
        BY FS_Subset
      <3>2. Cardinality(s) \in Nat
        BY <3>1, FS_CardinalityType
      <3>3. s = {}
        BY <3>1, <3>2, FS_EmptySet
      <3> QED BY <3>3
    <2> HIDE DEF z
    <2> QED BY <2>1
  <1>4. PICK h : SmallSums(f, S, k - 1, h)
    BY <1>2, <1>3
  <1> DEFINE g == [s \in SUBSET S |-> IF s = {} THEN 0
                     ELSE IF Cardinality(s) < k THEN h[s] ELSE f[Pick(s)] + h[s \ {Pick(s)}]]
  <1>5. SmallSums(f, S, k, g)
    <2> SUFFICES ASSUME NEW s \in SUBSET S, Cardinality(s) <= k, s # {}
        PROVE g[s] = f[Pick(s)] + g[s \ {Pick(s)}]
      BY DEF SmallSums
    <2> DEFINE r == s \ {Pick(s)}
    <2>1. IsFiniteSet(s)
      BY FS_Subset
    <2>2. /\ Cardinality(s) \in Nat /\ Cardinality(r) = Cardinality(s) - 1
          /\ Cardinality(r) \in Nat
      BY <2>1, FS_CardinalityType, FS_RemoveElement, PickIn
    <2>3. r \in SUBSET S
      OBVIOUS
    <2>4. g[r] = h[r]
      <3>1. CASE r = {}
        <4>1. Cardinality({}) = 0
          BY FS_EmptySet
        <4>2. h[{}] = 0
          BY <1>4, <1>3, <4>1, <1>2 DEF SmallSums
        <4> QED BY <3>1, <4>2
      <3>2. CASE r # {}
        BY <3>2, <2>2, <2>3, <1>2
      <3> QED BY <3>1, <3>2
    <2>5. g[s] = f[Pick(s)] + h[r]
      <3>1. CASE Cardinality(s) < k
        <4>1. g[s] = h[s]
          BY <3>1
        <4>2. Cardinality(s) <= k - 1
          BY <3>1, <2>2, <1>2
        <4>3. h[s] = f[Pick(s)] + h[r]
          BY <4>2, <1>4 DEF SmallSums
        <4> QED BY <4>1, <4>3
      <3>2. CASE ~(Cardinality(s) < k)
        BY <3>2
      <3> QED BY <3>1, <3>2
    <2> QED BY <2>4, <2>5
  <1> HIDE DEF g
  <1> QED BY <1>2, <1>5

(* Over a finite set a function of all sums exists.                        *)
LEMMA SumsExist ==
  ASSUME NEW f, NEW S, IsFiniteSet(S)
  PROVE  \E g : Summing(f, S, g)
  <1>1. Cardinality(S) \in Nat
    BY FS_CardinalityType
  <1>2. PICK h : SmallSums(f, S, Cardinality(S), h)
    BY <1>1, SmallSumsExist
  <1> DEFINE g == [s \in SUBSET S |-> h[s]]
  <1>3. ASSUME NEW s \in SUBSET S
        PROVE  g[s] = IF s = {} THEN 0 ELSE f[Pick(s)] + g[s \ {Pick(s)}]
    <2>1. Cardinality(s) <= Cardinality(S)
      BY FS_Subset
    <2>2. h[s] = IF s = {} THEN 0 ELSE f[Pick(s)] + h[s \ {Pick(s)}]
      BY <2>1, <1>2 DEF SmallSums
    <2> QED BY <2>2
  <1>4. g = [s \in SUBSET S |-> IF s = {} THEN 0 ELSE f[Pick(s)] + g[s \ {Pick(s)}]]
    BY <1>3
  <1> HIDE DEF g
  <1> QED BY <1>4 DEF Summing

(* The smallest of a set of finite sets.                                   *)
LEMMA SmallestSet ==
  ASSUME NEW B, B # {}, \A s \in B : IsFiniteSet(s)
  PROVE  \E s \in B : \A t \in B : (t \subseteq s) => t = s
  <1> DEFINE sizes == {Cardinality(s) : s \in B}
  <1>1. sizes \in SUBSET Nat /\ sizes # {}
    BY FS_CardinalityType
  <1>2. PICK n \in sizes : \A m \in sizes : n <= m
    <2> HIDE DEF sizes
    <2> QED BY <1>1, Least
  <1>3. PICK s \in B : n = Cardinality(s)
    BY <1>2
  <1>4. ASSUME NEW t \in B, t \subseteq s PROVE t = s
    <2>1. Cardinality(t) <= n /\ (Cardinality(s) = Cardinality(t) => t = s)
      BY <1>3, <1>4, FS_Subset
    <2>2. n <= Cardinality(t)
      BY <1>2
    <2>3. Cardinality(t) \in Nat /\ n \in Nat
      BY <1>1, <1>2, FS_CardinalityType
    <2> QED BY <1>3, <2>1, <2>2, <2>3
  <1> QED BY <1>3, <1>4

(* Two such functions agree: on a smallest set where they differ they      *)
(* would agree on the rest of it.                                          *)
LEMMA SumsAgree ==
  ASSUME NEW f, NEW e, NEW S, IsFiniteSet(S), NEW T \in SUBSET S, NEW g, NEW h,
         Summing(f, S, g), Summing(e, T, h), \A x \in T : f[x] = e[x]
  PROVE  \A s \in SUBSET T : g[s] = h[s]
  <1> DEFINE bad == {s \in SUBSET T : g[s] # h[s]}
  <1>1. SUFFICES ASSUME bad # {} PROVE FALSE
    OBVIOUS
  <1>2. \A s \in bad : IsFiniteSet(s)
    BY FS_Subset
  <1>3. PICK s \in bad : \A t \in bad : (t \subseteq s) => t = s
    <2> HIDE DEF bad
    <2> QED BY <1>1, <1>2, SmallestSet
  <1>4. /\ g[s] = IF s = {} THEN 0 ELSE f[Pick(s)] + g[s \ {Pick(s)}]
        /\ h[s] = IF s = {} THEN 0 ELSE e[Pick(s)] + h[s \ {Pick(s)}]
    BY DEF Summing
  <1>5. s # {} /\ Pick(s) \in s
    BY <1>4, PickIn
  <1>6. s \ {Pick(s)} \notin bad
    BY <1>3, <1>5
  <1> QED BY <1>3, <1>4, <1>5, <1>6

(* Total satisfies the recursion of a sum.                                 *)
LEMMA TotalSums ==
  ASSUME NEW f, NEW S, IsFiniteSet(S)
  PROVE  \E g : Summing(f, S, g) /\ Total(f, S) = g[S]
  BY SumsExist DEF Total

(* Sums of functions that agree on the set.                                *)
LEMMA TotalAgree ==
  ASSUME NEW f, NEW e, NEW S, IsFiniteSet(S), \A x \in S : f[x] = e[x]
  PROVE  Total(f, S) = Total(e, S)
  <1>1. PICK g : Summing(f, S, g) /\ Total(f, S) = g[S]
    BY TotalSums
  <1>2. PICK h : Summing(e, S, h) /\ Total(e, S) = h[S]
    BY TotalSums
  <1> QED BY <1>1, <1>2, SumsAgree

(* Any function that satisfies the recursion computes the sum.             *)
LEMMA TotalIs ==
  ASSUME NEW f, NEW S, IsFiniteSet(S), NEW g, Summing(f, S, g)
  PROVE  Total(f, S) = g[S]
  <1>1. PICK h : Summing(f, S, h) /\ Total(f, S) = h[S]
    BY TotalSums
  <1> QED BY <1>1, SumsAgree

(* The sum over no element.                                                *)
LEMMA TotalEmpty ==
  ASSUME NEW f
  PROVE  Total(f, {}) = 0
  <1>1. PICK g : Summing(f, {}, g) /\ Total(f, {}) = g[{}]
    BY TotalSums, FS_EmptySet
  <1> QED BY <1>1 DEF Summing

(* The sum, by the element that is picked.                                 *)
LEMMA TotalPick ==
  ASSUME NEW f, NEW S, IsFiniteSet(S), S # {}
  PROVE  Total(f, S) = f[Pick(S)] + Total(f, S \ {Pick(S)})
  <1>1. PICK g : Summing(f, S, g) /\ Total(f, S) = g[S]
    BY TotalSums
  <1> DEFINE T == S \ {Pick(S)}
  <1>2. IsFiniteSet(T) /\ T \in SUBSET S
    BY FS_RemoveElement
  <1>3. PICK h : Summing(f, T, h) /\ Total(f, T) = h[T]
    BY <1>2, TotalSums
  <1>4. g[T] = h[T]
    BY <1>1, <1>2, <1>3, SumsAgree
  <1>5. g[S] = f[Pick(S)] + g[T]
    BY <1>1 DEF Summing
  <1> QED BY <1>1, <1>3, <1>4, <1>5

(* A sum of integers is an integer.                                        *)
LEMMA TotalInt ==
  ASSUME NEW f, NEW S, IsFiniteSet(S), \A x \in S : f[x] \in Int
  PROVE  Total(f, S) \in Int
  <1> DEFINE bad == {s \in SUBSET S : Total(f, s) \notin Int}
  <1>1. SUFFICES ASSUME bad # {} PROVE FALSE
    OBVIOUS
  <1>2. \A s \in bad : IsFiniteSet(s)
    BY FS_Subset
  <1>3. PICK s \in bad : \A t \in bad : (t \subseteq s) => t = s
    <2> HIDE DEF bad
    <2> QED BY <1>1, <1>2, SmallestSet
  <1>4. s # {}
    BY TotalEmpty
  <1>5. Pick(s) \in s /\ Total(f, s) = f[Pick(s)] + Total(f, s \ {Pick(s)})
    BY <1>2, <1>4, PickIn, TotalPick
  <1>6. s \ {Pick(s)} \notin bad
    BY <1>3, <1>5
  <1>7. Total(f, s \ {Pick(s)}) \in Int /\ f[Pick(s)] \in Int
    BY <1>5, <1>6
  <1> QED BY <1>5, <1>7

(* Which element is added last does not matter.                            *)
LEMMA TotalRemove ==
  ASSUME NEW f, NEW S, IsFiniteSet(S), \A x \in S : f[x] \in Int, NEW x \in S
  PROVE  Total(f, S) = f[x] + Total(f, S \ {x})
  <1> DEFINE bad == {s \in SUBSET S : \E y \in s : Total(f, s) # f[y] + Total(f, s \ {y})}
  <1>1. SUFFICES ASSUME bad # {} PROVE FALSE
    OBVIOUS
  <1>2. \A s \in bad : IsFiniteSet(s)
    BY FS_Subset
  <1>3. PICK s \in bad : \A t \in bad : (t \subseteq s) => t = s
    <2> HIDE DEF bad
    <2> QED BY <1>1, <1>2, SmallestSet
  <1>4. PICK y \in s : Total(f, s) # f[y] + Total(f, s \ {y})
    OBVIOUS
  <1> DEFINE p == Pick(s)
  <1>5. p \in s /\ Total(f, s) = f[p] + Total(f, s \ {p})
    BY <1>2, PickIn, TotalPick
  <1>6. y # p
    BY <1>4, <1>5
  <1>7. s \ {p} \notin bad /\ s \ {y} \notin bad
    BY <1>3, <1>5
  <1>8. /\ Total(f, s \ {p}) = f[y] + Total(f, (s \ {p}) \ {y})
        /\ Total(f, s \ {y}) = f[p] + Total(f, (s \ {y}) \ {p})
    BY <1>5, <1>6, <1>7
  <1> DEFINE r == s \ {p, y}
  <1>9. (s \ {p}) \ {y} = r /\ (s \ {y}) \ {p} = r
    OBVIOUS
  <1>10. Total(f, r) \in Int
    <2>1. IsFiniteSet(r) /\ \A z \in r : f[z] \in Int
      BY FS_Subset
    <2> QED BY <2>1, TotalInt
  <1>11. f[p] \in Int /\ f[y] \in Int
    BY <1>5
  <1>12. Total(f, s) = f[p] + (f[y] + Total(f, r)) /\ Total(f, s \ {y}) = f[p] + Total(f, r)
    BY <1>5, <1>8, <1>9
  <1> HIDE DEF bad, p, r
  <1> QED BY <1>4, <1>10, <1>11, <1>12

(* The sum over disjoint sets.                                             *)
LEMMA TotalUnion ==
  ASSUME NEW f, NEW S, NEW T, IsFiniteSet(S), IsFiniteSet(T), S \cap T = {},
         \A x \in S \cup T : f[x] \in Int
  PROVE  Total(f, S \cup T) = Total(f, S) + Total(f, T)
  <1> DEFINE bad == {s \in SUBSET T : Total(f, S \cup s) # Total(f, S) + Total(f, s)}
  <1>1. SUFFICES ASSUME bad # {} PROVE FALSE
    OBVIOUS
  <1>2. \A s \in bad : IsFiniteSet(s)
    BY FS_Subset
  <1>3. PICK s \in bad : \A t \in bad : (t \subseteq s) => t = s
    <2> HIDE DEF bad
    <2> QED BY <1>1, <1>2, SmallestSet
  <1>0. Total(f, S) \in Int
    BY TotalInt
  <1>4. s # {}
    <2>1. S \cup {} = S /\ Total(f, S \cup s) # Total(f, S) + Total(f, s)
      OBVIOUS
    <2>2. Total(f, {}) = 0
      BY TotalEmpty
    <2>3. ASSUME s = {} PROVE FALSE
      <3>1. Total(f, S) # Total(f, S) + 0
        BY <2>1, <2>2, <2>3
      <3> QED BY <1>0, <3>1
    <2> QED BY <2>3
  <1>5. PICK x \in s : TRUE
    BY <1>4
  <1> DEFINE r == s \ {x}
  <1>6. r \notin bad
    BY <1>3
  <1>7. Total(f, S \cup r) = Total(f, S) + Total(f, r)
    BY <1>6
  <1>8. IsFiniteSet(r) /\ IsFiniteSet(s) /\ IsFiniteSet(S \cup s)
    BY <1>2, FS_Subset, FS_Union, FS_RemoveElement
  <1>9. Total(f, s) = f[x] + Total(f, r)
    BY <1>8, TotalRemove
  <1>10. Total(f, S \cup s) = f[x] + Total(f, S \cup r)
    <2>1. (S \cup s) \ {x} = S \cup r
      OBVIOUS
    <2>2. \A z \in S \cup s : f[z] \in Int
      OBVIOUS
    <2> HIDE DEF r, bad
    <2> QED BY <1>8, <2>1, <2>2, TotalRemove
  <1>11. Total(f, r) \in Int /\ f[x] \in Int
    BY <1>8, TotalInt
  <1>12. Total(f, S \cup s) # Total(f, S) + Total(f, s)
    OBVIOUS
  <1> HIDE DEF bad, r
  <1> QED BY <1>0, <1>7, <1>9, <1>10, <1>11, <1>12

(* The sum grows with its terms.                                           *)
LEMMA TotalMonotonic ==
  ASSUME NEW f, NEW e, NEW S, IsFiniteSet(S),
         \A x \in S : f[x] \in Int /\ e[x] \in Int /\ f[x] <= e[x]
  PROVE  Total(f, S) <= Total(e, S)
  <1> DEFINE bad == {s \in SUBSET S : ~(Total(f, s) <= Total(e, s))}
  <1>1. SUFFICES ASSUME bad # {} PROVE FALSE
    OBVIOUS
  <1>2. \A s \in bad : IsFiniteSet(s)
    BY FS_Subset
  <1>3. PICK s \in bad : \A t \in bad : (t \subseteq s) => t = s
    <2> HIDE DEF bad
    <2> QED BY <1>1, <1>2, SmallestSet
  <1>4. s # {}
    BY TotalEmpty
  <1>5. PICK x \in s : TRUE
    BY <1>4
  <1> DEFINE r == s \ {x}
  <1>6. r \notin bad
    BY <1>3
  <1>7. Total(f, r) <= Total(e, r)
    BY <1>6
  <1>8. IsFiniteSet(r) /\ IsFiniteSet(s)
    BY <1>2, FS_RemoveElement
  <1>9. Total(f, s) = f[x] + Total(f, r) /\ Total(e, s) = e[x] + Total(e, r)
    BY <1>8, TotalRemove
  <1>10. Total(f, r) \in Int /\ Total(e, r) \in Int
    BY <1>8, TotalInt
  <1>11. f[x] \in Int /\ e[x] \in Int /\ f[x] <= e[x] /\ ~(Total(f, s) <= Total(e, s))
    OBVIOUS
  <1> HIDE DEF bad, r
  <1> QED BY <1>7, <1>9, <1>10, <1>11

(* A sum of zeros.                                                         *)
LEMMA TotalZero ==
  ASSUME NEW f, NEW S, IsFiniteSet(S), \A x \in S : f[x] = 0
  PROVE  Total(f, S) = 0
  <1> DEFINE bad == {s \in SUBSET S : Total(f, s) # 0}
  <1>1. SUFFICES ASSUME bad # {} PROVE FALSE
    OBVIOUS
  <1>2. \A s \in bad : IsFiniteSet(s)
    BY FS_Subset
  <1>3. PICK s \in bad : \A t \in bad : (t \subseteq s) => t = s
    <2> HIDE DEF bad
    <2> QED BY <1>1, <1>2, SmallestSet
  <1>4. s # {}
    BY TotalEmpty
  <1>5. Pick(s) \in s /\ Total(f, s) = f[Pick(s)] + Total(f, s \ {Pick(s)})
    BY <1>2, <1>4, PickIn, TotalPick
  <1>6. s \ {Pick(s)} \notin bad
    BY <1>3, <1>5
  <1> QED BY <1>5, <1>6

(* The sum over one element.                                               *)
LEMMA TotalSingleton ==
  ASSUME NEW f, NEW x, f[x] \in Int
  PROVE  Total(f, {x}) = f[x]
  <1>1. IsFiniteSet({x}) /\ {x} \ {x} = {}
    BY FS_Singleton
  <1>2. Total(f, {x}) = f[x] + Total(f, {})
    BY <1>1, TotalRemove
  <1> QED BY <1>2, TotalEmpty

(* A sum of naturals is one.                                               *)
LEMMA TotalNat ==
  ASSUME NEW f, NEW S, IsFiniteSet(S), \A x \in S : f[x] \in Nat
  PROVE  Total(f, S) \in Nat
  <1> DEFINE z == [x \in S |-> 0]
  <1>1. \A x \in S : z[x] = 0 /\ z[x] \in Int /\ f[x] \in Int /\ z[x] <= f[x]
    OBVIOUS
  <1> HIDE DEF z
  <1>2. Total(z, S) = 0
    BY <1>1, TotalZero
  <1>3. Total(z, S) <= Total(f, S)
    BY <1>1, TotalMonotonic
  <1>4. Total(f, S) \in Int
    BY <1>1, TotalInt
  <1> QED BY <1>2, <1>3, <1>4

(* The sum over a part of a set of naturals is no larger.                  *)
LEMMA TotalPart ==
  ASSUME NEW f, NEW S, IsFiniteSet(S), \A x \in S : f[x] \in Nat, NEW T \in SUBSET S
  PROVE  Total(f, T) <= Total(f, S)
  <1> DEFINE R == S \ T
  <1>1. S = T \cup R /\ T \cap R = {} /\ R \in SUBSET S
    OBVIOUS
  <1>2. IsFiniteSet(T) /\ IsFiniteSet(R)
    BY <1>1, FS_Subset
  <1>3. /\ \A x \in T \cup R : f[x] \in Int
        /\ \A x \in T : f[x] \in Nat
        /\ \A x \in R : f[x] \in Nat
    BY <1>1
  <1> HIDE DEF R
  <1>4. Total(f, T \cup R) = Total(f, T) + Total(f, R)
    BY <1>1, <1>2, <1>3, TotalUnion
  <1>5. Total(f, T) \in Nat /\ Total(f, R) \in Nat
    BY <1>2, <1>3, TotalNat
  <1> QED BY <1>1, <1>4, <1>5
===============================================================================
