------------------------------ MODULE SumProofs ------------------------------
(***************************************************************************)
(* Sums over finite sets.  MapThenSumSet picks one element after another;  *)
(* the sums of all subsets of a set S are a function that satisfies the    *)
(* equation Sums, and Total is the sum of S itself.  What holds for all    *)
(* the sums is proved by induction over the sets, in a form that has a set *)
(* in the place of a predicate (SetInduction).                             *)
(***************************************************************************)
EXTENDS Integers, Functions, FiniteSetTheorems, WellFoundedInduction, TLAPS

Picked(s) == CHOOSE x \in s : TRUE
Sums(F, S, w) ==
    F = [s \in SUBSET S |-> IF s = {} THEN 0 ELSE w[Picked(s)] + F[s \ {Picked(s)}]]

\* A set of naturals has a least element.
LEMMA Least ==
    ASSUME NEW S \in SUBSET Nat, S # {}
    PROVE  \E m \in S : \A k \in S : m <= k
<1> DEFINE R == OpToRel(<, Nat)
<1>1. \A k, m \in S : <<k, m>> \in R <=> k < m
  BY DEF OpToRel
<1>2. IsWellFoundedOn(R, Nat)
  BY NatLessThanWellFounded
<1> HIDE DEF R
<1>3. PICK m \in S : \A k \in S : ~(<<k, m>> \in R)
  BY <1>2, WFMin
<1>4. \A k \in S : ~(k < m)
  BY <1>1, <1>3
<1>5. \A k \in S : k \in Int /\ m \in Int
  OBVIOUS
<1> QED  BY <1>3, <1>4, <1>5

\* A non-empty finite set and what is left of it without the element picked.
LEMMA Rest ==
    ASSUME NEW S, IsFiniteSet(S), NEW s \in SUBSET S, s # {}
    PROVE  /\ Picked(s) \in s /\ s \ {Picked(s)} \in SUBSET S
           /\ \A x \in s : /\ Cardinality(s) \in Nat /\ Cardinality(s \ {x}) \in Nat
                           /\ Cardinality(s) = Cardinality(s \ {x}) + 1
<1>1. IsFiniteSet(s)
  BY FS_Subset
<1>2. ASSUME NEW x \in s
      PROVE  /\ Cardinality(s) \in Nat /\ Cardinality(s \ {x}) \in Nat
             /\ Cardinality(s) = Cardinality(s \ {x}) + 1
  <2>1. IsFiniteSet(s \ {x}) /\ Cardinality(s \ {x}) = Cardinality(s) - 1
    BY <1>1, FS_RemoveElement
  <2>2. Cardinality(s) \in Nat /\ Cardinality(s \ {x}) \in Nat
    BY <1>1, <2>1, FS_CardinalityType
  <2> QED  BY <2>1, <2>2
<1> QED  BY <1>2 DEF Picked

\* Induction over the subsets of a finite set; P is the set of those for which
\* the fact holds.
LEMMA SetInduction ==
    ASSUME NEW S, IsFiniteSet(S), NEW P, {} \in P,
           \A s \in SUBSET S : s # {} /\ (\A x \in s : s \ {x} \in P) => s \in P
    PROVE  \A s \in SUBSET S : s \in P
<1> DEFINE Bad == {Cardinality(s) : s \in {s \in SUBSET S : s \notin P}}
<1>1. \A s \in SUBSET S : Cardinality(s) \in Nat
  BY FS_Subset, FS_CardinalityType
<1>2. Bad = {}
  <2> SUFFICES ASSUME Bad # {} PROVE FALSE
    OBVIOUS
  <2>1. Bad \in SUBSET Nat
    BY <1>1
  <2>2. PICK m \in Bad : \A k \in Bad : m <= k
    <3> HIDE DEF Bad
    <3> QED  BY <2>1, Least
  <2>3. PICK s \in SUBSET S : s \notin P /\ m = Cardinality(s)
    BY <2>2
  <2>4. s # {}
    BY <2>3
  <2>5. ASSUME NEW x \in s PROVE s \ {x} \in P
    <3>1. s \ {x} \in SUBSET S /\ Cardinality(s \ {x}) < m
      BY <2>3, <2>4, Rest
    <3>2. Cardinality(s \ {x}) \notin Bad
      <4> HIDE DEF Bad
      <4> QED  BY <1>1, <2>1, <2>2, <3>1
    <3> QED  BY <3>1, <3>2
  <2> QED  BY <2>3, <2>4, <2>5
<1> QED  BY <1>2

\* There are such sums: those of the sets with at most n elements, for the
\* least n of which there are none, can be had from those with fewer.
LEMMA SumsExist ==
    ASSUME NEW S, IsFiniteSet(S), NEW w \in [S -> Int]
    PROVE  \E F : Sums(F, S, w)
<1> DEFINE Small(n) == {s \in SUBSET S : Cardinality(s) <= n}
           Value(F, s) == IF s = {} THEN 0 ELSE w[Picked(s)] + F[s \ {Picked(s)}]
           Good(n) == \E F : \A s \in Small(n) : F[s] = Value(F, s)
           Bad == {n \in Nat : ~Good(n)}
<1>0. \A s \in SUBSET S : Cardinality(s) \in Nat
  BY FS_Subset, FS_CardinalityType
<1>1. Bad = {}
  <2> SUFFICES ASSUME Bad # {} PROVE FALSE
    OBVIOUS
  <2>1. PICK m \in Bad : \A k \in Bad : m <= k
    <3> HIDE DEF Good
    <3>1. Bad \in SUBSET Nat
      OBVIOUS
    <3> HIDE DEF Bad
    <3> QED  BY <3>1, Least
  <2>2. m \in Nat /\ ~Good(m) /\ \A k \in Nat : k < m => Good(k)
    <3> HIDE DEF Good
    <3> QED  BY <2>1
  <2>3. CASE m = 0
    <3> DEFINE F == [s \in SUBSET S |-> 0]
    <3>1. ASSUME NEW s \in Small(0) PROVE F[s] = Value(F, s)
      <4>1. s = {}
        BY <1>0, FS_Subset, FS_EmptySet
      <4> QED  BY <4>1
    <3>2. Good(0)
      BY <3>1
    <3> QED  BY <2>2, <2>3, <3>2
  <2>4. CASE m # 0
    <3>1. m - 1 \in Nat /\ m - 1 < m
      BY <2>2, <2>4
    <3>2. PICK F : \A s \in Small(m - 1) : F[s] = Value(F, s)
      BY <2>2, <3>1
    <3> DEFINE G == [s \in SUBSET S |-> Value(F, s)]
    <3>3. ASSUME NEW s \in Small(m) PROVE G[s] = Value(G, s)
      <4>1. CASE s = {}
        BY <4>1
      <4>2. CASE s # {}
        <5>1. s \ {Picked(s)} \in Small(m - 1)
          BY <1>0, <2>2, <4>2, Rest
        <5>2. G[s \ {Picked(s)}] = F[s \ {Picked(s)}]
          BY <3>2, <5>1
        <5> QED  BY <4>2, <5>2
      <4> QED  BY <4>1, <4>2
    <3>4. Good(m)
      BY <3>3
    <3> QED  BY <2>2, <3>4
  <2> QED  BY <2>3, <2>4
<1>2. Cardinality(S) \in Nat
  BY FS_CardinalityType
<1>3. PICK F : \A s \in Small(Cardinality(S)) : F[s] = Value(F, s)
  <2>1. Good(Cardinality(S))
    BY <1>1, <1>2
  <2> QED  BY <2>1
<1> DEFINE G == [s \in SUBSET S |-> Value(F, s)]
<1>4. ASSUME NEW s \in SUBSET S PROVE G[s] = Value(G, s)
  <2>1. ASSUME NEW u \in SUBSET S PROVE G[u] = F[u]
    <3>1. u \in Small(Cardinality(S))
      BY FS_Subset
    <3> QED  BY <1>3, <3>1
  <2>2. CASE s = {}
    BY <2>2
  <2>3. CASE s # {}
    <3>1. G[s \ {Picked(s)}] = F[s \ {Picked(s)}]
      BY <2>1, <2>3, Rest
    <3> QED  BY <2>3, <3>1
  <2> QED  BY <2>2, <2>3
<1>5. G = [s \in SUBSET S |-> Value(G, s)]
  BY <1>4
<1>6. Sums(G, S, w)
  BY <1>5 DEF Sums
<1> QED  BY <1>6

\* Sums of naturals are naturals.
LEMMA SumsAreNat ==
    ASSUME NEW S, IsFiniteSet(S), NEW w \in [S -> Nat], NEW F, Sums(F, S, w)
    PROVE  /\ F[{}] = 0
           /\ \A s \in SUBSET S : F[s] \in Nat
<1> DEFINE P == {s \in SUBSET S : F[s] \in Nat}
<1>1. \A s \in SUBSET S : F[s] = (IF s = {} THEN 0 ELSE w[Picked(s)] + F[s \ {Picked(s)}])
  BY DEF Sums
<1>2. F[{}] = 0 /\ \A s \in SUBSET S : s # {} => F[s] = w[Picked(s)] + F[s \ {Picked(s)}]
  BY <1>1
<1>3. ASSUME NEW s \in SUBSET S, s # {}, \A x \in s : s \ {x} \in P
      PROVE  s \in P
  <2>1. PICK x \in s : x = Picked(s)
    BY <1>3, Rest
  <2>2. F[s] = w[x] + F[s \ {x}]
    BY <1>2, <1>3, <2>1, Zenon
  <2> QED  BY <1>3, <2>2
<1>4. {} \in P
  <2>1. F[{}] \in Nat
    BY <1>2
  <2> QED  BY <2>1
<1>5. \A s \in SUBSET S : s \in P
  <2> HIDE DEF P
  <2> QED  BY <1>3, <1>4, SetInduction
<1> QED  BY <1>2, <1>5

\* Sums of two functions that agree on the elements of a set are the same.
LEMMA SumsAgree ==
    ASSUME NEW S, NEW T, IsFiniteSet(S), T \subseteq S,
           NEW w, NEW v, \A x \in T : w[x] = v[x],
           NEW F, Sums(F, S, w), NEW G, Sums(G, T, v)
    PROVE  \A s \in SUBSET T : F[s] = G[s]
<1>1. /\ F[{}] = 0 /\ \A s \in SUBSET S : s # {} => F[s] = w[Picked(s)] + F[s \ {Picked(s)}]
      /\ G[{}] = 0 /\ \A s \in SUBSET T : s # {} => G[s] = v[Picked(s)] + G[s \ {Picked(s)}]
  <2>1. \A s \in SUBSET S : F[s] = (IF s = {} THEN 0 ELSE w[Picked(s)] + F[s \ {Picked(s)}])
    BY DEF Sums
  <2>2. \A s \in SUBSET T : G[s] = (IF s = {} THEN 0 ELSE v[Picked(s)] + G[s \ {Picked(s)}])
    BY DEF Sums
  <2> QED  BY <2>1, <2>2
<1> DEFINE P == {s \in SUBSET T : F[s] = G[s]}
<1>2. ASSUME NEW s \in SUBSET T, s # {}, \A x \in s : s \ {x} \in P
      PROVE  s \in P
  <2>1. PICK x \in s : x = Picked(s)
    BY <1>2, FS_Subset, Rest
  <2>2. F[s] = w[x] + F[s \ {x}] /\ G[s] = v[x] + G[s \ {x}]
    BY <1>1, <1>2, <2>1, Zenon
  <2> QED  BY <1>2, <2>2
<1>3. {} \in P
  BY <1>1, Zenon
<1>4. IsFiniteSet(T)
  BY FS_Subset
<1>5. \A s \in SUBSET T : s \in P
  <2> HIDE DEF P
  <2> QED  BY <1>2, <1>3, <1>4, SetInduction
<1> QED  BY <1>5

\* Any element may be taken out of a sum, not only the one picked.
LEMMA SumsWithout ==
    ASSUME NEW S, IsFiniteSet(S), NEW w \in [S -> Nat], NEW F, Sums(F, S, w)
    PROVE  \A s \in SUBSET S : \A x \in s : F[s] = w[x] + F[s \ {x}]
<1> DEFINE Bad == {Cardinality(s) : s \in {s \in SUBSET S :
                                             \E x \in s : F[s] # w[x] + F[s \ {x}]}}
<1>1. \A s \in SUBSET S : s # {} => F[s] = w[Picked(s)] + F[s \ {Picked(s)}]
  <2>1. \A s \in SUBSET S : F[s] = (IF s = {} THEN 0 ELSE w[Picked(s)] + F[s \ {Picked(s)}])
    BY DEF Sums
  <2> QED  BY <2>1
<1>2. \A s \in SUBSET S : Cardinality(s) \in Nat
  BY FS_Subset, FS_CardinalityType
<1>3. Bad = {}
  <2> SUFFICES ASSUME Bad # {} PROVE FALSE
    OBVIOUS
  <2>1. Bad \in SUBSET Nat
    BY <1>2
  <2>2. PICK m \in Bad : \A k \in Bad : m <= k
    <3> HIDE DEF Bad
    <3> QED  BY <2>1, Least
  <2>3. PICK s \in SUBSET S : m = Cardinality(s) /\ \E x \in s : F[s] # w[x] + F[s \ {x}]
    BY <2>2
  <2>4. PICK x \in s : F[s] # w[x] + F[s \ {x}]
    BY <2>3
  <2>16. ASSUME NEW u \in SUBSET S, Cardinality(u) < m, NEW z \in u
         PROVE  F[u] = w[z] + F[u \ {z}]
    <3>1. Cardinality(u) \notin Bad
      <4> HIDE DEF Bad
      <4> QED  BY <1>2, <2>1, <2>2, <2>16
    <3> QED  BY <2>16, <3>1
  <2> HIDE DEF Bad
  <2>5. s # {}
    BY <2>4
  <2>6. PICK y : y = Picked(s)
    OBVIOUS
  <2>7. /\ y \in s /\ x \in s /\ s \ {y} \in SUBSET S /\ s \ {x} \in SUBSET S
        /\ Cardinality(s \ {y}) < m /\ Cardinality(s \ {x}) < m
    BY <2>3, <2>4, <2>5, <2>6, Rest
  <2>8. F[s] = w[y] + F[s \ {y}]
    BY <1>1, <2>5, <2>6, Zenon
  <2>9. x # y
    BY <2>4, <2>8, Zenon
  <2>10. F[s \ {y}] = w[x] + F[(s \ {y}) \ {x}]
    <3>1. x \in s \ {y}
      BY <2>7, <2>9
    <3> QED  BY <2>7, <2>16, <3>1
  <2>11. F[s \ {x}] = w[y] + F[(s \ {x}) \ {y}]
    <3>1. y \in s \ {x}
      BY <2>7, <2>9
    <3> QED  BY <2>7, <2>16, <3>1
  <2>12. PICK u \in SUBSET S : u = (s \ {y}) \ {x} /\ u = (s \ {x}) \ {y}
    OBVIOUS
  <2>13. w[x] \in Nat /\ w[y] \in Nat /\ F[u] \in Nat
    BY <2>7, <2>12, SumsAreNat
  <2>14. F[s \ {y}] = w[x] + F[u] /\ F[s \ {x}] = w[y] + F[u]
    BY <2>10, <2>11, <2>12, Zenon
  <2>15. F[s] = w[x] + F[s \ {x}]
    BY <2>8, <2>13, <2>14
  <2> QED  BY <2>4, <2>15
<1> QED  BY <1>3

----------------------------------------------------------------------------
(* The sum of a set                                                        *)

Total(S, w) == (CHOOSE F : Sums(F, S, w))[S]

\* Total is what the equation says, for every solution of it.
LEMMA TotalIs ==
    ASSUME NEW S, IsFiniteSet(S), NEW w, \A x \in S : w[x] \in Nat
    PROVE  /\ \E F : Sums(F, S, w)
           /\ \A F : Sums(F, S, w) => Total(S, w) = F[S]
           /\ Total(S, w) \in Nat
<1> DEFINE v == [x \in S |-> w[x]]
<1>1. v \in [S -> Nat] /\ v \in [S -> Int] /\ \A x \in S : v[x] = w[x]
  OBVIOUS
<1> HIDE DEF v
<1>2. PICK F : Sums(F, S, v)
  BY <1>1, SumsExist
<1>3. ASSUME NEW G PROVE Sums(G, S, w) <=> Sums(G, S, v)
  <2>1. \A s \in SUBSET S : s # {} => w[Picked(s)] = v[Picked(s)]
    BY <1>1, Rest
  <2>2. [s \in SUBSET S |-> IF s = {} THEN 0 ELSE w[Picked(s)] + G[s \ {Picked(s)}]]
          = [s \in SUBSET S |-> IF s = {} THEN 0 ELSE v[Picked(s)] + G[s \ {Picked(s)}]]
    BY <2>1
  <2> QED  BY <2>2 DEF Sums
<1>4. PICK H : H = CHOOSE G : Sums(G, S, w)
  OBVIOUS
<1>5. Sums(H, S, w) /\ Sums(H, S, v)
  BY <1>2, <1>3, <1>4
<1>6. Total(S, w) = H[S]
  BY <1>4 DEF Total
<1>7. H[S] \in Nat
  BY <1>1, <1>5, SumsAreNat
<1>8. ASSUME NEW G, Sums(G, S, w) PROVE G[S] = H[S]
  BY <1>5, <1>8, SumsAgree
<1> QED  BY <1>5, <1>6, <1>7, <1>8

\* An element taken out.
LEMMA TotalWithout ==
    ASSUME NEW S, IsFiniteSet(S), NEW w, \A x \in S : w[x] \in Nat, NEW x \in S
    PROVE  Total(S, w) = w[x] + Total(S \ {x}, w)
<1> DEFINE v == [y \in S |-> w[y]]
<1>1. v \in [S -> Nat] /\ \A y \in S : v[y] = w[y] /\ v[y] \in Nat
  OBVIOUS
<1> HIDE DEF v
<1>2. PICK F : Sums(F, S, v)
  BY <1>1, TotalIs
<1>3. PICK G : Sums(G, S \ {x}, w) /\ Total(S \ {x}, w) = G[S \ {x}]
  BY FS_Subset, TotalIs
<1>4. PICK H : Sums(H, S, w) /\ Total(S, w) = H[S]
  BY TotalIs
<1>5. H[S] = F[S]
  BY <1>1, <1>2, <1>4, SumsAgree
<1>6. F[S \ {x}] = G[S \ {x}]
  BY <1>1, <1>2, <1>3, SumsAgree
<1>7. F[S] = v[x] + F[S \ {x}]
  BY <1>1, <1>2, SumsWithout
<1> QED  BY <1>1, <1>3, <1>4, <1>5, <1>6, <1>7

\* The sum depends on the weights of its elements only.
LEMMA TotalEqual ==
    ASSUME NEW S, IsFiniteSet(S), NEW w, NEW v,
           \A x \in S : w[x] \in Nat /\ w[x] = v[x]
    PROVE  Total(S, w) = Total(S, v)
<1>1. PICK F : Sums(F, S, w) /\ Total(S, w) = F[S]
  BY TotalIs
<1>2. PICK G : Sums(G, S, v) /\ Total(S, v) = G[S]
  BY TotalIs
<1> QED  BY <1>1, <1>2, SumsAgree

\* The empty sum.
LEMMA TotalEmpty ==
    ASSUME NEW w
    PROVE  Total({}, w) = 0
<1>1. PICK F : Sums(F, {}, w) /\ Total({}, w) = F[{}]
  BY FS_EmptySet, TotalIs
<1> QED  BY <1>1 DEF Sums

\* Smaller weights, smaller sum.
LEMMA TotalMonotone ==
    ASSUME NEW S, IsFiniteSet(S), NEW w, NEW v,
           \A x \in S : w[x] \in Nat /\ v[x] \in Nat /\ w[x] <= v[x]
    PROVE  Total(S, w) <= Total(S, v)
<1> DEFINE P == {s \in SUBSET S : Total(s, w) <= Total(s, v)}
<1>1. {} \in P
  BY TotalEmpty
<1>2. ASSUME NEW s \in SUBSET S, s # {}, \A x \in s : s \ {x} \in P
      PROVE  s \in P
  <2>1. PICK x \in s : TRUE
    BY <1>2
  <2>2. IsFiniteSet(s) /\ IsFiniteSet(s \ {x})
    BY FS_Subset
  <2>3. Total(s, w) = w[x] + Total(s \ {x}, w) /\ Total(s, v) = v[x] + Total(s \ {x}, v)
    BY <2>2, TotalWithout
  <2>4. Total(s \ {x}, w) \in Nat /\ Total(s \ {x}, v) \in Nat
    BY <2>2, TotalIs
  <2>5. w[x] \in Nat /\ v[x] \in Nat /\ w[x] <= v[x] /\ Total(s \ {x}, w) <= Total(s \ {x}, v)
    BY <1>2, <2>1
  <2> QED  BY <2>3, <2>4, <2>5
<1>3. \A s \in SUBSET S : s \in P
  <2> HIDE DEF P
  <2> QED  BY <1>1, <1>2, SetInduction
<1> QED  BY <1>3

\* Nothing adds up to nothing.
LEMMA TotalZero ==
    ASSUME NEW S, IsFiniteSet(S), NEW w, \A x \in S : w[x] = 0
    PROVE  Total(S, w) = 0
<1> DEFINE P == {s \in SUBSET S : Total(s, w) = 0}
<1>1. {} \in P
  BY TotalEmpty
<1>2. ASSUME NEW s \in SUBSET S, s # {}, \A x \in s : s \ {x} \in P
      PROVE  s \in P
  <2>1. PICK x \in s : TRUE
    BY <1>2
  <2>2. Total(s, w) = w[x] + Total(s \ {x}, w)
    BY FS_Subset, TotalWithout
  <2> QED  BY <1>2, <2>1, <2>2
<1>3. S \in P
  <2> HIDE DEF P
  <2> QED  BY <1>1, <1>2, SetInduction
<1> QED  BY <1>3

\* The sum of a set is that of a part and of the rest.
LEMMA TotalSplit ==
    ASSUME NEW S, IsFiniteSet(S), NEW w, \A x \in S : w[x] \in Nat, NEW T \in SUBSET S
    PROVE  Total(S, w) = Total(T, w) + Total(S \ T, w)
<1> DEFINE R(s) == (S \ T) \cup s
           P == {s \in SUBSET T : Total(R(s), w) = Total(s, w) + Total(S \ T, w)}
<1>1. {} \in P
  <2>1. R({}) = S \ T /\ Total(S \ T, w) \in Nat
    BY FS_Subset, TotalIs
  <2> QED  BY <2>1, TotalEmpty
<1>2. ASSUME NEW s \in SUBSET T, s # {}, \A x \in s : s \ {x} \in P
      PROVE  s \in P
  <2>1. PICK x \in s : TRUE
    BY <1>2
  <2>2. R(s) \in SUBSET S /\ x \in R(s) /\ R(s) \ {x} = R(s \ {x})
    BY <2>1
  <2>3. Total(s, w) = w[x] + Total(s \ {x}, w)
    BY FS_Subset, TotalWithout
  <2>4. Total(R(s), w) = w[x] + Total(R(s \ {x}), w)
    <3> HIDE DEF R
    <3>1. IsFiniteSet(R(s)) /\ \A y \in R(s) : w[y] \in Nat
      BY <2>2, FS_Subset
    <3>2. Total(R(s), w) = w[x] + Total(R(s) \ {x}, w)
      BY <2>2, <3>1, TotalWithout
    <3> QED  BY <2>2, <3>2
  <2>5. Total(s \ {x}, w) \in Nat /\ Total(S \ T, w) \in Nat /\ w[x] \in Nat
    BY FS_Subset, TotalIs
  <2>6. Total(R(s \ {x}), w) = Total(s \ {x}, w) + Total(S \ T, w)
    BY <1>2, <2>1
  <2> HIDE DEF R
  <2>7. Total(R(s), w) = Total(s, w) + Total(S \ T, w)
    BY <2>3, <2>4, <2>5, <2>6
  <2> QED  BY <2>7
<1>3. IsFiniteSet(T)
  BY FS_Subset
<1>4. T \in P
  <2> HIDE DEF P
  <2> QED  BY <1>1, <1>2, <1>3, SetInduction
<1>5. R(T) = S
  OBVIOUS
<1> QED  BY <1>4, <1>5

\* Elements without weight add nothing.
LEMMA TotalOfPart ==
    ASSUME NEW S, IsFiniteSet(S), NEW w, \A x \in S : w[x] \in Nat, NEW T \in SUBSET S,
           \A x \in S \ T : w[x] = 0
    PROVE  Total(S, w) = Total(T, w)
<1>1. IsFiniteSet(T) /\ IsFiniteSet(S \ T)
  BY FS_Subset
<1>2. Total(S \ T, w) = 0 /\ Total(T, w) \in Nat
  BY <1>1, TotalZero, TotalIs
<1> QED  BY <1>2, TotalSplit

\* Changing the weight of one element changes the sum by as much.
LEMMA TotalStep ==
    ASSUME NEW S, IsFiniteSet(S), NEW w, NEW v,
           \A x \in S : w[x] \in Nat /\ v[x] \in Nat,
           NEW y \in S, \A x \in S \ {y} : w[x] = v[x]
    PROVE  Total(S, v) + w[y] = Total(S, w) + v[y]
<1>1. IsFiniteSet(S \ {y})
  BY FS_Subset
<1>2. Total(S, w) = w[y] + Total(S \ {y}, w) /\ Total(S, v) = v[y] + Total(S \ {y}, v)
  BY TotalWithout
<1>3. Total(S \ {y}, w) = Total(S \ {y}, v) /\ Total(S \ {y}, w) \in Nat
  BY <1>1, TotalEqual, TotalIs
<1>4. w[y] \in Nat /\ v[y] \in Nat
  OBVIOUS
<1> QED  BY <1>2, <1>3, <1>4

\* The elements may be renamed.
LEMMA TotalRenamed ==
    ASSUME NEW S, IsFiniteSet(S), NEW w, \A x \in S : w[x] \in Nat,
           NEW f, \A x, y \in S : f[x] = f[y] => x = y,
           NEW v, \A x \in S : v[f[x]] = w[x]
    PROVE  Total({f[x] : x \in S}, v) = Total(S, w)
<1> DEFINE Im(s) == {f[x] : x \in s}
           P == {s \in SUBSET S : Total(Im(s), v) = Total(s, w)}
<1>1. {} \in P
  <2>1. Im({}) = {}
    OBVIOUS
  <2> QED  BY <2>1, TotalEmpty
<1>2. ASSUME NEW s \in SUBSET S, s # {}, \A x \in s : s \ {x} \in P
      PROVE  s \in P
  <2>1. PICK x \in s : TRUE
    BY <1>2
  <2>2. IsFiniteSet(s) /\ IsFiniteSet(Im(s))
    <3>1. [y \in s |-> f[y]] \in Surjection(s, Im(s))
      BY DEF Surjection
    <3> QED  BY <3>1, FS_Subset, FS_Surjection
  <2>3. f[x] \in Im(s) /\ Im(s) \ {f[x]} = Im(s \ {x}) /\ \A y \in Im(s) : v[y] \in Nat
    OBVIOUS
  <2>4. Total(s, w) = w[x] + Total(s \ {x}, w)
    BY <2>2, TotalWithout
  <2>5. Total(Im(s), v) = v[f[x]] + Total(Im(s \ {x}), v)
    <3> HIDE DEF Im
    <3>1. Total(Im(s), v) = v[f[x]] + Total(Im(s) \ {f[x]}, v)
      BY <2>2, <2>3, TotalWithout
    <3> QED  BY <2>3, <3>1
  <2>6. Total(Im(s \ {x}), v) = Total(s \ {x}, w)
    BY <1>2, <2>1
  <2>7. v[f[x]] = w[x]
    OBVIOUS
  <2> HIDE DEF Im
  <2>8. Total(Im(s), v) = Total(s, w)
    BY <2>4, <2>5, <2>6, <2>7
  <2> QED  BY <2>8
<1>3. S \in P
  <2> HIDE DEF P
  <2> QED  BY <1>1, <1>2, SetInduction
<1> QED  BY <1>3
==============================================================================
