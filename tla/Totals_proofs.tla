---------------------------- MODULE Totals_proofs ----------------------------
(* What a sum is and how it changes when one summand changes; induction    *)
(* over the naturals, and the functions that are defined by it.            *)
EXTENDS Totals, FiniteSetTheorems, NaturalsInduction, WellFoundedInduction, TLAPS

(* The units of a natural-valued function over a finite set are finitely many. *)
LEMMA UnitsFinite ==
    ASSUME NEW S, IsFiniteSet(S), NEW f, \A c \in S : f[c] \in Nat
    PROVE  IsFiniteSet(Units(f, S)) /\ Total(f, S) \in Nat
<1> DEFINE blocks == {{c} \X (1..f[c]) : c \in S}
           block  == [c \in S |-> {c} \X (1..f[c])]
<1>1. block \in Surjection(S, blocks)
  BY DEF Surjection
<1>2. IsFiniteSet(blocks)
  BY <1>1, FS_Surjection
<1>3. ASSUME NEW c \in S  PROVE IsFiniteSet({c} \X (1..f[c]))
  <2>1. IsFiniteSet({c})
    BY FS_Singleton
  <2>2. IsFiniteSet(1..f[c])
    BY FS_Interval
  <2> QED  BY <2>1, <2>2, FS_Product
<1>4. IsFiniteSet(UNION blocks)
  <2>1. \A T \in blocks : IsFiniteSet(T)
    BY <1>3
  <2> HIDE DEF blocks
  <2> QED  BY <1>2, <2>1, FS_UNION
<1> QED  BY <1>4, FS_CardinalityType DEF Units, Total

(* A sum is the summand of one element plus the sum over the others. *)
LEMMA TotalSplit ==
    ASSUME NEW S, IsFiniteSet(S), NEW f, \A x \in S : f[x] \in Nat, NEW c \in S
    PROVE  /\ Total(f, S \ {c}) \in Nat
           /\ Total(f, S) = f[c] + Total(f, S \ {c})
<1> DEFINE mine == {c} \X (1..f[c])
           rest == Units(f, S \ {c})
<1>1. IsFiniteSet(S \ {c})
  BY FS_Difference
<1>2. IsFiniteSet(rest) /\ Total(f, S \ {c}) \in Nat
  BY <1>1, UnitsFinite
<1>3. IsFiniteSet(mine) /\ Cardinality(mine) = f[c]
  <2>1. IsFiniteSet({c}) /\ Cardinality({c}) = 1
    BY FS_Singleton
  <2>2. IsFiniteSet(1..f[c]) /\ Cardinality(1..f[c]) = f[c]
    BY FS_Interval
  <2> QED  BY <2>1, <2>2, FS_Product
<1>4. Units(f, S) = mine \cup rest
  BY DEF Units
<1>5. mine \cap rest = {}
  BY DEF Units
<1>6. Cardinality(mine \cup rest) = Cardinality(mine) + Cardinality(rest)
  <2>1. Cardinality(mine \cap rest) = 0
    BY <1>5, FS_EmptySet
  <2>2. Cardinality(rest) \in Nat
    BY <1>2 DEF Total
  <2>3. Cardinality(mine) \in Nat
    BY <1>3
  <2> HIDE DEF mine, rest
  <2>4. Cardinality(mine \cup rest)
          = Cardinality(mine) + Cardinality(rest) - Cardinality(mine \cap rest)
    BY <1>2, <1>3, FS_Union
  <2> QED  BY <2>1, <2>2, <2>3, <2>4
<1> QED  BY <1>2, <1>3, <1>4, <1>6 DEF Total

(* Replacing one summand changes the sum by the difference of the two values. *)
LEMMA TotalUpdate ==
    ASSUME NEW S, IsFiniteSet(S), NEW f \in [S -> Nat], NEW c \in S, NEW v \in Nat
    PROVE  /\ Total(f, S) \in Nat
           /\ Total([f EXCEPT ![c] = v], S) \in Nat
           /\ Total([f EXCEPT ![c] = v], S) + f[c] = Total(f, S) + v
<1> DEFINE g == [f EXCEPT ![c] = v]
<1>1. g \in [S -> Nat] /\ g[c] = v
  OBVIOUS
<1>2. Units(g, S \ {c}) = Units(f, S \ {c})
  BY DEF Units
<1>3. Total(g, S \ {c}) = Total(f, S \ {c})
  BY <1>2 DEF Total
<1> HIDE DEF g
<1>4. Total(f, S \ {c}) \in Nat /\ Total(f, S) = f[c] + Total(f, S \ {c})
  BY TotalSplit
<1>5. Total(g, S) = v + Total(g, S \ {c})
  BY <1>1, TotalSplit
<1>6. f[c] \in Nat
  OBVIOUS
<1>7. /\ Total(f, S) \in Nat
      /\ Total(g, S) \in Nat
      /\ Total(g, S) + f[c] = Total(f, S) + v
  BY <1>3, <1>4, <1>5, <1>6
<1> QED  BY <1>7 DEF g

(* One summand changes and the others stay. *)
LEMMA TotalMoves ==
    ASSUME NEW S, IsFiniteSet(S), NEW f \in [S -> Nat], NEW g \in [S -> Nat], NEW c \in S,
           \A x \in S \ {c} : g[x] = f[x]
    PROVE  /\ Total(f, S) \in Nat /\ Total(g, S) \in Nat
           /\ Total(g, S) + f[c] = Total(f, S) + g[c]
<1>1. g = [f EXCEPT ![c] = g[c]] /\ g[c] \in Nat
  OBVIOUS
<1> QED  BY <1>1, TotalUpdate

(* A sum is at least each of its summands, and zero when all of them are. *)
LEMMA TotalBounds ==
    ASSUME NEW S, IsFiniteSet(S), NEW f \in [S -> Nat]
    PROVE  /\ Total(f, S) \in Nat
           /\ \A c \in S : f[c] <= Total(f, S)
           /\ (\A c \in S : f[c] = 0) => Total(f, S) = 0
<1>1. Total(f, S) \in Nat
  BY UnitsFinite
<1>2. ASSUME NEW c \in S  PROVE f[c] <= Total(f, S)
  <2>1. Total(f, S \ {c}) \in Nat /\ Total(f, S) = f[c] + Total(f, S \ {c})
    BY TotalSplit
  <2> QED  BY <2>1
<1>3. ASSUME \A c \in S : f[c] = 0  PROVE Total(f, S) = 0
  <2>1. Units(f, S) = {}
    BY <1>3 DEF Units
  <2> QED  BY <2>1, FS_EmptySet DEF Total
<1> QED  BY <1>1, <1>2, <1>3

(* A sum of no larger summands is no larger. *)
LEMMA TotalMonotone ==
    ASSUME NEW S, IsFiniteSet(S), NEW f, NEW g,
           \A x \in S : f[x] \in Nat /\ g[x] \in Nat /\ g[x] <= f[x]
    PROVE  Total(g, S) \in Nat /\ Total(f, S) \in Nat /\ Total(g, S) <= Total(f, S)
<1>1. Units(g, S) \subseteq Units(f, S)
  <2>1. \A x \in S : 1..g[x] \subseteq 1..f[x]
    OBVIOUS
  <2> QED  BY <2>1 DEF Units
<1>2. IsFiniteSet(Units(f, S)) /\ Total(f, S) \in Nat /\ Total(g, S) \in Nat
  BY UnitsFinite
<1> QED  BY <1>1, <1>2, FS_Subset DEF Total

(* One summand changes and the others do not grow. *)
LEMMA TotalStep ==
    ASSUME NEW S, IsFiniteSet(S), NEW f, NEW g, NEW c \in S,
           \A x \in S : f[x] \in Nat /\ g[x] \in Nat,
           \A x \in S \ {c} : g[x] <= f[x]
    PROVE  /\ Total(f, S) \in Nat /\ Total(g, S) \in Nat
           /\ Total(g, S) + f[c] <= Total(f, S) + g[c]
<1>1. IsFiniteSet(S \ {c})
  BY FS_Difference
<1>2. /\ Total(f, S \ {c}) \in Nat /\ Total(f, S) = f[c] + Total(f, S \ {c})
      /\ Total(g, S \ {c}) \in Nat /\ Total(g, S) = g[c] + Total(g, S \ {c})
  BY TotalSplit
<1>3. Total(g, S \ {c}) <= Total(f, S \ {c})
  BY <1>1, TotalMonotone
<1>4. f[c] \in Nat /\ g[c] \in Nat
  OBVIOUS
<1> QED  BY <1>2, <1>3, <1>4

-----------------------------------------------------------------------------
(* A set of naturals that is not empty has a least element.                *)
LEMMA Smallest ==
    ASSUME NEW S, S \subseteq Nat, S # {}
    PROVE  \E n \in S : \A m \in S : n <= m
<1>1. PICK n \in S : \A m \in S : <<m, n>> \notin OpToRel(<, Nat)
  BY WFMin, NatLessThanWellFounded, Zenon
<1>2. \A m \in S : ~(m < n)
  BY <1>1, Zenon DEF OpToRel
<1> QED  BY <1>2

(* Induction, over a set instead of a formula.                             *)
LEMMA Induct ==
    ASSUME NEW S, 0 \in S, \A n \in Nat : n \in S => n + 1 \in S
    PROVE  Nat \subseteq S
<1> SUFFICES ASSUME Nat \ S # {}  PROVE FALSE
  OBVIOUS
<1>1. PICK n \in Nat \ S : \A m \in Nat \ S : n <= m
  BY Smallest
<1>2. n - 1 \in Nat /\ n - 1 \in S
  BY <1>1
<1> QED  BY <1>1, <1>2

(* What holds of the first value and is passed on holds of all.            *)
LEMMA KeptAlong ==
    ASSUME NEW n \in Nat, NEW f, NEW S, f[0] \in S,
           \A i \in 1..n : f[i-1] \in S => f[i] \in S
    PROVE  \A i \in 0..n : f[i] \in S
<1> DEFINE T == {k \in Nat : k <= n => f[k] \in S}
<1>1. 0 \in T
  OBVIOUS
<1>2. ASSUME NEW k \in Nat, k \in T  PROVE k + 1 \in T
  <2> SUFFICES ASSUME k + 1 <= n  PROVE f[k+1] \in S
    OBVIOUS
  <2>1. k + 1 \in 1..n /\ (k + 1) - 1 = k /\ f[k] \in S
    BY <1>2
  <2> QED  BY <2>1
<1>3. Nat \subseteq T
  <2> HIDE DEF T
  <2> QED  BY <1>1, <1>2, Induct
<1> QED  BY <1>3

(* The values of a sequence from 0 to n have a highest one.                *)
LEMMA Highest ==
    ASSUME NEW n \in Nat, NEW f, \A i \in 0..n : f[i] \in Int
    PROVE  \E j \in 0..n : \A i \in 0..n : f[i] <= f[j]
<1> DEFINE T == {k \in Nat : k <= n => \E j \in 0..k : \A i \in 0..k : f[i] <= f[j]}
<1>1. 0 \in T
  OBVIOUS
<1>2. ASSUME NEW k \in Nat, k \in T  PROVE k + 1 \in T
  <2> SUFFICES ASSUME k + 1 <= n  PROVE \E j \in 0..(k+1) : \A i \in 0..(k+1) : f[i] <= f[j]
    OBVIOUS
  <2>1. PICK j \in 0..k : \A i \in 0..k : f[i] <= f[j]
    BY <1>2
  <2>2. f[j] \in Int /\ f[k+1] \in Int /\ \A i \in 0..(k+1) : f[i] \in Int
    OBVIOUS
  <2>3. CASE f[k+1] <= f[j]
    BY <2>1, <2>2, <2>3
  <2>4. CASE ~(f[k+1] <= f[j])
    BY <2>1, <2>2, <2>4
  <2> QED  BY <2>3, <2>4
<1>3. Nat \subseteq T
  <2> HIDE DEF T
  <2> QED  BY <1>1, <1>2, Induct
<1> QED  BY <1>3

(* r starts with b, and g gives each next value from its number and the    *)
(* value before.                                                           *)
Accumulates(r, n, b, g) == r[0] = b /\ \A i \in 1..n : r[i] = g[<<i, r[i-1]>>]

(* Such a sequence exists: what LET f[i \in 0..n] == ... defines is one.   *)
LEMMA Accumulation ==
    ASSUME NEW n \in Nat, NEW S, NEW b \in S, NEW g \in [(1..n) \X S -> S]
    PROVE  \E r \in [0..n -> S] : Accumulates(r, n, b, g)
<1> DEFINE Ok(k, r) == r \in [0..k -> S] /\ r[0] = b /\ \A i \in 1..k : r[i] = g[<<i, r[i-1]>>]
           T == {k \in Nat : k <= n => \E r : Ok(k, r)}
<1>1. 0 \in T
  <2> DEFINE r == [i \in 0..0 |-> b]
  <2>1. Ok(0, r)
    OBVIOUS
  <2> QED BY <2>1
<1>2. ASSUME NEW k \in Nat, k \in T PROVE k + 1 \in T
  <2> SUFFICES ASSUME k + 1 <= n PROVE \E r : Ok(k + 1, r)
    OBVIOUS
  <2>1. PICK r : Ok(k, r)
    BY <1>2
  <2> DEFINE v == g[<<k + 1, r[k]>>]
             q == [i \in 0..(k+1) |-> IF i = k + 1 THEN v ELSE r[i]]
  <2>2. r[k] \in S /\ k + 1 \in 1..n
    BY <2>1
  <2>3. v \in S
    BY <2>2
  <2> HIDE DEF v
  <2>4. q \in [0..(k+1) -> S] /\ q[0] = b /\ q[k+1] = v /\ \A i \in 0..k : q[i] = r[i]
    BY <2>1, <2>3
  <2>5. ASSUME NEW i \in 1..(k+1) PROVE q[i] = g[<<i, q[i-1]>>]
    <3>1. CASE i = k + 1
      <4>1. q[i-1] = r[k]
        BY <2>4, <3>1
      <4> QED BY <2>4, <3>1, <4>1 DEF v
    <3>2. CASE i # k + 1
      <4>1. i \in 1..k /\ i \in 0..k /\ i - 1 \in 0..k
        BY <2>5, <3>2
      <4> QED BY <2>1, <2>4, <4>1
    <3> QED BY <3>1, <3>2
  <2> HIDE DEF q
  <2>6. Ok(k + 1, q)
    BY <2>4, <2>5
  <2> QED BY <2>6
<1>3. Nat \subseteq T
  <2> HIDE DEF T
  <2> QED BY <1>1, <1>2, Induct
<1> QED BY <1>3 DEF Accumulates
=============================================================================
