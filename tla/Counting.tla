----------------------------- MODULE Counting -----------------------------
(***************************************************************************)
(* Lemmas the proofs share: least numbers, powers of two, and sums         *)
(* expressed as cardinalities.                                             *)
(***************************************************************************)
EXTENDS Integers, FiniteSets, FiniteSetTheorems, WellFoundedInduction, TLAPS

(* A nonempty set of naturals has a least element.                          *)
LEMMA LeastNumber ==
    ASSUME NEW T \in SUBSET Nat, T # {}
    PROVE  \E x \in T : \A y \in T : x <= y
  <1> DEFINE R == {ss \in Nat \X Nat : ss[1] < ss[2]}
  <1>1. IsWellFoundedOn(OpToRel(<, Nat), Nat)
    BY NatLessThanWellFounded
  <1>2. IsWellFoundedOn(R, Nat)
    BY <1>1 DEF OpToRel
  <1>3. PICK x \in T : \A y \in T : ~ (<<y, x>> \in R)
    BY <1>2, WFMin, Zenon
  <1>4. ASSUME NEW y \in T PROVE x <= y
    <2>1. ~ (<<y, x>> \in R)
      BY <1>3
    <2>2. x \in Nat /\ y \in Nat
      OBVIOUS
    <2>3. <<y, x>> \in Nat \X Nat /\ <<y, x>>[1] = y /\ <<y, x>>[2] = x
      BY <2>2
    <2>4. ~(y < x)
      BY <2>1, <2>3
    <2> QED BY <2>2, <2>4
  <1> QED BY <1>4

(* Induction, stated of a set of numbers.                                   *)
LEMMA AllNumbers ==
    ASSUME NEW T, 0 \in T, \A n \in Nat : n \in T => n + 1 \in T
    PROVE  Nat \subseteq T
  <1> SUFFICES ASSUME Nat \ T # {} PROVE FALSE
    OBVIOUS
  <1>1. PICK x \in Nat \ T : \A y \in Nat \ T : x <= y
    BY LeastNumber
  <1>2. x \in Nat /\ x # 0 /\ x \notin T
    BY <1>1
  <1>3. x - 1 \in Nat /\ ~(x <= x - 1)
    BY <1>2
  <1>4. x - 1 \in T
    BY <1>1, <1>3
  <1>5. (x - 1) + 1 \in T
    BY <1>3, <1>4
  <1> QED BY <1>2, <1>5
-----------------------------------------------------------------------------
(* 2^n counts the subsets of 1..n.                                          *)
LEMMA PowerIsCount ==
    ASSUME NEW n \in Nat
    PROVE  /\ IsFiniteSet(SUBSET (1..n)) /\ Cardinality(SUBSET (1..n)) = 2^n
           /\ 2^n \in Nat
  <1>1. IsFiniteSet(1..n) /\ Cardinality(1..n) = n
    BY FS_Interval
  <1>2. IsFiniteSet(SUBSET (1..n)) /\ Cardinality(SUBSET (1..n)) = 2^Cardinality(1..n)
    BY <1>1, FS_SUBSET
  <1>3. Cardinality(SUBSET (1..n)) = 2^n
    BY <1>1, <1>2
  <1> QED BY <1>2, <1>3, FS_CardinalityType

(* It grows with n, from 1.                                                 *)
LEMMA PowerGrows ==
    ASSUME NEW m \in Nat, NEW n \in Nat, m <= n
    PROVE  2^m <= 2^n /\ 1 <= 2^m
  <1>1. (SUBSET (1..m)) \in SUBSET (SUBSET (1..n))
    OBVIOUS
  <1>2. 2^m <= 2^n
    <2>1. Cardinality(SUBSET (1..m)) <= Cardinality(SUBSET (1..n))
      BY <1>1, PowerIsCount, FS_Subset
    <2> QED BY <2>1, PowerIsCount
  <1>3. {} \in SUBSET (1..m)
    OBVIOUS
  <1>4. Cardinality(SUBSET (1..m)) # 0
    BY <1>3, PowerIsCount, FS_EmptySet
  <1>5. 1 <= Cardinality(SUBSET (1..m))
    <2>1. Cardinality(SUBSET (1..m)) \in Nat
      BY PowerIsCount, FS_CardinalityType
    <2> QED BY <1>4, <2>1
  <1>6. Cardinality(SUBSET (1..m)) = 2^m
    BY PowerIsCount
  <1> QED BY <1>2, <1>5, <1>6

(* One more element doubles it: every subset may have the element or not.   *)
LEMMA PowerDoubles ==
    ASSUME NEW n \in Nat
    PROVE  2^(n + 1) = 2^n + 2^n
  <1> DEFINE A == SUBSET (1..n)
             B == {X \in SUBSET (1..(n + 1)) : n + 1 \in X}
             f == [X \in A |-> X \cup {n + 1}]
  <1>1. SUBSET (1..(n + 1)) = A \cup B
    <2>1. ASSUME NEW X \in SUBSET (1..(n + 1)), n + 1 \notin X PROVE X \in A
      <3>1. \A x \in X : x \in 1..n
        BY <2>1
      <3> QED BY <3>1
    <2>2. A \subseteq SUBSET (1..(n + 1))
      OBVIOUS
    <2> QED BY <2>1, <2>2
  <1>2. A \cap B = {}
    <2>1. ASSUME NEW X \in A, n + 1 \in X PROVE FALSE
      <3>1. n + 1 \in 1..n
        BY <2>1
      <3> QED BY <3>1
    <2> QED BY <2>1
  <1>3. f \in Bijection(A, B)
    <2>1. ASSUME NEW X \in A PROVE X \cup {n + 1} \in B
      <3>1. 1..n \subseteq 1..(n + 1) /\ n + 1 \in 1..(n + 1)
        OBVIOUS
      <3>2. X \cup {n + 1} \in SUBSET (1..(n + 1))
        BY <3>1
      <3> QED BY <3>2
    <2>2. f \in [A -> B]
      BY <2>1
    <2>3. ASSUME NEW X \in A, NEW Y \in A, X \cup {n + 1} = Y \cup {n + 1} PROVE X = Y
      <3>1. n + 1 \notin X /\ n + 1 \notin Y
        OBVIOUS
      <3> QED BY <2>3, <3>1
    <2>4. ASSUME NEW Y \in B PROVE \E X \in A : X \cup {n + 1} = Y
      <3>1. \A y \in Y \ {n + 1} : y \in 1..n
        OBVIOUS
      <3>2. Y \ {n + 1} \in A
        BY <3>1
      <3>3. (Y \ {n + 1}) \cup {n + 1} = Y
        OBVIOUS
      <3> QED BY <3>2, <3>3
    <2>5. /\ \A X, Y \in A : f[X] = f[Y] => X = Y
          /\ \A Y \in B : \E X \in A : f[X] = Y
      BY <2>3, <2>4
    <2> HIDE DEF f, A, B
    <2>6. f \in Injection(A, B)
      BY <2>2, <2>5 DEF Injection, IsInjective
    <2>7. f \in Surjection(A, B)
      BY <2>2, <2>5 DEF Surjection
    <2> QED BY <2>6, <2>7 DEF Bijection
  <1>4. IsFiniteSet(A) /\ Cardinality(A) = 2^n /\ 2^n \in Nat
    BY PowerIsCount
  <1>5. ExistsBijection(A, B)
    BY <1>3 DEF ExistsBijection
  <1>6. IsFiniteSet(B) /\ Cardinality(B) = 2^n
    <2> HIDE DEF A, B
    <2> QED BY <1>4, <1>5, FS_Bijection
  <1>7. Cardinality(A \cup B) = 2^n + 2^n
    <2> HIDE DEF A, B
    <2>1. Cardinality(A \cup B) = Cardinality(A) + Cardinality(B) - Cardinality(A \cap B)
      BY <1>4, <1>6, FS_Union
    <2>2. Cardinality(A \cap B) = 0
      BY <1>2, FS_EmptySet
    <2> QED BY <1>4, <1>6, <2>1, <2>2
  <1>8. Cardinality(SUBSET (1..(n + 1))) = 2^(n + 1)
    BY PowerIsCount
  <1> QED BY <1>1, <1>7, <1>8

-----------------------------------------------------------------------------
(* Sums without a sum: a function f to 0..m stands for the set of pairs     *)
(* <<s, i>> with i <= f[s].                                                 *)
Units(S, m, f) == {x \in S \X (1..m) : x[2] <= f[x[1]]}

(* There are finitely many.                                                 *)
LEMMA UnitsFinite ==
    ASSUME NEW S, IsFiniteSet(S), NEW m \in Nat, NEW f \in [S -> 0..m]
    PROVE  IsFiniteSet(Units(S, m, f)) /\ Cardinality(Units(S, m, f)) \in Nat
  <1>1. IsFiniteSet(1..m)
    BY FS_Interval
  <1>2. IsFiniteSet(S \X (1..m))
    BY <1>1, FS_Product
  <1>3. Units(S, m, f) \in SUBSET (S \X (1..m))
    BY DEF Units
  <1>4. IsFiniteSet(Units(S, m, f))
    BY <1>2, <1>3, FS_Subset
  <1> QED BY <1>4, FS_CardinalityType

(* No unit is added.                                                        *)
LEMMA UnitsLess ==
    ASSUME NEW S, IsFiniteSet(S), NEW m \in Nat, NEW f \in [S -> 0..m], NEW g \in [S -> 0..m],
           \A s \in S : g[s] <= f[s]
    PROVE  Cardinality(Units(S, m, g)) <= Cardinality(Units(S, m, f))
  <1>1. Units(S, m, g) \in SUBSET Units(S, m, f)
    <2>1. ASSUME NEW x \in S \X (1..m), x[2] <= g[x[1]] PROVE x[2] <= f[x[1]]
      <3>1. x[1] \in S /\ x[2] \in 1..m
        OBVIOUS
      <3>2. g[x[1]] <= f[x[1]] /\ g[x[1]] \in 0..m /\ f[x[1]] \in 0..m
        BY <3>1
      <3> QED BY <2>1, <3>1, <3>2
    <2> QED BY <2>1 DEF Units
  <1>2. IsFiniteSet(Units(S, m, f))
    BY UnitsFinite
  <1> QED BY <1>1, <1>2, FS_Subset

(* One unit of a is spent.                                                  *)
LEMMA UnitsSpend ==
    ASSUME NEW S, IsFiniteSet(S), NEW m \in Nat, NEW f \in [S -> 0..m], NEW g \in [S -> 0..m],
           \A s \in S : g[s] <= f[s], NEW a \in S, g[a] < f[a]
    PROVE  Cardinality(Units(S, m, g)) + 1 <= Cardinality(Units(S, m, f))
  <1>1. PICK y : y = <<a, f[a]>>
    OBVIOUS
  <1>2. f[a] \in 1..m /\ g[a] \in 0..m
    OBVIOUS
  <1>3. y \in Units(S, m, f) /\ y \notin Units(S, m, g)
    BY <1>1, <1>2 DEF Units
  <1>4. Units(S, m, g) \in SUBSET Units(S, m, f)
    <2>1. ASSUME NEW x \in S \X (1..m), x[2] <= g[x[1]] PROVE x[2] <= f[x[1]]
      <3>1. x[1] \in S /\ x[2] \in 1..m
        OBVIOUS
      <3>2. g[x[1]] <= f[x[1]] /\ g[x[1]] \in 0..m /\ f[x[1]] \in 0..m
        BY <3>1
      <3> QED BY <2>1, <3>1, <3>2
    <2> QED BY <2>1 DEF Units
  <1>5. Units(S, m, g) \cup {y} \in SUBSET Units(S, m, f)
    BY <1>3, <1>4
  <1>6. IsFiniteSet(Units(S, m, f)) /\ IsFiniteSet(Units(S, m, g))
    BY UnitsFinite
  <1>7. Cardinality(Units(S, m, g) \cup {y}) = Cardinality(Units(S, m, g)) + 1
    BY <1>3, <1>6, FS_AddElement
  <1> QED BY <1>5, <1>6, <1>7, FS_Subset

(* Units of a move to b.                                                    *)
LEMMA UnitsMove ==
    ASSUME NEW S, IsFiniteSet(S), NEW m \in Nat, NEW f \in [S -> 0..m], NEW g \in [S -> 0..m],
           NEW a \in S, NEW b \in S, a # b, g[a] + g[b] <= f[a],
           \A s \in S \ {a, b} : g[s] <= f[s]
    PROVE  Cardinality(Units(S, m, g)) <= Cardinality(Units(S, m, f))
  <1> DEFINE Z == Units(S, m, g)
             h == [x \in Z |-> IF x[1] = b THEN <<a, g[a] + x[2]>> ELSE x]
  <1>0. g[a] \in 0..m /\ g[b] \in 0..m /\ f[a] \in 0..m
    OBVIOUS
  <1>1. ASSUME NEW x \in Z, x[1] = b
        PROVE  <<a, g[a] + x[2]>> \in Units(S, m, f)
    <2>1. x[2] \in 1..m /\ x[2] <= g[b]
      BY <1>1 DEF Units
    <2>2. g[a] + x[2] \in 1..m /\ g[a] + x[2] <= f[a]
      BY <1>0, <2>1
    <2> QED BY <2>2 DEF Units
  <1>2. ASSUME NEW x \in Z, x[1] # b PROVE x \in Units(S, m, f)
    <2>1. x \in S \X (1..m) /\ x[1] \in S /\ x[2] \in 1..m /\ x[2] <= g[x[1]]
      BY DEF Units
    <2>2. g[x[1]] <= f[x[1]] /\ g[x[1]] \in 0..m /\ f[x[1]] \in 0..m
      BY <1>0, <1>2, <2>1
    <2>3. x[2] <= f[x[1]]
      BY <2>1, <2>2
    <2> QED BY <2>1, <2>3 DEF Units
  <1>3. h \in [Z -> Units(S, m, f)]
    BY <1>1, <1>2
  <1>4. ASSUME NEW x \in Z, NEW y \in Z, h[x] = h[y] PROVE x = y
    <2>1. /\ x \in S \X (1..m) /\ x[2] \in 1..m /\ x[2] <= g[x[1]]
          /\ y \in S \X (1..m) /\ y[2] \in 1..m /\ y[2] <= g[y[1]]
      BY DEF Units
    <2>2. CASE x[1] = b /\ y[1] = b
      <3>1. <<a, g[a] + x[2]>> = <<a, g[a] + y[2]>>
        BY <1>4, <2>2
      <3>2. x[2] = y[2]
        BY <1>0, <2>1, <3>1
      <3> QED BY <2>1, <2>2, <3>2
    <2>3. CASE x[1] = b /\ y[1] # b
      <3>1. y = <<a, g[a] + x[2]>>
        BY <1>4, <2>3
      <3>2. y[1] = a /\ y[2] = g[a] + x[2]
        BY <3>1
      <3> QED BY <1>0, <2>1, <3>2
    <2>4. CASE x[1] # b /\ y[1] = b
      <3>1. x = <<a, g[a] + y[2]>>
        BY <1>4, <2>4
      <3>2. x[1] = a /\ x[2] = g[a] + y[2]
        BY <3>1
      <3> QED BY <1>0, <2>1, <3>2
    <2>5. CASE x[1] # b /\ y[1] # b
      BY <1>4, <2>5
    <2> QED BY <2>2, <2>3, <2>4, <2>5
  <1>5. h \in Injection(Z, Units(S, m, f))
    <2> HIDE DEF h, Z
    <2> QED BY <1>3, <1>4 DEF Injection, IsInjective
  <1>6. IsFiniteSet(Units(S, m, f))
    BY UnitsFinite
  <1> HIDE DEF h, Z
  <1>7. Cardinality(Z) <= Cardinality(Units(S, m, f))
    BY <1>5, <1>6, FS_Injection
  <1> QED BY <1>7 DEF Z

(* There are at least as many units as places that have one.                *)
LEMMA UnitsAtLeast ==
    ASSUME NEW S, IsFiniteSet(S), NEW m \in Nat, NEW f \in [S -> 0..m],
           NEW n \in Nat, 1..n \subseteq S, \A s \in 1..n : 1 <= f[s]
    PROVE  n <= Cardinality(Units(S, m, f))
  <1> DEFINE h == [s \in 1..n |-> <<s, 1>>]
  <1>1. ASSUME NEW s \in 1..n PROVE <<s, 1>> \in Units(S, m, f)
    <2>1. s \in S /\ f[s] \in 0..m /\ 1 <= f[s]
      OBVIOUS
    <2>2. 1 \in 1..m
      BY <2>1
    <2> QED BY <2>1, <2>2 DEF Units
  <1>2. h \in Injection(1..n, Units(S, m, f))
    <2>1. h \in [1..n -> Units(S, m, f)]
      BY <1>1
    <2>2. \A s, u \in 1..n : h[s] = h[u] => s = u
      <3>1. \A s, u \in 1..n : <<s, 1>> = <<u, 1>> => s = u
        OBVIOUS
      <3> QED BY <3>1
    <2> HIDE DEF h
    <2> QED BY <2>1, <2>2 DEF Injection, IsInjective
  <1>3. IsFiniteSet(Units(S, m, f))
    BY UnitsFinite
  <1>4. Cardinality(1..n) <= Cardinality(Units(S, m, f))
    <2> HIDE DEF h
    <2> QED BY <1>2, <1>3, FS_Injection
  <1> QED BY <1>4, FS_Interval

(* All the units are at one place.                                          *)
LEMMA UnitsAtOne ==
    ASSUME NEW S, IsFiniteSet(S), NEW m \in Nat, NEW f \in [S -> 0..m], NEW a \in S,
           \A s \in S \ {a} : f[s] = 0
    PROVE  Cardinality(Units(S, m, f)) <= m
  <1> DEFINE h == [x \in Units(S, m, f) |-> x[2]]
  <1>1. ASSUME NEW x \in Units(S, m, f) PROVE x = <<a, x[2]>> /\ x[2] \in 1..m
    <2>1. x \in S \X (1..m) /\ x[2] <= f[x[1]]
      BY DEF Units
    <2>2. x[1] = a
      BY <2>1
    <2> QED BY <2>1, <2>2
  <1>2. h \in [Units(S, m, f) -> 1..m]
    BY <1>1
  <1>3. \A x, y \in Units(S, m, f) : h[x] = h[y] => x = y
    BY <1>1
  <1> HIDE DEF h
  <1>4. h \in Injection(Units(S, m, f), 1..m)
    BY <1>2, <1>3 DEF Injection, IsInjective
  <1>5. Cardinality(Units(S, m, f)) <= Cardinality(1..m)
    BY <1>4, FS_Injection, FS_Interval
  <1>6. Cardinality(1..m) = m
    BY FS_Interval
  <1> QED BY <1>5, <1>6
=============================================================================
