----------------------------- MODULE AmountSums -----------------------------
(***************************************************************************)
(* What the proofs about sums of amounts rest on: the fold of a function   *)
(* with + is what a sum should be, for finite domains and natural values.  *)
(*                                                                         *)
(* A fold is a recursive function over the subsets of its domain, taken    *)
(* apart in an order nobody knows.  To be rid of the order, the fold is    *)
(* shown to be a number of units: the pairs of an index and one of the     *)
(* units of its amount.                                                    *)
(***************************************************************************)
EXTENDS Integers, FiniteSets, Functions, FiniteSetTheorems, TLAPS

\* Induction, as a fact about a set: a set with 0 that has with every natural
\* the next one has them all.  Otherwise adding 1 would map its members below
\* a missing number into themselves one to one, but not onto.
LEMMA NaturalsIn ==
  ASSUME NEW S, 0 \in S, \A n \in Nat : n \in S => n + 1 \in S
  PROVE  Nat \subseteq S
<1> SUFFICES ASSUME NEW m \in Nat, m \notin S PROVE FALSE
  OBVIOUS
<1> DEFINE A == {n \in 0 .. m : n \in S}
           f == [n \in A |-> n + 1]
<1>1. IsFiniteSet(A)
  <2>1. IsFiniteSet(0 .. m)
    BY FS_Interval
  <2> QED
    BY <2>1, FS_Subset
<1>2. f \in Injection(A, A)
  <2>1. \A n \in A : n + 1 \in A
    OBVIOUS
  <2> QED
    BY <2>1 DEF Injection, IsInjective
<1>3. f \in Surjection(A, A)
  BY <1>1, <1>2, FS_Injection
<1>4. PICK n \in A : f[n] = 0
  <2>1. 0 \in A
    OBVIOUS
  <2>2. \A t \in A : \E s \in A : f[s] = t
    BY <1>3 DEF Surjection
  <2> QED
    BY <2>1, <2>2
<1> QED
  BY <1>4

\* The units of the amounts of some indices.
Units(f, T) == {unit \in T \X Nat : unit[2] \in 1 .. f[unit[1]]}

\* One more index brings as many units as its amount.
LEMMA OneMoreAmount ==
  ASSUME NEW S, NEW f \in [S -> Nat], NEW T \in SUBSET S,
         NEW x \in S, x \notin T, IsFiniteSet(Units(f, T))
  PROVE  /\ IsFiniteSet(Units(f, T \cup {x}))
         /\ Cardinality(Units(f, T)) \in Nat
         /\ Cardinality(Units(f, T \cup {x})) = Cardinality(Units(f, T)) + f[x]
<1> DEFINE New == {x} \X (1 .. f[x])
<1>1. f[x] \in Nat
  OBVIOUS
<1>2. IsFiniteSet(New) /\ Cardinality(New) = f[x]
  <2>1. IsFiniteSet(1 .. f[x]) /\ Cardinality(1 .. f[x]) = f[x]
    BY <1>1, FS_Interval
  <2>2. IsFiniteSet({x}) /\ Cardinality({x}) = 1
    BY FS_Singleton
  <2>3. /\ IsFiniteSet(New)
        /\ Cardinality(New) = Cardinality({x}) * Cardinality(1 .. f[x])
    <3>1. IsFiniteSet({x}) /\ IsFiniteSet(1 .. f[x])
      BY <2>1, <2>2
    <3> QED
      BY <3>1, FS_Product
  <2> HIDE DEF New
  <2> QED
    BY <1>1, <2>1, <2>2, <2>3
<1>3. Units(f, T \cup {x}) = Units(f, T) \cup New
  BY <1>1 DEF Units
<1>4. Units(f, T) \cap New = {}
  BY DEF Units
<1> HIDE DEF New
<1>5. /\ IsFiniteSet(Units(f, T) \cup New)
      /\ Cardinality(Units(f, T) \cup New)
           = Cardinality(Units(f, T)) + Cardinality(New) - Cardinality({})
  BY <1>2, <1>4, FS_Union
<1>6. Cardinality({}) = 0
  BY FS_EmptySet
<1>7. Cardinality(Units(f, T)) \in Nat
  BY FS_CardinalityType
<1>8. Cardinality(Units(f, T) \cup New) = Cardinality(Units(f, T)) + f[x]
  BY <1>1, <1>2, <1>4, <1>5, <1>6, <1>7
<1> QED
  BY <1>3, <1>5, <1>7, <1>8

\* Taking an index out of a finite set.
LEMMA OneLess ==
  ASSUME NEW T, IsFiniteSet(T), NEW n \in Nat, Cardinality(T) = n + 1
  PROVE  /\ T # {}
         /\ \A x \in T : /\ IsFiniteSet(T \ {x}) /\ Cardinality(T \ {x}) = n
                         /\ T = (T \ {x}) \cup {x}
<1>1. T # {}
  BY FS_EmptySet
<1>2. ASSUME NEW x \in T
      PROVE  IsFiniteSet(T \ {x}) /\ Cardinality(T \ {x}) = n
  BY FS_RemoveElement
<1> QED
  BY <1>1, <1>2

\* There are finitely many units.
LEMMA UnitsFinite ==
  ASSUME NEW S, IsFiniteSet(S), NEW f \in [S -> Nat], NEW R \in SUBSET S
  PROVE  IsFiniteSet(Units(f, R))
<1> DEFINE N == {n \in Nat : \A T \in SUBSET S :
                   Cardinality(T) = n => IsFiniteSet(Units(f, T))}
<1>1. 0 \in N
  <2> SUFFICES ASSUME NEW T \in SUBSET S, Cardinality(T) = 0
               PROVE  IsFiniteSet(Units(f, T))
    OBVIOUS
  <2>1. IsFiniteSet(T)
    BY FS_Subset
  <2>2. T = {}
    BY <2>1, FS_EmptySet
  <2>3. Units(f, T) = {}
    BY <2>2 DEF Units
  <2> QED
    BY <2>3, FS_EmptySet
<1>2. ASSUME NEW n \in Nat, n \in N PROVE n + 1 \in N
  <2> SUFFICES ASSUME NEW T \in SUBSET S, Cardinality(T) = n + 1
               PROVE  IsFiniteSet(Units(f, T))
    OBVIOUS
  <2>1. IsFiniteSet(T)
    BY FS_Subset
  <2>2. PICK x \in T : TRUE
    BY <2>1, OneLess
  <2>3. /\ Cardinality(T \ {x}) = n /\ T \ {x} \in SUBSET S /\ x \in S
        /\ T = (T \ {x}) \cup {x} /\ x \notin T \ {x}
    BY <2>1, <2>2, OneLess
  <2>4. IsFiniteSet(Units(f, T \ {x}))
    BY <1>2, <2>3
  <2> QED
    BY <2>3, <2>4, OneMoreAmount
<1>3. Nat \subseteq N
  <2> HIDE DEF N
  <2> QED
    BY <1>1, <1>2, NaturalsIn
<1>4. Cardinality(R) \in Nat
  <2>1. IsFiniteSet(R)
    BY FS_Subset
  <2> QED
    BY <2>1, FS_CardinalityType
<1> QED
  BY <1>3, <1>4

\* SumFunction counts the units.
LEMMA SumIsUnits ==
  ASSUME NEW S, IsFiniteSet(S), NEW f \in [S -> Nat]
  PROVE  SumFunction(f) = Cardinality(Units(f, S))
<1> DEFINE Defines(g) ==
      g = [T \in SUBSET S |->
             IF T = {} THEN 0
             ELSE f[CHOOSE x \in T : TRUE] + g[T \ {CHOOSE x \in T : TRUE}]]
           count == [T \in SUBSET S |-> Cardinality(Units(f, T))]
           iter == CHOOSE g : Defines(g)
<1>1. SumFunction(f) = iter[S]
  <2>1. DOMAIN f = S
    OBVIOUS
  <2> QED
    BY <2>1
       DEF SumFunction, SumFunctionOnSet, FoldFunctionOnSet, MapThenFoldSet
<1>2. Units(f, {}) = {}
  BY DEF Units
<1>3. ASSUME NEW T \in SUBSET S, T # {}, NEW x, x = CHOOSE y \in T : TRUE
      PROVE  /\ x \in T /\ T \ {x} \in SUBSET S
             /\ IsFiniteSet(T \ {x})
             /\ count[T] = f[x] + count[T \ {x}]
  <2>1. x \in T /\ x \in S /\ T \ {x} \in SUBSET S /\ x \notin T \ {x}
        /\ T = (T \ {x}) \cup {x}
    BY <1>3
  <2>2. IsFiniteSet(Units(f, T \ {x})) /\ IsFiniteSet(T \ {x})
    BY <2>1, UnitsFinite, FS_Subset
  <2>3. /\ Cardinality(Units(f, T \ {x})) \in Nat
        /\ Cardinality(Units(f, T)) = Cardinality(Units(f, T \ {x})) + f[x]
    BY <2>1, <2>2, OneMoreAmount
  <2>4. f[x] \in Nat
    BY <2>1
  <2> QED
    BY <2>1, <2>2, <2>3, <2>4
<1>4. Defines(count)
  <2>1. ASSUME NEW T \in SUBSET S
        PROVE  count[T] = IF T = {} THEN 0
                          ELSE f[CHOOSE x \in T : TRUE]
                                 + count[T \ {CHOOSE x \in T : TRUE}]
    <3>1. CASE T = {}
      BY <1>2, <3>1, FS_EmptySet
    <3>2. CASE T # {}
      <4> HIDE DEF count
      <4> QED
        BY <1>3, <3>2
    <3> QED
      BY <3>1, <3>2
  <2> QED
    BY <2>1
<1>5. Defines(iter)
  <2> HIDE DEF count
  <2> HIDE DEF Defines
  <2> QED
    BY <1>4
<1>6. ASSUME NEW T \in SUBSET S
      PROVE  iter[T] = IF T = {} THEN 0
                       ELSE f[CHOOSE x \in T : TRUE]
                              + iter[T \ {CHOOSE x \in T : TRUE}]
  <2> HIDE DEF iter
  <2> QED
    BY <1>5
<1> DEFINE N == {n \in Nat : \A T \in SUBSET S :
                   Cardinality(T) = n => iter[T] = count[T]}
<1>7. 0 \in N
  <2> SUFFICES ASSUME NEW T \in SUBSET S, Cardinality(T) = 0
               PROVE  iter[T] = count[T]
    OBVIOUS
  <2>1. IsFiniteSet(T)
    BY FS_Subset
  <2>2. T = {}
    BY <2>1, FS_EmptySet
  <2>3. count[T] = 0
    BY <1>2, <2>2, FS_EmptySet
  <2> HIDE DEF iter
  <2> HIDE DEF count
  <2> QED
    BY <1>6, <2>2, <2>3
<1>8. ASSUME NEW n \in Nat, n \in N PROVE n + 1 \in N
  <2> HIDE DEF iter
  <2> HIDE DEF count
  <2> SUFFICES ASSUME NEW T \in SUBSET S, Cardinality(T) = n + 1
               PROVE  iter[T] = count[T]
    OBVIOUS
  <2>1. IsFiniteSet(T)
    BY FS_Subset
  <2>2. T # {}
    BY <2>1, OneLess
  <2> PICK x : x = CHOOSE y \in T : TRUE
    OBVIOUS
  <2>3. x \in T /\ T \ {x} \in SUBSET S /\ count[T] = f[x] + count[T \ {x}]
    BY <1>3, <2>2
  <2>4. Cardinality(T \ {x}) = n
    BY <2>1, <2>3, OneLess
  <2>5. iter[T \ {x}] = count[T \ {x}]
    BY <1>8, <2>3, <2>4
  <2>6. iter[T] = f[x] + iter[T \ {x}]
    BY <1>6, <2>2
  <2> QED
    BY <2>3, <2>5, <2>6
<1>9. Nat \subseteq N
  <2> HIDE DEF N
  <2> QED
    BY <1>7, <1>8, NaturalsIn
<1>10. Cardinality(S) \in Nat
  BY FS_CardinalityType
<1>11. iter[S] = count[S]
  <2> HIDE DEF iter
  <2> HIDE DEF count
  <2> QED
    BY <1>9, <1>10
<1> QED
  BY <1>1, <1>11

\* The empty sum.
LEMMA NoAmounts ==
  ASSUME NEW f \in [{} -> Nat]
  PROVE  SumFunction(f) = 0
<1>1. SumFunction(f) = Cardinality(Units(f, {}))
  BY FS_EmptySet, SumIsUnits
<1>2. Units(f, {}) = {}
  BY DEF Units
<1> QED
  BY <1>1, <1>2, FS_EmptySet

\* A sum with one amount more.
LEMMA SumWithOneMore ==
  ASSUME NEW S, IsFiniteSet(S), NEW x, x \notin S,
         NEW f \in [S -> Nat], NEW g \in [S \cup {x} -> Nat],
         \A i \in S : g[i] = f[i]
  PROVE  /\ SumFunction(f) \in Nat
         /\ SumFunction(g) = SumFunction(f) + g[x]
<1>1. IsFiniteSet(S \cup {x})
  BY FS_AddElement
<1>2. /\ SumFunction(f) = Cardinality(Units(f, S))
      /\ SumFunction(g) = Cardinality(Units(g, S \cup {x}))
  BY <1>1, SumIsUnits
<1>3. Units(g, S) = Units(f, S)
  BY DEF Units
<1>4. IsFiniteSet(Units(g, S))
  BY <1>1, UnitsFinite
<1>5. /\ Cardinality(Units(g, S)) \in Nat
      /\ Cardinality(Units(g, S \cup {x})) = Cardinality(Units(g, S)) + g[x]
  BY <1>4, OneMoreAmount
<1> QED
  BY <1>2, <1>3, <1>5

=============================================================================
