----------------------------- MODULE SumTheorems -----------------------------
(***************************************************************************)
(* Facts about sums of the values of a function over a finite set, and of  *)
(* sequences: the sums the models take with MapThenSumSet and FoldSeq.     *)
(*                                                                         *)
(* What holds of every finite set is proved by looking at a smallest set   *)
(* of which it does not hold (SmallestSet).                                *)
(***************************************************************************)
EXTENDS Integers, FiniteSets, Functions, FiniteSetTheorems, SequenceTheorems,
        WellFoundedInduction, TLAPS

(* Every nonempty set of numbers has a least one.                          *)
LEMMA LeastNumber ==
    ASSUME NEW T, T \subseteq Nat, T # {}
    PROVE  \E n \in T : \A m \in T : n <= m
  <1> DEFINE Less == {p \in Nat \X Nat : p[1] < p[2]}
  <1>1. IsWellFoundedOn(Less, Nat)
    BY NatLessThanWellFounded, Zenon DEF OpToRel
  <1> HIDE DEF Less
  <1>2. PICK n \in T : \A m \in T : ~ (<<m, n>> \in Less)
    BY <1>1, WFMin
  <1>3. \A m \in T : ~ (m < n)
    BY <1>2 DEF Less
  <1> QED
    BY <1>3

(* Among sets of a finite set there is one from which no member can be     *)
(* taken without leaving them.                                             *)
LEMMA SmallestSet ==
    ASSUME NEW S, IsFiniteSet(S), NEW T \in SUBSET (SUBSET S), T # {}
    PROVE  \E s \in T : \A x \in s : s \ {x} \notin T
  <1> DEFINE N == {Cardinality(s) : s \in T}
  <1>1. \A s \in T : IsFiniteSet(s) /\ Cardinality(s) \in Nat
    BY FS_Subset, FS_CardinalityType
  <1>2. PICK n \in N : \A m \in N : n <= m
    <2>1. N \subseteq Nat /\ N # {}
      BY <1>1
    <2> HIDE DEF N
    <2> QED
      BY <2>1, LeastNumber
  <1>3. PICK s \in T : Cardinality(s) = n
    BY DEF N
  <1>4. ASSUME NEW x \in s, s \ {x} \in T PROVE FALSE
    <2>1. Cardinality(s \ {x}) = Cardinality(s) - 1
      BY <1>1, FS_RemoveElement
    <2>2. n <= Cardinality(s \ {x})
      BY <1>2, <1>4
    <2> QED
      BY <2>1, <2>2, <1>1, <1>3
  <1> QED
    BY <1>3, <1>4

-----------------------------------------------------------------------------
(* The equation that the fold of a sum solves.                             *)
SumStep(it, f, s) == IF s = {} THEN 0
                  ELSE LET x == CHOOSE x \in s : TRUE IN f[x] + it[s \ {x}]

SolvesSum(it, f, S) == it = [s \in SUBSET S |-> SumStep(it, f, s)]

(* A solution for integers has integer values.                             *)
LEMMA SolutionIsInt ==
    ASSUME NEW S, IsFiniteSet(S), NEW f, \A x \in S : f[x] \in Int, NEW it, SolvesSum(it, f, S)
    PROVE  \A s \in SUBSET S : it[s] \in Int
  <1> DEFINE T == {s \in SUBSET S : it[s] \notin Int}
  <1> SUFFICES ASSUME T # {} PROVE FALSE
    OBVIOUS
  <1>1. PICK s \in T : \A x \in s : s \ {x} \notin T
    <2>1. T \in SUBSET (SUBSET S)
      OBVIOUS
    <2> HIDE DEF T
    <2> QED
      BY <2>1, SmallestSet
  <1>2. it[s] = SumStep(it, f, s)
    BY DEF SolvesSum
  <1>3. \A x \in s : it[s \ {x}] \in Int
    BY <1>1
  <1>4. s # {} => (CHOOSE x \in s : TRUE) \in s
    OBVIOUS
  <1>5. it[s] \in Int
    <2> DEFINE x == CHOOSE x \in s : TRUE
    <2>1. CASE s = {}
      BY <1>2, <2>1 DEF SumStep
    <2>2. CASE s # {}
      <3>1. x \in S /\ f[x] \in Int /\ it[s \ {x}] \in Int
        BY <1>3, <1>4, <2>2
      <3>2. it[s] = f[x] + it[s \ {x}]
        BY <1>2, <2>2 DEF SumStep
      <3> HIDE DEF x
      <3> QED
        BY <3>1, <3>2
    <2> QED
      BY <2>1, <2>2
  <1> QED
    BY <1>5

(* Solutions for functions that agree on a set agree on its subsets.       *)
LEMMA SameSolution ==
    ASSUME NEW S, IsFiniteSet(S), NEW R \in SUBSET S, NEW f, NEW g, \A x \in R : f[x] = g[x],
           NEW it, SolvesSum(it, f, S), NEW other, SolvesSum(other, g, R)
    PROVE  \A s \in SUBSET R : it[s] = other[s]
  <1> DEFINE T == {s \in SUBSET R : it[s] # other[s]}
  <1> SUFFICES ASSUME T # {} PROVE FALSE
    OBVIOUS
  <1>1. PICK s \in T : \A x \in s : s \ {x} \notin T
    <2>1. T \in SUBSET (SUBSET S)
      OBVIOUS
    <2> HIDE DEF T
    <2> QED
      BY <2>1, SmallestSet
  <1>2. it[s] = SumStep(it, f, s) /\ other[s] = SumStep(other, g, s)
    BY DEF SolvesSum
  <1>3. \A x \in s : it[s \ {x}] = other[s \ {x}]
    BY <1>1
  <1>4. s # {} => (CHOOSE x \in s : TRUE) \in s
    OBVIOUS
  <1>5. \A x \in s : f[x] = g[x]
    OBVIOUS
  <1> QED
    BY <1>2, <1>3, <1>4, <1>5 DEF SumStep

(* The equation has a solution, by the size of the sets.                   *)
LEMMA HasSolution ==
    ASSUME NEW S, IsFiniteSet(S), NEW f
    PROVE  \E it : SolvesSum(it, f, S)
  <1> DEFINE Small(n) == {s \in SUBSET S : Cardinality(s) <= n}
             Has(n)   == \E it : it = [s \in Small(n) |-> SumStep(it, f, s)]
             Lacking  == {n \in Nat : ~Has(n)}
  <1>1. \A s \in SUBSET S : IsFiniteSet(s) /\ Cardinality(s) \in Nat
    BY FS_Subset, FS_CardinalityType
  <1>2. Cardinality(S) \in Nat /\ \A s \in SUBSET S : Cardinality(s) <= Cardinality(S)
    BY FS_Subset, FS_CardinalityType
  <1>3. Lacking = {}
    <2> SUFFICES ASSUME Lacking # {} PROVE FALSE
      OBVIOUS
    <2>1. PICK n \in Lacking : \A m \in Lacking : n <= m
      <3>1. Lacking \subseteq Nat
        OBVIOUS
      <3> HIDE DEF Lacking
      <3> QED
        BY <3>1, LeastNumber
    <2>2. CASE n = 0
      <3> DEFINE z == [s \in Small(0) |-> 0]
      <3>1. \A s \in Small(0) : s = {}
        BY <1>1, FS_EmptySet
      <3>2. \A s \in Small(0) : SumStep(z, f, s) = 0
        BY <3>1 DEF SumStep
      <3>3. z = [s \in Small(0) |-> SumStep(z, f, s)]
        BY <3>2
      <3> HIDE DEF z
      <3>4. Has(0)
        BY <3>3
      <3> QED
        BY <2>1, <2>2, <3>4
    <2>3. CASE n # 0
      <3>1. n - 1 \in Nat /\ n - 1 \notin Lacking
        <4>1. n \in Nat /\ n - 1 \in Nat /\ ~ (n <= n - 1)
          BY <2>3
        <4> HIDE DEF Lacking
        <4> QED
          BY <2>1, <4>1
      <3>2. PICK it : it = [s \in Small(n - 1) |-> SumStep(it, f, s)]
        BY <3>1
      <3> DEFINE more == [s \in Small(n) |-> SumStep(it, f, s)]
      <3>3. \A s \in Small(n - 1) : s \in Small(n) /\ more[s] = it[s]
        <4> TAKE s \in Small(n - 1)
        <4>1. s \in Small(n)
          BY <1>1, <3>1
        <4>2. it[s] = SumStep(it, f, s)
          BY <3>2, Zenon
        <4>3. more[s] = SumStep(it, f, s)
          BY <4>1
        <4> QED
          BY <4>1, <4>2, <4>3
      <3>4. \A s \in Small(n) : SumStep(more, f, s) = SumStep(it, f, s)
        <4> TAKE s \in Small(n)
        <4>1. CASE s = {}
          BY <4>1 DEF SumStep
        <4>2. CASE s # {}
          <5> DEFINE x == CHOOSE x \in s : TRUE
          <5>1. x \in s
            BY <4>2
          <5>2. Cardinality(s \ {x}) = Cardinality(s) - 1
            BY <1>1, <5>1, FS_RemoveElement
          <5>3. s \ {x} \in Small(n - 1)
            BY <1>1, <5>2, <2>1
          <5>4. more[s \ {x}] = it[s \ {x}]
            BY <3>3, <5>3
          <5> HIDE DEF more
          <5> QED
            BY <4>2, <5>4 DEF SumStep
        <4> QED
          BY <4>1, <4>2
      <3>5. more = [s \in Small(n) |-> SumStep(more, f, s)]
        BY <3>4
      <3> HIDE DEF more
      <3>6. Has(n)
        BY <3>5
      <3> QED
        BY <2>1, <3>6
    <2> QED
      BY <2>2, <2>3
  <1>4. Has(Cardinality(S))
    BY <1>2, <1>3
  <1>5. Small(Cardinality(S)) = SUBSET S
    BY <1>2
  <1> QED
    BY <1>4, <1>5 DEF SolvesSum

(* The sum of f over S is what solves the equation has for S.              *)
LEMMA SumSolves ==
    ASSUME NEW S, IsFiniteSet(S), NEW f, NEW it, SolvesSum(it, f, S)
    PROVE  SumFunctionOnSet(f, S) = it[S]
  <1> DEFINE D(g) == [s \in SUBSET S |-> IF s = {} THEN 0
                        ELSE LET x == CHOOSE x \in s : TRUE IN f[x] + g[s \ {x}]]
             Z == CHOOSE g : g = D(g)
  <1>1. SumFunctionOnSet(f, S) = Z[S]
    BY DEF SumFunctionOnSet, FoldFunctionOnSet, MapThenFoldSet
  <1>2. Z = D(Z)
    <2>1. \E g : g = D(g)
      BY DEF SolvesSum, SumStep
    <2> HIDE DEF D
    <2> QED
      BY <2>1
  <1>3. SolvesSum(Z, f, S)
    <2>1. \A g : D(g) = [s \in SUBSET S |-> SumStep(g, f, s)]
      BY DEF SumStep
    <2> HIDE DEF Z, D
    <2> QED
      BY <1>2, <2>1 DEF SolvesSum
  <1> HIDE DEF Z
  <1>4. S \in SUBSET S /\ \A x \in S : f[x] = f[x]
    OBVIOUS
  <1>5. Z[S] = it[S]
    BY <1>3, <1>4, SameSolution
  <1> QED
    BY <1>1, <1>5

(* So it is for the sums of MapThenSumSet, if f has the operator's values. *)
THEOREM SumIsInt ==
    ASSUME NEW S, IsFiniteSet(S), NEW f, \A x \in S : f[x] \in Int
    PROVE  SumFunctionOnSet(f, S) \in Int
  <1>1. PICK it : SolvesSum(it, f, S)
    BY HasSolution
  <1>2. it[S] \in Int
    BY <1>1, SolutionIsInt
  <1> QED
    BY <1>1, <1>2, SumSolves

(* The sum over nothing is 0.                                              *)
THEOREM SumOfNone ==
    ASSUME NEW f
    PROVE  SumFunctionOnSet(f, {}) = 0
  <1>1. IsFiniteSet({})
    BY FS_EmptySet
  <1>2. PICK it : SolvesSum(it, f, {})
    BY <1>1, HasSolution
  <1>3. it[{}] = 0
    BY <1>2 DEF SolvesSum, SumStep
  <1> QED
    BY <1>1, <1>2, <1>3, SumSolves

(* Nothing adds to the sum over any set.                                   *)
THEOREM SumOfZeros ==
    ASSUME NEW S, IsFiniteSet(S), NEW f, \A x \in S : f[x] = 0
    PROVE  SumFunctionOnSet(f, S) = 0
  <1>1. PICK it : SolvesSum(it, f, S)
    BY HasSolution
  <1> DEFINE T == {s \in SUBSET S : it[s] # 0}
  <1>2. T = {}
    <2> SUFFICES ASSUME T # {} PROVE FALSE
      OBVIOUS
    <2>1. PICK s \in T : \A x \in s : s \ {x} \notin T
      <3>1. T \in SUBSET (SUBSET S)
        OBVIOUS
      <3> HIDE DEF T
      <3> QED
        BY <3>1, SmallestSet
    <2>2. s \in SUBSET S /\ it[s] # 0 /\ s # {}
      BY <1>1 DEF SolvesSum, SumStep
    <2>3. PICK x \in s : it[s] = f[x] + it[s \ {x}]
      BY <1>1, <2>2 DEF SolvesSum, SumStep
    <2>4. it[s \ {x}] = 0
      BY <2>1, <2>2
    <2>5. f[x] = 0
      BY <2>2
    <2> QED
      BY <2>2, <2>3, <2>4, <2>5
  <1>3. S \in SUBSET S
    OBVIOUS
  <1>4. it[S] = 0
    BY <1>2, <1>3
  <1> QED
    BY <1>1, <1>4, SumSolves

(* The sum depends on the values only.                                     *)
THEOREM SameSum ==
    ASSUME NEW S, IsFiniteSet(S), NEW f, NEW g, \A x \in S : f[x] = g[x]
    PROVE  SumFunctionOnSet(f, S) = SumFunctionOnSet(g, S)
  <1>1. PICK it : SolvesSum(it, f, S)
    BY HasSolution
  <1>2. PICK other : SolvesSum(other, g, S)
    BY HasSolution
  <1>3. S \in SUBSET S
    OBVIOUS
  <1>4. \A s \in SUBSET S : it[s] = other[s]
    BY <1>1, <1>2, <1>3, SameSolution
  <1> QED
    BY <1>1, <1>2, <1>3, <1>4, SumSolves

(* The sum over a part of the set is that part of the solution.            *)
LEMMA SumOfPart ==
    ASSUME NEW S, IsFiniteSet(S), NEW R \in SUBSET S, NEW f, NEW it, SolvesSum(it, f, S)
    PROVE  SumFunctionOnSet(f, R) = it[R]
  <1>1. IsFiniteSet(R) /\ R \in SUBSET R /\ \A x \in R : f[x] = f[x]
    BY FS_Subset
  <1>2. PICK other : SolvesSum(other, f, R)
    BY <1>1, HasSolution
  <1>3. it[R] = other[R]
    BY <1>1, <1>2, SameSolution
  <1> QED
    BY <1>1, <1>2, <1>3, SumSolves

(* Any element may be taken out, whatever the fold takes first.            *)
THEOREM SumTakeOut ==
    ASSUME NEW S, IsFiniteSet(S), NEW f, \A x \in S : f[x] \in Int, NEW x \in S
    PROVE  SumFunctionOnSet(f, S) = f[x] + SumFunctionOnSet(f, S \ {x})
  <1>1. PICK it : SolvesSum(it, f, S)
    BY HasSolution
  <1>2. \A s \in SUBSET S : it[s] \in Int
    BY <1>1, SolutionIsInt
  <1> DEFINE T == {s \in SUBSET S : \E y \in s : it[s] # f[y] + it[s \ {y}]}
  <1>3. T = {}
    <2> SUFFICES ASSUME T # {} PROVE FALSE
      OBVIOUS
    <2>1. PICK s \in T : \A y \in s : s \ {y} \notin T
      <3>1. T \in SUBSET (SUBSET S)
        OBVIOUS
      <3> HIDE DEF T
      <3> QED
        BY <3>1, SmallestSet
    <2>2. PICK y \in s : it[s] # f[y] + it[s \ {y}]
      BY <2>1
    <2>3. PICK z \in s : it[s] = f[z] + it[s \ {z}]
      BY <1>1, <2>2 DEF SolvesSum, SumStep
    <2>4. y # z
      BY <2>2, <2>3
    <2>5. it[s \ {y}] = f[z] + it[(s \ {y}) \ {z}]
      <3>1. s \ {y} \notin T /\ z \in s \ {y} /\ s \ {y} \in SUBSET S
        BY <2>1, <2>4
      <3> QED
        BY <3>1
    <2>6. it[s \ {z}] = f[y] + it[(s \ {z}) \ {y}]
      <3>1. s \ {z} \notin T /\ y \in s \ {z} /\ s \ {z} \in SUBSET S
        BY <2>1, <2>4
      <3> QED
        BY <3>1
    <2>7. (s \ {y}) \ {z} = (s \ {z}) \ {y}
      OBVIOUS
    <2>8. it[(s \ {y}) \ {z}] \in Int /\ f[y] \in Int /\ f[z] \in Int
      <3>1. (s \ {y}) \ {z} \in SUBSET S
        BY <2>1
      <3> QED
        BY <1>2, <3>1, <2>1
    <2> HIDE DEF T
    <2>9. f[z] + (f[y] + it[(s \ {y}) \ {z}]) = f[y] + (f[z] + it[(s \ {y}) \ {z}])
      BY <2>8
    <2>10. f[z] + it[s \ {z}] = f[y] + it[s \ {y}]
      BY <2>5, <2>6, <2>7, <2>9, Zenon
    <2> QED
      BY <2>2, <2>3, <2>10
  <1>4. S \notin T /\ S \in SUBSET S
    BY <1>3
  <1>5. it[S] = f[x] + it[S \ {x}]
    BY <1>4
  <1>6. SumFunctionOnSet(f, S \ {x}) = it[S \ {x}]
    BY <1>1, SumOfPart
  <1> QED
    BY <1>1, <1>5, <1>6, SumSolves

(* What is changed in one place changes in the sum.                        *)
THEOREM SumChange ==
    ASSUME NEW S, IsFiniteSet(S), NEW f, NEW g, NEW x \in S,
           \A y \in S : f[y] \in Int /\ g[y] \in Int,
           \A y \in S : y # x => g[y] = f[y]
    PROVE  SumFunctionOnSet(g, S) = SumFunctionOnSet(f, S) + (g[x] - f[x])
  <1>1. IsFiniteSet(S \ {x})
    BY FS_RemoveElement
  <1>2. SumFunctionOnSet(f, S \ {x}) = SumFunctionOnSet(g, S \ {x})
    BY <1>1, SameSum
  <1>3. SumFunctionOnSet(f, S \ {x}) \in Int
    BY <1>1, SumIsInt
  <1>4. /\ SumFunctionOnSet(f, S) = f[x] + SumFunctionOnSet(f, S \ {x})
        /\ SumFunctionOnSet(g, S) = g[x] + SumFunctionOnSet(g, S \ {x})
    BY SumTakeOut
  <1> QED
    BY <1>2, <1>3, <1>4

(* Sums of numbers that are not negative.                                  *)
THEOREM SumIsNat ==
    ASSUME NEW S, IsFiniteSet(S), NEW f, \A x \in S : f[x] \in Nat
    PROVE  SumFunctionOnSet(f, S) \in Nat
  <1> DEFINE T == {s \in SUBSET S : SumFunctionOnSet(f, s) \notin Nat}
  <1> SUFFICES ASSUME T # {} PROVE FALSE
    OBVIOUS
  <1>1. PICK s \in T : \A x \in s : s \ {x} \notin T
    <2>1. T \in SUBSET (SUBSET S)
      OBVIOUS
    <2> HIDE DEF T
    <2> QED
      BY <2>1, SmallestSet
  <1>2. s # {}
    BY SumOfNone
  <1>3. PICK x \in s : TRUE
    BY <1>2
  <1>4. SumFunctionOnSet(f, s \ {x}) \in Nat
    BY <1>1, <1>3
  <1>5. SumFunctionOnSet(f, s) = f[x] + SumFunctionOnSet(f, s \ {x})
    <2>1. IsFiniteSet(s) /\ \A y \in s : f[y] \in Int
      BY FS_Subset
    <2> HIDE DEF T
    <2> QED
      BY <2>1, SumTakeOut
  <1> QED
    BY <1>3, <1>4, <1>5

(* The sum over two sets with nothing in common.                           *)
THEOREM SumOfUnion ==
    ASSUME NEW S, IsFiniteSet(S), NEW R, IsFiniteSet(R), S \cap R = {},
           NEW f, \A x \in S \cup R : f[x] \in Int
    PROVE  SumFunctionOnSet(f, S \cup R) = SumFunctionOnSet(f, S) + SumFunctionOnSet(f, R)
  <1> DEFINE T == {r \in SUBSET R :
                     SumFunctionOnSet(f, S \cup r)
                        # SumFunctionOnSet(f, S) + SumFunctionOnSet(f, r)}
  <1> SUFFICES ASSUME T # {} PROVE FALSE
    OBVIOUS
  <1>1. PICK r \in T : \A x \in r : r \ {x} \notin T
    <2>1. T \in SUBSET (SUBSET R)
      OBVIOUS
    <2> HIDE DEF T
    <2> QED
      BY <2>1, SmallestSet
  <1>2. SumFunctionOnSet(f, S) \in Int
    BY SumIsInt
  <1>3. r # {}
    BY <1>1, <1>2, SumOfNone
  <1>4. PICK x \in r : TRUE
    BY <1>3
  <1>5. /\ r \subseteq R /\ r \ {x} \in SUBSET R /\ x \notin S
        /\ (S \cup r) \ {x} = S \cup (r \ {x})
    BY <1>4
  <1>6. SumFunctionOnSet(f, S \cup (r \ {x}))
           = SumFunctionOnSet(f, S) + SumFunctionOnSet(f, r \ {x})
    BY <1>1, <1>4, <1>5
  <1> HIDE DEF T
  <1>7. IsFiniteSet(r) /\ IsFiniteSet(r \ {x}) /\ IsFiniteSet(S \cup r)
    <2>1. IsFiniteSet(r)
      BY <1>5, FS_Subset
    <2> QED
      BY <2>1, <1>5, FS_Subset, FS_Union
  <1>8. SumFunctionOnSet(f, S \cup r) = f[x] + SumFunctionOnSet(f, S \cup (r \ {x}))
    <2>1. x \in S \cup r /\ \A y \in S \cup r : f[y] \in Int
      BY <1>4, <1>5
    <2> QED
      BY <1>5, <1>7, <2>1, SumTakeOut
  <1>9. /\ SumFunctionOnSet(f, r) = f[x] + SumFunctionOnSet(f, r \ {x})
        /\ SumFunctionOnSet(f, r \ {x}) \in Int /\ f[x] \in Int
    BY <1>4, <1>5, <1>7, SumTakeOut, SumIsInt
  <1>10. SumFunctionOnSet(f, S \cup r) = SumFunctionOnSet(f, S) + SumFunctionOnSet(f, r)
    BY <1>2, <1>6, <1>8, <1>9
  <1> QED
    BY <1>1, <1>10 DEF T

(* Part of a sum of numbers that are not negative is no more than it.      *)
THEOREM SumOfSubset ==
    ASSUME NEW S, IsFiniteSet(S), NEW R \in SUBSET S, NEW f, \A x \in S : f[x] \in Nat
    PROVE  SumFunctionOnSet(f, R) <= SumFunctionOnSet(f, S)
  <1>1. IsFiniteSet(R) /\ IsFiniteSet(S \ R)
    BY FS_Subset
  <1>2. R \cap (S \ R) = {} /\ R \cup (S \ R) = S
    OBVIOUS
  <1>3. SumFunctionOnSet(f, S) = SumFunctionOnSet(f, R) + SumFunctionOnSet(f, S \ R)
    BY <1>1, <1>2, SumOfUnion
  <1>4. SumFunctionOnSet(f, R) \in Nat /\ SumFunctionOnSet(f, S \ R) \in Nat
    BY <1>1, SumIsNat
  <1> QED
    BY <1>3, <1>4

(* The order and the names of the places do not matter.                    *)
LEMMA SumReindex ==
    ASSUME NEW S, IsFiniteSet(S), NEW R, NEW b \in Bijection(S, R),
           NEW f, \A y \in R : f[y] \in Int, NEW g, \A x \in S : g[x] = f[b[x]]
    PROVE  SumFunctionOnSet(g, S) = SumFunctionOnSet(f, R)
  <1> DEFINE Image(s) == {y \in R : \E x \in s : y = b[x]}
             T == {s \in SUBSET S :
                     SumFunctionOnSet(g, s) # SumFunctionOnSet(f, Image(s))}
  <1>1. b \in [S -> R] /\ (\A x, y \in S : b[x] = b[y] => x = y) /\ \A y \in R : \E x \in S : b[x] = y
    BY DEF Bijection, Injection, Surjection, IsInjective
  <1>2. IsFiniteSet(R)
    BY FS_Bijection DEF ExistsBijection
  <1>3. T = {}
    <2> SUFFICES ASSUME T # {} PROVE FALSE
      OBVIOUS
    <2>1. PICK s \in T : \A x \in s : s \ {x} \notin T
      <3>1. T \in SUBSET (SUBSET S)
        OBVIOUS
      <3> HIDE DEF T
      <3> QED
        BY <3>1, SmallestSet
    <2>2. s # {}
      <3> SUFFICES ASSUME s = {} PROVE FALSE
        OBVIOUS
      <3>1. Image(s) = {}
        OBVIOUS
      <3> QED
        BY <3>1, <2>1, SumOfNone
    <2>3. PICK x \in s : TRUE
      BY <2>2
    <2>4. s \in SUBSET S /\ s \ {x} \in SUBSET S
      BY <2>1
    <2>5. SumFunctionOnSet(g, s \ {x}) = SumFunctionOnSet(f, Image(s \ {x}))
      BY <2>1, <2>3, <2>4
    <2>6. SumFunctionOnSet(g, s) # SumFunctionOnSet(f, Image(s))
      BY <2>1
    <2> HIDE DEF T
    <2>7. b[x] \in Image(s) /\ Image(s) \ {b[x]} = Image(s \ {x})
      BY <1>1, <2>3, <2>4
    <2>8. Image(s) \in SUBSET R
      OBVIOUS
    <2> HIDE DEF Image
    <2>9. IsFiniteSet(s) /\ IsFiniteSet(Image(s))
      BY <1>2, <2>4, <2>8, FS_Subset
    <2>10. SumFunctionOnSet(g, s) = g[x] + SumFunctionOnSet(g, s \ {x})
      <3>1. \A y \in s : g[y] \in Int
        BY <1>1, <2>4
      <3> QED
        BY <3>1, <2>3, <2>9, SumTakeOut
    <2>11. SumFunctionOnSet(f, Image(s)) = f[b[x]] + SumFunctionOnSet(f, Image(s) \ {b[x]})
      BY <2>7, <2>8, <2>9, SumTakeOut
    <2>12. g[x] = f[b[x]]
      BY <2>3, <2>4
    <2> QED
      BY <2>5, <2>6, <2>7, <2>10, <2>11, <2>12
  <1>4. S \notin T /\ S \in SUBSET S
    BY <1>3
  <1>5. Image(S) = R
    BY <1>1
  <1> HIDE DEF Image
  <1> QED
    BY <1>4, <1>5
-----------------------------------------------------------------------------
(* Sums of sequences.                                                      *)

(* One number more.                                                        *)
THEOREM SumOfNext ==
    ASSUME NEW n \in Nat, NEW f, \A i \in 1..(n + 1) : f[i] \in Int
    PROVE  SumFunctionOnSet(f, 1..(n + 1)) = SumFunctionOnSet(f, 1..n) + f[n + 1]
  <1>1. n + 1 \in 1..(n + 1) /\ (1..(n + 1)) \ {n + 1} = 1..n
    OBVIOUS
  <1>2. IsFiniteSet(1..(n + 1)) /\ IsFiniteSet(1..n)
    BY FS_Interval
  <1>3. SumFunctionOnSet(f, 1..(n + 1)) = f[n + 1] + SumFunctionOnSet(f, 1..n)
    BY <1>1, <1>2, SumTakeOut
  <1>4. SumFunctionOnSet(f, 1..n) \in Int
    <2>1. \A i \in 1..n : f[i] \in Int
      OBVIOUS
    <2> QED
      BY <1>2, <2>1, SumIsInt
  <1> QED
    BY <1>3, <1>4

(* The end of a sequence.                                                  *)
THEOREM SumOfTail ==
    ASSUME NEW s \in Seq(Int), NEW i \in 0..Len(s)
    PROVE  SumFunction(SubSeq(s, i + 1, Len(s))) = SumFunctionOnSet(s, (i + 1)..Len(s))
  <1> DEFINE t == SubSeq(s, i + 1, Len(s))
             b == [k \in 1..(Len(s) - i) |-> k + i]
  <1>1. DOMAIN t = 1..(Len(s) - i) /\ \A k \in 1..(Len(s) - i) : t[k] = s[k + i]
    OBVIOUS
  <1>2. b \in Bijection(1..(Len(s) - i), (i + 1)..Len(s))
    <2>1. b \in [1..(Len(s) - i) -> (i + 1)..Len(s)]
      OBVIOUS
    <2>2. \A k, l \in 1..(Len(s) - i) : b[k] = b[l] => k = l
      OBVIOUS
    <2>3. \A m \in (i + 1)..Len(s) : m - i \in 1..(Len(s) - i) /\ b[m - i] = m
      OBVIOUS
    <2> HIDE DEF b
    <2> QED
      BY <2>1, <2>2, <2>3 DEF Bijection, Injection, Surjection, IsInjective
  <1>3. \A k \in 1..(Len(s) - i) : t[k] = s[b[k]]
    BY <1>1
  <1>4. \A m \in (i + 1)..Len(s) : s[m] \in Int
    OBVIOUS
  <1>5. IsFiniteSet(1..(Len(s) - i))
    BY FS_Interval
  <1> HIDE DEF b, t
  <1>6. SumFunctionOnSet(t, 1..(Len(s) - i)) = SumFunctionOnSet(s, (i + 1)..Len(s))
    <2> DEFINE S == 1..(Len(s) - i)
               R == (i + 1)..Len(s)
    <2>1. /\ b \in Bijection(S, R) /\ IsFiniteSet(S)
          /\ \A m \in R : s[m] \in Int
          /\ \A k \in S : t[k] = s[b[k]]
      BY <1>2, <1>3, <1>4, <1>5
    <2> HIDE DEF S, R
    <2>2. SumFunctionOnSet(t, S) = SumFunctionOnSet(s, R)
      BY <2>1, SumReindex
    <2> QED
      BY <2>2 DEF S, R
  <1> QED
    BY <1>1, <1>6 DEF SumFunction, t

(* A number more in front.                                                 *)
THEOREM SumOfCons ==
    ASSUME NEW s \in Seq(Int), NEW x \in Int
    PROVE  SumFunction(<<x>> \o s) = x + SumFunction(s)
  <1> DEFINE t == <<x>> \o s
  <1>1. t \in Seq(Int) /\ Len(t) = Len(s) + 1 /\ t[1] = x
    OBVIOUS
  <1>2. SubSeq(t, 2, Len(t)) = s
    <2>1. Len(SubSeq(t, 2, Len(t))) = Len(s)
      OBVIOUS
    <2>2. \A k \in 1..Len(s) : SubSeq(t, 2, Len(t))[k] = s[k]
      OBVIOUS
    <2>3. SubSeq(t, 2, Len(t)) \in Seq(Int)
      BY <1>1
    <2> QED
      BY <2>1, <2>2, <2>3, SeqEqual
  <1>3. DOMAIN t = 1..Len(t)
    BY <1>1
  <1>4. \A k \in 1..Len(t) : t[k] \in Int
    BY <1>1, ElementOfSeq
  <1> HIDE DEF t
  <1>5. 1 \in 0..Len(t) /\ 1 + 1 = 2 /\ 1 \in 1..Len(t) /\ (1..Len(t)) \ {1} = 2..Len(t)
    BY <1>1
  <1>6. SumFunction(s) = SumFunctionOnSet(t, 2..Len(t))
    BY <1>1, <1>2, <1>5, SumOfTail
  <1>7. IsFiniteSet(1..Len(t))
    BY <1>1, FS_Interval
  <1>8. SumFunctionOnSet(t, 1..Len(t)) = t[1] + SumFunctionOnSet(t, (1..Len(t)) \ {1})
    BY <1>4, <1>5, <1>7, SumTakeOut
  <1> QED
    BY <1>1, <1>3, <1>5, <1>6, <1>8 DEF SumFunction, t

(* The sum of differences is the difference of the sums.                   *)
THEOREM SumOfDifference ==
    ASSUME NEW S, IsFiniteSet(S), NEW f, NEW n, NEW h,
           \A x \in S : f[x] \in Int /\ n[x] \in Int /\ h[x] = f[x] - n[x]
    PROVE  SumFunctionOnSet(h, S) = SumFunctionOnSet(f, S) - SumFunctionOnSet(n, S)
  <1> DEFINE T == {s \in SUBSET S :
                     SumFunctionOnSet(h, s) # SumFunctionOnSet(f, s) - SumFunctionOnSet(n, s)}
  <1> SUFFICES ASSUME T # {} PROVE FALSE
    OBVIOUS
  <1>1. PICK s \in T : \A x \in s : s \ {x} \notin T
    <2>1. T \in SUBSET (SUBSET S)
      OBVIOUS
    <2> HIDE DEF T
    <2> QED
      BY <2>1, SmallestSet
  <1>2. s \in SUBSET S /\ IsFiniteSet(s) /\ SumFunctionOnSet(h, s) # SumFunctionOnSet(f, s) - SumFunctionOnSet(n, s)
    BY FS_Subset
  <1>3. s # {}
    <2>1. SumFunctionOnSet(h, {}) = 0 /\ SumFunctionOnSet(f, {}) = 0 /\ SumFunctionOnSet(n, {}) = 0
      BY SumOfNone
    <2>2. ASSUME s = {} PROVE SumFunctionOnSet(h, s) = SumFunctionOnSet(f, s) - SumFunctionOnSet(n, s)
      <3>1. SumFunctionOnSet(h, s) = 0 /\ SumFunctionOnSet(f, s) = 0 /\ SumFunctionOnSet(n, s) = 0
        BY <2>1, <2>2
      <3>2. 0 = 0 - 0
        OBVIOUS
      <3> QED
        BY <3>1, <3>2
    <2> HIDE DEF T
    <2> QED
      BY <1>2, <2>2
  <1>4. PICK x \in s : TRUE
    BY <1>3
  <1>5. IsFiniteSet(s \ {x}) /\ s \ {x} \in SUBSET S
    BY <1>2, FS_RemoveElement
  <1>6. SumFunctionOnSet(h, s \ {x}) = SumFunctionOnSet(f, s \ {x}) - SumFunctionOnSet(n, s \ {x})
    BY <1>1, <1>5
  <1> HIDE DEF T
  <1>7. \A y \in s : f[y] \in Int /\ n[y] \in Int /\ h[y] \in Int /\ h[y] = f[y] - n[y]
    BY <1>2
  <1>8. SumFunctionOnSet(h, s) = h[x] + SumFunctionOnSet(h, s \ {x})
    BY <1>2, <1>7, SumTakeOut
  <1>9. SumFunctionOnSet(f, s) = f[x] + SumFunctionOnSet(f, s \ {x})
    BY <1>2, <1>7, SumTakeOut
  <1>10. SumFunctionOnSet(n, s) = n[x] + SumFunctionOnSet(n, s \ {x})
    BY <1>2, <1>7, SumTakeOut
  <1>11. SumFunctionOnSet(f, s \ {x}) \in Int /\ SumFunctionOnSet(n, s \ {x}) \in Int
    BY <1>5, <1>7, SumIsInt
  <1> QED
    BY <1>2, <1>6, <1>7, <1>8, <1>9, <1>10, <1>11

(* What holds of 0 and, with a number, of the next one up to n, holds of   *)
(* all up to n.                                                            *)
LEMMA CountUp ==
    ASSUME NEW n \in Nat, NEW P, 0 \in P, \A i \in 0..(n - 1) : i \in P => i + 1 \in P
    PROVE  \A i \in 0..n : i \in P
  <1> DEFINE T == {i \in 0..n : i \notin P}
  <1> SUFFICES ASSUME T # {} PROVE FALSE
    OBVIOUS
  <1>1. T \subseteq Nat
    OBVIOUS
  <1>2. PICK m \in T : \A k \in T : m <= k
    <2> HIDE DEF T
    <2> QED
      BY <1>1, LeastNumber
  <1>3. m \in 1..n /\ m \notin P
    BY <1>2
  <1>4. m - 1 \in 0..(n - 1) /\ (m - 1) + 1 = m /\ m - 1 \notin T
    BY <1>2, <1>3
  <1>5. m - 1 \in P
    BY <1>4
  <1> QED
    BY <1>3, <1>4, <1>5

(* The sum of m equal numbers.                                             *)
LEMMA SumOfConstant ==
    ASSUME NEW m \in Nat, NEW c \in Int, NEW f, \A k \in 1..m : f[k] = c
    PROVE  SumFunctionOnSet(f, 1..m) = m * c
  <1> DEFINE P == {i \in 0..m : SumFunctionOnSet(f, 1..i) = i * c}
  <1>1. 0 \in P
    <2>1. 1..0 = {}
      OBVIOUS
    <2> QED
      BY <2>1, SumOfNone
  <1>2. ASSUME NEW i \in 0..(m - 1), i \in P PROVE i + 1 \in P
    <2>1. SumFunctionOnSet(f, 1..(i + 1)) = SumFunctionOnSet(f, 1..i) + f[i + 1]
      BY SumOfNext
    <2>2. f[i + 1] = c
      OBVIOUS
    <2>3. SumFunctionOnSet(f, 1..i) = i * c
      BY <1>2
    <2>4. (i + 1) * c = i * c + c
      OBVIOUS
    <2> QED
      BY <2>1, <2>2, <2>3, <2>4
  <1> HIDE DEF P
  <1>3. \A i \in 0..m : i \in P
    BY <1>1, <1>2, CountUp
  <1>4. m \in P
    BY <1>3
  <1> QED
    BY <1>4 DEF P
=============================================================================
