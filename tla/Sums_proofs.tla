---------------------------- MODULE Sums_proofs ----------------------------
(***************************************************************************)
(* Sums and maxima over finite sets, for the proofs that need them.  The   *)
(* folds of the community modules are recursions over a CHOOSE; here a sum *)
(* is shown to be a difference of cardinalities, those of the units that   *)
(* its positive and its negative values count, so that the facts about     *)
(* cardinalities give the ones about sums.                                 *)
(***************************************************************************)
EXTENDS Integers, Functions, FiniteSetsExt, FiniteSetTheorems, TLAPS


(* Induction over the subsets of a finite set, with a set of subsets in the*)
(* place of a predicate.                                                   *)
LEMMA SubsetInduction ==
    ASSUME NEW S, IsFiniteSet(S), NEW T,
           \A A \in SUBSET S : (\A B \in SUBSET A : B # A => B \in T) => A \in T
    PROVE  SUBSET S \subseteq T
<1>. DEFINE Bad == {A \in SUBSET S : A \notin T}
<1>1. SUFFICES ASSUME Bad # {} PROVE FALSE
  OBVIOUS
<1>2. /\ IsWellFoundedOn(StrictSubsetOrdering(S), FiniteSubsetsOf(S))
      /\ FiniteSubsetsOf(S) = SUBSET S
  BY FS_StrictSubsetOrderingWellFounded, FS_FiniteSubsetsOfFinite
<1>3. Bad \subseteq FiniteSubsetsOf(S)
  BY <1>2
<1>. HIDE DEF Bad
<1>4. PICK A \in Bad : \A B \in Bad : <<B, A>> \notin StrictSubsetOrdering(S)
  BY <1>1, <1>2, <1>3, WFMin
<1>5. \A B \in SUBSET A : B # A => B \in T
  BY <1>4 DEF Bad, StrictSubsetOrdering
<1>. QED BY <1>4, <1>5 DEF Bad

-----------------------------------------------------------------------------
(* Induction over the natural numbers, with a set of them in the place of  *)
(* a predicate.                                                            *)
LEMMA NumberInduction ==
    ASSUME NEW T, 0 \in T, \A n \in Nat : n \in T => n + 1 \in T, NEW m \in Nat
    PROVE  m \in T
<1>. DEFINE S == 1..m
            Good == {A \in SUBSET S : Cardinality(A) \in T}
<1>1. IsFiniteSet(S) /\ Cardinality(S) = m
  BY FS_Interval
<1>2. ASSUME NEW A \in SUBSET S, \A B \in SUBSET A : B # A => B \in Good PROVE A \in Good
  <2>0. IsFiniteSet(A)
    BY <1>1, FS_Subset
  <2>1. CASE A = {}
    BY <2>1, FS_EmptySet
  <2>2. CASE A # {}
    <3>1. PICK x \in A : TRUE
      BY <2>2
    <3>2. Cardinality(A \ {x}) \in T
      BY <1>2, <3>1
    <3>3. Cardinality(A \ {x}) = Cardinality(A) - 1
      BY <2>0, <3>1, FS_RemoveElement
    <3>4. Cardinality(A) \in Nat /\ Cardinality(A \ {x}) \in Nat
      BY <2>0, FS_CardinalityType, FS_RemoveElement
    <3>5. Cardinality(A) = Cardinality(A \ {x}) + 1
      BY <3>3, <3>4
    <3>. QED BY <3>2, <3>4, <3>5
  <2>. QED BY <2>1, <2>2
<1>. HIDE DEF Good, S
<1>3. SUBSET S \subseteq Good
  BY <1>1, <1>2, SubsetInduction
<1>4. S \in Good
  BY <1>3
<1>. QED BY <1>1, <1>4 DEF Good

-----------------------------------------------------------------------------
(* The units that a sum over the indices counts.                           *)
Units(fun, S) == {u \in S \X Nat : 1 <= u[2] /\ u[2] <= fun[u[1]]}
UnitsAt(fun, x) == {x} \X (1 .. fun[x])
Gain(v) == IF v > 0 THEN v ELSE 0

LEMMA UnitsOfOne ==
    ASSUME NEW fun, NEW x, fun[x] \in Int
    PROVE  IsFiniteSet(UnitsAt(fun, x)) /\ Cardinality(UnitsAt(fun, x)) = Gain(fun[x])
<1>1. IsFiniteSet({x}) /\ Cardinality({x}) = 1
  BY FS_Singleton
<1>2. IsFiniteSet(1 .. fun[x]) /\ Cardinality(1 .. fun[x]) = Gain(fun[x])
  <2>1. /\ IsFiniteSet(1 .. fun[x])
        /\ Cardinality(1 .. fun[x]) = IF 1 > fun[x] THEN 0 ELSE fun[x] - 1 + 1
    BY FS_Interval
  <2>. QED BY <2>1 DEF Gain
<1>3. IsFiniteSet(UnitsAt(fun, x))
      /\ Cardinality(UnitsAt(fun, x)) = Cardinality({x}) * Cardinality(1 .. fun[x])
  BY <1>1, <1>2, FS_Product DEF UnitsAt
<1>4. Gain(fun[x]) \in Int
  BY DEF Gain
<1>. QED BY <1>1, <1>2, <1>3, <1>4

LEMMA UnitsSplit ==
    ASSUME NEW fun, NEW S, NEW x \in S, fun[x] \in Int, IsFiniteSet(Units(fun, S \ {x}))
    PROVE  /\ IsFiniteSet(Units(fun, S))
           /\ Cardinality(Units(fun, S)) = Gain(fun[x]) + Cardinality(Units(fun, S \ {x}))
<1>1. /\ Units(fun, S) = Units(fun, S \ {x}) \cup UnitsAt(fun, x)
      /\ Units(fun, S \ {x}) \cap UnitsAt(fun, x) = {}
  BY DEF Units, UnitsAt
<1>2. IsFiniteSet(UnitsAt(fun, x)) /\ Cardinality(UnitsAt(fun, x)) = Gain(fun[x])
  BY UnitsOfOne
<1>3. /\ IsFiniteSet(Units(fun, S))
      /\ Cardinality(Units(fun, S)) = Cardinality(Units(fun, S \ {x}))
            + Cardinality(UnitsAt(fun, x))
            - Cardinality(Units(fun, S \ {x}) \cap UnitsAt(fun, x))
  BY <1>1, <1>2, FS_Union
<1>4. Cardinality(Units(fun, S \ {x}) \cap UnitsAt(fun, x)) = 0
  BY <1>1, FS_EmptySet
<1>5. Cardinality(Units(fun, S \ {x})) \in Nat /\ Gain(fun[x]) \in Int
  BY FS_CardinalityType DEF Gain
<1>. QED BY <1>2, <1>3, <1>4, <1>5

LEMMA NoUnits == ASSUME NEW fun PROVE Units(fun, {}) = {}
BY DEF Units

LEMMA UnitsAreFinite ==
    ASSUME NEW S, IsFiniteSet(S), NEW fun, \A x \in S : fun[x] \in Int
    PROVE  \A A \in SUBSET S : IsFiniteSet(Units(fun, A)) /\ Cardinality(Units(fun, A)) \in Nat
<1>. DEFINE T == {A \in SUBSET S : IsFiniteSet(Units(fun, A))}
<1>1. ASSUME NEW A \in SUBSET S, \A B \in SUBSET A : B # A => B \in T PROVE A \in T
  <2>1. CASE A = {}
    BY <2>1, NoUnits, FS_EmptySet
  <2>2. CASE A # {}
    <3>1. PICK x \in A : TRUE
      BY <2>2
    <3>2. IsFiniteSet(Units(fun, A \ {x})) /\ fun[x] \in Int
      BY <1>1, <3>1
    <3>. QED BY <3>1, <3>2, UnitsSplit
  <2>. QED BY <2>1, <2>2
<1>. HIDE DEF T
<1>2. SUBSET S \subseteq T
  BY <1>1, SubsetInduction
<1>. QED BY <1>2, FS_CardinalityType DEF T

(* What a sum comes to: its gains less its losses.                         *)
Negated(fun, S) == [x \in S |-> - fun[x]]
Balance(fun, S, A) == Cardinality(Units(fun, A)) - Cardinality(Units(Negated(fun, S), A))

LEMMA BalanceSplit ==
    ASSUME NEW S, IsFiniteSet(S), NEW fun, \A x \in S : fun[x] \in Int,
           NEW A \in SUBSET S, NEW x \in A
    PROVE  Balance(fun, S, A) = fun[x] + Balance(fun, S, A \ {x})
<1>. DEFINE neg == Negated(fun, S)
<1>1. /\ fun[x] \in Int /\ neg[x] = - fun[x]
      /\ \A y \in S : neg[y] \in Int
  BY DEF Negated
<1>. HIDE DEF neg
<1>2. /\ IsFiniteSet(Units(fun, A \ {x})) /\ Cardinality(Units(fun, A \ {x})) \in Nat
      /\ IsFiniteSet(Units(neg, A \ {x})) /\ Cardinality(Units(neg, A \ {x})) \in Nat
  BY <1>1, UnitsAreFinite
<1>3. Cardinality(Units(fun, A)) = Gain(fun[x]) + Cardinality(Units(fun, A \ {x}))
  BY <1>1, <1>2, UnitsSplit
<1>4. Cardinality(Units(neg, A)) = Gain(neg[x]) + Cardinality(Units(neg, A \ {x}))
  BY <1>1, <1>2, UnitsSplit
<1>5. /\ Gain(fun[x]) \in Int /\ Gain(neg[x]) \in Int
      /\ Gain(fun[x]) - Gain(neg[x]) = fun[x]
  BY <1>1 DEF Gain
<1>6. /\ Balance(fun, S, A) = Cardinality(Units(fun, A)) - Cardinality(Units(neg, A))
      /\ Balance(fun, S, A \ {x})
           = Cardinality(Units(fun, A \ {x})) - Cardinality(Units(neg, A \ {x}))
  BY DEF Balance, neg
<1>. QED BY <1>1, <1>2, <1>3, <1>4, <1>5, <1>6

LEMMA BalanceType ==
    ASSUME NEW S, IsFiniteSet(S), NEW fun, \A x \in S : fun[x] \in Int, NEW A \in SUBSET S
    PROVE  Balance(fun, S, A) \in Int
<1>1. \A x \in S : Negated(fun, S)[x] \in Int
  BY DEF Negated
<1>. QED BY <1>1, UnitsAreFinite DEF Balance

-----------------------------------------------------------------------------
(* The recursion that a fold stands for, and the function that solves it.  *)
OneOf(s) == CHOOSE x \in s : TRUE
Solves(fun, S, g) ==
    g = [s \in SUBSET S |-> IF s = {} THEN 0 ELSE fun[OneOf(s)] + g[s \ {OneOf(s)}]]

LEMMA OnlySolution ==
    ASSUME NEW S, IsFiniteSet(S), NEW fun, \A x \in S : fun[x] \in Int, NEW g
    PROVE  Solves(fun, S, g) <=> g = [s \in SUBSET S |-> Balance(fun, S, s)]
<1>. DEFINE count == [s \in SUBSET S |-> Balance(fun, S, s)]
<1>1. ASSUME NEW s \in SUBSET S, s # {}
      PROVE  /\ OneOf(s) \in s
             /\ Balance(fun, S, s) = fun[OneOf(s)] + Balance(fun, S, s \ {OneOf(s)})
  <2>1. OneOf(s) \in s
    BY <1>1 DEF OneOf
  <2>. QED BY <2>1, BalanceSplit
<1>2. Balance(fun, S, {}) = 0
  BY NoUnits, FS_EmptySet DEF Balance
<1>3. Solves(fun, S, count)
  <2>1. ASSUME NEW s \in SUBSET S
        PROVE  count[s] = IF s = {} THEN 0 ELSE fun[OneOf(s)] + count[s \ {OneOf(s)}]
    BY <1>1, <1>2
  <2>. QED BY <2>1 DEF Solves
<1>4. ASSUME Solves(fun, S, g) PROVE g = count
  <2>. DEFINE T == {s \in SUBSET S : g[s] = count[s]}
  <2>1. \A s \in SUBSET S : g[s] = IF s = {} THEN 0 ELSE fun[OneOf(s)] + g[s \ {OneOf(s)}]
    BY <1>4 DEF Solves
  <2>2. ASSUME NEW A \in SUBSET S, \A B \in SUBSET A : B # A => B \in T PROVE A \in T
    <3>1. CASE A = {}
      BY <1>2, <2>1, <3>1
    <3>2. CASE A # {}
      <4>1. OneOf(A) \in A /\ A \ {OneOf(A)} \in T
        BY <1>1, <2>2, <3>2
      <4>2. g[A \ {OneOf(A)}] = Balance(fun, S, A \ {OneOf(A)})
        BY <4>1
      <4>. QED BY <1>1, <2>1, <3>2, <4>2
    <3>. QED BY <3>1, <3>2
  <2>. HIDE DEF T
  <2>3. SUBSET S \subseteq T
    BY <2>2, SubsetInduction
  <2>4. g = [s \in SUBSET S |-> g[s]]
    BY <1>4 DEF Solves
  <2>. QED BY <2>3, <2>4 DEF T
<1>. QED BY <1>3, <1>4

LEMMA SumIsFold ==
    ASSUME NEW S, NEW fun, NEW g, \A h : Solves(fun, S, h) <=> h = g
    PROVE  SumFunctionOnSet(fun, S) = g[S]
BY DEF SumFunctionOnSet, FoldFunctionOnSet, MapThenFoldSet, Solves, OneOf

(* A sum of integers counts the units of its gains and of its losses.      *)
THEOREM SumIsCount ==
    ASSUME NEW S, IsFiniteSet(S), NEW fun, \A x \in S : fun[x] \in Int
    PROVE  /\ SumFunctionOnSet(fun, S)
                = Cardinality(Units(fun, S)) - Cardinality(Units(Negated(fun, S), S))
           /\ SumFunctionOnSet(fun, S) \in Int
<1>. DEFINE count == [s \in SUBSET S |-> Balance(fun, S, s)]
<1>1. \A h : Solves(fun, S, h) <=> h = count
  BY OnlySolution
<1>2. count[S] = Balance(fun, S, S) /\ Balance(fun, S, S) \in Int
  BY BalanceType
<1>. HIDE DEF count
<1>3. SumFunctionOnSet(fun, S) = Balance(fun, S, S)
  BY <1>1, <1>2, SumIsFold
<1>. QED BY <1>2, <1>3 DEF Balance

(* A sum of natural numbers counts units, and is one.                      *)
LEMMA SumOfNaturals ==
    ASSUME NEW S, IsFiniteSet(S), NEW fun, \A x \in S : fun[x] \in Nat
    PROVE  /\ SumFunctionOnSet(fun, S) = Cardinality(Units(fun, S))
           /\ SumFunctionOnSet(fun, S) \in Nat
<1>1. Units(Negated(fun, S), S) = {}
  BY DEF Units, Negated
<1>2. Cardinality(Units(Negated(fun, S), S)) = 0
  BY <1>1, FS_EmptySet
<1>3. Cardinality(Units(fun, S)) \in Nat
  BY UnitsAreFinite
<1>4. SumFunctionOnSet(fun, S)
        = Cardinality(Units(fun, S)) - Cardinality(Units(Negated(fun, S), S))
  BY SumIsCount
<1>. QED BY <1>2, <1>3, <1>4

-----------------------------------------------------------------------------
LEMMA SumOfNone == ASSUME NEW fun PROVE SumFunctionOnSet(fun, {}) = 0
<1>1. IsFiniteSet({}) /\ Cardinality({}) = 0
  BY FS_EmptySet
<1>2. SumFunctionOnSet(fun, {}) = Cardinality(Units(fun, {}))
  BY <1>1, SumOfNaturals
<1>. QED BY <1>1, <1>2, NoUnits

LEMMA SumOfZeros ==
    ASSUME NEW S, IsFiniteSet(S), NEW fun, \A x \in S : fun[x] = 0
    PROVE  SumFunctionOnSet(fun, S) = 0
<1>1. Units(fun, S) = {}
  BY DEF Units
<1>2. SumFunctionOnSet(fun, S) = Cardinality(Units(fun, S))
  BY SumOfNaturals
<1>. QED BY <1>1, <1>2, FS_EmptySet

LEMMA SumOfSame ==
    ASSUME NEW S, IsFiniteSet(S), NEW fun, NEW new,
           \A x \in S : fun[x] \in Int /\ new[x] = fun[x]
    PROVE  SumFunctionOnSet(new, S) = SumFunctionOnSet(fun, S)
<1>1. Units(new, S) = Units(fun, S) /\ Negated(new, S) = Negated(fun, S)
  BY DEF Units, Negated
<1>2. SumFunctionOnSet(fun, S)
        = Cardinality(Units(fun, S)) - Cardinality(Units(Negated(fun, S), S))
  BY SumIsCount
<1>3. SumFunctionOnSet(new, S)
        = Cardinality(Units(new, S)) - Cardinality(Units(Negated(new, S), S))
  BY SumIsCount
<1>. QED BY <1>1, <1>2, <1>3

(* One index taken out of a sum.                                           *)
LEMMA SumSplit ==
    ASSUME NEW S, IsFiniteSet(S), NEW fun, \A x \in S : fun[x] \in Int, NEW x \in S
    PROVE  SumFunctionOnSet(fun, S) = fun[x] + SumFunctionOnSet(fun, S \ {x})
<1>1. IsFiniteSet(S \ {x}) /\ S \ {x} \in SUBSET S
  BY FS_RemoveElement
<1>2. SumFunctionOnSet(fun, S) = Balance(fun, S, S)
  BY SumIsCount DEF Balance
<1>3. SumFunctionOnSet(fun, S \ {x}) = Balance(fun, S, S \ {x})
  <2>1. SumFunctionOnSet(fun, S \ {x}) = Cardinality(Units(fun, S \ {x}))
          - Cardinality(Units(Negated(fun, S \ {x}), S \ {x}))
    BY <1>1, SumIsCount
  <2>2. Units(Negated(fun, S \ {x}), S \ {x}) = Units(Negated(fun, S), S \ {x})
    BY DEF Units, Negated
  <2>. QED BY <2>1, <2>2 DEF Balance
<1>4. Balance(fun, S, S) = fun[x] + Balance(fun, S, S \ {x})
  BY BalanceSplit
<1>. QED BY <1>2, <1>3, <1>4

(* One value of a sum changes.                                             *)
LEMMA SumChanges ==
    ASSUME NEW S, IsFiniteSet(S), NEW fun, NEW new, NEW x \in S,
           \A y \in S : fun[y] \in Int /\ new[y] \in Int /\ (y # x => new[y] = fun[y])
    PROVE  SumFunctionOnSet(new, S) + fun[x] = SumFunctionOnSet(fun, S) + new[x]
<1>1. IsFiniteSet(S \ {x})
  BY FS_RemoveElement
<1>2. SumFunctionOnSet(new, S \ {x}) = SumFunctionOnSet(fun, S \ {x})
  BY <1>1, SumOfSame
<1>3. SumFunctionOnSet(fun, S) = fun[x] + SumFunctionOnSet(fun, S \ {x})
  BY SumSplit
<1>4. SumFunctionOnSet(new, S) = new[x] + SumFunctionOnSet(new, S \ {x})
  BY SumSplit
<1>5. SumFunctionOnSet(fun, S \ {x}) \in Int
  BY <1>1, SumIsCount
<1>. QED BY <1>2, <1>3, <1>4, <1>5

(* A value joins a sum.                                                    *)
LEMMA SumGrows ==
    ASSUME NEW S, IsFiniteSet(S), NEW fun, NEW x, x \notin S,
           \A y \in S \cup {x} : fun[y] \in Int
    PROVE  SumFunctionOnSet(fun, S \cup {x}) = fun[x] + SumFunctionOnSet(fun, S)
<1>1. IsFiniteSet(S \cup {x}) /\ (S \cup {x}) \ {x} = S
  BY FS_AddElement
<1>. QED BY <1>1, SumSplit

(* A sum over fewer indices, and of values that are not larger.            *)
LEMMA SumOfFewer ==
    ASSUME NEW S, IsFiniteSet(S), NEW A \in SUBSET S, NEW fun, NEW new,
           \A x \in S : fun[x] \in Nat, \A x \in A : new[x] \in Nat /\ new[x] <= fun[x]
    PROVE  SumFunctionOnSet(new, A) <= SumFunctionOnSet(fun, S)
<1>1. Units(new, A) \in SUBSET Units(fun, S)
  <2>. SUFFICES ASSUME NEW u \in Units(new, A) PROVE u \in Units(fun, S)
    OBVIOUS
  <2>1. u \in S \X Nat /\ u[1] \in A /\ u[2] \in Nat /\ 1 <= u[2] /\ u[2] <= new[u[1]]
    BY DEF Units
  <2>. QED BY <2>1 DEF Units
<1>2. IsFiniteSet(A) /\ IsFiniteSet(Units(fun, S))
  BY FS_Subset, UnitsAreFinite
<1>3. Cardinality(Units(new, A)) <= Cardinality(Units(fun, S))
  BY <1>1, <1>2, FS_Subset
<1>4. SumFunctionOnSet(fun, S) = Cardinality(Units(fun, S))
  BY SumOfNaturals
<1>5. SumFunctionOnSet(new, A) = Cardinality(Units(new, A))
  BY <1>2, SumOfNaturals
<1>. QED BY <1>3, <1>4, <1>5

(* A sum of values none of which is above b.                               *)
LEMMA SumIsBounded ==
    ASSUME NEW S, IsFiniteSet(S), NEW fun, NEW b \in Nat,
           \A x \in S : fun[x] \in Nat /\ fun[x] <= b
    PROVE  SumFunctionOnSet(fun, S) <= Cardinality(S) * b
<1>1. IsFiniteSet(1 .. b) /\ Cardinality(1 .. b) = b
  BY FS_Interval
<1>2. IsFiniteSet(S \X (1 .. b)) /\ Cardinality(S \X (1 .. b)) = Cardinality(S) * b
  BY <1>1, FS_Product
<1>3. Units(fun, S) \in SUBSET (S \X (1 .. b))
  <2>. SUFFICES ASSUME NEW u \in Units(fun, S) PROVE u \in S \X (1 .. b)
    OBVIOUS
  <2>1. u \in S \X Nat /\ u[1] \in S /\ u[2] \in Nat /\ 1 <= u[2] /\ u[2] <= fun[u[1]]
    BY DEF Units
  <2>2. fun[u[1]] \in Nat /\ fun[u[1]] <= b
    BY <2>1
  <2>. QED BY <2>1, <2>2
<1>4. Cardinality(Units(fun, S)) <= Cardinality(S \X (1 .. b))
  BY <1>2, <1>3, FS_Subset
<1>. QED BY <1>2, <1>4, SumOfNaturals

-----------------------------------------------------------------------------
(* The greatest of finitely many numbers is one of them.                   *)
LEMMA MaxIsOne ==
    ASSUME NEW S, IsFiniteSet(S), S \in SUBSET Int, S # {}
    PROVE  Max(S) \in S /\ \A y \in S : y <= Max(S)
<1>. DEFINE T == {A \in SUBSET S : A = {} \/ \E x \in A : \A y \in A : x >= y}
<1>1. ASSUME NEW A \in SUBSET S, \A B \in SUBSET A : B # A => B \in T PROVE A \in T
  <2>1. CASE A = {}
    BY <2>1
  <2>2. CASE A # {}
    <3>1. PICK x \in A : TRUE
      BY <2>2
    <3>2. A \ {x} = {} \/ \E z \in A \ {x} : \A y \in A \ {x} : z >= y
      <4>1. A \ {x} \in SUBSET A /\ A \ {x} # A
        BY <3>1
      <4>2. A \ {x} \in T
        BY <1>1, <4>1
      <4>. QED BY <4>2
    <3>3. CASE A \ {x} = {}
      BY <3>1, <3>3
    <3>4. ASSUME NEW z \in A \ {x}, \A y \in A \ {x} : z >= y PROVE A \in T
      <4>1. CASE z >= x
        BY <3>1, <3>4, <4>1
      <4>2. CASE ~ (z >= x)
        <5>1. \A y \in A : x >= y
          BY <3>1, <3>4, <4>2
        <5>. QED BY <3>1, <5>1
      <4>. QED BY <4>1, <4>2
    <3>. QED BY <3>2, <3>3, <3>4
  <2>. QED BY <2>1, <2>2
<1>. HIDE DEF T
<1>2. SUBSET S \subseteq T
  BY <1>1, SubsetInduction
<1>3. \E x \in S : \A y \in S : x >= y
  BY <1>2 DEF T
<1>4. Max(S) \in S /\ \A y \in S : Max(S) >= y
  BY <1>3 DEF Max
<1>. QED BY <1>4

LEMMA MaxGrows ==
    ASSUME NEW S, IsFiniteSet(S), S \in SUBSET Int, NEW T \in SUBSET S, T # {}
    PROVE  Max(S) \in Int /\ Max(T) \in Int /\ Max(T) <= Max(S)
<1>1. IsFiniteSet(T) /\ T \in SUBSET Int /\ S # {}
  BY FS_Subset
<1>2. Max(T) \in T
  BY <1>1, MaxIsOne
<1>3. Max(S) \in S /\ \A y \in S : y <= Max(S)
  BY <1>1, MaxIsOne
<1>. QED BY <1>2, <1>3

LEMMA MaxOfTwo ==
    ASSUME NEW a \in Int, NEW b \in Int
    PROVE  Max({a, b}) = IF a >= b THEN a ELSE b
<1>1. IsFiniteSet({a, b})
  <2>1. IsFiniteSet({a}) /\ {a, b} = {a} \cup {b}
    BY FS_Singleton
  <2>. QED BY <2>1, FS_AddElement
<1>2. Max({a, b}) \in {a, b} /\ \A y \in {a, b} : y <= Max({a, b})
  BY <1>1, MaxIsOne
<1>. QED BY <1>2

LEMMA MinOfTwo ==
    ASSUME NEW a \in Int, NEW b \in Int
    PROVE  Min({a, b}) = IF a <= b THEN a ELSE b
<1>1. \E x \in {a, b} : \A y \in {a, b} : x =< y
  OBVIOUS
<1>2. Min({a, b}) \in {a, b} /\ \A y \in {a, b} : Min({a, b}) <= y
  BY <1>1 DEF Min
<1>. QED BY <1>2
=============================================================================
