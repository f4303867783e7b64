------------------------------- MODULE SumProofs -------------------------------
(***************************************************************************)
(* Lemmas about SumFunction of the community modules, which sums the       *)
(* values of a function over its domain: the units sold to all the orders. *)
(*                                                                         *)
(* SumFunction folds over the subsets of the domain with a recursive       *)
(* function.  What that function does is proved by induction on sets of    *)
(* numbers and of subsets (LeastElement, SubsetInduction); the induction   *)
(* theorems of the library are about predicates.                           *)
(***************************************************************************)
EXTENDS Integers, Functions, FiniteSetTheorems, TLAPS

\* The element of a set that the fold takes out next.
Picked(s) == CHOOSE x \in s : TRUE

\* it sums f over the subsets of S, as the fold does it.
Sums(it, f, S) ==
    it = [s \in SUBSET S |-> IF s = {} THEN 0 ELSE f[Picked(s)] + it[s \ {Picked(s)}]]

-----------------------------------------------------------------------------
(* Induction.                                                              *)

\* A set of natural numbers that is not empty has a least element.
LEMMA LeastElement ==
    ASSUME NEW T \in SUBSET Nat, T # {}
    PROVE  \E n \in T : \A m \in T : n <= m
<1> DEFINE R == OpToRel(<, Nat)
<1>1. PICK n \in T : \A m \in T : ~ (<<m, n>> \in R)
  <2> HIDE DEF R
  <2>1. IsWellFoundedOn(R, Nat)
    BY NatLessThanWellFounded DEF R
  <2> QED BY <2>1, WFMin
<1>2. ASSUME NEW m \in T PROVE n <= m
  <2>1. <<m, n>> \notin R
    BY <1>1
  <2>2. m \in Nat /\ n \in Nat
    OBVIOUS
  <2>3. ~ (m < n)
    BY <2>1, <2>2 DEF OpToRel
  <2> QED BY <2>2, <2>3
<1> QED BY <1>2

\* A set of natural numbers with 0 and the successor of each of its members
\* has them all.
LEMMA NatSetInduction ==
    ASSUME NEW T, 0 \in T, \A n \in Nat : n \in T => n + 1 \in T
    PROVE  Nat \subseteq T
<1> SUFFICES ASSUME Nat \ T # {} PROVE FALSE
  OBVIOUS
<1>1. PICK n \in Nat \ T : \A m \in Nat \ T : n <= m
  BY LeastElement
<1>2. n # 0 /\ n - 1 \in Nat /\ ~ (n <= n - 1) /\ n = (n - 1) + 1
  OBVIOUS
<1>3. n - 1 \in T
  BY <1>1, <1>2
<1> QED BY <1>2, <1>3

LEMMA PickedIn == ASSUME NEW s, s # {} PROVE Picked(s) \in s
BY DEF Picked

\* A family with {}, and with each subset of S that has one element more than
\* a member, has every subset of S.
LEMMA SubsetInduction ==
    ASSUME NEW S, IsFiniteSet(S), NEW F, {} \in F,
           \A s \in SUBSET S : (s # {} /\ s \ {Picked(s)} \in F) => s \in F
    PROVE  SUBSET S \subseteq F
<1> DEFINE T == {n \in Nat : \A s \in SUBSET S : Cardinality(s) = n => s \in F}
<1>1. \A s \in SUBSET S : IsFiniteSet(s) /\ Cardinality(s) \in Nat
  BY FS_Subset, FS_CardinalityType
<1>2. 0 \in T
  BY <1>1, FS_EmptySet
<1>3. ASSUME NEW n \in Nat, n \in T PROVE n + 1 \in T
  <2> SUFFICES ASSUME NEW s \in SUBSET S, Cardinality(s) = n + 1 PROVE s \in F
    OBVIOUS
  <2> DEFINE x == Picked(s)
  <2>1. s # {}
    <3>1. Cardinality({}) = 0 /\ n + 1 # 0
      BY FS_EmptySet
    <3> QED BY <3>1
  <2>2. x \in s
    BY <2>1, PickedIn
  <2>3. Cardinality(s \ {x}) = (n + 1) - 1
    BY <1>1, <2>2, FS_RemoveElement
  <2>4. s \ {x} \in F
    BY <2>3, <1>3
  <2> QED BY <2>1, <2>4
<1>4. Nat \subseteq T
  <2> HIDE DEF T
  <2> QED BY <1>2, <1>3, NatSetInduction
<1> QED BY <1>1, <1>4

-----------------------------------------------------------------------------
(* The fold.                                                               *)

\* There is a function that sums f: one for the subsets of at most n elements
\* gives one for those of n + 1.
LEMMA SumsExists ==
    ASSUME NEW S, IsFiniteSet(S), NEW f
    PROVE  \E it : Sums(it, f, S)
<1> DEFINE Small(n) == {s \in SUBSET S : Cardinality(s) <= n}
           Fold(it, s) == IF s = {} THEN 0 ELSE f[Picked(s)] + it[s \ {Picked(s)}]
           T == {n \in Nat : \E it : it = [s \in Small(n) |-> Fold(it, s)]}
<1>1. \A s \in SUBSET S : IsFiniteSet(s) /\ Cardinality(s) \in Nat
  BY FS_Subset, FS_CardinalityType
<1>2. 0 \in T
  <2> DEFINE it == [s \in Small(0) |-> 0]
  <2>1. ASSUME NEW s \in Small(0) PROVE Fold(it, s) = 0
    <3>1. Cardinality(s) = 0
      BY <1>1
    <3>2. s = {}
      BY <3>1, <1>1, FS_EmptySet
    <3> QED BY <3>2
  <2>2. it = [s \in Small(0) |-> Fold(it, s)]
    BY <2>1
  <2> QED BY <2>2
<1>3. ASSUME NEW n \in Nat, n \in T PROVE n + 1 \in T
  <2>1. PICK it : it = [s \in Small(n) |-> Fold(it, s)]
    BY <1>3
  <2> DEFINE jt == [s \in Small(n + 1) |-> Fold(it, s)]
  <2>2. ASSUME NEW s \in Small(n + 1) PROVE jt[s] = Fold(jt, s)
    <3>1. CASE s = {}
      BY <3>1
    <3>2. CASE s # {}
      <4> DEFINE t == s \ {Picked(s)}
      <4>1. t \in Small(n)
        <5>1. Cardinality(t) = Cardinality(s) - 1
          BY <1>1, <3>2, PickedIn, FS_RemoveElement
        <5> QED BY <5>1, <1>1
      <4>2. t \in Small(n + 1)
        BY <4>1, <1>1
      <4>3. it[t] = Fold(it, t)
        BY <4>1, <2>1
      <4>4. jt[t] = it[t]
        BY <4>2, <4>3
      <4> QED BY <4>4, <3>2
    <3> QED BY <3>1, <3>2
  <2>3. jt = [s \in Small(n + 1) |-> Fold(jt, s)]
    <3> HIDE DEF Small
    <3>1. \A s \in Small(n + 1) : Fold(it, s) = Fold(jt, s)
      BY <2>2
    <3> QED BY <3>1
  <2> HIDE DEF jt, Small, Fold
  <2>4. \E kt : kt = [s \in Small(n + 1) |-> Fold(kt, s)]
    BY <2>3
  <2> QED BY <2>4
<1>4. Nat \subseteq T
  <2> HIDE DEF T
  <2> QED BY <1>2, <1>3, NatSetInduction
<1>5. Cardinality(S) \in T
  BY <1>4, FS_CardinalityType
<1>6. SUBSET S = Small(Cardinality(S))
  BY <1>1, FS_Subset
<1> QED BY <1>5, <1>6 DEF Sums

\* SumFunction is the value of such a function on the whole domain.
LEMMA SumFunctionSums ==
    ASSUME NEW f, IsFiniteSet(DOMAIN f)
    PROVE  \E it : Sums(it, f, DOMAIN f) /\ SumFunction(f) = it[DOMAIN f]
<1>1. PICK it : Sums(it, f, DOMAIN f)
  BY SumsExists
<1> QED
  BY <1>1, ZenonT(30)
  DEF Sums, Picked, SumFunction, SumFunctionOnSet, FoldFunctionOnSet, MapThenFoldSet

LEMMA SumsAt ==
    ASSUME NEW S, NEW f, NEW it, Sums(it, f, S)
    PROVE  /\ it[{}] = 0
           /\ \A s \in SUBSET S : s # {} => it[s] = f[Picked(s)] + it[s \ {Picked(s)}]
BY DEF Sums

-----------------------------------------------------------------------------
(* Sums.                                                                   *)

\* A sum of natural numbers is one.
LEMMA SumType ==
    ASSUME NEW S, IsFiniteSet(S), NEW f \in [S -> Nat]
    PROVE  SumFunction(f) \in Nat
<1>1. PICK it : Sums(it, f, S) /\ SumFunction(f) = it[S]
  BY SumFunctionSums
<1>e. /\ it[{}] = 0
      /\ \A s \in SUBSET S : s # {} => it[s] = f[Picked(s)] + it[s \ {Picked(s)}]
  BY <1>1 DEF Sums
<1> DEFINE F == {s \in SUBSET S : it[s] \in Nat}
<1>2. {} \in F
  BY <1>e
<1>3. ASSUME NEW s \in SUBSET S, s # {}, s \ {Picked(s)} \in F PROVE s \in F
  <2>1. f[Picked(s)] \in Nat
    BY <1>3, PickedIn
  <2>2. it[s \ {Picked(s)}] \in Nat
    BY <1>3
  <2>3. it[s] = f[Picked(s)] + it[s \ {Picked(s)}]
    BY <1>3, <1>e
  <2>4. it[s] \in Nat
    BY <2>1, <2>2, <2>3
  <2> QED BY <2>4
<1>4. SUBSET S \subseteq F
  <2> HIDE DEF F
  <2> QED BY <1>2, <1>3, SubsetInduction
<1> QED BY <1>1, <1>4

\* A sum of zeros is 0.
LEMMA SumOfZeros ==
    ASSUME NEW S, IsFiniteSet(S)
    PROVE  SumFunction([x \in S |-> 0]) = 0
<1> DEFINE f == [x \in S |-> 0]
<1>1. PICK it : Sums(it, f, S) /\ SumFunction(f) = it[S]
  BY SumFunctionSums
<1> DEFINE F == {s \in SUBSET S : it[s] = 0}
<1>2. {} \in F
  BY <1>1, SumsAt
<1>3. ASSUME NEW s \in SUBSET S, s # {}, s \ {Picked(s)} \in F PROVE s \in F
  <2>1. f[Picked(s)] = 0
    BY <1>3, PickedIn
  <2> HIDE DEF f
  <2> QED BY <2>1, <1>3, <1>1, SumsAt
<1>4. SUBSET S \subseteq F
  <2> HIDE DEF F
  <2> QED BY <1>2, <1>3, SubsetInduction
<1> QED BY <1>1, <1>4

\* A sum follows its summands: when one of them changes, it changes as much.
LEMMA SumUpdate ==
    ASSUME NEW S, IsFiniteSet(S), NEW f \in [S -> Int], NEW x \in S, NEW v \in Int
    PROVE  /\ SumFunction(f) \in Int
           /\ SumFunction([f EXCEPT ![x] = v]) = SumFunction(f) + v - f[x]
<1> DEFINE g == [f EXCEPT ![x] = v]
<1>0. IsFiniteSet(DOMAIN f) /\ IsFiniteSet(DOMAIN g) /\ DOMAIN f = S /\ DOMAIN g = S
  OBVIOUS
<1>1. PICK it : Sums(it, f, S) /\ SumFunction(f) = it[S]
  BY <1>0, SumFunctionSums
<1>2. PICK jt : Sums(jt, g, S) /\ SumFunction(g) = jt[S]
  <2> HIDE DEF g
  <2> QED BY <1>0, SumFunctionSums
<1>e. /\ it[{}] = 0 /\ jt[{}] = 0
      /\ \A s \in SUBSET S :
            s # {} => /\ it[s] = f[Picked(s)] + it[s \ {Picked(s)}]
                      /\ jt[s] = g[Picked(s)] + jt[s \ {Picked(s)}]
  <2> HIDE DEF g
  <2> QED BY <1>1, <1>2 DEF Sums
<1> DEFINE F == {s \in SUBSET S :
                   /\ it[s] \in Int
                   /\ jt[s] = it[s] + (IF x \in s THEN v - f[x] ELSE 0)}
<1>3. {} \in F
  BY <1>e
<1>4. ASSUME NEW s \in SUBSET S, s # {}, s \ {Picked(s)} \in F PROVE s \in F
  <2> DEFINE y == Picked(s)
             t == s \ {y}
  <2>1. y \in s /\ t \in SUBSET S
    BY <1>4, PickedIn
  <2>2. it[s] = f[y] + it[t] /\ jt[s] = g[y] + jt[t]
    BY <1>4, <1>e
  <2>3. /\ it[t] \in Int
        /\ jt[t] = it[t] + (IF x \in t THEN v - f[x] ELSE 0)
    BY <1>4
  <2>4. f[y] \in Int /\ f[x] \in Int /\ g[y] = IF y = x THEN v ELSE f[y]
    BY <2>1
  <2> HIDE DEF y, g
  <2>5. CASE y = x
    <3>1. x \in s /\ x \notin t
      BY <2>1, <2>5
    <3> QED BY <2>2, <2>3, <2>4, <2>5, <3>1
  <2>6. CASE y # x
    <3>1. x \in t <=> x \in s
      BY <2>6
    <3> QED BY <2>2, <2>3, <2>4, <2>6, <3>1
  <2> QED BY <2>5, <2>6
<1>5. SUBSET S \subseteq F
  <2> HIDE DEF F
  <2> QED BY <1>3, <1>4, SubsetInduction
<1>6. it[S] \in Int /\ jt[S] = it[S] + (v - f[x])
  BY <1>5
<1> QED BY <1>1, <1>2, <1>6
=============================================================================
