---------------------------- MODULE FrameProofs ----------------------------
(***************************************************************************)
(* What the sums and the scan of Frames compute, for every transaction:    *)
(* that the signature the sponsor fills in adds no more than its own gas   *)
(* to the cost, that a ceiling which the saturated cost passes bounds the  *)
(* exact one, and that validate_structure and resolve_payer agree with the *)
(* shapes of EIP-8141.                                                     *)
(*                                                                         *)
(* A fold and a loop are recursive functions: that they exist is proved by *)
(* induction on a set or on a number, each stated for a set of good ones.  *)
(***************************************************************************)
EXTENDS Frames, FiniteSetTheorems, TLAPS

\* The provers get more time than by default: the contexts are long.
USE SMTT(30), ZenonT(30)

-----------------------------------------------------------------------------
(* Numbers                                                                 *)

\* A set of numbers that is not empty has a least.
LEMMA LeastExists ==
    ASSUME NEW I \in SUBSET Nat, I # {}
    PROVE  \E x \in I : \A y \in I : x =< y
<1> DEFINE R == OpToRel(<, Nat)
<1>1. IsWellFoundedOn(R, Nat)
  BY NatLessThanWellFounded, Zenon
<1>2. R = {pair \in Nat \X Nat : pair[1] < pair[2]}
  BY DEF OpToRel
<1> HIDE DEF R
<1>3. PICK x \in I : \A y \in I : <<y, x>> \notin R
  BY <1>1, WFMin, Zenon
<1>4. \A a, b \in Nat : a < b => <<a, b>> \in R
  BY <1>2
<1>5. \A y \in I : x \in Nat /\ y \in Nat /\ ~(y < x)
  BY <1>3, <1>4, Zenon
<1>6. \A y \in I : x =< y
  BY <1>5
<1> QED
  BY <1>6

\* A set of indices that is not empty has a greatest.
LEMMA GreatestExists ==
    ASSUME NEW N \in Nat, NEW I \in SUBSET (1..N), I # {}
    PROVE  \E x \in I : \A y \in I : y =< x
<1> DEFINE B == {b \in 1..N : \A y \in I : y =< b}
<1>1. B \subseteq Nat /\ N \in B
  <2>1. PICK z \in I : TRUE
    BY Zenon
  <2>2. N \in 1..N /\ \A y \in I : y =< N
    BY <2>1
  <2>3. B \subseteq 1..N
    OBVIOUS
  <2>4. N \in B
    BY <2>2
  <2> QED
    BY <2>3, <2>4
<1>2. PICK x \in B : \A b \in B : x =< b
  <2> HIDE DEF B
  <2> QED
    BY <1>1, LeastExists
<1>3. x \in I
  <2> SUFFICES ASSUME x \notin I PROVE FALSE
    OBVIOUS
  <2>1. x \in 1..N /\ \A y \in I : y =< x
    BY <1>2
  <2>2. \A y \in I : y \in 1..N /\ y =< x - 1
    BY <2>1
  <2>3. x - 1 \in 1..N
    <3>1. PICK y \in I : TRUE
      BY Zenon
    <3>2. y \in 1..N /\ y =< x - 1
      BY <2>2
    <3> QED
      BY <2>1, <3>2
  <2>4. x - 1 \in B
    BY <2>2, <2>3
  <2> HIDE DEF B
  <2>5. x =< x - 1
    BY <1>2, <2>4, Zenon
  <2> QED
    BY <2>1, <2>5
<1> QED
  BY <1>2, <1>3

\* Induction on a natural number up to a bound, for a set of numbers.
LEMMA Counting ==
    ASSUME NEW n \in Nat, NEW good, 0 \in good,
           \A i \in 1..n : i - 1 \in good => i \in good
    PROVE  \A i \in 0..n : i \in good
<1> DEFINE bad == {i \in 0..n : i \notin good}
<1> SUFFICES ASSUME bad # {} PROVE FALSE
  OBVIOUS
<1>1. bad \in SUBSET Nat
  OBVIOUS
<1>2. PICK x \in bad : \A y \in bad : x =< y
  <2> HIDE DEF bad
  <2> QED
    BY <1>1, LeastExists
<1>3. x \in 1..n /\ x \notin good
  OBVIOUS
<1>4. x - 1 \in 0..n /\ ~(x =< x - 1)
  BY <1>3
<1>5. x - 1 \in good
  BY <1>2, <1>4
<1> QED
  BY <1>3, <1>5

\* The member a fold over a set takes first.
Pick(s) == CHOOSE x \in s : TRUE

Rest(s) == s \ {Pick(s)}

LEMMA PickFacts ==
    ASSUME NEW S, IsFiniteSet(S), NEW s \in SUBSET S, s # {}
    PROVE  /\ Pick(s) \in s
           /\ Rest(s) \in SUBSET S
           /\ Cardinality(s) \in 1..Cardinality(S)
           /\ Cardinality(Rest(s)) = Cardinality(s) - 1
<1>1. Pick(s) \in s
  BY DEF Pick
<1>2. IsFiniteSet(s) /\ Cardinality(s) <= Cardinality(S)
  BY FS_Subset
<1>3. Cardinality(s) \in Nat /\ Cardinality(S) \in Nat
  BY <1>2, FS_CardinalityType
<1>4. Cardinality(s) # 0
  BY <1>2, FS_EmptySet
<1>5. Cardinality(Rest(s)) = Cardinality(s) - 1
  BY <1>1, <1>2, FS_RemoveElement DEF Rest
<1> QED
  BY <1>1, <1>2, <1>3, <1>4, <1>5 DEF Rest

\* Induction along the members a fold takes, for a set of subsets.
LEMMA SubsetInduction ==
    ASSUME NEW S, IsFiniteSet(S), NEW good, {} \in good,
           \A s \in SUBSET S : s # {} /\ Rest(s) \in good => s \in good
    PROVE  \A s \in SUBSET S : s \in good
<1> DEFINE N == Cardinality(S)
           some == {n \in 0..N : \A s \in SUBSET S : Cardinality(s) = n => s \in good}
<1>1. N \in Nat
  BY FS_CardinalityType
<1>2. \A s \in SUBSET S : IsFiniteSet(s) /\ Cardinality(s) \in 0..N
  BY FS_Subset, FS_CardinalityType, <1>1
<1>3. 0 \in some
  BY <1>1, <1>2, FS_EmptySet, Zenon
<1>4. ASSUME NEW n \in 1..N, n - 1 \in some PROVE n \in some
  <2> SUFFICES ASSUME NEW s \in SUBSET S, Cardinality(s) = n PROVE s \in good
    BY <1>1
  <2>1. s # {}
    BY FS_EmptySet
  <2>2. Rest(s) \in SUBSET S /\ Cardinality(Rest(s)) = n - 1
    BY <2>1, PickFacts
  <2> QED
    BY <1>4, <2>1, <2>2
<1>5. \A n \in 0..N : n \in some
  <2> HIDE DEF some, N
  <2> QED
    BY <1>1, <1>3, <1>4, Counting
<1> QED
  BY <1>2, <1>5

\* f is defined by a recursion along the members a fold takes.
FoldsBy(f, S, A, base, step) ==
    /\ f \in [SUBSET S -> A]
    /\ \A s \in SUBSET S : f[s] = IF s = {} THEN base ELSE step[<<Pick(s), f[Rest(s)]>>]

\* Such a recursion defines a function.
LEMMA FoldExists ==
    ASSUME NEW S, IsFiniteSet(S), NEW A, NEW base \in A, NEW step \in [S \X A -> A]
    PROVE  \E f : FoldsBy(f, S, A, base, step)
<1> DEFINE N == Cardinality(S)
           Lower(n) == {s \in SUBSET S : Cardinality(s) <= n}
           Folds(n, f) == \A s \in Lower(n) :
               f[s] = IF s = {} THEN base ELSE step[<<Pick(s), f[Rest(s)]>>]
           good == {n \in 0..N : \E f \in [Lower(n) -> A] : Folds(n, f)}
<1>1. N \in Nat
  BY FS_CardinalityType
<1>2. \A s \in SUBSET S : IsFiniteSet(s) /\ Cardinality(s) \in 0..N
  BY FS_Subset, FS_CardinalityType, <1>1
<1>3. 0 \in good
  <2> DEFINE f == [s \in Lower(0) |-> base]
  <2>1. \A s \in Lower(0) : s = {}
    BY <1>2, FS_EmptySet
  <2>2. Folds(0, f) /\ f \in [Lower(0) -> A]
    BY <2>1
  <2> HIDE DEF Folds, Lower, f, N
  <2> QED
    BY <1>1, <2>2
<1>4. ASSUME NEW n \in 1..N, n - 1 \in good PROVE n \in good
  <2>1. PICK g \in [Lower(n - 1) -> A] : Folds(n - 1, g)
    BY <1>4, Zenon
  <2> DEFINE f == [s \in Lower(n) |-> IF s \in Lower(n - 1) THEN g[s]
                                      ELSE step[<<Pick(s), g[Rest(s)]>>]]
  <2>2. \A s \in Lower(n) : s # {} => /\ Pick(s) \in S /\ Rest(s) \in Lower(n - 1)
                                      /\ Rest(s) \in Lower(n)
    <3> SUFFICES ASSUME NEW s \in SUBSET S, Cardinality(s) <= n, s # {}
                 PROVE  /\ Pick(s) \in S /\ Rest(s) \in SUBSET S
                        /\ Cardinality(Rest(s)) <= n - 1 /\ Cardinality(Rest(s)) <= n
      OBVIOUS
    <3>1. /\ Pick(s) \in s /\ Rest(s) \in SUBSET S
          /\ Cardinality(s) \in 1..N /\ Cardinality(Rest(s)) = Cardinality(s) - 1
      BY PickFacts
    <3> QED
      BY <1>1, <3>1
  <2>3. {} \in Lower(n - 1)
    BY FS_EmptySet
  <2>4. \A s \in Lower(n) : s \in Lower(n - 1) \/ s # {}
    BY <2>3, Zenon
  <2> HIDE DEF Lower
  <2>5. f \in [Lower(n) -> A]
    BY <2>2, <2>4
  <2>7. \A s \in Lower(n) : s # {} => f[Rest(s)] = g[Rest(s)]
    BY <2>2
  <2>8. ASSUME NEW s \in Lower(n)
        PROVE  f[s] = IF s = {} THEN base ELSE step[<<Pick(s), f[Rest(s)]>>]
    <3>1. CASE s \in Lower(n - 1)
      BY <2>1, <2>7, <3>1, Zenon
    <3>2. CASE s \notin Lower(n - 1)
      <4>1. s # {} /\ f[Rest(s)] = g[Rest(s)]
        BY <2>4, <2>7, <3>2, Zenon
      <4>2. f[s] = step[<<Pick(s), g[Rest(s)]>>]
        BY <3>2, Zenon
      <4> QED
        BY <4>1, <4>2, Zenon
    <3> QED
      BY <3>1, <3>2
  <2> HIDE DEF f
  <2>9. Folds(n, f)
    BY <2>8
  <2> HIDE DEF Folds, N
  <2> QED
    BY <1>1, <2>5, <2>9
<1>5. N \in good
  <2> HIDE DEF good, N
  <2> QED
    BY <1>1, <1>3, <1>4, Counting
<1>6. Lower(N) = SUBSET S
  BY <1>1, <1>2
<1>7. PICK f \in [Lower(N) -> A] : Folds(N, f)
  BY <1>5, Zenon
<1> HIDE DEF Lower
<1>8. FoldsBy(f, S, A, base, step)
  BY <1>6, <1>7 DEF FoldsBy
<1> QED
  BY <1>8

-----------------------------------------------------------------------------
(* The sums over a transaction                                             *)

LEMMA SumUnfolds ==
    ASSUME NEW f, IsFiniteSet(DOMAIN f), \A i \in DOMAIN f : f[i] \in Nat
    PROVE  \E sum \in [SUBSET DOMAIN f -> Nat] :
             /\ sum[{}] = 0
             /\ \A s \in SUBSET DOMAIN f : s # {} => sum[s] = f[Pick(s)] + sum[Rest(s)]
             /\ SumFunction(f) = sum[DOMAIN f]
<1> DEFINE S == DOMAIN f
           step == [p \in S \X Nat |-> f[p[1]] + p[2]]
           Folds(h) == h = [s \in SUBSET S |-> IF s = {} THEN 0
                              ELSE f[Pick(s)] + h[Rest(s)]]
           sum == CHOOSE h : Folds(h)
<1>1. step \in [S \X Nat -> Nat]
  OBVIOUS
<1>2. \A x \in S, a \in Nat : step[<<x, a>>] = f[x] + a
  OBVIOUS
<1> HIDE DEF step
<1>3. PICK g : FoldsBy(g, S, Nat, 0, step)
  BY <1>1, FoldExists, Zenon
<1>4. \A s \in SUBSET S : s # {} => Pick(s) \in S /\ Rest(s) \in SUBSET S
  <2> SUFFICES ASSUME NEW s \in SUBSET S, s # {} PROVE Pick(s) \in S /\ Rest(s) \in SUBSET S
    OBVIOUS
  <2>1. Pick(s) \in s /\ Rest(s) \in SUBSET S
    BY PickFacts
  <2> QED
    BY <2>1
<1>5. \A s \in SUBSET S : g[s] = IF s = {} THEN 0 ELSE f[Pick(s)] + g[Rest(s)]
  BY <1>2, <1>3, <1>4, Zenon DEF FoldsBy
<1>6. Folds(g)
  <2>1. g = [s \in SUBSET S |-> g[s]]
    BY <1>3 DEF FoldsBy
  <2> QED
    BY <1>5, <2>1, Zenon
<1>7. Folds(sum)
  <2> HIDE DEF Folds
  <2> QED
    BY <1>6
<1>8. SumFunction(f) = sum[S]
  BY DEF SumFunction, SumFunctionOnSet, FoldFunctionOnSet, MapThenFoldSet, Pick, Rest
<1> HIDE DEF sum
<1>9. \A s \in SUBSET S : sum[s] = IF s = {} THEN 0 ELSE f[Pick(s)] + sum[Rest(s)]
  BY <1>7
<1>10. \A s \in SUBSET S : sum[s] \in Nat
  <2> DEFINE good == {s \in SUBSET S : sum[s] \in Nat}
  <2>1. sum[{}] = 0 /\ 0 \in Nat /\ {} \in SUBSET S
    BY <1>9, Zenon
  <2>2. {} \in good
    BY <2>1
  <2>3. ASSUME NEW s \in SUBSET S, s # {}, Rest(s) \in good PROVE s \in good
    <3>1. f[Pick(s)] \in Nat /\ sum[Rest(s)] \in Nat
      BY <1>4, <2>3, Zenon
    <3>2. sum[s] = f[Pick(s)] + sum[Rest(s)]
      BY <1>9, <2>3, Zenon
    <3> QED
      BY <3>1, <3>2
  <2> HIDE DEF good
  <2>4. \A s \in SUBSET S : s \in good
    BY <2>2, <2>3, SubsetInduction, Zenon
  <2> QED
    BY <2>4 DEF good
<1>11. sum \in [SUBSET S -> Nat]
  BY <1>7, <1>10, Zenon
<1>12. sum[{}] = 0 /\ \A s \in SUBSET S : s # {} => sum[s] = f[Pick(s)] + sum[Rest(s)]
  BY <1>9, Zenon
<1> QED
  BY <1>8, <1>11, <1>12, Zenon

LEMMA SatSumUnfolds ==
    ASSUME NEW f, IsFiniteSet(DOMAIN f), \A i \in DOMAIN f : f[i] \in Nat
    PROVE  \E sum \in [SUBSET DOMAIN f -> Nat] :
             /\ sum[{}] = 0
             /\ \A s \in SUBSET DOMAIN f : s # {} => sum[s] = SatAdd(f[Pick(s)], sum[Rest(s)])
             /\ SatSum(f) = sum[DOMAIN f]
<1> DEFINE S == DOMAIN f
           step == [p \in S \X Nat |-> SatAdd(f[p[1]], p[2])]
           Folds(h) == h = [s \in SUBSET S |-> IF s = {} THEN 0
                              ELSE SatAdd(f[Pick(s)], h[Rest(s)])]
           sum == CHOOSE h : Folds(h)
<1>0. \A a, b \in Nat : SatAdd(a, b) \in Nat
  BY GasAssumption DEF SatAdd
<1>1. step \in [S \X Nat -> Nat]
  BY <1>0, Zenon
<1>2. \A x \in S, a \in Nat : step[<<x, a>>] = SatAdd(f[x], a)
  OBVIOUS
<1> HIDE DEF step
<1>3. PICK g : FoldsBy(g, S, Nat, 0, step)
  BY <1>1, FoldExists, Zenon
<1>4. \A s \in SUBSET S : s # {} => Pick(s) \in S /\ Rest(s) \in SUBSET S
  <2> SUFFICES ASSUME NEW s \in SUBSET S, s # {} PROVE Pick(s) \in S /\ Rest(s) \in SUBSET S
    OBVIOUS
  <2>1. Pick(s) \in s /\ Rest(s) \in SUBSET S
    BY PickFacts
  <2> QED
    BY <2>1
<1>5. \A s \in SUBSET S : g[s] = IF s = {} THEN 0 ELSE SatAdd(f[Pick(s)], g[Rest(s)])
  BY <1>2, <1>3, <1>4, Zenon DEF FoldsBy
<1>6. Folds(g)
  <2>1. g = [s \in SUBSET S |-> g[s]]
    BY <1>3 DEF FoldsBy
  <2> QED
    BY <1>5, <2>1, Zenon
<1>7. Folds(sum)
  <2> HIDE DEF Folds
  <2> QED
    BY <1>6
<1>8. SatSum(f) = sum[S]
  BY DEF SatSum, FoldFunction, FoldFunctionOnSet, MapThenFoldSet, Pick, Rest
<1> HIDE DEF sum
<1>9. \A s \in SUBSET S : sum[s] = IF s = {} THEN 0 ELSE SatAdd(f[Pick(s)], sum[Rest(s)])
  BY <1>7
<1>10. \A s \in SUBSET S : sum[s] \in Nat
  <2> DEFINE good == {s \in SUBSET S : sum[s] \in Nat}
  <2>1. sum[{}] = 0 /\ 0 \in Nat /\ {} \in SUBSET S
    BY <1>9, Zenon
  <2>2. {} \in good
    BY <2>1
  <2>3. ASSUME NEW s \in SUBSET S, s # {}, Rest(s) \in good PROVE s \in good
    <3>1. f[Pick(s)] \in Nat /\ sum[Rest(s)] \in Nat
      BY <1>4, <2>3, Zenon
    <3>2. sum[s] = SatAdd(f[Pick(s)], sum[Rest(s)])
      BY <1>9, <2>3, Zenon
    <3> QED
      BY <1>0, <3>1, <3>2, Zenon
  <2> HIDE DEF good
  <2>4. \A s \in SUBSET S : s \in good
    BY <2>2, <2>3, SubsetInduction, Zenon
  <2> QED
    BY <2>4 DEF good
<1>11. sum \in [SUBSET S -> Nat]
  BY <1>7, <1>10, Zenon
<1>12. sum[{}] = 0 /\ \A s \in SUBSET S : s # {} => sum[s] = SatAdd(f[Pick(s)], sum[Rest(s)])
  BY <1>9, Zenon
<1> QED
  BY <1>8, <1>11, <1>12, Zenon

\* A sum that saturates is the sum, up to the largest u64.
LEMMA SatSumIs ==
    ASSUME NEW f, IsFiniteSet(DOMAIN f), \A i \in DOMAIN f : f[i] \in Nat
    PROVE  /\ SumFunction(f) \in Nat
           /\ SatSum(f) = IF SumFunction(f) > MaxU64 THEN MaxU64 ELSE SumFunction(f)
<1> DEFINE S == DOMAIN f
           Sat(n) == IF n > MaxU64 THEN MaxU64 ELSE n
<1>1. PICK sum \in [SUBSET S -> Nat] :
             /\ sum[{}] = 0
             /\ \A s \in SUBSET S : s # {} => sum[s] = f[Pick(s)] + sum[Rest(s)]
             /\ SumFunction(f) = sum[S]
  BY SumUnfolds, Zenon
<1>2. PICK sat \in [SUBSET S -> Nat] :
             /\ sat[{}] = 0
             /\ \A s \in SUBSET S : s # {} => sat[s] = SatAdd(f[Pick(s)], sat[Rest(s)])
             /\ SatSum(f) = sat[S]
  BY SatSumUnfolds, Zenon
<1>3. MaxU64 \in Nat
  BY GasAssumption
<1>4. \A a, b \in Nat : SatAdd(a, Sat(b)) = Sat(a + b)
  BY <1>3 DEF SatAdd
<1> DEFINE good == {s \in SUBSET S : sat[s] = Sat(sum[s])}
<1>5. {} \in good
  <2>1. {} \in SUBSET S /\ Sat(0) = 0
    BY <1>3
  <2> QED
    BY <1>1, <1>2, <2>1, Zenon
<1> HIDE DEF Sat
<1>6. ASSUME NEW s \in SUBSET S, s # {}, Rest(s) \in good PROVE s \in good
  <2>1. Pick(s) \in S /\ Rest(s) \in SUBSET S
    BY <1>6, PickFacts
  <2>2. f[Pick(s)] \in Nat /\ sum[Rest(s)] \in Nat
    BY <1>1, <2>1, Zenon
  <2>3. /\ sum[s] = f[Pick(s)] + sum[Rest(s)]
        /\ sat[s] = SatAdd(f[Pick(s)], sat[Rest(s)])
        /\ sat[Rest(s)] = Sat(sum[Rest(s)])
    BY <1>1, <1>2, <1>6, Zenon
  <2>4. sat[s] = Sat(sum[s])
    BY <1>4, <2>2, <2>3, Zenon
  <2> QED
    BY <1>6, <2>4, Zenon
<1>7. \A s \in SUBSET S : s \in good
  <2> HIDE DEF good
  <2> QED
    BY <1>5, <1>6, SubsetInduction
<1>8. S \in SUBSET S
  OBVIOUS
<1>9. sat[S] = Sat(sum[S]) /\ sum[S] \in Nat
  BY <1>1, <1>7, <1>8, Zenon
<1> QED
  BY <1>1, <1>2, <1>9 DEF Sat

\* What another value at p does to a sum.
LEMMA SumChanges ==
    ASSUME NEW f, IsFiniteSet(DOMAIN f), \A i \in DOMAIN f : f[i] \in Nat,
           NEW g, DOMAIN g = DOMAIN f, \A i \in DOMAIN f : g[i] \in Nat,
           NEW p \in DOMAIN f, \A i \in DOMAIN f : i # p => g[i] = f[i]
    PROVE  SumFunction(g) + f[p] = SumFunction(f) + g[p]
<1> DEFINE S == DOMAIN f
<1>1. PICK sf \in [SUBSET S -> Nat] :
             /\ sf[{}] = 0
             /\ \A s \in SUBSET S : s # {} => sf[s] = f[Pick(s)] + sf[Rest(s)]
             /\ SumFunction(f) = sf[S]
  BY SumUnfolds, Zenon
<1>2. PICK sg \in [SUBSET S -> Nat] :
             /\ sg[{}] = 0
             /\ \A s \in SUBSET S : s # {} => sg[s] = g[Pick(s)] + sg[Rest(s)]
             /\ SumFunction(g) = sg[S]
  <2>1. IsFiniteSet(DOMAIN g) /\ \A i \in DOMAIN g : g[i] \in Nat
    BY Zenon
  <2> QED
    BY <2>1, SumUnfolds, Zenon
<1> DEFINE Differ(s) == IF p \in s THEN sg[s] + f[p] = sf[s] + g[p] ELSE sg[s] = sf[s]
           good == {s \in SUBSET S : Differ(s)}
<1>3. {} \in good
  BY <1>1, <1>2
<1>4. ASSUME NEW s \in SUBSET S, s # {}, Rest(s) \in good PROVE s \in good
  <2> DEFINE x == Pick(s)
             t == Rest(s)
  <2>1. x \in S /\ x \in s /\ t \in SUBSET S
    BY <1>4, PickFacts
  <2>2. p \in t <=> p \in s /\ p # x
    BY DEF Rest
  <2>3. /\ f[x] \in Nat /\ g[x] \in Nat /\ f[p] \in Nat /\ g[p] \in Nat
        /\ sf[t] \in Nat /\ sg[t] \in Nat
    BY <1>1, <1>2, <2>1, Zenon
  <2>4. sf[s] = f[x] + sf[t] /\ sg[s] = g[x] + sg[t]
    BY <1>1, <1>2, <1>4, Zenon
  <2>5. Differ(t)
    BY <1>4, Zenon
  <2>6. x # p => f[x] = g[x]
    BY <2>1, Zenon
  <2> HIDE DEF x, t
  <2>7. CASE x = p
    BY <2>1, <2>2, <2>3, <2>4, <2>5, <2>7
  <2>8. CASE x # p
    BY <2>2, <2>3, <2>4, <2>5, <2>6, <2>8
  <2> HIDE DEF Differ
  <2> QED
    BY <2>7, <2>8, Zenon
<1>5. \A s \in SUBSET S : s \in good
  <2> HIDE DEF good
  <2> QED
    BY <1>3, <1>4, SubsetInduction
<1>6. S \in SUBSET S
  OBVIOUS
<1>7. Differ(S)
  <2> HIDE DEF Differ
  <2> QED
    BY <1>5, <1>6, Zenon
<1> QED
  BY <1>1, <1>2, <1>7

-----------------------------------------------------------------------------
(* The signature that is filled in                                         *)

\* The entry that is filled is one of the sponsor's.
LEMMA PlaceholderFound ==
    ASSUME NEW tx \in Transactions, Placeholder(tx) # 0
    PROVE  /\ Placeholder(tx) \in DOMAIN tx.sigs
           /\ tx.sigs[Placeholder(tx)].signer = SponsorAddress
<1> DEFINE I == {i \in DOMAIN tx.sigs : tx.sigs[i].signer = SponsorAddress}
<1>1. Placeholder(tx) = IF I = {} THEN 0 ELSE Min(I)
  BY DEF Placeholder, First
<1>2. tx.sigs \in Seq(SignatureRecords)
  BY DEF Transactions
<1>3. DOMAIN tx.sigs = 1..Len(tx.sigs) /\ Len(tx.sigs) \in Nat
  BY <1>2
<1>4. I \subseteq Nat
  BY <1>3
<1> HIDE DEF I
<1>5. I # {} => \E x \in I : \A y \in I : x =< y
  BY <1>4, LeastExists
<1>6. I # {} => Min(I) \in I
  BY <1>5 DEF Min
<1> QED
  BY <1>1, <1>3, <1>6 DEF I

\* What the fill changes: the content and the length of the i-th entry.
OnlyFilled(tx, f, i) ==
    /\ i \in DOMAIN f.sigs /\ DOMAIN f.sigs = DOMAIN tx.sigs
    /\ f.sigs[i].signer = SponsorAddress /\ f.sigs[i].content = "sponsor"
    /\ [f EXCEPT !.sigs[i] = tx.sigs[i]] = tx
    /\ f.sender = tx.sender /\ f.fee = tx.fee
    /\ f.sigs[i].msg = "" => ComputeSigHash(f) = ComputeSigHash(tx)

LEMMA FilledEntry ==
    ASSUME NEW tx \in Transactions, Placeholder(tx) # 0, NEW i, i = Placeholder(tx),
           NEW f, f = Filled(tx)
    PROVE  OnlyFilled(tx, f, i)
<1> DEFINE old  == tx.sigs
           e    == old[i]
           fill == [e EXCEPT !.content = "sponsor", !.length = SignatureLength]
           new  == [old EXCEPT ![i] = fill]
<1>1. i \in DOMAIN old /\ e.signer = SponsorAddress
  BY PlaceholderFound
<1>2. old \in Seq(SignatureRecords)
  BY DEF Transactions
<1>3. old \in [DOMAIN old -> SignatureRecords]
  BY <1>2
<1>4. e \in SignatureRecords
  BY <1>1, <1>3
<1>5. f = [tx EXCEPT !.sigs = new]
  BY <1>1, <1>3, <1>4, Zenon DEF Filled, Transactions, SignatureRecords
<1>6. /\ fill.content = "sponsor" /\ fill.signer = e.signer /\ fill.msg = e.msg
      /\ [fill EXCEPT !.content = "none", !.length = 0] = [e EXCEPT !.content = "none", !.length = 0]
  BY <1>4, Zenon DEF SignatureRecords
<1> HIDE DEF fill
<1>7. /\ DOMAIN new = DOMAIN old /\ new[i] = fill
      /\ \A j \in DOMAIN old \ {i} : new[j] = old[j]
      /\ [new EXCEPT ![i] = e] = old
  BY <1>1, <1>3
<1> HIDE DEF new, old
<1>8. /\ f.sigs = new /\ f.keys = tx.keys /\ f.seq = tx.seq /\ f.sender = tx.sender
      /\ f.fee = tx.fee /\ f.tip = tx.tip /\ f.blobFee = tx.blobFee /\ f.blobs = tx.blobs
      /\ f.references = tx.references /\ f.frames = tx.frames
  BY <1>5 DEF Transactions
<1>9. [f EXCEPT !.sigs[i] = tx.sigs[i]] = tx
  <2>1. [f EXCEPT !.sigs[i] = tx.sigs[i]] = [f EXCEPT !.sigs = [new EXCEPT ![i] = e]]
    BY <1>8 DEF old
  <2>2. [f EXCEPT !.sigs = old] = tx
    BY <1>5, Zenon DEF Transactions, old
  <2> QED
    BY <1>7, <2>1, <2>2
<1>10. ASSUME e.msg = ""
       PROVE  ComputeSigHash(f) = ComputeSigHash(tx)
  <2>1. Elided(fill) = Elided(e)
    BY <1>6, <1>10, Zenon DEF Elided
  <2>2. \A j \in DOMAIN old : Elided(new[j]) = Elided(old[j])
    BY <1>7, <2>1 DEF old
  <2>3. [j \in DOMAIN new |-> Elided(new[j])] = [j \in DOMAIN old |-> Elided(old[j])]
    BY <1>7, <2>2
  <2>4. \A s : Wire(f, s) = Wire(tx, s)
    BY <1>8 DEF Wire, EffectiveNonceKeys
  <2> QED
    BY <1>8, <2>3, <2>4 DEF ComputeSigHash, old
<1> QED
  BY <1>1, <1>6, <1>7, <1>8, <1>9, <1>10, Zenon DEF old, OnlyFilled

\* What the fill leaves of the parts the cost is made of.
LEMMA FilledParts ==
    ASSUME NEW tx \in Transactions, Placeholder(tx) # 0, NEW i, i = Placeholder(tx),
           NEW f, f = Filled(tx)
    PROVE  /\ i \in DOMAIN tx.sigs
           /\ DOMAIN f.sigs = DOMAIN tx.sigs
           /\ f.sigs[i].length = SignatureLength
           /\ f.sigs[i].scheme = tx.sigs[i].scheme
           /\ \A j \in DOMAIN tx.sigs : j # i => f.sigs[j] = tx.sigs[j]
           /\ f.frames = tx.frames /\ f.fee = tx.fee /\ f.blobFee = tx.blobFee
           /\ f.blobs = tx.blobs /\ f.references = tx.references
<1> DEFINE old  == tx.sigs
           e    == old[i]
           fill == [e EXCEPT !.content = "sponsor", !.length = SignatureLength]
           new  == [old EXCEPT ![i] = fill]
<1>1. i \in DOMAIN old
  BY PlaceholderFound
<1>2. old \in Seq(SignatureRecords)
  BY DEF Transactions
<1>3. old \in [DOMAIN old -> SignatureRecords]
  BY <1>2
<1>4. e \in SignatureRecords
  BY <1>1, <1>3
<1>5. f = [tx EXCEPT !.sigs = new]
  BY <1>1, <1>3, <1>4, Zenon DEF Filled, Transactions, SignatureRecords
<1>6. fill.length = SignatureLength /\ fill.scheme = e.scheme
  BY <1>4 DEF SignatureRecords
<1> HIDE DEF fill
<1>7. DOMAIN new = DOMAIN old /\ new[i] = fill /\ \A j \in DOMAIN old : j # i => new[j] = old[j]
  BY <1>1, <1>3
<1> HIDE DEF new, old
<1>8. /\ f.sigs = new /\ f.fee = tx.fee /\ f.blobFee = tx.blobFee /\ f.blobs = tx.blobs
      /\ f.references = tx.references /\ f.frames = tx.frames
  BY <1>5 DEF Transactions
<1> QED
  BY <1>1, <1>6, <1>7, <1>8 DEF old

\* The parts of a transaction that parses are numbers.
LEMMA PartTypes ==
    ASSUME NEW tx \in Transactions, ValidateWireFormat(tx)
    PROVE  /\ IsFiniteSet(DOMAIN tx.frames) /\ IsFiniteSet(DOMAIN tx.sigs)
           /\ Len(tx.frames) \in Nat
           /\ \A i \in DOMAIN tx.frames : tx.frames[i].data \in Nat /\ tx.frames[i].gas \in Nat
           /\ \A i \in DOMAIN tx.sigs : tx.sigs[i].length \in Nat
           /\ \A i \in DOMAIN tx.sigs : SchemeCosts(tx)[i] \in Nat
<1>1. tx.frames \in Seq(FrameRecords) /\ tx.sigs \in Seq(SignatureRecords)
  BY DEF Transactions
<1>2. /\ Len(tx.frames) \in Nat /\ DOMAIN tx.frames = 1..Len(tx.frames)
      /\ Len(tx.sigs) \in Nat /\ DOMAIN tx.sigs = 1..Len(tx.sigs)
      /\ \A i \in DOMAIN tx.frames : tx.frames[i] \in FrameRecords
      /\ \A i \in DOMAIN tx.sigs : tx.sigs[i] \in SignatureRecords
  BY <1>1
<1>3. IsFiniteSet(DOMAIN tx.frames) /\ IsFiniteSet(DOMAIN tx.sigs)
  BY <1>2, FS_Interval
<1>4. \A i \in DOMAIN tx.frames : tx.frames[i].data \in Nat /\ tx.frames[i].gas \in Nat
  <2> SUFFICES ASSUME NEW i \in DOMAIN tx.frames
               PROVE  tx.frames[i].data \in Nat /\ tx.frames[i].gas \in Nat
    OBVIOUS
  <2>1. tx.frames[i].data \in Nat \cup {NotHex} /\ tx.frames[i].gas \in 0..MaxU64
    BY <1>2 DEF FrameRecords, Lengths
  <2>2. tx.frames[i].data # NotHex
    BY Zenon DEF ValidateWireFormat, Range
  <2> QED
    BY <2>1, <2>2
<1>5. \A i \in DOMAIN tx.sigs : tx.sigs[i].length \in Nat
  <2> SUFFICES ASSUME NEW i \in DOMAIN tx.sigs PROVE tx.sigs[i].length \in Nat
    OBVIOUS
  <2>1. tx.sigs[i].length \in Nat \cup {NotHex}
    BY <1>2 DEF SignatureRecords, Lengths
  <2>2. tx.sigs[i].length # NotHex
    BY Zenon DEF ValidateWireFormat, Range
  <2> QED
    BY <2>1, <2>2
<1>6. \A i \in DOMAIN tx.sigs : SchemeCosts(tx)[i] \in Nat
  BY GasAssumption DEF SchemeCosts
<1> QED
  BY <1>2, <1>3, <1>4, <1>5, <1>6, Zenon

\* ... and so are the sums.
LEMMA PartsAreNumbers ==
    ASSUME NEW tx \in Transactions, ValidateWireFormat(tx)
    PROVE  /\ Len(tx.frames) * PerFrameCost \in Nat
           /\ FramesCalldata(tx) \in Nat /\ SignaturesCalldata(tx) \in Nat
           /\ SumFunction(SchemeCosts(tx)) \in Nat /\ SumFunction(FrameGas(tx)) \in Nat
           /\ ReferencesGas(tx) \in Nat
           /\ SatSum(SchemeCosts(tx)) = IF SumFunction(SchemeCosts(tx)) > MaxU64 THEN MaxU64
                                        ELSE SumFunction(SchemeCosts(tx))
           /\ SatSum(FrameGas(tx)) = IF SumFunction(FrameGas(tx)) > MaxU64 THEN MaxU64
                                     ELSE SumFunction(FrameGas(tx))
<1> DEFINE data == [i \in DOMAIN tx.frames |-> 1 + tx.frames[i].data]
           lengths == [i \in DOMAIN tx.sigs |-> 1 + tx.sigs[i].length]
<1>1. /\ IsFiniteSet(DOMAIN tx.frames) /\ IsFiniteSet(DOMAIN tx.sigs)
      /\ Len(tx.frames) \in Nat
      /\ \A i \in DOMAIN tx.frames : tx.frames[i].data \in Nat /\ tx.frames[i].gas \in Nat
      /\ \A i \in DOMAIN tx.sigs : tx.sigs[i].length \in Nat
      /\ \A i \in DOMAIN tx.sigs : SchemeCosts(tx)[i] \in Nat
  BY PartTypes
<1>2. DOMAIN data = DOMAIN tx.frames /\ \A i \in DOMAIN data : data[i] \in Nat
  BY <1>1
<1>3. DOMAIN lengths = DOMAIN tx.sigs /\ \A i \in DOMAIN lengths : lengths[i] \in Nat
  BY <1>1
<1>4. DOMAIN FrameGas(tx) = DOMAIN tx.frames /\ \A i \in DOMAIN FrameGas(tx) : FrameGas(tx)[i] \in Nat
  BY <1>1 DEF FrameGas
<1>5. DOMAIN SchemeCosts(tx) = DOMAIN tx.sigs
  BY DEF SchemeCosts
<1> HIDE DEF data, lengths
<1>6. SumFunction(data) \in Nat /\ SumFunction(lengths) \in Nat
  BY <1>1, <1>2, <1>3, SatSumIs
<1>7. FramesCalldata(tx) \in Nat /\ SignaturesCalldata(tx) \in Nat
  BY <1>6 DEF FramesCalldata, SignaturesCalldata, data, lengths
<1>8. tx.references \in Nat
  BY DEF Transactions
<1>9. Len(tx.frames) * PerFrameCost \in Nat /\ ReferencesGas(tx) \in Nat
  <2>1. \A a, b, c \in Nat : a * b \in Nat /\ c + a * b \in Nat
    OBVIOUS
  <2>2. PerFrameCost \in Nat /\ ReferenceAddressGas \in Nat /\ ReferenceGas \in Nat /\ 0 \in Nat
    BY GasAssumption
  <2> QED
    BY <1>1, <1>8, <2>1, <2>2, Zenon DEF ReferencesGas
<1>10. /\ SumFunction(SchemeCosts(tx)) \in Nat
       /\ SatSum(SchemeCosts(tx)) = IF SumFunction(SchemeCosts(tx)) > MaxU64 THEN MaxU64
                                    ELSE SumFunction(SchemeCosts(tx))
  BY <1>1, <1>5, SatSumIs
<1>11. /\ SumFunction(FrameGas(tx)) \in Nat
       /\ SatSum(FrameGas(tx)) = IF SumFunction(FrameGas(tx)) > MaxU64 THEN MaxU64
                                 ELSE SumFunction(FrameGas(tx))
  BY <1>1, <1>4, SatSumIs
<1> QED
  BY <1>7, <1>9, <1>10, <1>11, Zenon

\* The fill adds its own bytes to the calldata, no more, and nothing elsewhere.
LEMMA FillAdds ==
    ASSUME NEW tx \in Transactions, ValidateWireFormat(tx), Placeholder(tx) # 0,
           NEW f, f = Filled(tx)
    PROVE  /\ SignaturesCalldata(f) \in Nat
           /\ SignaturesCalldata(f) <= SignaturesCalldata(tx) + SignatureLength
           /\ SchemeCosts(f) = SchemeCosts(tx)
           /\ FramesCalldata(f) = FramesCalldata(tx)
           /\ FrameGas(f) = FrameGas(tx)
           /\ ReferencesGas(f) = ReferencesGas(tx)
<1> DEFINE i == Placeholder(tx)
           before == [j \in DOMAIN tx.sigs |-> 1 + tx.sigs[j].length]
           after  == [j \in DOMAIN f.sigs |-> 1 + f.sigs[j].length]
<1>1. /\ i \in DOMAIN tx.sigs
      /\ DOMAIN f.sigs = DOMAIN tx.sigs
      /\ f.sigs[i].length = SignatureLength
      /\ f.sigs[i].scheme = tx.sigs[i].scheme
      /\ \A j \in DOMAIN tx.sigs : j # i => f.sigs[j] = tx.sigs[j]
      /\ f.frames = tx.frames /\ f.references = tx.references
  BY FilledParts
<1> HIDE DEF i
<1>2. IsFiniteSet(DOMAIN tx.sigs) /\ \A j \in DOMAIN tx.sigs : tx.sigs[j].length \in Nat
  BY PartTypes
<1>3. SignatureLength \in Nat
  BY GasAssumption
<1>4. /\ DOMAIN before = DOMAIN tx.sigs /\ DOMAIN after = DOMAIN tx.sigs
      /\ \A j \in DOMAIN tx.sigs : before[j] \in Nat /\ after[j] \in Nat
      /\ \A j \in DOMAIN tx.sigs : j # i => after[j] = before[j]
      /\ before[i] >= 1 /\ after[i] = 1 + SignatureLength
  <2>1. DOMAIN before = DOMAIN tx.sigs /\ DOMAIN after = DOMAIN tx.sigs
    BY <1>1
  <2>2. ASSUME NEW j \in DOMAIN tx.sigs PROVE before[j] \in Nat /\ before[j] >= 1
    BY <1>2
  <2>3. after[i] = 1 + SignatureLength
    BY <1>1
  <2>4. ASSUME NEW j \in DOMAIN tx.sigs, j # i PROVE after[j] = before[j]
    BY <1>1, <2>4
  <2> HIDE DEF before, after
  <2>5. \A j \in DOMAIN tx.sigs : after[j] \in Nat
    BY <1>3, <2>2, <2>3, <2>4
  <2> QED
    BY <1>1, <2>1, <2>2, <2>3, <2>4, <2>5
<1>5. /\ SignaturesCalldata(tx) = 1 + SumFunction(before)
      /\ SignaturesCalldata(f) = 1 + SumFunction(after)
  BY Zenon DEF SignaturesCalldata
<1> HIDE DEF before, after
<1>6. SumFunction(before) \in Nat /\ SumFunction(after) \in Nat
  <2>1. SumFunction(before) \in Nat
    BY <1>2, <1>4, SatSumIs
  <2>2. SumFunction(after) \in Nat
    BY <1>2, <1>4, SatSumIs
  <2> QED
    BY <2>1, <2>2
<1>7. SumFunction(after) + before[i] = SumFunction(before) + after[i]
  BY <1>1, <1>2, <1>4, SumChanges
<1>8. /\ SignaturesCalldata(f) \in Nat
      /\ SignaturesCalldata(f) <= SignaturesCalldata(tx) + SignatureLength
  BY <1>1, <1>3, <1>4, <1>5, <1>6, <1>7
<1>9. SchemeCosts(f) = SchemeCosts(tx)
  <2>1. \A j \in DOMAIN tx.sigs : f.sigs[j].scheme = tx.sigs[j].scheme
    BY <1>1, Zenon
  <2> QED
    BY <1>1, <2>1 DEF SchemeCosts
<1> QED
  BY <1>1, <1>8, <1>9, Zenon DEF FramesCalldata, FrameGas, ReferencesGas

\* ... so the limit grows by no more, although its sums saturate.
LEMMA FillLimit ==
    ASSUME NEW tx \in Transactions, ValidateWireFormat(tx), Placeholder(tx) # 0,
           NEW f, f = Filled(tx)
    PROVE  /\ TotalGasLimit(tx) \in Nat /\ TotalGasLimit(f) \in Nat
           /\ TotalGasLimit(f) <= TotalGasLimit(tx) + SignatureLength
<1> DEFINE Limit(a, b, c, c2, d, e, g) ==
               SatAdd(SatAdd(SatAdd(SatAdd(SatAdd(a, b), SatAdd(c, c2)), d), e), g)
<1>1. MaxU64 \in Nat /\ IntrinsicCost \in Nat /\ SignatureLength \in Nat
  BY GasAssumption
<1>2. \A x, y \in Nat : SatAdd(x, y) \in Nat
  BY <1>1 DEF SatAdd
<1>3. \A x, y, z, m \in Nat : x <= y + m => /\ SatAdd(x, z) <= SatAdd(y, z) + m
                                           /\ SatAdd(z, x) <= SatAdd(z, y) + m
  BY <1>1 DEF SatAdd
<1>4. \A a, b, c, c2, d, e, g \in Nat : Limit(a, b, c, c2, d, e, g) \in Nat
  BY <1>2, Zenon
<1>5. ASSUME NEW a \in Nat, NEW b \in Nat, NEW c \in Nat, NEW x \in Nat, NEW y \in Nat,
             NEW d \in Nat, NEW e \in Nat, NEW g \in Nat, NEW m \in Nat, x <= y + m
      PROVE  Limit(a, b, c, x, d, e, g) <= Limit(a, b, c, y, d, e, g) + m
  <2>1. SatAdd(a, b) \in Nat /\ SatAdd(c, x) \in Nat /\ SatAdd(c, y) \in Nat
    BY <1>2, Zenon
  <2>2. SatAdd(c, x) <= SatAdd(c, y) + m
    BY <1>3, <1>5
  <2> DEFINE x1 == SatAdd(SatAdd(a, b), SatAdd(c, x))
             y1 == SatAdd(SatAdd(a, b), SatAdd(c, y))
  <2>3. x1 \in Nat /\ y1 \in Nat /\ x1 <= y1 + m
    BY <1>2, <1>3, <2>1, <2>2, Zenon
  <2> HIDE DEF x1, y1
  <2> DEFINE x2 == SatAdd(x1, d)
             y2 == SatAdd(y1, d)
  <2>4. x2 \in Nat /\ y2 \in Nat /\ x2 <= y2 + m
    BY <1>2, <1>3, <2>3, Zenon
  <2> HIDE DEF x2, y2
  <2> DEFINE x3 == SatAdd(x2, e)
             y3 == SatAdd(y2, e)
  <2>5. x3 \in Nat /\ y3 \in Nat /\ x3 <= y3 + m
    BY <1>2, <1>3, <2>4, Zenon
  <2> HIDE DEF x3, y3
  <2>6. SatAdd(x3, g) <= SatAdd(y3, g) + m
    BY <1>3, <2>5
  <2> QED
    BY <2>6 DEF x1, x2, x3, y1, y2, y3
<1>6. /\ Len(tx.frames) * PerFrameCost \in Nat
      /\ FramesCalldata(tx) \in Nat /\ SignaturesCalldata(tx) \in Nat
      /\ SatSum(SchemeCosts(tx)) \in Nat /\ SatSum(FrameGas(tx)) \in Nat
      /\ ReferencesGas(tx) \in Nat
  BY <1>1, PartsAreNumbers
<1>7. f.frames = tx.frames
  BY FilledParts
<1>8. /\ SignaturesCalldata(f) \in Nat
      /\ SignaturesCalldata(f) <= SignaturesCalldata(tx) + SignatureLength
      /\ SchemeCosts(f) = SchemeCosts(tx) /\ FramesCalldata(f) = FramesCalldata(tx)
      /\ FrameGas(f) = FrameGas(tx) /\ ReferencesGas(f) = ReferencesGas(tx)
  BY FillAdds
<1>9. /\ TotalGasLimit(tx) = Limit(IntrinsicCost, Len(tx.frames) * PerFrameCost,
             FramesCalldata(tx), SignaturesCalldata(tx), SatSum(SchemeCosts(tx)),
             SatSum(FrameGas(tx)), ReferencesGas(tx))
      /\ TotalGasLimit(f) = Limit(IntrinsicCost, Len(tx.frames) * PerFrameCost,
             FramesCalldata(tx), SignaturesCalldata(f), SatSum(SchemeCosts(tx)),
             SatSum(FrameGas(tx)), ReferencesGas(tx))
  BY <1>7, <1>8, Zenon DEF TotalGasLimit, OverheadGas, SignatureVerificationCost
<1> DEFINE b == Len(tx.frames) * PerFrameCost
           d == SatSum(SchemeCosts(tx))
           e == SatSum(FrameGas(tx))
<1> HIDE DEF Limit, b, d, e
<1>10. b \in Nat /\ d \in Nat /\ e \in Nat
  BY <1>6 DEF b, d, e
<1>11. Limit(IntrinsicCost, b, FramesCalldata(tx), SignaturesCalldata(f), d, e, ReferencesGas(tx))
         <= Limit(IntrinsicCost, b, FramesCalldata(tx), SignaturesCalldata(tx), d, e,
                  ReferencesGas(tx)) + SignatureLength
  BY <1>1, <1>5, <1>6, <1>8, <1>10, Zenon
<1>12. /\ Limit(IntrinsicCost, b, FramesCalldata(tx), SignaturesCalldata(f), d, e,
                ReferencesGas(tx)) \in Nat
       /\ Limit(IntrinsicCost, b, FramesCalldata(tx), SignaturesCalldata(tx), d, e,
                ReferencesGas(tx)) \in Nat
  BY <1>1, <1>4, <1>6, <1>8, <1>10, Zenon
<1> QED
  BY <1>9, <1>11, <1>12, Zenon DEF b, d, e

\* A limit below the largest u64 is the sum of its parts.
LEMMA LimitIsExact ==
    ASSUME NEW tx \in Transactions, ValidateWireFormat(tx), TotalGasLimit(tx) < MaxU64
    PROVE  TotalGasLimit(tx) = IntrinsicCost + Len(tx.frames) * PerFrameCost + FramesCalldata(tx)
             + SignaturesCalldata(tx) + SumFunction(SchemeCosts(tx))
             + SumFunction(FrameGas(tx)) + ReferencesGas(tx)
<1> DEFINE a == IntrinsicCost
           b == Len(tx.frames) * PerFrameCost
           c == FramesCalldata(tx)
           d == SignaturesCalldata(tx)
           e == SumFunction(SchemeCosts(tx))
           g == SumFunction(FrameGas(tx))
           h == ReferencesGas(tx)
<1>1. MaxU64 \in Nat /\ a \in Nat
  BY GasAssumption
<1>2. /\ b \in Nat /\ c \in Nat /\ d \in Nat /\ e \in Nat /\ g \in Nat /\ h \in Nat
      /\ SatSum(SchemeCosts(tx)) = IF e > MaxU64 THEN MaxU64 ELSE e
      /\ SatSum(FrameGas(tx)) = IF g > MaxU64 THEN MaxU64 ELSE g
  BY PartsAreNumbers, Zenon
<1>3. TotalGasLimit(tx) =
        SatAdd(SatAdd(SatAdd(SatAdd(SatAdd(a, b), SatAdd(c, d)), SatSum(SchemeCosts(tx))),
                      SatSum(FrameGas(tx))), h)
  BY DEF TotalGasLimit, OverheadGas, SignatureVerificationCost
<1> HIDE DEF a, b, c, d, e, g, h
<1>4. \A x, y \in Nat : /\ SatAdd(x, y) \in Nat
                        /\ SatAdd(x, y) < MaxU64 => /\ SatAdd(x, y) = x + y
                                                    /\ x < MaxU64 /\ y < MaxU64
  BY <1>1 DEF SatAdd
<1> DEFINE e1 == SatSum(SchemeCosts(tx))
           g1 == SatSum(FrameGas(tx))
           ab == SatAdd(a, b)
           cd == SatAdd(c, d)
           abcd == SatAdd(ab, cd)
           over == SatAdd(abcd, e1)
           most == SatAdd(over, g1)
<1>5. e1 \in Nat /\ g1 \in Nat /\ (e1 < MaxU64 => e1 = e) /\ (g1 < MaxU64 => g1 = g)
  BY <1>1, <1>2
<1>6. ab \in Nat /\ cd \in Nat
  BY <1>1, <1>2, <1>4, Zenon
<1>7. abcd \in Nat
  BY <1>4, <1>6
<1>8. over \in Nat
  BY <1>4, <1>5, <1>7
<1>9. most \in Nat
  BY <1>4, <1>5, <1>8
<1>10. /\ TotalGasLimit(tx) = SatAdd(most, h) /\ most = SatAdd(over, g1)
       /\ over = SatAdd(abcd, e1) /\ abcd = SatAdd(ab, cd)
       /\ ab = SatAdd(a, b) /\ cd = SatAdd(c, d)
  BY <1>3
<1> HIDE DEF e1, g1, ab, cd, abcd, over, most
<1>11. TotalGasLimit(tx) = most + h /\ most < MaxU64
  BY <1>2, <1>4, <1>9, <1>10
<1>12. most = over + g1 /\ over < MaxU64 /\ g1 < MaxU64
  BY <1>4, <1>5, <1>8, <1>10, <1>11
<1>13. over = abcd + e1 /\ abcd < MaxU64 /\ e1 < MaxU64
  BY <1>4, <1>5, <1>7, <1>10, <1>12
<1>14. abcd = ab + cd /\ ab < MaxU64 /\ cd < MaxU64
  BY <1>4, <1>6, <1>10, <1>13
<1>15. ab = a + b /\ cd = c + d
  BY <1>1, <1>2, <1>4, <1>10, <1>14
<1>16. TotalGasLimit(tx) = a + b + c + d + e + g + h
  BY <1>1, <1>2, <1>5, <1>11, <1>12, <1>13, <1>14, <1>15
<1> QED
  BY <1>16 DEF a, b, c, d, e, g, h

\* Products of naturals keep the order.
LEMMA ProductGrows ==
    ASSUME NEW a \in Nat, NEW x \in Nat, NEW y \in Nat, NEW m \in Nat, x <= y + m
    PROVE  a * x \in Nat /\ a * y \in Nat /\ a * m \in Nat /\ a * x <= a * y + a * m
<1> DEFINE d == y + m - x
<1>1. d \in Nat /\ x + d = y + m
  OBVIOUS
<1> HIDE DEF d
<1>2. a * d \in Nat /\ a * x \in Nat /\ a * y \in Nat /\ a * m \in Nat
  BY <1>1
<1>3. a * (x + d) = a * x + a * d
  BY <1>1
<1>4. a * (y + m) = a * y + a * m
  OBVIOUS
<1>5. a * x + a * d = a * y + a * m
  BY <1>1, <1>3, <1>4
<1> DEFINE ax == a * x
           ad == a * d
           ay == a * y
           am == a * m
<1>6. ax \in Nat /\ ad \in Nat /\ ay \in Nat /\ am \in Nat /\ ax + ad = ay + am
  BY <1>2, <1>5
<1> HIDE DEF ax, ad, ay, am
<1>7. ax <= ay + am
  BY <1>6
<1> QED
  BY <1>2, <1>7 DEF ax, ay, am

\* The fees of a transaction that passed the checks are there.
LEMMA FeesAreThere ==
    ASSUME NEW tx \in Transactions, ValidateStructure(tx)
    PROVE  /\ tx.fee \in Nat /\ OrZero(tx.fee) = tx.fee
           /\ tx.blobs * BlobGas * OrZero(tx.blobFee) \in Nat
           /\ ValidateWireFormat(tx)
<1>1. /\ tx.fee \in Nat \cup {None} /\ tx.blobFee \in Nat \cup {None} /\ tx.blobs \in Nat
  BY DEF Transactions
<1>2. tx.fee # None /\ ValidateWireFormat(tx)
  BY Zenon DEF ValidateStructure, FeesOk
<1>3. tx.fee \in Nat /\ OrZero(tx.fee) = tx.fee /\ OrZero(tx.blobFee) \in Nat
  BY <1>1, <1>2 DEF OrZero
<1>4. \A a, b \in Nat : a * b \in Nat
  OBVIOUS
<1>5. BlobGas \in Nat
  BY GasAssumption
<1>6. tx.blobs * BlobGas \in Nat
  BY <1>1, <1>4, <1>5, Zenon
<1> QED
  BY <1>2, <1>3, <1>4, <1>6, Zenon

\* The signature that is filled in adds no more than its own gas to the cost of
\* a transaction that passed validate_structure (domain.rs: max_cost), although
\* the sums of the cost saturate.
LEMMA FillIsCheap ==
    ASSUME NEW tx \in Transactions, ValidateStructure(tx), Placeholder(tx) # 0
    PROVE  /\ {MaxCost(tx), MaxCost(Filled(tx))} \subseteq Nat
           /\ MaxCost(Filled(tx)) <= MaxCost(tx) + tx.fee * SignatureLength
<1> DEFINE f == Filled(tx)
           blob == tx.blobs * BlobGas * OrZero(tx.blobFee)
           t == TotalGasLimit(tx)
           u == TotalGasLimit(f)
<1>1. tx.fee \in Nat /\ OrZero(tx.fee) = tx.fee /\ blob \in Nat /\ ValidateWireFormat(tx)
  BY FeesAreThere
<1>2. f.fee = tx.fee /\ f.blobFee = tx.blobFee /\ f.blobs = tx.blobs
  BY FilledParts
<1>3. t \in Nat /\ u \in Nat /\ u <= t + SignatureLength
  BY <1>1, FillLimit
<1>4. MaxCost(tx) = tx.fee * t + blob /\ MaxCost(f) = tx.fee * u + blob
  BY <1>1, <1>2 DEF MaxCost
<1>5. SignatureLength \in Nat
  BY GasAssumption
<1> HIDE DEF f, blob, t, u
<1>6. /\ tx.fee * u \in Nat /\ tx.fee * t \in Nat /\ tx.fee * SignatureLength \in Nat
      /\ tx.fee * u <= tx.fee * t + tx.fee * SignatureLength
  BY <1>1, <1>3, <1>5, ProductGrows
<1>7. MaxCost(tx) \in Nat /\ MaxCost(f) \in Nat /\ MaxCost(f) <= MaxCost(tx) + tx.fee * SignatureLength
  <2> DEFINE x == tx.fee * u
             y == tx.fee * t
             z == tx.fee * SignatureLength
  <2>1. x \in Nat /\ y \in Nat /\ z \in Nat /\ x <= y + z
    BY <1>6
  <2>2. MaxCost(tx) = y + blob /\ MaxCost(f) = x + blob
    BY <1>4
  <2> HIDE DEF x, y, z
  <2>3. MaxCost(tx) \in Nat /\ MaxCost(f) \in Nat /\ MaxCost(f) <= MaxCost(tx) + z
    BY <1>1, <2>1, <2>2
  <2> QED
    BY <2>3 DEF z
<1> QED
  BY <1>7 DEF f

\* So a ceiling on the cost of what was submitted bounds the cost of what is
\* broadcast, up to the gas of that signature.
LEMMA FillKeepsCeiling ==
    ASSUME NEW tx \in Transactions, ValidateStructure(tx), Placeholder(tx) # 0,
           NEW ceiling \in Nat, MaxCost(tx) <= ceiling
    PROVE  MaxCost(Filled(tx)) <= ceiling + tx.fee * SignatureLength
<1>1. /\ MaxCost(tx) \in Nat /\ MaxCost(Filled(tx)) \in Nat
      /\ MaxCost(Filled(tx)) <= MaxCost(tx) + tx.fee * SignatureLength
  BY FillIsCheap
<1>2. tx.fee * SignatureLength \in Nat
  <2>1. tx.fee \in Nat /\ SignatureLength \in Nat
    BY FeesAreThere, GasAssumption
  <2> QED
    BY <2>1
<1>3. \A m, n, k, z \in Nat : m <= n + z /\ n <= k => m <= k + z
  OBVIOUS
<1> QED
  BY <1>1, <1>2, <1>3, Zenon

\* A ceiling below the cost of the largest limit bounds the exact cost of what
\* passed it, up to the gas of the signature that is filled in.
LEMMA CeilingIsExact ==
    ASSUME NEW tx \in Transactions, ValidateStructure(tx), Placeholder(tx) # 0,
           NEW ceiling \in Nat, MaxCost(tx) <= ceiling, ceiling < tx.fee * MaxU64
    PROVE  ExactCost(Filled(tx)) <= ceiling + tx.fee * SignatureLength
<1> DEFINE f == Filled(tx)
           blob == tx.blobs * BlobGas * OrZero(tx.blobFee)
           t == TotalGasLimit(tx)
           b == Len(tx.frames) * PerFrameCost
           c == FramesCalldata(tx)
           e == SumFunction(SchemeCosts(tx))
           g == SumFunction(FrameGas(tx))
           h == ReferencesGas(tx)
           sx == SignaturesCalldata(tx)
           sf == SignaturesCalldata(f)
           exact == IntrinsicCost + b + c + sf + e + g + h
<1>1. tx.fee \in Nat /\ OrZero(tx.fee) = tx.fee /\ blob \in Nat /\ ValidateWireFormat(tx)
  BY FeesAreThere
<1>2. f.fee = tx.fee /\ f.blobFee = tx.blobFee /\ f.blobs = tx.blobs /\ f.frames = tx.frames
  BY FilledParts
<1>3. /\ SignatureLength \in Nat /\ MaxU64 \in Nat /\ IntrinsicCost \in Nat
  BY GasAssumption
<1>4. t \in Nat
  BY <1>1, FillLimit
<1>5. MaxCost(tx) = tx.fee * t + blob
  BY <1>1 DEF MaxCost
<1>6. t < MaxU64
  <2> SUFFICES ASSUME MaxU64 <= t PROVE FALSE
    BY <1>3, <1>4
  <2> HIDE DEF t, blob
  <2>1. /\ tx.fee * MaxU64 \in Nat /\ tx.fee * t \in Nat /\ tx.fee * 0 \in Nat
        /\ tx.fee * MaxU64 <= tx.fee * t + tx.fee * 0
    <3>1. MaxU64 <= t + 0 /\ 0 \in Nat
      BY <1>3, <1>4
    <3> QED
      BY <1>1, <1>3, <1>4, <3>1, ProductGrows
  <2>2. tx.fee * 0 = 0
    BY <1>1
  <2>3. \A x, y, z, m \in Nat : x <= y + 0 /\ y + z <= m /\ m < x => FALSE
    OBVIOUS
  <2> QED
    BY <1>1, <1>5, <2>1, <2>2, <2>3, Zenon
<1>7. b \in Nat /\ c \in Nat /\ sx \in Nat /\ e \in Nat /\ g \in Nat /\ h \in Nat
  BY <1>1, PartsAreNumbers, Zenon
<1>8. t = IntrinsicCost + b + c + sx + e + g + h
  BY <1>1, <1>6, LimitIsExact, Zenon
<1>9. /\ sf \in Nat /\ sf <= sx + SignatureLength
      /\ SchemeCosts(f) = SchemeCosts(tx) /\ FramesCalldata(f) = FramesCalldata(tx)
      /\ FrameGas(f) = FrameGas(tx) /\ ReferencesGas(f) = ReferencesGas(tx)
  BY <1>1, FillAdds
<1>10. ExactCost(f) = tx.fee * exact + blob
  BY <1>1, <1>2, <1>9, Zenon DEF ExactCost
<1>11. exact \in Nat /\ exact <= t + SignatureLength
  <2> HIDE DEF f, sx, sf, t, b, c, e, g, h
  <2> QED
    BY <1>3, <1>7, <1>8, <1>9
<1> HIDE DEF f, blob, t, exact
<1>12. /\ tx.fee * exact \in Nat /\ tx.fee * t \in Nat /\ tx.fee * SignatureLength \in Nat
       /\ tx.fee * exact <= tx.fee * t + tx.fee * SignatureLength
  BY <1>1, <1>3, <1>4, <1>11, ProductGrows
<1>13. ExactCost(f) <= ceiling + tx.fee * SignatureLength
  <2> DEFINE x == tx.fee * exact
             y == tx.fee * t
             z == tx.fee * SignatureLength
  <2>1. x \in Nat /\ y \in Nat /\ z \in Nat /\ x <= y + z
    BY <1>12
  <2>2. MaxCost(tx) = y + blob /\ ExactCost(f) = x + blob
    BY <1>5, <1>10
  <2> HIDE DEF x, y, z
  <2>3. ExactCost(f) <= ceiling + z
    BY <1>1, <2>1, <2>2
  <2> QED
    BY <2>3 DEF z
<1> QED
  BY <1>13 DEF f

-----------------------------------------------------------------------------
(* The loop that collects the prefix                                       *)

\* One turn of the loop that collects the prefix.
Scanned(tx, n, acc) ==
    IF acc.approved \/ IsExpiryFrame(tx.frames[n]) THEN acc
    ELSE [prefix |-> Append(acc.prefix, tx.frames[n]),
          gas |-> (acc.gas + tx.frames[n].gas) % (MaxU64 + 1),
          approved |-> ApprovesPayment(tx.frames[n])]

ScanStart(tx) == [prefix |-> << >>, gas |-> PrefixBaseGas(tx), approved |-> FALSE]

LEMMA ScanUnfolds ==
    ASSUME NEW tx, NEW N \in Nat, N = Len(tx.frames)
    PROVE  \E after : /\ after[0] = ScanStart(tx)
                      /\ \A n \in 1..N : after[n] = Scanned(tx, n, after[n - 1])
                      /\ Scan(tx) = after[N]
<1> DEFINE Turns(n, f) == f = [i \in 0..n |-> IF i = 0 THEN ScanStart(tx)
                                              ELSE Scanned(tx, i, f[i - 1])]
           good == {n \in 0..N : \E f : Turns(n, f)}
           after == CHOOSE f : Turns(N, f)
<1>1. 0 \in good
  <2> DEFINE f == [i \in 0..0 |-> ScanStart(tx)]
  <2>1. f = [i \in 0..0 |-> IF i = 0 THEN ScanStart(tx) ELSE Scanned(tx, i, f[i - 1])]
    OBVIOUS
  <2> HIDE DEF f
  <2>2. \E g : Turns(0, g)
    BY <2>1, Zenon
  <2> HIDE DEF Turns
  <2> QED
    BY <2>2
<1>2. ASSUME NEW n \in 1..N, n - 1 \in good
      PROVE  n \in good
  <2>1. PICK g : Turns(n - 1, g)
    BY <1>2
  <2> DEFINE f == [i \in 0..n |-> IF i = n THEN Scanned(tx, n, g[n - 1]) ELSE g[i]]
  <2>2. ASSUME NEW i \in 0..n
        PROVE  f[i] = IF i = 0 THEN ScanStart(tx) ELSE Scanned(tx, i, f[i - 1])
    <3>1. CASE i = n
      <4>1. i # 0 /\ i - 1 \in 0..n /\ i - 1 # n
        BY <3>1
      <4>2. f[i - 1] = g[i - 1]
        BY <4>1
      <4> QED
        BY <3>1, <4>1, <4>2
    <3>2. CASE i # n
      <4>1. i \in 0..(n - 1) /\ f[i] = g[i]
        BY <3>2
      <4>2. g[i] = IF i = 0 THEN ScanStart(tx) ELSE Scanned(tx, i, g[i - 1])
        BY <2>1, <4>1, Zenon
      <4>3. i # 0 => i - 1 \in 0..n /\ i - 1 # n
        BY <3>2
      <4>4. i # 0 => f[i - 1] = g[i - 1]
        BY <4>3
      <4> QED
        BY <4>1, <4>2, <4>4
    <3> QED
      BY <3>1, <3>2
  <2>3. f = [i \in 0..n |-> f[i]]
    OBVIOUS
  <2> HIDE DEF f
  <2>4. Turns(n, f)
    BY <2>2, <2>3, Zenon
  <2> HIDE DEF Turns
  <2> QED
    BY <2>4
<1>3. \A n \in 0..N : n \in good
  <2> HIDE DEF good
  <2> QED
    BY <1>1, <1>2, Counting, Zenon
<1>4. \E f : Turns(N, f)
  <2>1. N \in 0..N
    OBVIOUS
  <2> HIDE DEF Turns
  <2> QED
    BY <1>3, <2>1, Zenon
<1>5. Turns(N, after)
  BY <1>4, Zenon
<1>6. Scan(tx) = after[N]
  BY Zenon DEF Scan, Scanned, ScanStart
<1> HIDE DEF after
<1>7. after[0] = ScanStart(tx) /\ \A n \in 1..N : after[n] = Scanned(tx, n, after[n - 1])
  <2>1. \A n \in 0..N : after[n] = IF n = 0 THEN ScanStart(tx) ELSE Scanned(tx, n, after[n - 1])
    BY <1>5
  <2>2. 0 \in 0..N /\ \A n \in 1..N : n \in 0..N /\ n # 0
    OBVIOUS
  <2> QED
    BY <2>1, <2>2, Zenon
<1> QED
  BY <1>6, <1>7

\* The place of i among the indices I.
Rank(I, i) == Cardinality(I \cap 1..i)

\* The sequence p lists the frames fr at the indices I in their order.
Lists(p, fr, I) ==
    /\ Len(p) = Cardinality(I)
    /\ \A i \in I : Rank(I, i) \in 1..Len(p) /\ p[Rank(I, i)] = fr[i]
    /\ \A k \in 1..Len(p) : \E i \in I : Rank(I, i) = k

LEMMA ListsNothing == ASSUME NEW fr PROVE Lists(<< >>, fr, {})
BY FS_EmptySet DEF Lists

LEMMA ListsOneMore ==
    ASSUME NEW F, NEW p \in Seq(F), NEW fr, NEW n \in Nat \ {0}, fr[n] \in F,
           NEW I \in SUBSET (1..(n - 1)), Lists(p, fr, I)
    PROVE  Lists(Append(p, fr[n]), fr, I \cup {n})
<1> DEFINE J == I \cup {n}
           q == Append(p, fr[n])
           L == Len(p)
<1>1. n \notin I
  OBVIOUS
<1>2. IsFiniteSet(I) /\ IsFiniteSet(J) /\ Cardinality(J) = Cardinality(I) + 1
  <2>1. n - 1 \in Int /\ 1 \in Int
    OBVIOUS
  <2>2. IsFiniteSet(1..(n - 1))
    BY <2>1, FS_Interval
  <2>3. IsFiniteSet(I)
    BY <2>2, FS_Subset, Zenon
  <2> QED
    BY <1>1, <2>3, FS_AddElement
<1>3. L \in Nat /\ L = Cardinality(I) /\ Len(q) = L + 1 /\ q[L + 1] = fr[n]
      /\ \A k \in 1..L : q[k] = p[k]
  BY DEF Lists
<1>4. ASSUME NEW i \in I PROVE Rank(J, i) = Rank(I, i)
  <2>1. J \cap 1..i = I \cap 1..i
    OBVIOUS
  <2> QED
    BY <2>1, Zenon DEF Rank
<1>5. Rank(J, n) = L + 1
  <2>1. \A i \in J : i \in 1..n
    OBVIOUS
  <2>2. J \cap 1..n = J
    BY <2>1, Zenon
  <2> QED
    BY <1>2, <1>3, <2>2, Zenon DEF Rank
<1> HIDE DEF q
<1>6. \A i \in J : Rank(J, i) \in 1..Len(q) /\ q[Rank(J, i)] = fr[i]
  <2>1. ASSUME NEW i \in I PROVE Rank(J, i) \in 1..Len(q) /\ q[Rank(J, i)] = fr[i]
    <3>1. Rank(I, i) \in 1..L /\ p[Rank(I, i)] = fr[i]
      BY DEF Lists
    <3> HIDE DEF J, L
    <3> QED
      BY <1>3, <1>4, <3>1
  <2>2. Rank(J, n) \in 1..Len(q) /\ q[Rank(J, n)] = fr[n]
    BY <1>3, <1>5
  <2> QED
    BY <2>1, <2>2, Zenon
<1>7. ASSUME NEW k \in 1..Len(q) PROVE \E i \in J : Rank(J, i) = k
  <2>1. CASE k = L + 1
    BY <1>5, <2>1
  <2>2. CASE k # L + 1
    <3>1. k \in 1..L
      BY <1>3, <2>2
    <3>2. PICK i \in I : Rank(I, i) = k
      BY <3>1 DEF Lists
    <3>3. i \in J /\ Rank(J, i) = k
      BY <1>4, <3>2, Zenon
    <3> QED
      BY <3>3
  <2> QED
    BY <2>1, <2>2, Zenon
<1>8. Len(q) = Cardinality(J)
  BY <1>2, <1>3
<1> HIDE DEF J
<1>9. Lists(q, fr, J)
  BY <1>6, <1>7, <1>8 DEF Lists
<1> QED
  BY <1>9 DEF q, J

\* A frame that ends the prefix.
Ends(tx, k) == ~IsExpiryFrame(tx.frames[k]) /\ ApprovesPayment(tx.frames[k])

\* The frames of the prefix among the first n.
InPrefix(tx, n) ==
    {k \in 1..n : ~IsExpiryFrame(tx.frames[k]) /\ \A j \in 1..(k - 1) : ~Ends(tx, j)}

ScanIs(tx, n, acc) ==
    /\ acc.prefix \in Seq(FrameRecords)
    /\ acc.approved = (\E k \in 1..n : Ends(tx, k))
    /\ Lists(acc.prefix, tx.frames, InPrefix(tx, n))

\* The loop of validate_structure collects the frames up to the first that
\* approves payment, those of the expiry verifier aside.
LEMMA ScanCollects ==
    ASSUME NEW tx \in Transactions
    PROVE  ScanIs(tx, Len(tx.frames), Scan(tx))
<1> DEFINE N == Len(tx.frames)
<1>1. tx.frames \in Seq(FrameRecords)
  BY DEF Transactions
<1>2. N \in Nat /\ \A k \in 1..N : tx.frames[k] \in FrameRecords
  BY <1>1
<1>3. PICK after : /\ after[0] = ScanStart(tx)
                   /\ \A n \in 1..N : after[n] = Scanned(tx, n, after[n - 1])
                   /\ Scan(tx) = after[N]
  BY <1>2, ScanUnfolds
<1> DEFINE good == {n \in 0..N : ScanIs(tx, n, after[n])}
<1>4. 0 \in good
  <2>1. InPrefix(tx, 0) = {}
    BY DEF InPrefix
  <2>2. after[0].prefix = << >> /\ after[0].approved = FALSE
    BY <1>3 DEF ScanStart
  <2>3. << >> \in Seq(FrameRecords)
    OBVIOUS
  <2>4. 0 \in 0..N /\ ~(\E k \in 1..0 : Ends(tx, k))
    BY <1>2
  <2> QED
    BY <2>1, <2>2, <2>3, <2>4, ListsNothing, Zenon DEF ScanIs
<1>5. ASSUME NEW n \in 1..N, n - 1 \in good PROVE n \in good
  <2> DEFINE acc == after[n - 1]
             I == InPrefix(tx, n - 1)
  <2>1. acc.prefix \in Seq(FrameRecords) /\ Lists(acc.prefix, tx.frames, I)
        /\ acc.approved = (\E k \in 1..(n - 1) : Ends(tx, k))
    BY <1>5, Zenon DEF ScanIs
  <2>2. after[n] = Scanned(tx, n, acc)
    BY <1>3
  <2>3. n \in Nat \ {0} /\ n \in 0..N /\ tx.frames[n] \in FrameRecords
    BY <1>2
  <2>4. I \in SUBSET (1..(n - 1))
    BY DEF InPrefix
  <2>5. (\E k \in 1..n : Ends(tx, k)) <=> (\E k \in 1..(n - 1) : Ends(tx, k)) \/ Ends(tx, n)
    BY <2>3
  <2>6. CASE acc.approved \/ IsExpiryFrame(tx.frames[n])
    <3>1. after[n] = acc
      BY <2>2, <2>6 DEF Scanned
    <3>2. InPrefix(tx, n) = I
      <4>1. n \notin InPrefix(tx, n)
        BY <2>1, <2>6 DEF InPrefix
      <4> QED
        BY <2>3, <4>1 DEF InPrefix
    <3>3. acc.approved = (\E k \in 1..n : Ends(tx, k))
      BY <2>1, <2>5, <2>6, Zenon DEF Ends
    <3> QED
      BY <2>1, <2>3, <3>1, <3>2, <3>3, Zenon DEF ScanIs
  <2>7. CASE ~(acc.approved \/ IsExpiryFrame(tx.frames[n]))
    <3>1. /\ after[n].prefix = Append(acc.prefix, tx.frames[n])
          /\ after[n].approved = ApprovesPayment(tx.frames[n])
      BY <2>2, <2>7 DEF Scanned
    <3>2. InPrefix(tx, n) = I \cup {n}
      <4>1. n \in InPrefix(tx, n)
        BY <2>1, <2>3, <2>7 DEF InPrefix
      <4> QED
        BY <2>3, <4>1 DEF InPrefix
    <3>3. after[n].approved = (\E k \in 1..n : Ends(tx, k))
      BY <2>1, <2>5, <2>7, <3>1, Zenon DEF Ends, ApprovesPayment
    <3>4. Lists(after[n].prefix, tx.frames, I \cup {n})
      <4> DEFINE p == acc.prefix
                 fr == tx.frames
      <4>1. /\ p \in Seq(FrameRecords) /\ n \in Nat \ {0} /\ fr[n] \in FrameRecords
            /\ I \in SUBSET (1..(n - 1)) /\ Lists(p, fr, I)
        BY <2>1, <2>3, <2>4
      <4> HIDE DEF acc, I, p, fr
      <4>2. Lists(Append(p, fr[n]), fr, I \cup {n})
        BY <4>1, ListsOneMore, Zenon
      <4> QED
        BY <3>1, <4>2 DEF p, fr
    <3>5. after[n].prefix \in Seq(FrameRecords)
      BY <2>1, <2>3, <3>1
    <3> QED
      BY <2>3, <3>2, <3>3, <3>4, <3>5, Zenon DEF ScanIs
  <2> QED
    BY <2>6, <2>7
<1>6. \A n \in 0..N : n \in good
  <2> HIDE DEF good, N
  <2> QED
    BY <1>2, <1>4, <1>5, Counting
<1> QED
  BY <1>2, <1>3, <1>6

-----------------------------------------------------------------------------
(* The shapes                                                              *)

\* What the compiler's tests say of the role of a frame.
LEMMA RoleIs ==
    ASSUME NEW tx, NEW f \in FrameRecords, ~IsExpiryFrame(f)
    PROVE  /\ Role(tx, f) # "expiry"
           /\ IsDeploy(f) <=> Role(tx, f) = "deploy"
           /\ IsSelfVerify(tx, f) <=> Role(tx, f) = "self_verify"
           /\ IsOnlyVerify(tx, f) <=> Role(tx, f) = "only_verify"
           /\ IsPay(f) <=> Role(tx, f) = "pay"
<1>1. f.flags \in SUBSET {"payment", "execution", "atomic"}
  BY DEF FrameRecords
<1>2. /\ Scope(f) = {"payment", "execution"} <=> {"payment", "execution"} \subseteq f.flags
      /\ Scope(f) = {"execution"} <=> "execution" \in f.flags /\ "payment" \notin f.flags
      /\ Scope(f) = {"payment"} <=> "payment" \in f.flags /\ "execution" \notin f.flags
  BY <1>1 DEF Scope
<1> QED
  BY <1>2 DEF Role, IsDeploy, IsSelfVerify, IsOnlyVerify, IsPay, IsVerifyOf, IsSenderTarget

\* The roles that approve payment, and those that do not.
LEMMA RoleEnds ==
    ASSUME NEW tx, NEW k
    PROVE  /\ Role(tx, tx.frames[k]) = "expiry" <=> IsExpiryFrame(tx.frames[k])
           /\ Role(tx, tx.frames[k]) \in {"self_verify", "pay"} => Ends(tx, k)
           /\ Role(tx, tx.frames[k]) \in {"deploy", "only_verify", "expiry"} => ~Ends(tx, k)
<1> DEFINE f == tx.frames[k]
<1>1. Ends(tx, k) <=> ~IsExpiryFrame(f) /\ f.mode = "verify" /\ "payment" \in f.flags
  BY DEF Ends, ApprovesPayment
<1> HIDE DEF f
<1>2. /\ Role(tx, f) = "expiry" <=> IsExpiryFrame(f)
      /\ Role(tx, f) \in {"self_verify", "pay"} =>
            ~IsExpiryFrame(f) /\ f.mode = "verify" /\ "payment" \in f.flags
      /\ Role(tx, f) \in {"deploy", "only_verify", "expiry"} =>
            ~(~IsExpiryFrame(f) /\ f.mode = "verify" /\ "payment" \in f.flags)
  BY DEF Role
<1> QED
  BY <1>1, <1>2 DEF f

\* A shape ends with the role that approves payment, and has it nowhere else.
LEMMA ShapeEnds ==
    ASSUME NEW shape \in Shapes
    PROVE  /\ Len(shape) \in 1..3
           /\ shape[Len(shape)] \in {"self_verify", "pay"}
           /\ \A k \in 1..(Len(shape) - 1) : shape[k] \in {"deploy", "only_verify"}
<1>1. CASE shape = <<"self_verify">>
  BY <1>1
<1>2. CASE shape = <<"deploy", "self_verify">>
  BY <1>2
<1>3. CASE shape = <<"only_verify", "pay">>
  BY <1>3
<1>4. CASE shape = <<"deploy", "only_verify", "pay">>
  <2>1. Len(shape) = 3 /\ shape[1] = "deploy" /\ shape[2] = "only_verify" /\ shape[3] = "pay"
    BY <1>4
  <2>2. \A k \in 1..2 : k = 1 \/ k = 2
    OBVIOUS
  <2> QED
    BY <2>1, <2>2
<1> QED
  BY <1>1, <1>2, <1>3, <1>4, Zenon DEF Shapes

\* valid_prefix against the shapes.
LEMMA PrefixIsShape ==
    ASSUME NEW tx, NEW p \in Seq(FrameRecords), \A k \in 1..Len(p) : ~IsExpiryFrame(p[k])
    PROVE  ValidPrefix(tx, p) <=>
             \E shape \in Shapes : /\ Len(p) = Len(shape)
                                   /\ \A k \in 1..Len(p) : Role(tx, p[k]) = shape[k]
<1>1. Len(p) \in Nat /\ \A k \in 1..Len(p) : p[k] \in FrameRecords
  OBVIOUS
<1>2. \A k \in 1..Len(p) :
        /\ IsDeploy(p[k]) <=> Role(tx, p[k]) = "deploy"
        /\ IsSelfVerify(tx, p[k]) <=> Role(tx, p[k]) = "self_verify"
        /\ IsOnlyVerify(tx, p[k]) <=> Role(tx, p[k]) = "only_verify"
        /\ IsPay(p[k]) <=> Role(tx, p[k]) = "pay"
  BY <1>1, RoleIs
<1>3. \A shape \in Shapes : Len(shape) \in 1..3
  BY ShapeEnds
<1>4. CASE Len(p) = 1
  BY <1>2, <1>4 DEF ValidPrefix, Shapes
<1>5. CASE Len(p) = 2
  BY <1>2, <1>5 DEF ValidPrefix, Shapes
<1>6. CASE Len(p) = 3
  BY <1>2, <1>6 DEF ValidPrefix, Shapes
<1>7. CASE Len(p) \notin 1..3
  BY <1>1, <1>3, <1>7 DEF ValidPrefix
<1> QED
  BY <1>1, <1>4, <1>5, <1>6, <1>7

\* A set of frames that makes up a shape ends with the first frame that
\* approves payment, and is the prefix.
LEMMA ShapeIsPrefix ==
    ASSUME NEW tx \in Transactions, NEW J \in ShapeOf(tx)
    PROVE  /\ J = InPrefix(tx, Len(tx.frames))
           /\ \E m \in J : /\ Role(tx, tx.frames[m]) \in {"self_verify", "pay"}
                           /\ \A i \in J : i =< m
                           /\ \A j \in 1..(m - 1) : ~Ends(tx, j)
<1> DEFINE N == Len(tx.frames)
<1>1. N \in Nat /\ DOMAIN tx.frames = 1..N
  <2>1. tx.frames \in Seq(FrameRecords)
    BY DEF Transactions
  <2> QED
    BY <2>1
<1>2. /\ J \in SUBSET (1..N)
      /\ \A i \in J : \A j \in 1..i : j \in J \/ Role(tx, tx.frames[j]) = "expiry"
  BY <1>1, Zenon DEF ShapeOf
<1>3. PICK shape \in Shapes :
        /\ Cardinality(J) = Len(shape)
        /\ \A i \in J : Role(tx, tx.frames[i]) = shape[Cardinality(J \cap 1..i)]
  BY Zenon DEF ShapeOf
<1> HIDE DEF N
<1>4. IsFiniteSet(J)
  <2>1. IsFiniteSet(1..N)
    BY <1>1, FS_Interval
  <2> QED
    BY <1>2, <2>1, FS_Subset, Zenon
<1>5. Len(shape) \in 1..3 /\ J # {}
  <2>1. Len(shape) \in 1..3
    BY ShapeEnds
  <2>2. Len(shape) # 0 /\ Cardinality(J) = Len(shape)
    BY <1>3, <2>1
  <2>3. Cardinality({}) = 0
    BY FS_EmptySet
  <2> QED
    BY <2>1, <2>2, <2>3, Zenon
<1>6. PICK m \in J : \A i \in J : i =< m
  <2>1. N \in Nat /\ J \in SUBSET (1..N) /\ J # {}
    BY <1>1, <1>2, <1>5
  <2> QED
    BY <2>1, GreatestExists, Zenon
<1>7. Role(tx, tx.frames[m]) \in {"self_verify", "pay"}
  <2>1. \A i \in J : i \in 1..m
    <3>1. \A i \in J : i \in 1..N /\ i =< m /\ m \in 1..N
      BY <1>2, <1>6
    <3> QED
      BY <1>1, <3>1
  <2>2. J \cap 1..m = J
    BY <2>1, Zenon
  <2> QED
    BY <1>3, <2>2, ShapeEnds, Zenon
<1>8. ASSUME NEW i \in J, i # m
      PROVE  Role(tx, tx.frames[i]) \in {"deploy", "only_verify"}
  <2> DEFINE K == J \cap 1..i
  <2>1. i \in 1..N /\ m \in 1..N /\ i =< m
    BY <1>2, <1>6
  <2>2. i \in K /\ m \notin K
    BY <1>1, <1>8, <2>1
  <2>3. K \subseteq J /\ K # J /\ K # {}
    BY <2>2
  <2> HIDE DEF K
  <2>4. IsFiniteSet(K) /\ Cardinality(K) =< Cardinality(J) /\ Cardinality(K) # Cardinality(J)
    BY <1>4, <2>3, FS_Subset
  <2>5. Cardinality(K) \in Nat /\ Cardinality(K) # 0
    BY <2>3, <2>4, FS_CardinalityType, FS_EmptySet
  <2>6. Cardinality(K) \in 1..(Len(shape) - 1)
    BY <1>3, <1>5, <2>4, <2>5
  <2>7. Role(tx, tx.frames[i]) = shape[Cardinality(K)]
    BY <1>3, Zenon DEF K
  <2> QED
    BY <2>6, <2>7, ShapeEnds
<1>9. \A j \in 1..(m - 1) : ~Ends(tx, j)
  <2> SUFFICES ASSUME NEW j \in 1..(m - 1) PROVE ~Ends(tx, j)
    OBVIOUS
  <2>1. j \in 1..m /\ j # m
    BY <1>1, <1>2, <1>6
  <2>2. j \in J \/ Role(tx, tx.frames[j]) = "expiry"
    BY <1>2, <1>6, <2>1
  <2>3. Role(tx, tx.frames[j]) \in {"deploy", "only_verify", "expiry"}
    BY <1>8, <2>1, <2>2
  <2> QED
    BY <2>3, RoleEnds
<1>10. J = InPrefix(tx, N)
  <2>1. ASSUME NEW k \in J PROVE k \in InPrefix(tx, N)
    <3>1. k \in 1..N /\ k =< m /\ m \in 1..N
      BY <1>2, <1>6
    <3>2. \A j \in 1..(k - 1) : j \in 1..(m - 1)
      BY <1>1, <3>1
    <3>3. Role(tx, tx.frames[k]) # "expiry"
      BY <1>7, <1>8
    <3>4. ~IsExpiryFrame(tx.frames[k])
      BY <3>3, RoleEnds
    <3> QED
      BY <1>9, <3>1, <3>2, <3>4, Zenon DEF InPrefix
  <2>2. ASSUME NEW k \in InPrefix(tx, N) PROVE k \in J
    <3>1. k \in 1..N /\ ~IsExpiryFrame(tx.frames[k]) /\ \A j \in 1..(k - 1) : ~Ends(tx, j)
      BY Zenon DEF InPrefix
    <3>2. Ends(tx, m)
      BY <1>7, RoleEnds
    <3>3. m \notin 1..(k - 1) /\ m \in 1..N
      BY <1>2, <1>6, <3>1, <3>2
    <3>4. k \in 1..m
      BY <1>1, <3>1, <3>3
    <3>5. Role(tx, tx.frames[k]) # "expiry"
      BY <3>1, RoleEnds
    <3> QED
      BY <1>2, <1>6, <3>4, <3>5
  <2> QED
    BY <2>1, <2>2
<1> QED
  BY <1>6, <1>7, <1>9, <1>10 DEF N

\* Every frame of the prefix is listed, and nothing else.
LEMMA PrefixFrames ==
    ASSUME NEW tx \in Transactions, NEW good
    PROVE  LET p == Scan(tx).prefix IN
           (\A k \in 1..Len(p) : p[k] \in good)
             <=> \A i \in InPrefix(tx, Len(tx.frames)) : tx.frames[i] \in good
<1> DEFINE p == Scan(tx).prefix
           I == InPrefix(tx, Len(tx.frames))
<1>1. Lists(p, tx.frames, I)
  BY ScanCollects, Zenon DEF ScanIs
<1> HIDE DEF p, I
<1>2. /\ \A i \in I : Rank(I, i) \in 1..Len(p) /\ p[Rank(I, i)] = tx.frames[i]
      /\ \A k \in 1..Len(p) : \E i \in I : Rank(I, i) = k
  BY <1>1, Zenon DEF Lists
<1>3. (\A k \in 1..Len(p) : p[k] \in good) <=> \A i \in I : tx.frames[i] \in good
  BY <1>2, Zenon
<1> QED
  BY <1>3 DEF p, I

\* The prefix has a valid shape exactly when a set of frames makes one up.
LEMMA ShapeIsValid ==
    ASSUME NEW tx \in Transactions
    PROVE  Scan(tx).approved /\ ValidPrefix(tx, Scan(tx).prefix)
             <=> ShapeOf(tx) = {InPrefix(tx, Len(tx.frames))}
<1> DEFINE N == Len(tx.frames)
           p == Scan(tx).prefix
           I == InPrefix(tx, N)
<1>1. /\ p \in Seq(FrameRecords) /\ Lists(p, tx.frames, I)
      /\ Scan(tx).approved = (\E k \in 1..N : Ends(tx, k))
  BY ScanCollects, Zenon DEF ScanIs
<1>2. DOMAIN tx.frames = 1..N /\ N \in Nat
  <2>1. tx.frames \in Seq(FrameRecords)
    BY DEF Transactions
  <2> QED
    BY <2>1
<1>3. I \in SUBSET (1..N) /\ \A i \in I : ~IsExpiryFrame(tx.frames[i])
  BY Zenon DEF InPrefix
<1>4. /\ Len(p) = Cardinality(I)
      /\ \A i \in I : Rank(I, i) \in 1..Len(p) /\ p[Rank(I, i)] = tx.frames[i]
      /\ \A k \in 1..Len(p) : \E i \in I : Rank(I, i) = k
  <2> HIDE DEF p, I
  <2> QED
    BY <1>1, Zenon DEF Lists
<1>5. \A k \in 1..Len(p) : ~IsExpiryFrame(p[k])
  <2> HIDE DEF p, I
  <2> QED
    BY <1>3, <1>4, Zenon
<1>6. ValidPrefix(tx, p) <=>
        \E shape \in Shapes : /\ Len(p) = Len(shape)
                              /\ \A k \in 1..Len(p) : Role(tx, p[k]) = shape[k]
  <2> HIDE DEF p
  <2> QED
    BY <1>1, <1>5, PrefixIsShape
<1>7. ASSUME Scan(tx).approved, ValidPrefix(tx, p)
      PROVE  I \in ShapeOf(tx)
  <2>1. PICK shape \in Shapes : /\ Len(p) = Len(shape)
                                /\ \A k \in 1..Len(p) : Role(tx, p[k]) = shape[k]
    BY <1>6, <1>7, Zenon
  <2>2. ASSUME NEW i \in I, NEW j \in 1..i
        PROVE  j \in I \/ Role(tx, tx.frames[j]) = "expiry"
    <3>1. i \in 1..N /\ \A k \in 1..(i - 1) : ~Ends(tx, k)
      BY Zenon DEF InPrefix
    <3>2. j \in 1..N /\ \A k \in 1..(j - 1) : k \in 1..(i - 1)
      BY <1>2, <3>1
    <3>3. IsExpiryFrame(tx.frames[j]) => Role(tx, tx.frames[j]) = "expiry"
      BY RoleEnds
    <3> QED
      BY <3>1, <3>2, <3>3, Zenon DEF InPrefix
  <2> HIDE DEF p, I
  <2>3. \A i \in I : Role(tx, tx.frames[i]) = shape[Cardinality(I \cap 1..i)]
    BY <1>4, <2>1, Zenon DEF Rank
  <2> QED
    BY <1>2, <1>3, <1>4, <2>1, <2>2, <2>3, Zenon DEF ShapeOf
<1>8. ASSUME I \in ShapeOf(tx)
      PROVE  Scan(tx).approved /\ ValidPrefix(tx, p)
  <2>1. Scan(tx).approved
    <3>1. PICK m \in I : Role(tx, tx.frames[m]) \in {"self_verify", "pay"}
      BY <1>8, ShapeIsPrefix, Zenon
    <3>2. Ends(tx, m)
      BY <3>1, RoleEnds
    <3>3. m \in 1..N
      BY <1>3, <3>1
    <3> QED
      BY <1>1, <3>2, <3>3
  <2>2. PICK shape \in Shapes :
          /\ Cardinality(I) = Len(shape)
          /\ \A i \in I : Role(tx, tx.frames[i]) = shape[Cardinality(I \cap 1..i)]
    BY <1>8, Zenon DEF ShapeOf
  <2> HIDE DEF p, I
  <2>3. ASSUME NEW k \in 1..Len(p) PROVE Role(tx, p[k]) = shape[k]
    <3>1. PICK i \in I : Rank(I, i) = k
      BY <1>4
    <3> QED
      BY <1>4, <2>2, <3>1, Zenon DEF Rank
  <2>4. Len(p) = Len(shape)
    BY <1>4, <2>2
  <2>5. ValidPrefix(tx, p)
    BY <1>6, <2>3, <2>4, Zenon
  <2> QED
    BY <2>1, <2>5
<1>9. \A J \in ShapeOf(tx) : J = I
  BY ShapeIsPrefix
<1> HIDE DEF p, I
<1>10. ShapeOf(tx) = {I} <=> I \in ShapeOf(tx)
  BY <1>9
<1>11. Scan(tx).approved /\ ValidPrefix(tx, p) <=> ShapeOf(tx) = {I}
  BY <1>7, <1>8, <1>10, Zenon
<1> QED
  BY <1>11 DEF p, I

\* pay_frame and resolve_payer find the payer of the shape.
LEMMA PayerIsByRole ==
    ASSUME NEW tx \in Transactions, NEW sponsoring, ValidateStructure(tx)
    PROVE  ResolvePayer(tx, sponsoring) = PayerByRole(tx, sponsoring)
<1> DEFINE N == Len(tx.frames)
           I == InPrefix(tx, N)
           E == {i \in DOMAIN tx.frames :
                   ~IsExpiryFrame(tx.frames[i]) /\ ApprovesPayment(tx.frames[i])}
<1>1. tx.frames \in Seq(FrameRecords)
  BY DEF Transactions
<1>2. N \in Nat /\ DOMAIN tx.frames = 1..N
  BY <1>1
<1>3. ShapeOf(tx) = {I}
  <2>1. Scan(tx).approved /\ ValidPrefix(tx, Scan(tx).prefix)
    BY Zenon DEF ValidateStructure
  <2> QED
    BY <2>1, ShapeIsValid, Zenon
<1>4. I \in SUBSET (1..N)
  BY Zenon DEF InPrefix
<1>5. I \in ShapeOf(tx)
  BY <1>3, Zenon
<1>6. PICK m \in I : /\ Role(tx, tx.frames[m]) \in {"self_verify", "pay"}
                     /\ \A i \in I : i =< m
                     /\ \A j \in 1..(m - 1) : ~Ends(tx, j)
  BY <1>5, ShapeIsPrefix, Zenon
<1>7. m \in 1..N /\ m \in Nat
  BY <1>2, <1>4, <1>6
<1>8. Max(UNION ShapeOf(tx)) = m
  <2>1. UNION ShapeOf(tx) = I
    BY <1>3, Zenon
  <2> HIDE DEF I, N
  <2>2. \A i \in I : i \in Nat
    BY <1>2, <1>4
  <2>3. \A x \in I : (\A y \in I : x >= y) => x = m
    BY <1>6, <1>7, <2>2
  <2>4. \A y \in I : m >= y
    BY <1>6, <1>7, <2>2
  <2>5. Max(I) = m
    BY <1>6, <2>3, <2>4, Zenon DEF Max
  <2> QED
    BY <2>1, <2>5, Zenon
<1>9. First(E) = m
  <2>1. \A i \in E : i \in 1..N /\ Ends(tx, i)
    BY <1>2, Zenon DEF Ends
  <2>2. Ends(tx, m)
    BY <1>6, RoleEnds
  <2>3. m \in E
    BY <1>2, <1>7, <2>2, Zenon DEF Ends
  <2> HIDE DEF E, I, N
  <2>4. \A i \in E : i \in Nat /\ m =< i
    BY <1>2, <1>6, <1>7, <2>1
  <2>5. \A x \in E : (\A y \in E : x =< y) => x = m
    BY <1>7, <2>3, <2>4
  <2>6. Min(E) = m
    BY <2>3, <2>4, <2>5, Zenon DEF Min
  <2> QED
    BY <2>3, <2>6, Zenon DEF First
<1> DEFINE f == tx.frames[m]
<1>10. f \in FrameRecords
  BY <1>1, <1>7
<1>11. ~IsExpiryFrame(f)
  BY <1>6, RoleEnds
<1>12. PayFrame(tx) = IF m # 0 /\ Scope(f) = {"payment"} THEN m ELSE 0
  BY <1>9, Zenon DEF PayFrame
<1>13. PayerByRole(tx, sponsoring) =
         IF Role(tx, f) = "self_verify" THEN "self"
         ELSE IF sponsoring /\ f.target = SponsorAddress THEN "sponsor" ELSE "external"
  BY <1>8, Zenon DEF PayerByRole
<1>14. ResolvePayer(tx, sponsoring) =
         IF PayFrame(tx) = 0 THEN "self"
         ELSE IF sponsoring /\ tx.frames[PayFrame(tx)].target = SponsorAddress
         THEN "sponsor" ELSE "external"
  BY DEF ResolvePayer
<1>15. m # 0
  BY <1>7
<1>16. CASE Role(tx, f) = "self_verify"
  <2>1. IsSelfVerify(tx, f)
    BY <1>10, <1>11, <1>16, RoleIs
  <2>2. Scope(f) # {"payment"}
    BY <2>1 DEF IsSelfVerify, IsVerifyOf
  <2> QED
    BY <1>12, <1>13, <1>14, <1>16, <2>2, Zenon
<1>17. CASE Role(tx, f) = "pay"
  <2>1. IsPay(f)
    BY <1>10, <1>11, <1>17, RoleIs
  <2>2. Scope(f) = {"payment"} /\ PayFrame(tx) = m
    BY <1>12, <1>15, <2>1, Zenon DEF IsPay
  <2>3. Role(tx, f) # "self_verify"
    BY <1>17
  <2> QED
    BY <1>13, <1>14, <1>15, <2>2, <2>3, Zenon
<1> QED
  BY <1>6, <1>16, <1>17

\* What validate_structure accepts of a transaction whose other parts are in
\* order is what has a shape of the standard, and its payer is that shape's.
THEOREM AgreesOnShapes ==
    ASSUME NEW tx \in Transactions, OtherwiseOk(tx)
    PROVE  ShapeAgrees(tx)
<1> DEFINE N == Len(tx.frames)
           p == Scan(tx).prefix
           I == InPrefix(tx, N)
           plain == {f \in FrameRecords : "atomic" \notin f.flags}
           valid == Scan(tx).approved /\ ValidPrefix(tx, p)
<1>1. tx.frames \in Seq(FrameRecords) /\ p \in Seq(FrameRecords)
  <2>1. tx.frames \in Seq(FrameRecords)
    BY DEF Transactions
  <2>2. p \in Seq(FrameRecords)
    BY ScanCollects, Zenon DEF ScanIs
  <2> QED
    BY <2>1, <2>2
<1>2. /\ N \in Nat /\ \A i \in 1..N : tx.frames[i] \in FrameRecords
      /\ DOMAIN p = 1..Len(p) /\ \A k \in 1..Len(p) : p[k] \in FrameRecords
  BY <1>1
<1>3. I \in SUBSET (1..N)
  BY Zenon DEF InPrefix
<1>4. (\A f \in Range(p) : "atomic" \notin f.flags) <=> \A k \in 1..Len(p) : p[k] \in plain
  <2> HIDE DEF p
  <2> QED
    BY <1>2, Zenon DEF Range
<1>5. (\A i \in I : "atomic" \notin tx.frames[i].flags) <=> \A i \in I : tx.frames[i] \in plain
  <2> HIDE DEF I
  <2> QED
    BY <1>2, <1>3, Zenon
<1>6. (\A f \in Range(p) : "atomic" \notin f.flags)
        <=> \A i \in I : "atomic" \notin tx.frames[i].flags
  <2> HIDE DEF plain
  <2>1. (\A k \in 1..Len(p) : p[k] \in plain) <=> \A i \in I : tx.frames[i] \in plain
    BY PrefixFrames, Zenon
  <2> HIDE DEF p, I
  <2> QED
    BY <1>4, <1>5, <2>1, Zenon
<1>7. valid <=> ShapeOf(tx) = {I}
  BY ShapeIsValid, Zenon
<1>8. ShapeOf(tx) = {I} => N # 0
  <2> SUFFICES ASSUME ShapeOf(tx) = {I} PROVE N # 0
    OBVIOUS
  <2>1. I \in ShapeOf(tx)
    BY Zenon
  <2>2. PICK m \in I : TRUE
    BY <2>1, ShapeIsPrefix, Zenon
  <2> HIDE DEF I, N
  <2>3. m \in 1..N
    BY <1>3, <2>2
  <2> QED
    BY <1>2, <2>3
<1>9. ShapeOf(tx) # {} => ShapeOf(tx) = {I}
  <2>1. \A J \in ShapeOf(tx) : J = I
    BY ShapeIsPrefix
  <2> HIDE DEF I
  <2> QED
    BY <2>1
<1>10. N # 0 => (N \in 1..MaxFrames <=> N =< MaxFrames)
  <2> HIDE DEF N
  <2> QED
    BY <1>2, GasAssumption
<1>11. (\E J \in ShapeOf(tx) : \A i \in J : "atomic" \notin tx.frames[i].flags)
         <=> ShapeOf(tx) = {I} /\ \A i \in I : "atomic" \notin tx.frames[i].flags
  <2> HIDE DEF I
  <2> QED
    BY <1>9, Zenon
<1>12. ValidateStructure(tx) <=>
         /\ ValidateWireFormat(tx) /\ FeesOk(tx) /\ N \in 1..MaxFrames /\ NonceOk(tx)
         /\ tx.references <= MaxReferences
         /\ \A s \in Range(tx.sigs) : s.scheme \in DOMAIN SchemeCost
         /\ \A i \in DOMAIN tx.frames : FrameOk(tx, i)
         /\ valid /\ Scan(tx).gas <= MaxVerifyGas
         /\ \A f \in Range(p) : "atomic" \notin f.flags
  BY Zenon DEF ValidateStructure
<1>13. /\ ValidateWireFormat(tx) /\ FeesOk(tx) /\ N <= MaxFrames /\ NonceOk(tx)
       /\ tx.references <= MaxReferences
       /\ \A s \in Range(tx.sigs) : s.scheme \in DOMAIN SchemeCost
       /\ valid => Scan(tx).gas <= MaxVerifyGas
  BY Zenon DEF OtherwiseOk
<1> HIDE DEF p, I, N, valid
<1>14. ValidateStructure(tx) <=>
         /\ \A i \in DOMAIN tx.frames : FrameOk(tx, i)
         /\ \E J \in ShapeOf(tx) : \A i \in J : "atomic" \notin tx.frames[i].flags
  BY <1>6, <1>7, <1>8, <1>10, <1>11, <1>12, <1>13, Zenon
<1>15. ValidateStructure(tx) => ResolvePayer(tx, TRUE) = PayerByRole(tx, TRUE)
  BY PayerIsByRole, Zenon
<1> QED
  BY <1>14, <1>15, Zenon DEF ShapeAgrees

=============================================================================
