--------------------------- MODULE MultilaneProofs ---------------------------
(***************************************************************************)
(* Proofs about Multilane, for every value of its constants.  They assume  *)
(* that no watch is dropped between a WATCH and its EXEC, which the last   *)
(* section proves for workers with one permit.                             *)
(***************************************************************************)
EXTENDS Multilane, SequenceTheorems, FiniteSetTheorems, TLAPS

\* Zenon first, which is quick on the many leaves without arithmetic.
USE ZenonT(8), SMTT(30)

-----------------------------------------------------------------------------
(* Lists                                                                   *)

\* A list is a function on its positions, and its members are of its type.
LEMMA ListFacts ==
    ASSUME NEW T, NEW s \in Seq(T)
    PROVE  /\ Len(s) \in Nat
           /\ DOMAIN s = 1..Len(s)
           /\ s \in [1..Len(s) -> T]
           /\ Range(s) \subseteq T
           /\ s # << >> => Len(s) \in 1..Len(s) /\ 1 \in 1..Len(s)
<1>1. Len(s) \in Nat /\ DOMAIN s = 1..Len(s) /\ s \in [1..Len(s) -> T]
  BY LenProperties
<1>2. Range(s) \subseteq T
  BY <1>1 DEF Range
<1>3. s # << >> => Len(s) # 0
  BY EmptySeq
<1> QED
  BY <1>1, <1>2, <1>3

LEMMA EmptyList == << >> \in Seq({}) /\ Range(<< >>) = {} /\ IsInjective(<< >>)
  BY DEF Range, IsInjective

\* A list is empty when it has no members.
LEMMA NoMembers ==
    ASSUME NEW T, NEW s \in Seq(T)
    PROVE  s = << >> <=> Range(s) = {}
<1>1. s = << >> => Range(s) = {}
  BY EmptyList
<1>2. s # << >> => s[1] \in Range(s)
  BY ListFacts DEF Range
<1> QED
  BY <1>1, <1>2

\* An order of a finite set lists every member once.
LEMMA OrdersFacts ==
    ASSUME NEW T, NEW S \in SUBSET T, IsFiniteSet(S), NEW f \in Orders(S)
    PROVE  f \in Seq(T) /\ Range(f) = S /\ IsInjective(f)
<1>1. Cardinality(S) \in Nat
  BY FS_CardinalityType
<1>2. f \in [1..Cardinality(S) -> S] /\ \A t \in S : \E i \in 1..Cardinality(S) : f[i] = t
  BY DEF Orders, Bijection, Injection, Surjection
<1>3. f \in Seq(S)
  BY <1>1, <1>2, SeqDef
<1>4. f \in Seq(T)
  BY <1>3, SeqMonotonic
<1>5. Range(f) = S
  BY <1>2 DEF Range
<1>6. IsInjective(f)
  BY DEF Orders, Bijection, Injection
<1> QED
  BY <1>4, <1>5, <1>6

\* LREM takes out the ids it is given and keeps every other id, in a list that
\* repeats no id if the first did not.
LEMMA WithoutFacts ==
    ASSUME NEW T, NEW s \in Seq(T), NEW gone, NEW r \in Without(s, gone)
    PROVE  /\ r \in Seq(T)
           /\ Range(r) = Range(s) \ gone
           /\ IsInjective(s) => IsInjective(r)
<1> DEFINE kept == {i \in 1..Len(s) : s[i] \notin gone}
<1>1. PICK f \in Orders(kept) : r = [i \in DOMAIN f |-> s[f[i]]]
  BY Zenon DEF Without
<1>2. Len(s) \in Nat /\ s \in [1..Len(s) -> T] /\ DOMAIN s = 1..Len(s)
  BY ListFacts
<1>3. IsFiniteSet(kept) /\ kept \in SUBSET (1..Len(s))
  <2>1. IsFiniteSet(1..Len(s))
    BY <1>2, FS_Interval
  <2>2. kept \in SUBSET (1..Len(s))
    OBVIOUS
  <2> QED
    BY <2>1, <2>2, FS_Subset
<1>4. f \in Seq(1..Len(s)) /\ Range(f) = kept /\ IsInjective(f)
  BY <1>3, OrdersFacts, Zenon
<1>5. Len(f) \in Nat /\ DOMAIN f = 1..Len(f) /\ f \in [1..Len(f) -> 1..Len(s)]
  BY <1>4, ListFacts
<1>6. DOMAIN r = DOMAIN f /\ \A i \in DOMAIN f : r[i] = s[f[i]]
  BY <1>1
<1>7. r \in Seq(T)
  <2>1. r \in [1..Len(f) -> T]
    BY <1>1, <1>2, <1>5
  <2> QED
    BY <1>5, <2>1, SeqDef
<1>8. Range(r) = Range(s) \ gone
  <2>1. Range(r) = {s[f[i]] : i \in DOMAIN f}
    BY <1>6 DEF Range
  <2>2. kept = {f[i] : i \in DOMAIN f}
    BY <1>4 DEF Range
  <2>3. Range(r) = {s[i] : i \in kept}
    BY <2>1, <2>2
  <2>4. Range(s) \ gone = {s[i] : i \in kept}
    BY <1>2 DEF Range
  <2> QED
    BY <2>3, <2>4
<1>9. IsInjective(s) => IsInjective(r)
  BY <1>2, <1>4, <1>5, <1>6 DEF IsInjective
<1> QED
  BY <1>7, <1>8, <1>9

\* Two lists joined: the members of both, and no repetition if neither has one
\* and they share no member.
LEMMA ConcatFacts ==
    ASSUME NEW T, NEW s \in Seq(T), NEW t \in Seq(T)
    PROVE  /\ s \o t \in Seq(T)
           /\ Range(s \o t) = Range(s) \cup Range(t)
           /\ IsInjective(s) /\ IsInjective(t) /\ Range(s) \cap Range(t) = {}
                => IsInjective(s \o t)
<1>1. /\ Len(s) \in Nat /\ DOMAIN s = 1..Len(s)
      /\ Len(t) \in Nat /\ DOMAIN t = 1..Len(t)
  BY ListFacts
<1>2. /\ s \o t \in Seq(T)
      /\ Len(s \o t) = Len(s) + Len(t)
      /\ \A i \in 1..(Len(s) + Len(t)) :
            (s \o t)[i] = IF i <= Len(s) THEN s[i] ELSE t[i - Len(s)]
  BY ConcatProperties
<1>3. DOMAIN (s \o t) = 1..(Len(s) + Len(t))
  BY <1>2, LenProperties
<1>4. Range(s \o t) = Range(s) \cup Range(t)
  BY RangeConcatenation
<1> SUFFICES ASSUME IsInjective(s), IsInjective(t), Range(s) \cap Range(t) = {},
                    NEW a \in 1..(Len(s) + Len(t)), NEW b \in 1..(Len(s) + Len(t)),
                    (s \o t)[a] = (s \o t)[b]
             PROVE  a = b
  BY <1>2, <1>3, <1>4, Zenon DEF IsInjective
<1>5. ASSUME NEW i \in 1..(Len(s) + Len(t)), i <= Len(s)
      PROVE  i \in DOMAIN s /\ (s \o t)[i] = s[i] /\ s[i] \in Range(s)
  BY <1>1, <1>2, <1>5 DEF Range
<1>6. ASSUME NEW i \in 1..(Len(s) + Len(t)), ~(i <= Len(s))
      PROVE  /\ i - Len(s) \in DOMAIN t
             /\ (s \o t)[i] = t[i - Len(s)]
             /\ t[i - Len(s)] \in Range(t)
  <2>1. i - Len(s) \in 1..Len(t)
    BY <1>1, <1>6
  <2>2. (s \o t)[i] = t[i - Len(s)]
    BY <1>2, <1>6
  <2> QED
    BY <1>1, <2>1, <2>2 DEF Range
<1>7. CASE a <= Len(s) /\ b <= Len(s)
  BY <1>5, <1>7 DEF IsInjective
<1>8. CASE ~(a <= Len(s)) /\ ~(b <= Len(s))
  <2>1. a - Len(s) = b - Len(s)
    BY <1>6, <1>8 DEF IsInjective
  <2> QED
    BY <1>1, <2>1
<1>9. CASE (a <= Len(s)) # (b <= Len(s))
  BY <1>5, <1>6, <1>9
<1> QED
  BY <1>7, <1>8, <1>9

\* LPUSH of one id.
LEMMA ConsFacts ==
    ASSUME NEW T, NEW s \in Seq(T), NEW x \in T
    PROVE  /\ <<x>> \o s \in Seq(T)
           /\ Range(<<x>> \o s) = Range(s) \cup {x}
           /\ IsInjective(s) /\ x \notin Range(s) => IsInjective(<<x>> \o s)
<1> DEFINE one == <<x>>
<1>1. one \in Seq(T) /\ Range(one) = {x} /\ IsInjective(one)
  BY DEF Range, IsInjective
<1> HIDE DEF one
<1>2. /\ one \o s \in Seq(T)
      /\ Range(one \o s) = Range(one) \cup Range(s)
      /\ IsInjective(s) /\ Range(one) \cap Range(s) = {} => IsInjective(one \o s)
  BY <1>1, ConcatFacts
<1> QED
  BY <1>1, <1>2 DEF one

\* RPUSH of one id.
LEMMA AppendFacts ==
    ASSUME NEW T, NEW s \in Seq(T), NEW x \in T
    PROVE  /\ Append(s, x) \in Seq(T)
           /\ Range(Append(s, x)) = Range(s) \cup {x}
           /\ IsInjective(s) /\ x \notin Range(s) => IsInjective(Append(s, x))
<1> DEFINE one == <<x>>
<1>1. one \in Seq(T) /\ Range(one) = {x} /\ IsInjective(one)
  BY DEF Range, IsInjective
<1>2. Append(s, x) = s \o one
  BY AppendIsConcat
<1> HIDE DEF one
<1>3. /\ s \o one \in Seq(T)
      /\ Range(s \o one) = Range(s) \cup Range(one)
      /\ IsInjective(s) /\ Range(s) \cap Range(one) = {} => IsInjective(s \o one)
  BY <1>1, ConcatFacts
<1> QED
  BY <1>1, <1>2, <1>3

\* RPOP takes the last id.
LEMMA PopFacts ==
    ASSUME NEW T, NEW s \in Seq(T), s # << >>, IsInjective(s)
    PROVE  /\ s[Len(s)] \in Range(s)
           /\ SubSeq(s, 1, Len(s) - 1) \in Seq(T)
           /\ IsInjective(SubSeq(s, 1, Len(s) - 1))
           /\ Range(SubSeq(s, 1, Len(s) - 1)) = Range(s) \ {s[Len(s)]}
<1> DEFINE n == Len(s)
           r == SubSeq(s, 1, n - 1)
<1>1. n \in Nat /\ DOMAIN s = 1..n /\ s \in [1..n -> T] /\ n \in 1..n
  BY ListFacts
<1> HIDE DEF n
<1>2. \A i \in 1..(n - 1) : i \in 1..n /\ i # n
  BY <1>1
<1>3. r \in Seq(T) /\ Len(r) = n - 1 /\ \A i \in 1..(n - 1) : r[i] = s[i]
  <2>1. \A i \in 1..(n - 1) : s[i] \in T
    BY <1>1, <1>2
  <2>2. n - 1 \in Nat /\ 1 \in Nat
    BY <1>1
  <2>3. r \in Seq(T) /\ Len(r) = IF 1 <= n - 1 THEN (n - 1) - 1 + 1 ELSE 0
    BY <2>1, <2>2, SubSeqProperties
  <2>4. \A i \in 1..(n - 1) : r[i] = s[1 + i - 1]
    BY <2>1, <2>2, SubSeqProperties
  <2> HIDE DEF r
  <2>5. Len(r) = n - 1
    BY <2>2, <2>3
  <2>6. \A i \in 1..(n - 1) : 1 + i - 1 = i
    OBVIOUS
  <2> QED
    BY <2>3, <2>4, <2>5, <2>6
<1> HIDE DEF r
<1>4. DOMAIN r = 1..(n - 1)
  BY <1>3, LenProperties
<1>5. \A i \in 1..n : i = n \/ i \in 1..(n - 1)
  BY <1>1
<1>6. IsInjective(r)
  BY <1>1, <1>2, <1>3, <1>4 DEF IsInjective
<1>7. \A i, k \in 1..n : s[i] = s[k] => i = k
  BY <1>1 DEF IsInjective
<1>8. Range(r) = Range(s) \ {s[n]}
  BY <1>1, <1>2, <1>3, <1>4, <1>5, <1>7 DEF Range
<1>9. s[n] \in Range(s)
  BY <1>1 DEF Range
<1> QED
  BY <1>3, <1>6, <1>8, <1>9 DEF r, n

\* The first member of a list and the rest.
LEMMA TailFacts ==
    ASSUME NEW T, NEW s \in Seq(T), s # << >>, IsInjective(s)
    PROVE  /\ Head(s) = s[1]
           /\ Head(s) \in Range(s)
           /\ Tail(s) \in Seq(T)
           /\ Len(s) - 1 \in Nat
           /\ Len(Tail(s)) = Len(s) - 1
           /\ \A i \in 1..(Len(s) - 1) : Tail(s)[i] = s[i + 1]
           /\ Range(Tail(s)) = Range(s) \ {Head(s)}
           /\ IsInjective(Tail(s))
<1> DEFINE n == Len(s)
           r == Tail(s)
<1>1. n \in Nat /\ DOMAIN s = 1..n /\ s \in [1..n -> T] /\ 1 \in 1..n
  BY ListFacts
<1>2. /\ Head(s) \in T
      /\ r \in Seq(T)
      /\ Len(r) = n - 1
      /\ \A i \in 1..Len(r) : r[i] = s[i + 1]
  BY HeadTailProperties
<1>3. Head(s) = s[1]
  OBVIOUS
<1>4. Len(r) \in Nat /\ DOMAIN r = 1..Len(r)
  BY <1>2, ListFacts
<1> HIDE DEF n, r
<1>5. /\ \A i \in 1..(n - 1) : i + 1 \in 1..n /\ i + 1 # 1
      /\ \A i, k \in 1..(n - 1) : i + 1 = k + 1 => i = k
      /\ \A i \in 1..n : i = 1 \/ \E k \in 1..(n - 1) : i = k + 1
  <2>1. \A i \in 1..n : i = 1 \/ (i - 1 \in 1..(n - 1) /\ i = (i - 1) + 1)
    BY <1>1
  <2> QED
    BY <1>1, <2>1
<1>6. \A i, k \in 1..n : s[i] = s[k] => i = k
  BY <1>1 DEF IsInjective
<1>7. IsInjective(r)
  BY <1>2, <1>4, <1>5, <1>6 DEF IsInjective
<1>8. Range(r) = Range(s) \ {s[1]}
  BY <1>1, <1>2, <1>4, <1>5, <1>6 DEF Range
<1>9. s[1] \in Range(s)
  BY <1>1 DEF Range
<1> QED
  BY <1>2, <1>3, <1>4, <1>7, <1>8, <1>9 DEF n, r

\* The lane just visited goes to the end; every other moves up by one.
LEMMA NextLaneFacts ==
    ASSUME NEW T, NEW s \in Seq(T), s # << >>, IsInjective(s)
    PROVE  /\ NextLane(s) \in Seq(T)
           /\ Len(NextLane(s)) = Len(s)
           /\ IsInjective(NextLane(s))
           /\ Range(NextLane(s)) = Range(s)
           /\ NextLane(s)[Len(s)] = s[1]
           /\ \A i \in 1..(Len(s) - 1) : NextLane(s)[i] = s[i + 1]
<1> DEFINE r == Tail(s)
           h == Head(s)
<1>1. /\ r \in Seq(T) /\ IsInjective(r) /\ Range(r) = Range(s) \ {h}
      /\ h \in Range(s) /\ h = s[1] /\ Len(s) - 1 \in Nat /\ Len(r) = Len(s) - 1
      /\ \A i \in 1..(Len(s) - 1) : r[i] = s[i + 1]
  BY TailFacts
<1>2. NextLane(s) = Append(r, h)
  BY DEF NextLane
<1>3. h \in T
  BY <1>1, ListFacts
<1>4. Len(s) \in Nat
  BY ListFacts
<1> HIDE DEF r, h
<1>5. /\ Append(r, h) \in Seq(T)
      /\ Range(Append(r, h)) = Range(r) \cup {h}
      /\ IsInjective(Append(r, h))
  <2>1. r \in Seq(T) /\ IsInjective(r) /\ h \notin Range(r)
    BY <1>1
  <2> QED
    BY <1>3, <2>1, AppendFacts
<1>6. /\ Len(Append(r, h)) = Len(r) + 1
      /\ \A i \in 1..Len(r) : Append(r, h)[i] = r[i]
      /\ Append(r, h)[Len(r) + 1] = h
  BY <1>1, <1>3, AppendProperties
<1>7. Len(r) + 1 = Len(s) /\ Len(r) = Len(s) - 1
  BY <1>1, <1>4
<1>8. /\ Len(NextLane(s)) = Len(s)
      /\ NextLane(s)[Len(s)] = s[1]
      /\ \A i \in 1..(Len(s) - 1) : NextLane(s)[i] = s[i + 1]
  BY <1>1, <1>2, <1>6, <1>7, Zenon
<1>9. Range(r) \cup {h} = Range(s)
  BY <1>1
<1> QED
  BY <1>2, <1>5, <1>8, <1>9, Zenon

\* A list holds no more members than it has positions.
LEMMA RangeCardinality ==
    ASSUME NEW T, NEW s \in Seq(T)
    PROVE  IsFiniteSet(Range(s)) /\ Cardinality(Range(s)) <= Len(s)
<1>1. Len(s) \in Nat /\ DOMAIN s = 1..Len(s)
  BY ListFacts
<1>2. IsFiniteSet(1..Len(s)) /\ Cardinality(1..Len(s)) = Len(s)
  BY <1>1, FS_Interval
<1>3. Range(s) = {s[i] : i \in 1..Len(s)}
  BY <1>1 DEF Range
<1>4. /\ IsFiniteSet({s[i] : i \in 1..Len(s)})
      /\ Cardinality({s[i] : i \in 1..Len(s)}) <= Cardinality(1..Len(s))
  <2>1. s \in Surjection(1..Len(s), Range(s))
    BY <1>1, <1>3 DEF Surjection
  <2>2. IsFiniteSet(Range(s)) /\ Cardinality(Range(s)) <= Cardinality(1..Len(s))
    BY <1>2, <2>1, FS_Surjection, Zenon
  <2> QED
    BY <1>3, <2>2
<1> QED
  BY <1>2, <1>3, <1>4

-----------------------------------------------------------------------------
(* Counting up to a bound                                                  *)

\* Induction on the turns of a loop, for a set of turns.
LEMMA Counting ==
    ASSUME NEW n \in Nat, NEW good, 0 \in good,
           \A i \in 1..n : i - 1 \in good => i \in good
    PROVE  \A i \in 0..n : i \in good
<1> DEFINE less == OpToRel(<, Nat)
           bad  == {i \in 0..n : i \notin good}
<1> SUFFICES ASSUME bad # {} PROVE FALSE
  OBVIOUS
<1>1. IsWellFoundedOn(less, Nat)
  BY NatLessThanWellFounded, Zenon
<1>2. bad \subseteq Nat
  OBVIOUS
<1>3. PICK x \in bad : \A y \in bad : ~(<<y, x>> \in less)
  <2> HIDE DEF less, bad
  <2> QED
    BY <1>1, <1>2, WFMin, Zenon
<1>4. \A y \in bad : ~(y < x)
  BY <1>2, <1>3, Zenon DEF OpToRel
<1>5. x \in 1..n /\ x \notin good
  OBVIOUS
<1>6. x - 1 \in 0..n /\ x - 1 < x
  BY <1>5
<1>7. x - 1 \in good
  BY <1>4, <1>6
<1> QED
  BY <1>5, <1>7

-----------------------------------------------------------------------------
(* The loop of the poll                                                    *)

\* The turns of the loop exist: the recursive function that Round evaluates is
\* defined, starts at the loop's start and takes one turn at a time.
LEMMA RoundUnfolds ==
    ASSUME NEW ring, Len(ring) \in Nat, NEW batch \in Nat
    PROVE  \E after :
             /\ after[0] = {LoopStart(ring, batch)}
             /\ \A i \in 1..(batch + Len(ring)) : after[i] = Turned(after[i - 1])
             /\ Round(ring, batch) = after[batch + Len(ring)]
<1> DEFINE N == batch + Len(ring)
           Turns(n, f) == f = [i \in 0..n |-> IF i = 0 THEN {LoopStart(ring, batch)}
                                              ELSE Turned(f[i - 1])]
           good == {n \in 0..N : \E f : Turns(n, f)}
           after == CHOOSE f : Turns(N, f)
<1>1. N \in Nat
  OBVIOUS
<1>2. 0 \in good
  <2> DEFINE f == [i \in 0..0 |-> {LoopStart(ring, batch)}]
  <2>1. f = [i \in 0..0 |-> IF i = 0 THEN {LoopStart(ring, batch)}
                           ELSE Turned(f[i - 1])]
    OBVIOUS
  <2> HIDE DEF f
  <2>2. \E g : Turns(0, g)
    BY <2>1, Zenon
  <2> HIDE DEF Turns
  <2> QED
    BY <1>1, <2>2
<1>3. ASSUME NEW n \in 1..N, n - 1 \in good
      PROVE  n \in good
  <2>1. PICK g : Turns(n - 1, g)
    BY <1>3
  <2>2. DOMAIN g = 0..(n - 1)
    BY <2>1
  <2> DEFINE f == [i \in 0..n |-> IF i = n THEN Turned(g[n - 1]) ELSE g[i]]
  <2>3. ASSUME NEW i \in 0..n
        PROVE  f[i] = IF i = 0 THEN {LoopStart(ring, batch)} ELSE Turned(f[i - 1])
    <3>1. CASE i = n
      <4>1. i # 0 /\ i - 1 \in 0..n /\ i - 1 # n
        BY <3>1
      <4>2. f[i - 1] = g[i - 1]
        BY <4>1
      <4> QED
        BY <3>1, <4>1, <4>2
    <3>2. CASE i # n
      <4>1. i \in 0..(n - 1) /\ f[i] = g[i]
        BY <3>2
      <4>2. g[i] = IF i = 0 THEN {LoopStart(ring, batch)} ELSE Turned(g[i - 1])
        BY <2>1, <4>1, Zenon
      <4>3. i # 0 => i - 1 \in 0..n /\ i - 1 # n
        BY <3>2
      <4>4. i # 0 => f[i - 1] = g[i - 1]
        BY <4>3
      <4> QED
        BY <4>1, <4>2, <4>4
    <3> QED
      BY <3>1, <3>2
  <2>4. f = [i \in 0..n |-> f[i]]
    OBVIOUS
  <2> HIDE DEF f
  <2>5. Turns(n, f)
    BY <2>3, <2>4
  <2> HIDE DEF Turns, N
  <2> QED
    BY <1>1, <2>5
<1>4. \A n \in 0..N : n \in good
  <2> HIDE DEF good, N
  <2> QED
    BY <1>1, <1>2, <1>3, Counting
<1>5. \E f : Turns(N, f)
  <2>1. N \in 0..N
    BY <1>1
  <2> HIDE DEF Turns, N
  <2> QED
    BY <1>4, <2>1, Zenon
<1>6. Turns(N, after)
  BY <1>5, Zenon
<1>7. Round(ring, batch) = after[N]
  BY DEF Round
<1> HIDE DEF after, N
<1>8. \A i \in 0..N : after[i] = IF i = 0 THEN {LoopStart(ring, batch)}
                                 ELSE Turned(after[i - 1])
  BY <1>6, Zenon
<1>9. 0 \in 0..N /\ \A i \in 1..N : i \in 0..N /\ i # 0
  BY <1>1
<1> QED
  BY <1>7, <1>8, <1>9, Zenon DEF N

-----------------------------------------------------------------------------
(* The inductive invariant                                                 *)

\* A list without repetition and two sets, with no member in two of them.
Tidy(p, d, a) ==
    /\ IsInjective(p)
    /\ Range(p) \cap d = {}
    /\ Range(p) \cap a = {}
    /\ d \cap a = {}

Members(l) == Range(pending[l]) \cup delayed[l] \cup active[l]

\* An id is in one place of the lane its meta hash names, and a push of it is
\* refused.
InPlace ==
    \A l \in Lanes :
        /\ Tidy(pending[l], delayed[l], active[l])
        /\ \A j \in Members(l) : lane[j] = l /\ j \in dedupe

\* Every id with data has a lane, so that no pruning deletes it.
DataHasLane == \A j \in data : lane[j] \in Lanes

\* A live lease is the lease of an active job, and the one its meta hash names:
\* a job has at most one, and its holder finds it where a completion looks.
LeaseIsOfActive ==
    \A k \in leases :
        /\ lane[k[1]] \in Lanes
        /\ k[1] \in active[lane[k[1]]]
        /\ token[k[1]] = k[2]

\* A task belongs to a worker.
TaskShape ==
    \A k \in LeaseKeys :
        \/ task[k] = Idle
        \/ task[k].worker \in Workers /\ task[k].phase # "idle"

\* A connection watches the lease of every task that waits for EXEC on it, and
\* knows when one of them is gone.
Guarded ==
    \A k \in LeaseKeys :
        task[k].phase = "watching" =>
            /\ k \in watched[task[k].worker]
            /\ k \in leases \/ task[k].worker \in dirty

Inv ==
    /\ TypeOK
    /\ LanesWithJobsAreListed
    /\ InPlace
    /\ DataHasLane
    /\ LeaseIsOfActive
    /\ TaskShape
    /\ Guarded

TaskTypes ==
    /\ task \in [LeaseKeys -> [phase : Phases, worker : Workers \cup {None}]]
    /\ watched \in [Workers -> SUBSET LeaseKeys]
    /\ dirty \subseteq Workers

\* The part of the invariant that the tasks and connections keep.
TasksOK ==
    /\ TaskTypes
    /\ \A w \in Workers : Permits(w) \in 0..LocalConcurrency
    /\ TaskShape
    /\ Guarded

-----------------------------------------------------------------------------
(* What a turn of the loop keeps                                           *)

LoopStates ==
    [ring : Seq(Lanes), left : Nat, pending : [Lanes -> Seq(Jobs)],
     delayed : [Lanes -> SUBSET Jobs], active : [Lanes -> SUBSET Jobs],
     score : [Lanes -> 0..Now \cup {None}], popped : Seq(Jobs)]

\* A lane the loop has not come to is as the poll found it.
Untouched(s, l) ==
    /\ s.pending[l] = pending[l]
    /\ s.delayed[l] = delayed[l]
    /\ s.active[l] = active[l]
    /\ \A j \in Range(s.popped) : lane[j] # l

\* A lane keeps its ids, each in one place; it is listed while it has any; the
\* ids under a live lease and the ones just popped are active; and a lane that
\* is closed has no id pending.
LaneKept(s, l) ==
    /\ Tidy(s.pending[l], s.delayed[l], s.active[l])
    /\ Range(s.pending[l]) \cup s.delayed[l] \cup s.active[l] = Members(l)
    /\ s.score[l] = None => Members(l) = {}
    /\ l \in Range(s.ring) /\ s.score[l] # Now => Untouched(s, l)
    /\ l \notin Range(s.ring) => s.pending[l] = << >>
    /\ \A k \in leases : lane[k[1]] = l => k[1] \in s.active[l]
    /\ \A j \in Range(s.popped) : lane[j] = l => j \in s.active[l]

LoopInv(s, batch) ==
    /\ s \in LoopStates
    /\ IsInjective(s.ring)
    /\ IsInjective(s.popped)
    /\ Len(s.popped) + s.left = batch
    /\ \A l \in Lanes : LaneKept(s, l)
    /\ \A j \in Range(s.popped) : lane[j] \in Lanes
    /\ \A k \in leases : k[1] \notin Range(s.popped)

LEMMA Constants ==
    /\ IsFiniteSet(Lanes)
    /\ IsFiniteSet(Jobs)
    /\ IsFiniteSet(Tokens)
    /\ Now \in Nat \ {0}
    /\ None \notin Nat
    /\ None \notin Lanes
    /\ None \notin Tokens
    /\ None \notin Workers
<1>1. Cardinality(Lanes) \in Nat
  BY ConstantsAssumption, FS_CardinalityType
<1> QED
  BY <1>1, ConstantsAssumption DEF Now

\* What TypeOK says of the lanes.
LEMMA Types ==
    ASSUME TypeOK
    PROVE  /\ pending \in [Lanes -> Seq(Jobs)]
           /\ delayed \in [Lanes -> SUBSET Jobs]
           /\ active \in [Lanes -> SUBSET Jobs]
           /\ score \in [Lanes -> 0..Now \cup {None}]
           /\ \A l \in Lanes : Members(l) \subseteq data
           /\ data \subseteq Jobs
           /\ lane \in [Jobs -> Lanes \cup {None}]
           /\ token \in [Jobs -> Tokens \cup {None}]
           /\ leases \subseteq LeaseKeys
  BY DEF TypeOK, Members

\* What a visit leaves of a lane, before a job is popped.
ListAfter(l, came) == came.first \o came.back \o pending[l] \o came.last

DelayedAfter(l, came) == delayed[l] \ (Range(came.first) \cup Range(came.last))

ActiveAfter(l, came) == active[l] \ Range(came.back)

\* Of a lane the poll visits, what comes back to the list was delayed or under a
\* lease that has run out.
LEMMA HousekeepLane ==
    ASSUME Inv, NEW l \in Lanes, NEW came \in Arrivals(l)
    PROVE  /\ ListAfter(l, came) \in Seq(Jobs)
           /\ DelayedAfter(l, came) \in SUBSET Jobs
           /\ ActiveAfter(l, came) \in SUBSET Jobs
           /\ Tidy(ListAfter(l, came), DelayedAfter(l, came), ActiveAfter(l, came))
           /\ Range(ListAfter(l, came)) \cup DelayedAfter(l, came)
                \cup ActiveAfter(l, came) = Members(l)
           /\ \A k \in leases : lane[k[1]] = l => k[1] \in ActiveAfter(l, came)
<1> DEFINE p == ListAfter(l, came)
           d == DelayedAfter(l, came)
           a == ActiveAfter(l, came)
           x == came.first
           y == came.back
           z == came.last
           w == pending[l]
<1>1. PICK due \in SUBSET delayed[l] :
        x \in Orders(due \cap front) /\ y \in Orders(TimedOut(l)) /\ z \in Orders(due \ front)
  <2>1. PICK due \in SUBSET delayed[l] :
          came \in [first : Orders(due \cap front), back : Orders(TimedOut(l)),
                   last : Orders(due \ front)]
    BY Zenon DEF Arrivals
  <2> QED
    BY <2>1, Zenon
<1>2. /\ w \in Seq(Jobs) /\ delayed[l] \in SUBSET Jobs /\ active[l] \in SUBSET Jobs
      /\ IsFiniteSet(Jobs)
  BY Types, Constants DEF Inv
<1>3. /\ due \cap front \in SUBSET Jobs /\ IsFiniteSet(due \cap front)
      /\ TimedOut(l) \in SUBSET Jobs /\ IsFiniteSet(TimedOut(l))
      /\ due \ front \in SUBSET Jobs /\ IsFiniteSet(due \ front)
      /\ TimedOut(l) \subseteq active[l]
  <2>1. /\ due \cap front \in SUBSET Jobs
        /\ TimedOut(l) \in SUBSET Jobs
        /\ due \ front \in SUBSET Jobs
        /\ TimedOut(l) \subseteq active[l]
    BY <1>2 DEF TimedOut
  <2> QED
    BY <1>2, <2>1, FS_Subset
<1>4. Tidy(w, delayed[l], active[l])
  BY DEF Inv, InPlace
<1> HIDE DEF x, y, z, w
<1>5. /\ x \in Seq(Jobs) /\ Range(x) = due \cap front /\ IsInjective(x)
      /\ y \in Seq(Jobs) /\ Range(y) = TimedOut(l) /\ IsInjective(y)
      /\ z \in Seq(Jobs) /\ Range(z) = due \ front /\ IsInjective(z)
  BY <1>1, <1>3, OrdersFacts, Zenon
<1>6. /\ x \o y \in Seq(Jobs) /\ Range(x \o y) = Range(x) \cup Range(y)
      /\ IsInjective(x \o y)
  <2>1. Range(x) \cap Range(y) = {}
    BY <1>3, <1>4, <1>5 DEF Tidy
  <2> QED
    BY <1>5, <2>1, ConcatFacts
<1>7. /\ x \o y \o w \in Seq(Jobs)
      /\ Range(x \o y \o w) = Range(x) \cup Range(y) \cup Range(w)
      /\ IsInjective(x \o y \o w)
  <2>1. Range(x \o y) \cap Range(w) = {}
    BY <1>3, <1>4, <1>5, <1>6 DEF Tidy
  <2>2. IsInjective(w)
    BY <1>4 DEF Tidy
  <2> DEFINE xy == x \o y
  <2>3. xy \in Seq(Jobs) /\ IsInjective(xy) /\ Range(xy) \cap Range(w) = {}
    BY <1>6, <2>1
  <2> HIDE DEF xy
  <2>4. /\ xy \o w \in Seq(Jobs)
        /\ Range(xy \o w) = Range(xy) \cup Range(w)
        /\ IsInjective(xy \o w)
    BY <1>2, <2>2, <2>3, ConcatFacts
  <2> QED
    BY <1>6, <2>4 DEF xy
<1>8. /\ x \o y \o w \o z \in Seq(Jobs)
      /\ Range(x \o y \o w \o z) = Range(x) \cup Range(y) \cup Range(w) \cup Range(z)
      /\ IsInjective(x \o y \o w \o z)
  <2>1. Range(x \o y \o w) \cap Range(z) = {}
    BY <1>3, <1>4, <1>5, <1>7 DEF Tidy
  <2> DEFINE xyw == x \o y \o w
  <2>2. xyw \in Seq(Jobs) /\ IsInjective(xyw) /\ Range(xyw) \cap Range(z) = {}
    BY <1>7, <2>1
  <2> HIDE DEF xyw
  <2>3. /\ xyw \o z \in Seq(Jobs)
        /\ Range(xyw \o z) = Range(xyw) \cup Range(z)
        /\ IsInjective(xyw \o z)
    BY <1>5, <2>2, ConcatFacts
  <2> QED
    BY <1>7, <2>3 DEF xyw
<1>9. /\ p \in Seq(Jobs) /\ IsInjective(p)
      /\ Range(p) = due \cup TimedOut(l) \cup Range(w)
      /\ d = delayed[l] \ due /\ a = active[l] \ TimedOut(l)
  <2>1. p = x \o y \o w \o z /\ d = delayed[l] \ (Range(x) \cup Range(z)) /\ a = active[l] \ Range(y)
    BY DEF x, y, z, w, ListAfter, DelayedAfter, ActiveAfter
  <2> QED
    BY <1>5, <1>8, <2>1
<1>10. Range(p) \cup d \cup a = Members(l)
  BY <1>3, <1>9 DEF Members, w
<1>11. Tidy(p, d, a)
  BY <1>3, <1>4, <1>9 DEF Tidy
<1>12. ASSUME NEW k \in leases, lane[k[1]] = l
       PROVE  k[1] \in a
  <2>1. k[1] \in active[l] /\ token[k[1]] = k[2] /\ k \in Jobs \X Tokens
    BY <1>12 DEF Inv, LeaseIsOfActive, TypeOK, LeaseKeys
  <2>2. <<k[1], token[k[1]]>> = k
    BY <2>1
  <2>3. k[1] \notin TimedOut(l)
    BY <1>12, <2>2 DEF TimedOut
  <2> QED
    BY <1>9, <2>1, <2>3
<1> QED
  BY <1>2, <1>9, <1>10, <1>11, <1>12

LEMMA LoopFields ==
    ASSUME NEW s \in LoopStates
    PROVE  /\ s.ring \in Seq(Lanes)
           /\ s.left \in Nat
           /\ s.pending \in [Lanes -> Seq(Jobs)]
           /\ s.delayed \in [Lanes -> SUBSET Jobs]
           /\ s.active \in [Lanes -> SUBSET Jobs]
           /\ s.score \in [Lanes -> 0..Now \cup {None}]
           /\ s.popped \in Seq(Jobs)
  BY DEF LoopStates

LEMMA HousekeepKeeps ==
    ASSUME Inv, NEW batch, NEW s, LoopInv(s, batch),
           NEW l \in Lanes, l \in Range(s.ring), NEW came \in Arrivals(l)
    PROVE  LET h == Housekeep(s, l, came)
           IN  /\ LoopInv(h, batch)
               /\ h.score[l] = Now
               /\ h.ring = s.ring /\ h.left = s.left /\ h.popped = s.popped
<1> DEFINE h == Housekeep(s, l, came)
           p == ListAfter(l, came)
           d == DelayedAfter(l, came)
           a == ActiveAfter(l, came)
<1>1. CASE s.score[l] = Now
  BY <1>1 DEF Housekeep
<1>2. CASE s.score[l] # Now
  <2>1. s \in LoopStates /\ LaneKept(s, l)
    BY DEF LoopInv
  <2>2. Untouched(s, l)
    BY <1>2, <2>1 DEF LaneKept
  <2>3. /\ p \in Seq(Jobs) /\ d \in SUBSET Jobs /\ a \in SUBSET Jobs
        /\ Tidy(p, d, a)
        /\ Range(p) \cup d \cup a = Members(l)
        /\ \A k \in leases : lane[k[1]] = l => k[1] \in a
    BY HousekeepLane, Zenon
  <2>4. h = [s EXCEPT !.active[l] = a, !.delayed[l] = d, !.pending[l] = p,
                      !.score = Visited(@, l)]
    BY <1>2, <2>2 DEF Housekeep, Untouched, ListAfter, DelayedAfter, ActiveAfter
  <2>5. Now \in 0..Now /\ Now # None
    BY Constants
  <2> HIDE DEF h, p, d, a
  <2>6. /\ h \in LoopStates
        /\ h.ring = s.ring /\ h.left = s.left /\ h.popped = s.popped
        /\ h.pending = [s.pending EXCEPT ![l] = p]
        /\ h.delayed = [s.delayed EXCEPT ![l] = d]
        /\ h.active = [s.active EXCEPT ![l] = a]
        /\ h.score = [s.score EXCEPT ![l] = Now]
    BY <2>1, <2>3, <2>4, <2>5, Zenon DEF LoopStates, Visited
  <2>7. /\ h.pending[l] = p /\ h.delayed[l] = d /\ h.active[l] = a /\ h.score[l] = Now
        /\ \A m \in Lanes : m # l => /\ h.pending[m] = s.pending[m]
                                    /\ h.delayed[m] = s.delayed[m]
                                    /\ h.active[m] = s.active[m]
                                    /\ h.score[m] = s.score[m]
    BY <2>1, <2>6, LoopFields
  <2>8. LaneKept(h, l)
    BY <2>1, <2>2, <2>3, <2>5, <2>6, <2>7, Zenon DEF LaneKept, Untouched
  <2>9. ASSUME NEW m \in Lanes, m # l
        PROVE  LaneKept(h, m)
    <3>1. LaneKept(s, m)
      BY DEF LoopInv
    <3> QED
      BY <2>6, <2>7, <2>9, <3>1, Zenon DEF LaneKept, Untouched
  <2>10. LoopInv(h, batch)
    BY <2>6, <2>8, <2>9, Zenon DEF LoopInv
  <2> QED
    BY <2>6, <2>7, <2>10 DEF h
<1> QED
  BY <1>1, <1>2

\* The turns that pop a job and that close a lane.
NextJob(s, l) == s.pending[l][Len(s.pending[l])]

AfterPop(s, l) == [Pop(s, l) EXCEPT !.ring = NextLane(@), !.left = @ - 1]

AfterClose(s, l) == [Close(s, l) EXCEPT !.ring = Tail(@)]

\* The job that is popped was pending in the lane, and so under no live lease
\* and not popped before.
LEMMA PopKeeps ==
    ASSUME Inv, NEW batch, NEW s, LoopInv(s, batch), s.ring # << >>, s.left # 0,
           NEW l \in Lanes, l = Head(s.ring), s.score[l] = Now, s.pending[l] # << >>
    PROVE  /\ Pop(s, l).popped # s.popped
           /\ lane[NextJob(s, l)] = l /\ NextJob(s, l) \notin Range(s.popped)
           /\ LoopInv(AfterPop(s, l), batch)
           /\ AfterPop(s, l).ring = NextLane(s.ring)
           /\ AfterPop(s, l).left = s.left - 1
           /\ AfterPop(s, l).popped = Append(s.popped, NextJob(s, l))
<1> DEFINE n == Len(s.pending[l])
           j == s.pending[l][n]
           q == SubSeq(s.pending[l], 1, n - 1)
           p == Pop(s, l)
           t == [p EXCEPT !.ring = NextLane(@), !.left = @ - 1]
<1>1. s \in LoopStates /\ LaneKept(s, l) /\ IsInjective(s.ring) /\ IsInjective(s.popped)
  BY DEF LoopInv
<1>2. s.pending[l] \in Seq(Jobs) /\ s.popped \in Seq(Jobs) /\ s.ring \in Seq(Lanes)
  BY <1>1, LoopFields
<1>3. Tidy(s.pending[l], s.delayed[l], s.active[l])
  BY <1>1 DEF LaneKept
<1>4. /\ j \in Range(s.pending[l]) /\ q \in Seq(Jobs) /\ IsInjective(q)
      /\ Range(q) = Range(s.pending[l]) \ {j}
  BY <1>2, <1>3, PopFacts DEF Tidy
<1>5. j \in Members(l)
  BY <1>1, <1>4, Zenon DEF LaneKept
<1>6. lane[j] = l /\ j \in data /\ j \in Jobs
  BY <1>5, Types DEF Inv, InPlace
<1>7. j \notin s.active[l]
  BY <1>3, <1>4 DEF Tidy
<1>8. j \notin Range(s.popped) /\ \A k \in leases : k[1] # j
  BY <1>1, <1>6, <1>7, Zenon DEF LaneKept
<1>9. /\ Append(s.popped, j) \in Seq(Jobs)
      /\ Range(Append(s.popped, j)) = Range(s.popped) \cup {j}
      /\ IsInjective(Append(s.popped, j))
      /\ Len(Append(s.popped, j)) = Len(s.popped) + 1
  <2> HIDE DEF j
  <2>1. /\ Append(s.popped, j) \in Seq(Jobs)
        /\ Range(Append(s.popped, j)) = Range(s.popped) \cup {j}
        /\ IsInjective(Append(s.popped, j))
    BY <1>1, <1>2, <1>6, <1>8, AppendFacts
  <2>2. Len(Append(s.popped, j)) = Len(s.popped) + 1
    BY <1>2, <1>6, AppendProperties
  <2> QED
    BY <2>1, <2>2
<1>10. Append(s.popped, j) # s.popped
  BY <1>8, <1>9
<1>11. /\ NextLane(s.ring) \in Seq(Lanes) /\ IsInjective(NextLane(s.ring))
       /\ Range(NextLane(s.ring)) = Range(s.ring) /\ l \in Range(s.ring)
  BY <1>1, <1>2, NextLaneFacts, TailFacts
<1>12. p = [s EXCEPT !.pending[l] = q, !.active[l] = @ \cup {j}, !.popped = Append(@, j)]
  BY <1>6 DEF Pop
<1> HIDE DEF n, j, q, p
<1>13. s.left \in Nat /\ s.left - 1 \in Nat
  BY <1>1, LoopFields
<1>14. /\ p \in LoopStates
       /\ p.ring = s.ring /\ p.left = s.left /\ p.delayed = s.delayed /\ p.score = s.score
       /\ p.popped = Append(s.popped, j)
       /\ p.pending = [s.pending EXCEPT ![l] = q]
       /\ p.active = [s.active EXCEPT ![l] = s.active[l] \cup {j}]
  <2>1. s.active[l] \cup {j} \in SUBSET Jobs
    BY <1>1, <1>6, LoopFields
  <2> QED
    BY <1>1, <1>4, <1>6, <1>9, <1>12, <2>1, Zenon DEF LoopStates
<1>15. /\ t \in LoopStates
       /\ t.ring = NextLane(s.ring) /\ t.left = s.left - 1
       /\ t.delayed = p.delayed /\ t.score = p.score /\ t.popped = p.popped
       /\ t.pending = p.pending /\ t.active = p.active
  BY <1>11, <1>13, <1>14, Zenon DEF LoopStates
<1> HIDE DEF t
<1>16. /\ t.pending[l] = q /\ t.active[l] = s.active[l] \cup {j}
       /\ \A m \in Lanes : m # l => t.pending[m] = s.pending[m] /\ t.active[m] = s.active[m]
  BY <1>1, <1>14, <1>15, LoopFields
<1>17. LaneKept(t, l)
  <2>1. Tidy(q, s.delayed[l], s.active[l] \cup {j})
    BY <1>3, <1>4 DEF Tidy
  <2>2. Range(q) \cup s.delayed[l] \cup (s.active[l] \cup {j}) = Members(l)
    BY <1>1, <1>4 DEF LaneKept
  <2>3. s.score[l] # None
    BY Constants
  <2>4. /\ t.score[l] = Now /\ t.score[l] # None /\ t.delayed[l] = s.delayed[l]
        /\ l \in Range(t.ring) /\ Range(t.popped) = Range(s.popped) \cup {j}
    <3>1. t.score = s.score /\ t.delayed = s.delayed /\ t.popped = Append(s.popped, j)
      BY <1>14, <1>15
    <3> QED
      BY <1>9, <1>11, <1>15, <2>3, <3>1, Zenon
  <2>5. /\ \A k \in leases : lane[k[1]] = l => k[1] \in t.active[l]
        /\ \A i \in Range(t.popped) : lane[i] = l => i \in t.active[l]
    <3>1. /\ \A k \in leases : lane[k[1]] = l => k[1] \in s.active[l]
          /\ \A i \in Range(s.popped) : lane[i] = l => i \in s.active[l]
      BY <1>1, Zenon DEF LaneKept
    <3> QED
      BY <1>16, <2>4, <3>1, Zenon
  <2> QED
    BY <1>16, <2>1, <2>2, <2>4, <2>5, Zenon DEF LaneKept
<1>18. ASSUME NEW m \in Lanes, m # l
       PROVE  LaneKept(t, m)
  <2>1. LaneKept(s, m)
    BY DEF LoopInv
  <2>2. /\ t.pending[m] = s.pending[m] /\ t.active[m] = s.active[m]
        /\ t.delayed[m] = s.delayed[m] /\ t.score[m] = s.score[m]
        /\ Range(t.ring) = Range(s.ring)
        /\ \A i \in Range(t.popped) : i \in Range(s.popped) \/ lane[i] = l
        /\ \A i \in Range(s.popped) : i \in Range(t.popped)
    BY <1>6, <1>9, <1>11, <1>14, <1>15, <1>16, <1>18
  <2> QED
    BY <1>18, <2>1, <2>2 DEF LaneKept, Untouched
<1>19. Len(t.popped) + t.left = batch
  <2>1. Len(s.popped) \in Nat /\ Len(s.popped) + s.left = batch
    BY <1>2, ListFacts DEF LoopInv
  <2>2. Len(t.popped) = Len(s.popped) + 1 /\ t.left = s.left - 1
    BY <1>9, <1>14, <1>15
  <2> QED
    BY <1>13, <2>1, <2>2
<1>20. /\ \A i \in Range(t.popped) : lane[i] \in Lanes
       /\ \A k \in leases : k[1] \notin Range(t.popped)
  BY <1>6, <1>8, <1>9, <1>14, <1>15 DEF LoopInv
<1>21. IsInjective(t.ring) /\ IsInjective(t.popped)
  BY <1>9, <1>11, <1>14, <1>15, Zenon
<1>22. LoopInv(t, batch)
  BY <1>15, <1>17, <1>18, <1>19, <1>20, <1>21, Zenon DEF LoopInv
<1> QED
  <2>1. t = AfterPop(s, l) /\ p = Pop(s, l) /\ j = NextJob(s, l)
    BY DEF t, p, j, n, AfterPop, NextJob
  <2> QED
    BY <1>6, <1>8, <1>10, <1>14, <1>15, <1>22, <2>1, Zenon

\* A lane is closed when it has nothing pending, and unlisted when it has
\* nothing at all.
LEMMA CloseKeeps ==
    ASSUME Inv, NEW batch, NEW s, LoopInv(s, batch), s.ring # << >>,
           NEW l \in Lanes, l = Head(s.ring), s.pending[l] = << >>
    PROVE  /\ LoopInv(AfterClose(s, l), batch)
           /\ AfterClose(s, l).ring = Tail(s.ring)
           /\ AfterClose(s, l).left = s.left
           /\ AfterClose(s, l).popped = s.popped
<1> DEFINE c == Close(s, l)
           t == [c EXCEPT !.ring = Tail(@)]
<1>1. s \in LoopStates /\ LaneKept(s, l) /\ IsInjective(s.ring)
  BY DEF LoopInv
<1>2. /\ Tail(s.ring) \in Seq(Lanes) /\ IsInjective(Tail(s.ring))
      /\ Range(Tail(s.ring)) = Range(s.ring) \ {l}
  BY <1>1, LoopFields, TailFacts
<1>3. c = s \/ (LaneIsDone(s, l) /\ c = [s EXCEPT !.score[l] = None])
  BY DEF Close
<1> HIDE DEF c
<1>4. /\ c \in LoopStates
      /\ c.ring = s.ring /\ c.left = s.left /\ c.popped = s.popped
      /\ c.pending = s.pending /\ c.delayed = s.delayed /\ c.active = s.active
      /\ \A m \in Lanes : m # l => c.score[m] = s.score[m]
      /\ c.score[l] = s.score[l] \/ (LaneIsDone(s, l) /\ c.score[l] = None)
  <2>1. CASE c = s
    BY <1>1, <2>1
  <2>2. CASE LaneIsDone(s, l) /\ c = [s EXCEPT !.score[l] = None]
    <3>1. /\ c \in LoopStates
          /\ c.ring = s.ring /\ c.left = s.left /\ c.popped = s.popped
          /\ c.pending = s.pending /\ c.delayed = s.delayed /\ c.active = s.active
          /\ c.score = [s.score EXCEPT ![l] = None]
      BY <1>1, <2>2, Zenon DEF LoopStates
    <3> QED
      BY <1>1, <2>2, <3>1, LoopFields
  <2> QED
    BY <1>3, <2>1, <2>2
<1>5. /\ t \in LoopStates
      /\ t.ring = Tail(s.ring) /\ t.left = s.left /\ t.popped = s.popped
      /\ t.pending = s.pending /\ t.delayed = s.delayed /\ t.active = s.active
      /\ t.score = c.score
  BY <1>2, <1>4, Zenon DEF LoopStates
<1> HIDE DEF t
<1>6. LaneKept(t, l)
  <2>1. LaneIsDone(s, l) => Members(l) = {}
    BY <1>1, EmptyList DEF LaneIsDone, LaneKept
  <2>2. t.score[l] = None => Members(l) = {}
    BY <1>1, <1>4, <1>5, <2>1 DEF LaneKept
  <2>3. l \notin Range(t.ring)
    BY <1>2, <1>5
  <2> QED
    BY <1>1, <1>5, <2>2, <2>3, Zenon DEF LaneKept
<1>7. ASSUME NEW m \in Lanes, m # l
      PROVE  LaneKept(t, m)
  <2>1. LaneKept(s, m)
    BY DEF LoopInv
  <2>2. t.score[m] = s.score[m] /\ (m \in Range(t.ring) <=> m \in Range(s.ring))
    BY <1>2, <1>4, <1>5, <1>7
  <2> QED
    BY <1>5, <2>1, <2>2, Zenon DEF LaneKept, Untouched
<1>8. LoopInv(t, batch)
  BY <1>2, <1>5, <1>6, <1>7, Zenon DEF LoopInv
<1> QED
  <2>1. t = AfterClose(s, l)
    BY DEF t, c, AfterClose
  <2> QED
    BY <1>5, <1>8, <2>1, Zenon

\* A turn stops, pops the next job of the first lane and moves that lane to the
\* end, or closes the lane.
LEMMA VisitKeeps ==
    ASSUME Inv, NEW batch, NEW s, LoopInv(s, batch), NEW t \in Turn(s)
    PROVE  /\ LoopInv(t, batch)
           /\ \/ (s.left = 0 \/ s.ring = << >>) /\ t = s
              \/ /\ s.left # 0 /\ s.ring # << >>
                 /\ t.ring = NextLane(s.ring) /\ t.left = s.left - 1
                 /\ \E j : /\ lane[j] = Head(s.ring) /\ j \notin Range(s.popped)
                           /\ t.popped = Append(s.popped, j)
              \/ /\ s.left # 0 /\ s.ring # << >>
                 /\ t.ring = Tail(s.ring) /\ t.left = s.left /\ t.popped = s.popped
<1>1. CASE s.left = 0 \/ s.ring = << >>
  BY <1>1, Zenon DEF Turn
<1>2. CASE s.left # 0 /\ s.ring # << >>
  <2> DEFINE l == Head(s.ring)
  <2>1. PICK came \in Arrivals(l) : t = Visit(s, came)
    BY <1>2 DEF Turn
  <2> DEFINE h == Housekeep(s, l, came)
             p == IF h.pending[l] = << >> THEN h ELSE Pop(h, l)
  <2>2. l \in Lanes /\ l \in Range(s.ring)
    <3>1. s.ring \in Seq(Lanes) /\ IsInjective(s.ring)
      BY LoopFields DEF LoopInv
    <3> QED
      BY <1>2, <3>1, TailFacts, ListFacts
  <2>3. t = IF p.popped # s.popped
            THEN [p EXCEPT !.ring = NextLane(@), !.left = @ - 1]
            ELSE AfterClose(p, l)
    BY <2>1 DEF Visit, AfterClose
  <2>4. l = Head(s.ring)
    OBVIOUS
  <2> HIDE DEF l
  <2>5. /\ LoopInv(h, batch) /\ h.score[l] = Now
        /\ h.ring = s.ring /\ h.left = s.left /\ h.popped = s.popped
    BY <2>1, <2>2, <2>4, HousekeepKeeps
  <2> HIDE DEF h
  <2>6. CASE h.pending[l] = << >>
    <3>1. t = AfterClose(h, l)
      BY <2>3, <2>5, <2>6
    <3>2. /\ LoopInv(t, batch)
          /\ t.ring = Tail(h.ring) /\ t.left = h.left /\ t.popped = h.popped
      BY <1>2, <2>2, <2>4, <2>5, <2>6, <3>1, CloseKeeps
    <3> QED
      BY <1>2, <2>5, <3>2, Zenon
  <2>7. CASE h.pending[l] # << >>
    <3>1. /\ Pop(h, l).popped # h.popped
          /\ lane[NextJob(h, l)] = l /\ NextJob(h, l) \notin Range(h.popped)
          /\ LoopInv(AfterPop(h, l), batch)
          /\ AfterPop(h, l).ring = NextLane(h.ring)
          /\ AfterPop(h, l).left = h.left - 1
          /\ AfterPop(h, l).popped = Append(h.popped, NextJob(h, l))
      BY <1>2, <2>2, <2>4, <2>5, <2>7, PopKeeps
    <3>2. t = AfterPop(h, l)
      BY <2>3, <2>5, <2>7, <3>1, Zenon DEF AfterPop
    <3> QED
      BY <1>2, <2>4, <2>5, <3>1, <3>2, Zenon
  <2> QED
    BY <2>6, <2>7
<1> QED
  BY <1>1, <1>2

-----------------------------------------------------------------------------
(* Round robin                                                             *)

\* How many of a list of ids are of lane l.
InLane(ids, l) == Cardinality({j \in Range(ids) : lane[j] = l})

PoppedFrom(s, l) == InLane(s.popped, l)

\* Along the ring, from the lane visited longest ago, the number of jobs popped
\* does not fall, and from the first to the last it rises by at most one.  A
\* closed lane had no more than any lane of the ring.
FairLoop(s) ==
    /\ \A a, b \in 1..Len(s.ring) : a < b =>
         /\ PoppedFrom(s, s.ring[a]) <= PoppedFrom(s, s.ring[b])
         /\ PoppedFrom(s, s.ring[b]) <= PoppedFrom(s, s.ring[a]) + 1
    /\ \A l \in Lanes \ Range(s.ring), a \in 1..Len(s.ring) :
         PoppedFrom(s, l) <= PoppedFrom(s, s.ring[a])

LEMMA InLaneNat ==
    ASSUME NEW ids \in Seq(Jobs), NEW l
    PROVE  /\ IsFiniteSet({j \in Range(ids) : lane[j] = l})
           /\ InLane(ids, l) \in Nat
<1>1. IsFiniteSet(Range(ids))
  BY RangeCardinality
<1>2. IsFiniteSet({j \in Range(ids) : lane[j] = l})
  BY <1>1, FS_Subset
<1> QED
  BY <1>2, FS_CardinalityType DEF InLane

\* A job that is popped counts for its lane only.
LEMMA InLaneAppend ==
    ASSUME NEW ids \in Seq(Jobs), NEW j \in Jobs, j \notin Range(ids), NEW l
    PROVE  InLane(Append(ids, j), l) = InLane(ids, l) + (IF lane[j] = l THEN 1 ELSE 0)
<1> DEFINE S == {i \in Range(ids) : lane[i] = l}
           T == {i \in Range(Append(ids, j)) : lane[i] = l}
<1>1. Range(Append(ids, j)) = Range(ids) \cup {j}
  BY AppendFacts
<1>2. IsFiniteSet(S) /\ Cardinality(S) \in Nat
  BY InLaneNat, FS_CardinalityType, ZenonT(30)
<1>3. CASE lane[j] = l
  <2>1. T = S \cup {j} /\ j \notin S
    BY <1>1, <1>3
  <2> HIDE DEF S, T
  <2>2. Cardinality(T) = Cardinality(S) + 1
    BY <1>2, <2>1, FS_AddElement, ZenonT(30)
  <2> QED
    BY <1>3, <2>2 DEF InLane, S, T
<1>4. CASE lane[j] # l
  <2>1. T = S
    BY <1>1, <1>4
  <2> HIDE DEF S, T
  <2>2. Cardinality(T) = Cardinality(S) + 0
    BY <1>2, <2>1
  <2> QED
    BY <1>4, <2>2, Zenon DEF InLane, S, T
<1> QED
  BY <1>3, <1>4

LEMMA FairNextLane ==
    ASSUME NEW s, s.ring \in Seq(Lanes), IsInjective(s.ring), s.ring # << >>,
           NEW t, t.ring = NextLane(s.ring), FairLoop(s),
           \A l \in Lanes : PoppedFrom(s, l) \in Nat,
           \A l \in Lanes :
             PoppedFrom(t, l) = PoppedFrom(s, l) + (IF l = s.ring[1] THEN 1 ELSE 0)
    PROVE  FairLoop(t)
<1> DEFINE r == s.ring
           n == Len(r)
<1>1. n \in Nat /\ r \in [1..n -> Lanes] /\ 1 \in 1..n /\ \A i, k \in 1..n : r[i] = r[k] => i = k
  BY ListFacts DEF IsInjective
<1>2. /\ Len(t.ring) = n /\ Range(t.ring) = Range(r)
      /\ t.ring[n] = r[1]
      /\ \A i \in 1..(n - 1) : t.ring[i] = r[i + 1]
  BY NextLaneFacts, ZenonT(30)
<1>3. \A m \in Lanes \ Range(r) : m # r[1]
  BY <1>1, ListFacts DEF Range
<1> HIDE DEF r, n
<1>4. \A i \in 1..n : i = n \/ (i \in 1..(n - 1) /\ i + 1 \in 1..n /\ i + 1 # 1 /\ 1 < i + 1)
  BY <1>1
<1>5. /\ \A a, b \in 1..n : a < b =>
           /\ PoppedFrom(s, r[a]) <= PoppedFrom(s, r[b])
           /\ PoppedFrom(s, r[b]) <= PoppedFrom(s, r[a]) + 1
      /\ \A l \in Lanes \ Range(r), a \in 1..n : PoppedFrom(s, l) <= PoppedFrom(s, r[a])
  BY DEF FairLoop, r, n
<1>6. \A i \in 1..n : r[i] \in Lanes /\ PoppedFrom(s, r[i]) \in Nat
  BY <1>1
<1>7. PoppedFrom(t, t.ring[n]) = PoppedFrom(s, r[1]) + 1
  BY <1>1, <1>2 DEF r
<1>8. ASSUME NEW i \in 1..(n - 1)
      PROVE  PoppedFrom(t, t.ring[i]) = PoppedFrom(s, r[i + 1])
  <2>1. i + 1 \in 1..n /\ r[i + 1] # r[1]
    BY <1>1
  <2>2. PoppedFrom(t, r[i + 1]) = PoppedFrom(s, r[i + 1]) + 0
    BY <1>6, <2>1 DEF r
  <2>3. PoppedFrom(t, r[i + 1]) = PoppedFrom(s, r[i + 1])
    BY <1>6, <2>1, <2>2
  <2> QED
    BY <1>2, <2>3
<1>9. ASSUME NEW a \in 1..n, NEW b \in 1..n, a < b
      PROVE  /\ PoppedFrom(t, t.ring[a]) <= PoppedFrom(t, t.ring[b])
             /\ PoppedFrom(t, t.ring[b]) <= PoppedFrom(t, t.ring[a]) + 1
  <2>1. a \in 1..(n - 1) /\ a + 1 \in 1..n /\ 1 < a + 1
    BY <1>1, <1>9
  <2>2. CASE b = n
    BY <1>1, <1>5, <1>6, <1>7, <1>8, <2>1, <2>2
  <2>3. CASE b # n
    <3>1. b \in 1..(n - 1) /\ b + 1 \in 1..n /\ a + 1 < b + 1
      BY <1>1, <1>9, <2>3
    <3> QED
      BY <1>5, <1>8, <2>1, <3>1
  <2> QED
    BY <2>2, <2>3
<1>10. ASSUME NEW l \in Lanes \ Range(r), NEW a \in 1..n
       PROVE  PoppedFrom(t, l) <= PoppedFrom(t, t.ring[a])
  <2>1. PoppedFrom(t, l) = PoppedFrom(s, l) /\ PoppedFrom(s, l) \in Nat
    <3>1. l # s.ring[1]
      BY <1>3 DEF r
    <3>2. PoppedFrom(t, l) = PoppedFrom(s, l) + 0 /\ PoppedFrom(s, l) \in Nat
      BY <3>1
    <3> QED
      BY <3>2
  <2>2. CASE a = n
    BY <1>1, <1>5, <1>6, <1>7, <2>1, <2>2
  <2>3. CASE a # n
    BY <1>4, <1>5, <1>8, <2>1, <2>3
  <2> QED
    BY <2>2, <2>3
<1> QED
  BY <1>2, <1>9, <1>10 DEF FairLoop

LEMMA FairTail ==
    ASSUME NEW s, s.ring \in Seq(Lanes), IsInjective(s.ring), s.ring # << >>,
           NEW t, t.ring = Tail(s.ring), FairLoop(s), t.popped = s.popped
    PROVE  FairLoop(t)
<1> DEFINE r == s.ring
           n == Len(r)
<1>1. n \in Nat /\ r \in [1..n -> Lanes] /\ 1 \in 1..n
  BY ListFacts
<1>2. /\ Len(t.ring) = n - 1 /\ Range(t.ring) = Range(r) \ {r[1]}
      /\ \A i \in 1..(n - 1) : t.ring[i] = r[i + 1]
  BY TailFacts
<1>3. \A l : PoppedFrom(t, l) = PoppedFrom(s, l)
  BY DEF PoppedFrom
<1> HIDE DEF r, n
<1>4. /\ \A a, b \in 1..n : a < b =>
           /\ PoppedFrom(s, r[a]) <= PoppedFrom(s, r[b])
           /\ PoppedFrom(s, r[b]) <= PoppedFrom(s, r[a]) + 1
      /\ \A l \in Lanes \ Range(r), a \in 1..n : PoppedFrom(s, l) <= PoppedFrom(s, r[a])
  BY DEF FairLoop, r, n
<1>5. \A i \in 1..(n - 1) : i + 1 \in 1..n /\ 1 < i + 1
  BY <1>1
<1>6. \A a, b \in 1..(n - 1) : a < b => a + 1 < b + 1
  BY <1>1
<1>7. \A a, b \in 1..(n - 1) : a < b =>
        /\ PoppedFrom(t, t.ring[a]) <= PoppedFrom(t, t.ring[b])
        /\ PoppedFrom(t, t.ring[b]) <= PoppedFrom(t, t.ring[a]) + 1
  BY <1>2, <1>3, <1>4, <1>5, <1>6
<1>8. ASSUME NEW l \in Lanes \ Range(t.ring), NEW a \in 1..(n - 1)
      PROVE  PoppedFrom(t, l) <= PoppedFrom(t, t.ring[a])
  <2>1. l = r[1] \/ l \in Lanes \ Range(r)
    BY <1>2
  <2> QED
    BY <1>1, <1>2, <1>3, <1>4, <1>5, <2>1
<1> QED
  BY <1>2, <1>7, <1>8, ZenonT(30) DEF FairLoop

LEMMA StartKeeps ==
    ASSUME Inv, NEW batch \in Nat, NEW ring \in Rings
    PROVE  /\ ring \in Seq(Lanes)
           /\ LoopInv(LoopStart(ring, batch), batch)
           /\ FairLoop(LoopStart(ring, batch))
<1> DEFINE s == LoopStart(ring, batch)
           listed == {l \in Lanes : score[l] # None}
<1>1. ring \in Seq(Lanes) /\ Range(ring) = listed /\ IsInjective(ring)
  <2>1. listed \in SUBSET Lanes /\ IsFiniteSet(listed)
    BY Constants, FS_Subset
  <2>2. ring \in Orders(listed)
    BY DEF Rings
  <2> HIDE DEF listed
  <2> QED
    BY <2>1, <2>2, OrdersFacts, Zenon
<1>2. << >> \in Seq(Jobs) /\ Len(<< >>) = 0
  OBVIOUS
<1>3. /\ s \in LoopStates
      /\ s.ring = ring /\ s.left = batch /\ s.pending = pending /\ s.delayed = delayed
      /\ s.active = active /\ s.score = score /\ s.popped = << >>
  BY <1>1, <1>2, Types DEF LoopStart, LoopStates, Inv
<1> HIDE DEF s
<1>4. ASSUME NEW l \in Lanes
      PROVE  LaneKept(s, l)
  <2>1. Tidy(pending[l], delayed[l], active[l])
    BY DEF Inv, InPlace
  <2>2. score[l] = None => pending[l] = << >> /\ Members(l) = {}
    BY EmptyList DEF Inv, LanesWithJobsAreListed, Members
  <2>3. \A k \in leases : lane[k[1]] = l => k[1] \in active[l]
    BY DEF Inv, LeaseIsOfActive
  <2>4. Range(s.popped) = {}
    BY <1>3, EmptyList
  <2>5. l \in Range(s.ring) <=> score[l] # None
    BY <1>1, <1>3
  <2> QED
    BY <1>3, <2>1, <2>2, <2>3, <2>4, <2>5, Zenon DEF LaneKept, Untouched, Members
<1>5. Range(s.popped) = {} /\ IsInjective(s.popped) /\ Len(s.popped) + s.left = batch
  BY <1>2, <1>3, EmptyList
<1>6. LoopInv(s, batch)
  BY <1>1, <1>3, <1>4, <1>5, Zenon DEF LoopInv
<1>7. \A l : PoppedFrom(s, l) = 0
  <2>1. \A l : {j \in Range(s.popped) : lane[j] = l} = {}
    BY <1>5
  <2> QED
    BY <2>1, FS_EmptySet DEF PoppedFrom, InLane
<1>8. FairLoop(s)
  BY <1>7 DEF FairLoop
<1> QED
  BY <1>1, <1>6, <1>8 DEF s

\* A turn keeps both, and brings the end of the loop nearer.
LEMMA TurnKeeps ==
    ASSUME Inv, NEW batch, NEW s, LoopInv(s, batch), FairLoop(s), NEW t \in Turn(s)
    PROVE  /\ LoopInv(t, batch)
           /\ FairLoop(t)
           /\ \/ (s.left = 0 \/ s.ring = << >>) /\ t = s
              \/ /\ s.left # 0 /\ s.ring # << >>
                 /\ t.left + Len(t.ring) = s.left + Len(s.ring) - 1
<1>1. /\ LoopInv(t, batch)
      /\ \/ (s.left = 0 \/ s.ring = << >>) /\ t = s
         \/ /\ s.left # 0 /\ s.ring # << >>
            /\ t.ring = NextLane(s.ring) /\ t.left = s.left - 1
            /\ \E j : /\ lane[j] = Head(s.ring) /\ j \notin Range(s.popped)
                      /\ t.popped = Append(s.popped, j)
         \/ /\ s.left # 0 /\ s.ring # << >>
            /\ t.ring = Tail(s.ring) /\ t.left = s.left /\ t.popped = s.popped
  BY VisitKeeps
<1>2. /\ s.ring \in Seq(Lanes) /\ s.popped \in Seq(Jobs) /\ s.left \in Nat
      /\ IsInjective(s.ring) /\ Len(s.ring) \in Nat
  BY LoopFields, ListFacts DEF LoopInv
<1>3. CASE (s.left = 0 \/ s.ring = << >>) /\ t = s
  BY <1>3
<1>4. ASSUME s.left # 0, s.ring # << >>, t.ring = NextLane(s.ring), t.left = s.left - 1,
             NEW j, lane[j] = Head(s.ring), j \notin Range(s.popped),
             t.popped = Append(s.popped, j)
      PROVE  FairLoop(t) /\ t.left + Len(t.ring) = s.left + Len(s.ring) - 1
  <2>1. j \in Jobs
    <3>1. t.popped \in Seq(Jobs)
      BY <1>1, LoopFields DEF LoopInv
    <3>2. Len(t.popped) = Len(s.popped) + 1 /\ t.popped[Len(s.popped) + 1] = j
      BY <1>2, <1>4
    <3>3. Len(s.popped) \in Nat /\ t.popped \in [1..Len(t.popped) -> Jobs]
      BY <1>2, <3>1, ListFacts
    <3>4. Len(s.popped) + 1 \in 1..Len(t.popped)
      BY <3>2, <3>3
    <3> QED
      BY <3>2, <3>3, <3>4
  <2>2. \A l : PoppedFrom(t, l) = PoppedFrom(s, l) + (IF lane[j] = l THEN 1 ELSE 0)
    <3> DEFINE ids == s.popped
    <3>1. ids \in Seq(Jobs) /\ j \notin Range(ids) /\ t.popped = Append(ids, j)
      BY <1>2, <1>4
    <3> HIDE DEF ids
    <3>2. \A l : InLane(Append(ids, j), l) = InLane(ids, l) + (IF lane[j] = l THEN 1 ELSE 0)
      BY <2>1, <3>1, InLaneAppend
    <3> QED
      BY <3>1, <3>2, Zenon DEF PoppedFrom, ids
  <2>3. Head(s.ring) = s.ring[1]
    BY <1>2, <1>4, TailFacts
  <2>4. \A l \in Lanes :
          PoppedFrom(t, l) = PoppedFrom(s, l) + (IF l = s.ring[1] THEN 1 ELSE 0)
    BY <1>4, <2>2, <2>3, Zenon
  <2>5. \A l \in Lanes : PoppedFrom(s, l) \in Nat
    BY <1>2, InLaneNat, Zenon DEF PoppedFrom
  <2>6. FairLoop(t)
    BY <1>2, <1>4, <2>4, <2>5, FairNextLane, Zenon
  <2>7. Len(t.ring) = Len(s.ring)
    BY <1>2, <1>4, NextLaneFacts, Zenon
  <2>8. ASSUME NEW m \in Nat, NEW n \in Nat PROVE (m - 1) + n = m + n - 1
    OBVIOUS
  <2> QED
    BY <1>2, <1>4, <2>6, <2>7, <2>8, Zenon
<1>5. CASE /\ s.left # 0 /\ s.ring # << >>
           /\ t.ring = Tail(s.ring) /\ t.left = s.left /\ t.popped = s.popped
  <2>1. FairLoop(t)
    BY <1>2, <1>5, FairTail, Zenon
  <2>2. Len(t.ring) = Len(s.ring) - 1
    BY <1>2, <1>5, TailFacts
  <2>3. ASSUME NEW m \in Nat, NEW n \in Nat PROVE m + (n - 1) = m + n - 1
    OBVIOUS
  <2> QED
    BY <1>1, <1>2, <1>5, <2>1, <2>2, <2>3, Zenon
<1> QED
  BY <1>1, <1>3, <1>4, <1>5, Zenon

\* The loop keeps every lane's ids in place, is fair, and ends within the turns
\* that Round counts: the batch is full or every lane is closed.
LEMMA RoundKeeps ==
    ASSUME Inv, NEW batch \in Nat, NEW ring \in Rings, NEW s \in Round(ring, batch)
    PROVE  /\ LoopInv(s, batch)
           /\ FairLoop(s)
           /\ s.left = 0 \/ s.ring = << >>
<1> DEFINE N == batch + Len(ring)
           Ends(u, i) == (u.left = 0 \/ u.ring = << >>) \/ u.left + Len(u.ring) + i <= N
<1>1. /\ ring \in Seq(Lanes) /\ LoopInv(LoopStart(ring, batch), batch)
      /\ FairLoop(LoopStart(ring, batch))
  BY StartKeeps
<1>2. Len(ring) \in Nat /\ N \in Nat
  BY <1>1, ListFacts
<1>3. PICK after :
        /\ after[0] = {LoopStart(ring, batch)}
        /\ \A i \in 1..N : after[i] = Turned(after[i - 1])
        /\ Round(ring, batch) = after[N]
  BY <1>2, RoundUnfolds, Zenon
<1> DEFINE good == {i \in 0..N : \A u \in after[i] :
                      LoopInv(u, batch) /\ FairLoop(u) /\ Ends(u, i)}
<1> HIDE DEF N
<1>4. 0 \in good
  <2>1. LoopStart(ring, batch).left = batch /\ LoopStart(ring, batch).ring = ring
    BY DEF LoopStart
  <2>2. Ends(LoopStart(ring, batch), 0)
    BY <1>2, <1>3, <2>1 DEF N
  <2> HIDE DEF Ends
  <2> QED
    BY <1>1, <1>2, <1>3, <2>2
<1>5. ASSUME NEW i \in 1..N, i - 1 \in good
      PROVE  i \in good
  <2>1. i \in 0..N
    BY <1>2
  <2> HIDE DEF Ends
  <2> SUFFICES ASSUME NEW v \in after[i]
               PROVE  LoopInv(v, batch) /\ FairLoop(v) /\ Ends(v, i)
    BY <2>1, Zenon
  <2>2. v \in Turned(after[i - 1])
    BY <1>3, Zenon
  <2>3. PICK u \in after[i - 1] : v \in Turn(u)
    BY <2>2 DEF Turned
  <2>4. LoopInv(u, batch) /\ FairLoop(u) /\ Ends(u, i - 1)
    BY <1>5, Zenon
  <2> USE DEF Ends
  <2>5. /\ LoopInv(v, batch) /\ FairLoop(v)
        /\ \/ (u.left = 0 \/ u.ring = << >>) /\ v = u
           \/ /\ u.left # 0 /\ u.ring # << >>
              /\ v.left + Len(v.ring) = u.left + Len(u.ring) - 1
    BY <2>4, <2>3, TurnKeeps, Zenon
  <2>6. Ends(v, i)
    <3>1. u.left \in Nat /\ Len(u.ring) \in Nat
      BY <2>4, LoopFields, ListFacts DEF LoopInv
    <3>2. CASE u.left = 0 \/ u.ring = << >>
      BY <2>5, <3>2
    <3>3. CASE ~(u.left = 0 \/ u.ring = << >>)
      BY <1>2, <2>4, <2>5, <3>1, <3>3
    <3> QED
      BY <3>2, <3>3
  <2> HIDE DEF Ends
  <2> QED
    BY <2>5, <2>6
<1>6. N \in good
  <2> HIDE DEF good
  <2> QED
    <3>1. \A i \in 1..N : i - 1 \in good => i \in good
      BY <1>5, Zenon
    <3>2. \A i \in 0..N : i \in good
      BY <1>2, <1>4, <3>1, Counting, Zenon
    <3> QED
      BY <1>2, <3>2
<1>7. LoopInv(s, batch) /\ FairLoop(s) /\ Ends(s, N)
  <2> HIDE DEF Ends
  <2> QED
    BY <1>3, <1>6
<1>8. s.left = 0 \/ s.ring = << >>
  <2>1. s.left \in Nat /\ Len(s.ring) \in Nat /\ s.ring \in Seq(Lanes)
    BY <1>7, LoopFields, ListFacts DEF LoopInv
  <2>2. s.left + Len(s.ring) + N <= N => Len(s.ring) = 0
    BY <1>2, <2>1
  <2>3. Len(s.ring) = 0 => s.ring = << >>
    BY <2>1, EmptySeq
  <2> QED
    BY <1>7, <2>2, <2>3
<1> QED
  BY <1>7, <1>8

-----------------------------------------------------------------------------
(* Permits                                                                 *)

\* The leases whose task holds a permit of w.
Busy(w) == {k \in LeaseKeys : task[k].worker = w /\ k[1] \notin Unreadable}

LEMMA BusyFinite ==
    ASSUME NEW w
    PROVE  /\ IsFiniteSet(LeaseKeys)
           /\ IsFiniteSet(Busy(w)) /\ Cardinality(Busy(w)) \in Nat
           /\ Permits(w) = LocalConcurrency - Cardinality(Busy(w))
<1>1. IsFiniteSet(LeaseKeys)
  BY Constants, FS_Product DEF LeaseKeys
<1>2. IsFiniteSet(Busy(w))
  BY <1>1, FS_Subset DEF Busy
<1> QED
  BY <1>1, <1>2, FS_CardinalityType DEF Permits, Busy

\* A step after which no more tasks are busy leaves as many permits.
LEMMA PermitsKept ==
    ASSUME TypeOK, NEW w \in Workers, Busy(w)' \subseteq Busy(w)
    PROVE  Permits(w)' \in 0..LocalConcurrency
<1>1. IsFiniteSet(Busy(w)) /\ Cardinality(Busy(w)) \in Nat /\ LocalConcurrency \in Nat
  BY BusyFinite, ConstantsAssumption
<1>2. Permits(w) \in 0..LocalConcurrency /\ Permits(w) = LocalConcurrency - Cardinality(Busy(w))
  BY BusyFinite DEF TypeOK
<1>3. IsFiniteSet(Busy(w)') /\ Cardinality(Busy(w)') <= Cardinality(Busy(w))
  BY <1>1, FS_Subset
<1>4. Cardinality(Busy(w)') \in Nat
  BY <1>3, FS_CardinalityType
<1>5. Permits(w)' = LocalConcurrency - Cardinality(Busy(w)')
  BY DEF Permits, Busy
<1> QED
  BY <1>1, <1>2, <1>3, <1>4, <1>5

-----------------------------------------------------------------------------
(* Tasks and connections                                                   *)

LEMMA IdleFields == Idle.phase = "idle" /\ Idle.worker = None
  BY DEF Idle

LEMMA PhaseNames ==
    /\ {"running", "watching", "ok", "fail", "idle"} \subseteq Phases
    /\ "watching" \notin {"idle", "running", "ok", "fail"}
    /\ "idle" \notin {"running", "watching", "ok", "fail"}
    /\ \A o : AfterCommit(o) \in {"idle", "ok", "fail"}
  BY DEF Phases, AfterCommit

\* A task that moves to another phase stays with its worker, and the others do
\* not notice.
LEMMA GotoFacts ==
    ASSUME TypeOK, NEW k \in LeaseKeys, NEW phase, Goto(k, phase)
    PROVE  /\ \A l \in LeaseKeys : l # k => task'[l] = task[l]
           /\ phase = "idle" => task'[k] = Idle
           /\ phase # "idle" => task'[k].worker = task[k].worker
           /\ task'[k].phase = phase
           /\ phase \in Phases =>
                task' \in [LeaseKeys -> [phase : Phases, worker : Workers \cup {None}]]
<1>1. task' = [task EXCEPT ![k] = IF phase = "idle" THEN Idle
                                  ELSE [phase |-> phase, worker |-> task[k].worker]]
  BY DEF Goto
<1>2. /\ \A l \in LeaseKeys : l # k => task'[l] = task[l]
      /\ task'[k] = IF phase = "idle" THEN Idle
                    ELSE [phase |-> phase, worker |-> task[k].worker]
  BY <1>1 DEF TypeOK
<1>3. ASSUME phase \in Phases
      PROVE  task' \in [LeaseKeys -> [phase : Phases, worker : Workers \cup {None}]]
  <2>1. /\ task \in [LeaseKeys -> [phase : Phases, worker : Workers \cup {None}]]
        /\ task[k].worker \in Workers \cup {None}
    BY DEF TypeOK
  <2>2. /\ Idle \in [phase : Phases, worker : Workers \cup {None}]
        /\ [phase |-> phase, worker |-> task[k].worker]
             \in [phase : Phases, worker : Workers \cup {None}]
    BY <1>3, <2>1, PhaseNames DEF Idle
  <2> QED
    BY <1>1, <2>1, <2>2
<1> QED
  BY <1>2, <1>3, IdleFields

\* What one step may do to a task, its lease and its connection, if it is not a
\* poll.
TaskEffect(l) ==
    /\ \/ task'[l] = task[l]
       \/ task'[l] = Idle
       \/ /\ task[l].phase # "idle" /\ task'[l].phase \in Phases \ {"idle"}
          /\ task'[l].worker = task[l].worker
    /\ task[l].phase = "watching" /\ task'[l].phase = "watching" =>
          /\ \A w \in Workers : w \in dirty \ dirty' => watched'[w] = {}
          /\ l \in leases => l \in leases' \/ \A w \in Workers : l \in watched[w] => w \in dirty'
    /\ task[l].phase # "watching" /\ task'[l].phase = "watching" =>
          /\ task[l].worker \in Workers => l \in watched'[task[l].worker]
          /\ l \in leases'

LEMMA UnwatchFacts ==
    ASSUME TypeOK, NEW w, Unwatch(w)
    PROVE  /\ \A v \in Workers : v \in dirty \ dirty' => watched'[v] = {}
           /\ \A v \in Workers : v # w => watched'[v] = watched[v]
           /\ watched' \in [Workers -> SUBSET LeaseKeys]
           /\ dirty' \subseteq Workers
<1>1. watched \in [Workers -> SUBSET LeaseKeys] /\ dirty \subseteq Workers
  BY DEF TypeOK
<1> QED
  BY <1>1 DEF Unwatch

\* The steps that are not polls.
Quiet ==
    \/ UNCHANGED <<leases, task, watch>>
    \/ \E w \in Workers : Crash(w)
    \/ \E k \in LeaseKeys : TaskStep(k) \/ Expire(k) \/ TaskDies(k) \/ ExecLost(k)

LEMMA QuietTasks ==
    ASSUME TypeOK, TaskShape, Quiet, NEW l \in LeaseKeys
    PROVE  TaskEffect(l) /\ TaskTypes'
<1>1. /\ task[l] = Idle \/ (task[l].worker \in Workers /\ task[l].phase # "idle")
      /\ TaskTypes
  BY DEF TaskShape, TypeOK, TaskTypes
<1>2. CASE UNCHANGED <<leases, task, watch>>
  BY <1>1, <1>2 DEF TaskEffect, TaskTypes, watch
<1>3. ASSUME NEW w \in Workers, Crash(w)
      PROVE  TaskEffect(l) /\ TaskTypes'
  <2>1. /\ task' = [k \in LeaseKeys |-> IF task[k].worker = w THEN Idle ELSE task[k]]
        /\ Unwatch(w) /\ UNCHANGED leases
    BY <1>3 DEF Crash
  <2>2. Idle \in [phase : Phases, worker : Workers \cup {None}]
    BY PhaseNames DEF Idle
  <2>3. TaskTypes'
    BY <1>1, <2>1, <2>2, UnwatchFacts DEF TaskTypes
  <2>4. task'[l] = Idle \/ task'[l] = task[l]
    BY <2>1
  <2>5. TaskEffect(l)
    BY <2>1, <2>4, UnwatchFacts, IdleFields DEF TaskEffect
  <2> QED
    BY <2>3, <2>5
<1>4. ASSUME NEW m \in LeaseKeys, TaskStep(m) \/ Expire(m) \/ TaskDies(m) \/ ExecLost(m)
      PROVE  TaskEffect(l) /\ TaskTypes'
  <2>1. ASSUME NEW phase \in {"idle", "running", "ok", "fail"}, task[m].phase # "idle",
               Goto(m, phase), Unwatch(task[m].worker) \/ UNCHANGED <<watched, dirty>>,
               leases' = leases \/ leases' = leases \ {m}
        PROVE  TaskEffect(l) /\ TaskTypes'
    <3>1. /\ l # m => task'[l] = task[l]
          /\ task'[m].phase = phase
          /\ phase = "idle" => task'[m] = Idle
          /\ phase # "idle" => task'[m].worker = task[m].worker
          /\ task' \in [LeaseKeys -> [phase : Phases, worker : Workers \cup {None}]]
          /\ phase \in Phases /\ phase # "watching"
      BY <2>1, GotoFacts, PhaseNames
    <3>2. /\ \A v \in Workers : v \in dirty \ dirty' => watched'[v] = {}
          /\ watched' \in [Workers -> SUBSET LeaseKeys]
          /\ dirty' \subseteq Workers
      BY <1>1, <2>1, UnwatchFacts DEF TaskTypes
    <3>3. ASSUME l # m PROVE TaskEffect(l)
      <4>1. task'[l] = task[l] /\ (l \in leases => l \in leases')
        BY <2>1, <3>1, <3>3
      <4> QED
        BY <3>2, <4>1 DEF TaskEffect
    <3>4. ASSUME l = m PROVE TaskEffect(l)
      <4>1. /\ task'[l] = Idle \/ (task'[l].phase \in Phases \ {"idle"} /\ task'[l].worker = task[l].worker)
            /\ task'[l].phase # "watching" /\ task[l].phase # "idle"
        BY <2>1, <3>1, <3>4
      <4> QED
        BY <4>1 DEF TaskEffect
    <3>5. TaskTypes'
      BY <3>1, <3>2 DEF TaskTypes
    <3> QED
      BY <3>3, <3>4, <3>5
  <2>2. CASE WatchLease(m)
    <3>1. /\ l # m => task'[l] = task[l]
          /\ task'[m].phase = "watching"
          /\ task'[m].worker = task[m].worker
          /\ task' \in [LeaseKeys -> [phase : Phases, worker : Workers \cup {None}]]
      BY <2>2, GotoFacts, PhaseNames DEF WatchLease
    <3>2. /\ task[m].phase = "running" /\ m \in leases
          /\ watched' = [watched EXCEPT ![task[m].worker] = @ \cup {m}]
          /\ UNCHANGED <<leases, dirty>>
      BY <2>2 DEF WatchLease
    <3>3. TaskTypes'
      BY <1>1, <3>1, <3>2 DEF TaskTypes
    <3>4. ASSUME l # m PROVE TaskEffect(l)
      <4>1. task'[l] = task[l] /\ leases' = leases /\ dirty' = dirty
        BY <3>1, <3>2, <3>4
      <4> QED
        BY <4>1 DEF TaskEffect
    <3>5. ASSUME l = m PROVE TaskEffect(l)
      <4>1. task[l].worker \in Workers => l \in watched'[task[l].worker]
        BY <1>1, <3>2, <3>5 DEF TaskTypes
      <4>2. /\ task'[l].phase \in Phases \ {"idle"} /\ task'[l].worker = task[l].worker
            /\ task[l].phase # "idle" /\ task[l].phase # "watching" /\ l \in leases'
        BY <3>1, <3>2, <3>5, PhaseNames
      <4> QED
        BY <4>1, <4>2 DEF TaskEffect
    <3> QED
      BY <3>3, <3>4, <3>5
  <2>3. CASE Committed(m)
    <3>1. PICK o : Exec(m, o)
      BY <2>3, Zenon DEF Committed, Settle, GiveBack
    <3>2. /\ Goto(m, AfterCommit(o)) /\ Unwatch(task[m].worker)
          /\ task[m].phase # "idle" /\ leases' = leases \ {m}
      BY <3>1 DEF Exec
    <3>3. AfterCommit(o) \in {"idle", "running", "ok", "fail"}
      BY PhaseNames
    <3> QED
      BY <2>1, <3>2, <3>3
  <2>4. CASE LeaseGone(m) \/ ExecLost(m) \/ ExecAborted(m)
    <3>1. /\ Goto(m, "idle") \/ Goto(m, "running") \/ \E o : Goto(m, AfterCommit(o))
          /\ Unwatch(task[m].worker)
          /\ task[m].phase # "idle" /\ leases' = leases
      BY <2>4, Zenon DEF LeaseGone, ExecLost, ExecAborted
    <3>2. PICK phase \in {"idle", "running", "ok", "fail"} : Goto(m, phase)
      BY <3>1, PhaseNames
    <3> QED
      BY <2>1, <3>1, <3>2
  <2>5. CASE TaskDies(m) \/ PostSuccessCompletion(m) \/ PostFailCompletion(m)
    <3>1. Goto(m, "idle") /\ UNCHANGED <<leases, watched, dirty>> /\ task[m].phase # "idle"
      BY <2>5 DEF TaskDies, PostSuccessCompletion, PostFailCompletion, Forget, watch
    <3> QED
      BY <2>1, <3>1
  <2>6. CASE Expire(m)
    <3>1. /\ leases' = leases \ {m}
          /\ dirty' = dirty \cup {w \in Workers : m \in watched[w]}
          /\ UNCHANGED <<task, watched>>
      BY <2>6 DEF Expire
    <3> QED
      BY <1>1, <3>1 DEF TaskEffect, TaskTypes
  <2> QED
    BY <1>4, <2>2, <2>3, <2>4, <2>5, <2>6 DEF TaskStep
<1> QED
  BY <1>2, <1>3, <1>4 DEF Quiet

\* If no watch is dropped, a task that waits for EXEC stays guarded.
LEMMA GuardedStep ==
    ASSUME TypeOK, TaskShape, Guarded, Quiet, [KeepsWatches]_vars
    PROVE  TaskShape' /\ Guarded'
<1>1. ASSUME NEW l \in LeaseKeys
      PROVE  /\ \/ task'[l] = Idle
                \/ task'[l].worker \in Workers /\ task'[l].phase # "idle"
             /\ task'[l].phase = "watching" =>
                   /\ l \in watched'[task'[l].worker]
                   /\ l \in leases' \/ task'[l].worker \in dirty'
  <2>1. TaskEffect(l)
    BY QuietTasks
  <2>2. /\ task[l] = Idle \/ (task[l].worker \in Workers /\ task[l].phase # "idle")
        /\ task[l].phase # "idle" => task[l].worker \in Workers
    BY IdleFields DEF TaskShape
  <2>3. \/ task'[l] = Idle
        \/ task'[l].worker \in Workers /\ task'[l].phase # "idle"
    BY <2>1, <2>2 DEF TaskEffect
  <2>4. CASE task[l].phase = "watching" /\ task'[l].phase = "watching"
    <3> DEFINE w == task[l].worker
    <3>1. w \in Workers /\ task'[l].worker = w
      BY <2>1, <2>2, <2>4, IdleFields DEF TaskEffect
    <3>2. l \in watched[w] /\ (l \in leases \/ w \in dirty)
      BY <2>4 DEF Guarded
    <3>3. watched[w] \subseteq watched'[w]
      BY <2>4 DEF KeepsWatches, vars, watch
    <3>4. /\ w \in dirty \ dirty' => watched'[w] = {}
          /\ l \in leases => l \in leases' \/ (l \in watched[w] => w \in dirty')
      BY <2>1, <2>4, <3>1 DEF TaskEffect
    <3> HIDE DEF w
    <3> QED
      BY <2>3, <3>1, <3>2, <3>3, <3>4
  <2>5. CASE task[l].phase # "watching" /\ task'[l].phase = "watching"
    <3>1. task'[l].worker = task[l].worker /\ task[l].worker \in Workers
      BY <2>1, <2>2, <2>5, IdleFields DEF TaskEffect
    <3> QED
      BY <2>1, <2>3, <2>5, <3>1 DEF TaskEffect
  <2> QED
    BY <2>3, <2>4, <2>5
<1> QED
  BY <1>1 DEF TaskShape, Guarded, LeaseKeys, Idle

LEMMA TasksKeep ==
    ASSUME TypeOK, TaskShape, Guarded, Quiet, [KeepsWatches]_vars
    PROVE  TasksOK'
<1>1. TaskShape' /\ Guarded'
  BY GuardedStep
<1>2. TaskTypes'
  <2>1. CASE LeaseKeys = {}
    <3>1. Quiet => UNCHANGED <<task, watch>> \/ \E w \in Workers : Crash(w)
      BY <2>1 DEF Quiet
    <3>2. ASSUME NEW w \in Workers, Crash(w) PROVE FALSE
      BY <2>1, <3>2 DEF Crash
    <3>3. TaskTypes
      BY DEF TypeOK, TaskTypes
    <3> QED
      BY <3>1, <3>2, <3>3 DEF TaskTypes, watch
  <2>2. CASE LeaseKeys # {}
    BY <2>2, QuietTasks
  <2> QED
    BY <2>1, <2>2
<1>3. ASSUME NEW w \in Workers
      PROVE  Permits(w)' \in 0..LocalConcurrency
  <2>1. ASSUME NEW k \in LeaseKeys, task'[k].worker = w
        PROVE  task[k].worker = w
    <3>1. TaskEffect(k)
      BY QuietTasks
    <3> QED
      BY <2>1, <3>1, IdleFields, Constants DEF TaskEffect
  <2>2. Busy(w)' \subseteq Busy(w)
    BY <2>1 DEF Busy, LeaseKeys
  <2> QED
    BY <2>2, PermitsKept
<1> QED
  BY <1>1, <1>2, <1>3 DEF TasksOK

-----------------------------------------------------------------------------
(* Steps that leave the lanes alone                                        *)

\* Nothing that has data is pruned: every such id has a lane.
LEMMA NothingPruned ==
    ASSUME Inv, NEW s \in Seq(data), NEW max \in Nat
    PROVE  Prunable(s, max) = {}
<1>1. Len(s) \in Nat /\ s \in [1..Len(s) -> data]
  BY ListFacts
<1>2. \A i \in (max + 1)..Len(s) : i \in 1..Len(s)
  BY <1>1
<1>3. \A i \in (max + 1)..Len(s) : lane[s[i]] # None
  BY <1>1, <1>2, Constants DEF Inv, DataHasLane
<1> QED
  BY <1>3 DEF Prunable

LEMMA TrimType ==
    ASSUME NEW T, NEW s \in Seq(T), NEW max \in Nat
    PROVE  Trim(s, max) \in Seq(T)
<1>1. Len(s) \in Nat /\ s \in [1..Len(s) -> T]
  BY ListFacts
<1>2. CASE max = 0 \/ Len(s) <= max
  BY <1>2 DEF Trim
<1>3. CASE ~(max = 0 \/ Len(s) <= max)
  <2>1. \A i \in 1..max : s[i] \in T
    BY <1>1, <1>3
  <2>2. SubSeq(s, 1, max) \in Seq(T)
    BY <2>1, SubSeqProperties
  <2> QED
    BY <1>3, <2>2 DEF Trim
<1> QED
  BY <1>2, <1>3

LEMMA NothingMoves ==
    ASSUME Inv, TasksOK', UNCHANGED <<places, data, meta, lists, leases>>
    PROVE  Inv'
<1>1. TypeOK'
  BY Zenon DEF Inv, TypeOK, TasksOK, TaskTypes, places, meta, lists
<1>2. TaskShape' /\ Guarded'
  BY DEF TasksOK
<1> QED
  BY <1>1, <1>2, Zenon DEF Inv, LanesWithJobsAreListed, InPlace, Members,
     DataHasLane, LeaseIsOfActive, places, meta, lists

LEMMA ExpireKeeps ==
    ASSUME Inv, TasksOK', NEW k \in LeaseKeys, Expire(k)
    PROVE  Inv'
<1>1. leases' \subseteq leases /\ UNCHANGED <<places, data, meta, lists>>
  BY DEF Expire
<1>2. TypeOK'
  BY <1>1, Zenon DEF Inv, TypeOK, TasksOK, TaskTypes, places, meta, lists
<1>3. TaskShape' /\ Guarded'
  BY DEF TasksOK
<1> QED
  BY <1>1, <1>2, <1>3, Zenon DEF Inv, LanesWithJobsAreListed, InPlace, Members,
     DataHasLane, LeaseIsOfActive, places, meta, lists

LEMMA PruneKeeps ==
    ASSUME Inv, TasksOK', NEW k \in LeaseKeys, PostSuccessCompletion(k) \/ PostFailCompletion(k)
    PROVE  Inv'
<1>1. success \in Seq(data) /\ failed \in Seq(data) /\ MaxSuccess \in Nat /\ MaxFailed \in Nat
  BY ConstantsAssumption DEF Inv, TypeOK
<1>2. /\ Prunable(success, MaxSuccess) = {} /\ Prunable(failed, MaxFailed) = {}
      /\ Trim(success, MaxSuccess) \in Seq(data) /\ Trim(failed, MaxFailed) \in Seq(data)
  BY <1>1, NothingPruned, TrimType, Zenon
<1>3. /\ Forget({})
      /\ success' \in Seq(data) /\ failed' \in Seq(data)
  BY <1>1, <1>2, Zenon DEF PostSuccessCompletion, PostFailCompletion
<1>4. TaskShape' /\ Guarded'
  BY DEF TasksOK
<1>5. token \in [Jobs -> Tokens \cup {None}]
  BY DEF Inv, TypeOK
<1>6. /\ dedupe' = dedupe /\ data' = data /\ finished' = finished /\ front' = front
      /\ token' = token /\ UNCHANGED <<places, lane, cancels, leases>>
  BY <1>3, <1>5 DEF Forget
<1>7. TypeOK'
  BY <1>3, <1>6, Zenon DEF Inv, TypeOK, TasksOK, TaskTypes, places
<1> QED
  BY <1>4, <1>6, <1>7, Zenon DEF Inv, LanesWithJobsAreListed, InPlace, Members,
     DataHasLane, LeaseIsOfActive, places

\* The next second keeps every lane that is listed listed.
LEMMA TickKeeps ==
    ASSUME Inv, TasksOK', Tick
    PROVE  Inv'
<1> DEFINE stamps == {score[l] : l \in Lanes} \ {None, 0}
<1>1. /\ score' = [l \in Lanes |-> IF score[l] \in stamps
                                   THEN Cardinality({x \in stamps : x <= score[l]})
                                   ELSE score[l]]
      /\ UNCHANGED <<pending, delayed, active, data, meta, lists, leases>>
  BY DEF Tick
<1>2. IsFiniteSet(stamps) /\ Cardinality(stamps) <= Cardinality(Lanes)
  <2> DEFINE all == {score[l] : l \in Lanes}
  <2>1. IsFiniteSet(Lanes) /\ score \in [Lanes -> 0..Now \cup {None}]
    BY Constants, Types DEF Inv
  <2>2. score \in Surjection(Lanes, all)
    BY <2>1 DEF Surjection
  <2>3. IsFiniteSet(all) /\ Cardinality(all) <= Cardinality(Lanes)
    BY <2>1, <2>2, FS_Surjection, Zenon
  <2>4. stamps \subseteq all
    OBVIOUS
  <2> HIDE DEF stamps, all
  <2>5. IsFiniteSet(stamps) /\ Cardinality(stamps) <= Cardinality(all)
    BY <2>3, <2>4, FS_Subset
  <2>6. /\ Cardinality(stamps) \in Nat /\ Cardinality(all) \in Nat
        /\ Cardinality(Lanes) \in Nat
    BY <2>1, <2>3, <2>5, FS_CardinalityType
  <2> QED
    BY <2>3, <2>5, <2>6
<1> HIDE DEF stamps
<1>3. ASSUME NEW l \in Lanes
      PROVE  Cardinality({x \in stamps : x <= score[l]}) \in 0..Now
  <2> DEFINE S == {x \in stamps : x <= score[l]}
  <2>1. S \subseteq stamps
    OBVIOUS
  <2> HIDE DEF S
  <2>2. IsFiniteSet(S) /\ Cardinality(S) <= Cardinality(stamps)
    BY <1>2, <2>1, FS_Subset
  <2>3. Cardinality(S) \in Nat /\ Cardinality(stamps) \in Nat /\ Cardinality(Lanes) \in Nat
    BY <1>2, <2>2, Constants, FS_CardinalityType
  <2>4. Cardinality(S) \in 0..Now
    BY <1>2, <2>2, <2>3 DEF Now
  <2> QED
    BY <2>4 DEF S
<1>4. score \in [Lanes -> 0..Now \cup {None}]
  BY DEF Inv, TypeOK
<1>5. score' \in [Lanes -> 0..Now \cup {None}]
  BY <1>1, <1>3, <1>4
<1>6. \A l \in Lanes : score'[l] = None => score[l] = None
  <2>1. None \notin 0..Now
    BY Constants
  <2> QED
    BY <1>1, <1>3, <2>1
<1>7. TypeOK'
  BY <1>1, <1>5, Zenon DEF Inv, TypeOK, TasksOK, TaskTypes, meta, lists
<1>8. TaskShape' /\ Guarded'
  BY DEF TasksOK
<1> QED
  BY <1>1, <1>6, <1>7, <1>8, Zenon DEF Inv, LanesWithJobsAreListed, InPlace,
     Members, DataHasLane, LeaseIsOfActive, meta, lists

-----------------------------------------------------------------------------
(* Steps that move one job                                                 *)

\* An id a push is accepted for is in no lane and under no lease.
LEMMA NewIdIsNowhere ==
    ASSUME Inv, NEW j, j \notin dedupe
    PROVE  /\ \A m \in Lanes : j \notin Members(m)
           /\ \A k \in leases : k[1] # j
<1>1. \A m \in Lanes : j \notin Members(m)
  BY DEF Inv, InPlace
<1>2. \A k \in leases : lane[k[1]] \in Lanes /\ k[1] \in Members(lane[k[1]])
  BY DEF Inv, LeaseIsOfActive, Members
<1> QED
  BY <1>1, <1>2, Zenon

LEMMA PushKeeps ==
    ASSUME Inv, TasksOK', NEW l \in Lanes, NEW j \in Jobs, NEW wait \in BOOLEAN,
           NEW position \in {"first", "last"}, PushToLane(l, j, wait, position)
    PROVE  Inv'
<1>1. /\ j \notin dedupe /\ data' = data \cup {j} /\ lane' = [lane EXCEPT ![j] = l]
      /\ dedupe' = dedupe \cup {j}
      /\ score' = [score EXCEPT ![l] = IF @ = None THEN 0 ELSE @]
      /\ UNCHANGED <<active, token, finished, success, failed, cancels, leases>>
  BY DEF PushToLane
<1>2. \/ /\ front' \subseteq front \cup {j}
         /\ delayed' = [delayed EXCEPT ![l] = @ \cup {j}] /\ pending' = pending
      \/ /\ pending' = [pending EXCEPT ![l] = Append(@, j)]
         /\ front' = front /\ delayed' = delayed
  BY DEF PushToLane, Reenter
<1>3. (\A m \in Lanes : j \notin Members(m)) /\ (\A k \in leases : k[1] # j)
  BY <1>1, NewIdIsNowhere, Zenon
<1>4. /\ pending \in [Lanes -> Seq(Jobs)] /\ delayed \in [Lanes -> SUBSET Jobs]
      /\ active \in [Lanes -> SUBSET Jobs] /\ score \in [Lanes -> 0..Now \cup {None}]
      /\ lane \in [Jobs -> Lanes \cup {None}]
  BY Types DEF Inv
<1>5. /\ Append(pending[l], j) \in Seq(Jobs)
      /\ Range(Append(pending[l], j)) = Range(pending[l]) \cup {j}
      /\ IsInjective(pending[l]) /\ j \notin Range(pending[l])
           => IsInjective(Append(pending[l], j))
  BY <1>4, AppendFacts
<1>6. pending' \in [Lanes -> Seq(Jobs)] /\ delayed' \in [Lanes -> SUBSET Jobs]
  <2>1. delayed[l] \cup {j} \in SUBSET Jobs
    BY <1>4
  <2>2. CASE pending' = pending /\ delayed' = [delayed EXCEPT ![l] = @ \cup {j}]
    BY <1>4, <2>1, <2>2
  <2>3. CASE pending' = [pending EXCEPT ![l] = Append(@, j)] /\ delayed' = delayed
    BY <1>4, <1>5, <2>3
  <2> QED
    BY <1>2, <2>2, <2>3, Zenon
<1>7. ASSUME NEW m \in Lanes
      PROVE  /\ Tidy(pending'[m], delayed'[m], active'[m])
             /\ Members(m)' = IF m = l THEN Members(m) \cup {j} ELSE Members(m)
  <2>1. Tidy(pending[m], delayed[m], active[m]) /\ j \notin Members(m)
    BY <1>3 DEF Inv, InPlace
  <2>2. CASE m # l
    <3>1. pending'[m] = pending[m] /\ delayed'[m] = delayed[m] /\ active'[m] = active[m]
      BY <1>1, <1>2, <1>4, <2>2
    <3> QED
      BY <2>1, <2>2, <3>1 DEF Members
  <2>3. CASE m = l /\ pending' = pending /\ delayed' = [delayed EXCEPT ![l] = @ \cup {j}]
    <3>1. pending'[m] = pending[m] /\ delayed'[m] = delayed[m] \cup {j} /\ active'[m] = active[m]
      BY <1>1, <1>4, <2>3
    <3> QED
      BY <2>1, <2>3, <3>1 DEF Members, Tidy
  <2>4. CASE m = l /\ pending' = [pending EXCEPT ![l] = Append(@, j)] /\ delayed' = delayed
    <3>1. /\ pending'[m] = Append(pending[m], j) /\ delayed'[m] = delayed[m]
          /\ active'[m] = active[m]
      BY <1>1, <1>4, <2>4
    <3> QED
      BY <1>5, <2>1, <2>4, <3>1 DEF Members, Tidy
  <2> QED
    BY <1>2, <2>2, <2>3, <2>4
<1>8. /\ lane' \in [Jobs -> Lanes \cup {None}] /\ lane'[j] = l
      /\ \A i \in Jobs : i # j => lane'[i] = lane[i]
  BY <1>1, <1>4
<1>9. InPlace'
  <2> SUFFICES ASSUME NEW m \in Lanes
               PROVE  /\ Tidy(pending'[m], delayed'[m], active'[m])
                      /\ \A i \in Members(m)' : lane'[i] = m /\ i \in dedupe'
    BY Zenon DEF InPlace
  <2>1. \A i \in Members(m) : lane[i] = m /\ i \in dedupe /\ i \in Jobs /\ i # j
    BY <1>3, Types DEF Inv, InPlace
  <2> QED
    BY <1>1, <1>7, <1>8, <2>1
<1>10. score' \in [Lanes -> 0..Now \cup {None}] /\ \A m \in Lanes : m # l => score'[m] = score[m]
  <2>1. 0 \in 0..Now
    BY Constants
  <2> QED
    BY <1>1, <1>4, <2>1
<1>11. score'[l] # None
  BY <1>1, <1>4, Constants
<1>12. LanesWithJobsAreListed'
  <2> SUFFICES ASSUME NEW m \in Lanes, score'[m] = None
               PROVE  pending'[m] = << >> /\ delayed'[m] = {} /\ active'[m] = {}
    BY DEF LanesWithJobsAreListed
  <2>1. m # l /\ score[m] = None
    BY <1>10, <1>11
  <2> QED
    BY <1>1, <1>2, <1>4, <2>1 DEF Inv, LanesWithJobsAreListed
<1>13. TypeOK'
  <2>1. \A m \in Lanes : Members(m)' \subseteq data'
    BY <1>1, <1>7, Types, Zenon DEF Inv
  <2>2. data' \subseteq Jobs /\ data \subseteq data'
    BY <1>1, Types DEF Inv
  <2>3. success' \in Seq(data') /\ failed' \in Seq(data')
    BY <1>1, <2>2, SeqMonotonic DEF Inv, TypeOK
  <2>4. front' \cup finished' \cup dedupe' \cup cancels' \subseteq data'
    BY <1>1, <1>2 DEF Inv, TypeOK
  <2> QED
    BY <1>1, <1>4, <1>6, <1>8, <1>10, <2>1, <2>2, <2>3, <2>4, Zenon
    DEF Inv, TypeOK, Members, TasksOK, TaskTypes
<1>14. DataHasLane'
  BY <1>1, <1>8, Types DEF Inv, DataHasLane
<1>15. LeaseIsOfActive'
  BY <1>1, <1>3, <1>8, Types DEF Inv, LeaseIsOfActive, LeaseKeys
<1> QED
  BY <1>9, <1>12, <1>13, <1>14, <1>15 DEF Inv, TasksOK

\* A step that moves ids within one lane, or takes them out of it.
LEMMA LaneChange ==
    ASSUME Inv, NEW l \in Lanes, NEW p \in Seq(Jobs), NEW d \in SUBSET Jobs,
           NEW a \in SUBSET Jobs,
           pending' = [pending EXCEPT ![l] = p],
           delayed' = [delayed EXCEPT ![l] = d],
           active' = [active EXCEPT ![l] = a],
           Tidy(p, d, a), Range(p) \cup d \cup a \subseteq Members(l),
           UNCHANGED <<score, data, lane>>,
           \A i \in dedupe \ dedupe' : lane[i] = l /\ i \notin Range(p) \cup d \cup a
    PROVE  /\ pending' \in [Lanes -> Seq(Jobs)]
           /\ delayed' \in [Lanes -> SUBSET Jobs]
           /\ active' \in [Lanes -> SUBSET Jobs]
           /\ \A m \in Lanes : Members(m)' \subseteq data'
           /\ LanesWithJobsAreListed' /\ InPlace' /\ DataHasLane'
<1>1. /\ pending \in [Lanes -> Seq(Jobs)] /\ delayed \in [Lanes -> SUBSET Jobs]
      /\ active \in [Lanes -> SUBSET Jobs]
  BY Types DEF Inv
<1>2. /\ pending' \in [Lanes -> Seq(Jobs)] /\ delayed' \in [Lanes -> SUBSET Jobs]
      /\ active' \in [Lanes -> SUBSET Jobs]
  BY <1>1, Zenon
<1>3. pending'[l] = p /\ delayed'[l] = d /\ active'[l] = a
  BY <1>1
<1>4. ASSUME NEW m \in Lanes, m # l
      PROVE  pending'[m] = pending[m] /\ delayed'[m] = delayed[m] /\ active'[m] = active[m]
  BY <1>1, <1>4
<1>5. Members(l)' = Range(p) \cup d \cup a
  BY <1>3 DEF Members
<1>6. ASSUME NEW m \in Lanes
      PROVE  Tidy(pending'[m], delayed'[m], active'[m]) /\ Members(m)' \subseteq Members(m)
  <2>1. CASE m = l
    BY <1>3, <1>5, <2>1, Zenon
  <2>2. CASE m # l
    BY <1>4, <2>2, Zenon DEF Members, Inv, InPlace
  <2> QED
    BY <2>1, <2>2
<1>7. \A m \in Lanes : Members(m)' \subseteq data'
  BY <1>6, Types, Zenon DEF Inv
<1>8. LanesWithJobsAreListed'
  <2> SUFFICES ASSUME NEW m \in Lanes, score[m] = None
               PROVE  pending'[m] = << >> /\ delayed'[m] = {} /\ active'[m] = {}
    BY DEF LanesWithJobsAreListed
  <2>1. Members(m) = {}
    BY EmptyList DEF Inv, LanesWithJobsAreListed, Members
  <2>2. Members(m)' = {}
    BY <1>6, <2>1
  <2>3. Range(pending'[m]) = {} /\ delayed'[m] = {} /\ active'[m] = {}
    BY <2>2 DEF Members
  <2> QED
    BY <1>2, <2>3, NoMembers, Zenon
<1>9. InPlace'
  <2> SUFFICES ASSUME NEW m \in Lanes, NEW i \in Members(m)'
               PROVE  lane[i] = m /\ i \in dedupe'
    BY <1>6, Zenon DEF InPlace
  <2>1. lane[i] = m /\ i \in dedupe
    BY <1>6, Zenon DEF Inv, InPlace
  <2>2. CASE m = l
    BY <1>5, <2>1, <2>2, Zenon
  <2>3. CASE m # l
    BY <2>1, <2>3, Zenon
  <2> QED
    BY <2>1, <2>2, <2>3
<1>10. DataHasLane'
  BY DEF Inv, DataHasLane
<1> QED
  BY <1>2, <1>7, <1>8, <1>9, <1>10, Zenon

\* A cancellation takes a job that waits out of its lane, and leaves an active one
\* where it is.
LEMMA CancelKeeps ==
    ASSUME Inv, TasksOK', NEW j \in Jobs, CancelJob(j)
    PROVE  Inv'
<1> DEFINE l == lane[j]
<1>1. /\ UNCHANGED <<active, score, data, lane, token, front, dedupe, success, leases>>
      /\ l # None
  BY DEF CancelJob
<1>2. /\ pending \in [Lanes -> Seq(Jobs)] /\ delayed \in [Lanes -> SUBSET Jobs]
      /\ active \in [Lanes -> SUBSET Jobs] /\ lane \in [Jobs -> Lanes \cup {None}]
  BY Types DEF Inv
<1>3. l \in Lanes
  BY <1>1, <1>2
<1>4. \/ /\ j \in Range(pending[l]) /\ j \in data
         /\ \E rest \in Without(pending[l], {j}) : pending' = [pending EXCEPT ![l] = rest]
         /\ failed' = <<j>> \o failed /\ finished' = finished \cup {j}
         /\ delayed' = delayed /\ cancels' = cancels
      \/ /\ j \in delayed[l] /\ j \in data
         /\ delayed' = [delayed EXCEPT ![l] = @ \ {j}]
         /\ failed' = <<j>> \o failed /\ finished' = finished \cup {j}
         /\ pending' = pending /\ cancels' = cancels
      \/ /\ j \in active[l] /\ j \in data
         /\ cancels' = cancels \cup {j}
         /\ pending' = pending /\ delayed' = delayed /\ failed' = failed
         /\ finished' = finished
  <2>1. Members(l) \subseteq data
    BY <1>3, Types DEF Inv
  <2> HIDE DEF l
  <2>2. \A i : i \in Range(pending[l]) \/ i \in delayed[l] \/ i \in active[l] => i \in data
    BY <2>1 DEF Members
  <2> QED
    BY <2>2, Zenon DEF CancelJob, l
<1> HIDE DEF l
<1>5. Tidy(pending[l], delayed[l], active[l])
  BY <1>3 DEF Inv, InPlace
<1>6. /\ pending = [pending EXCEPT ![l] = pending[l]]
      /\ delayed = [delayed EXCEPT ![l] = delayed[l]]
      /\ active = [active EXCEPT ![l] = active[l]]
      /\ pending[l] \in Seq(Jobs) /\ delayed[l] \in SUBSET Jobs /\ active[l] \in SUBSET Jobs
  BY <1>2, <1>3
<1> DEFINE Change(p, d) ==
             /\ pending' = [pending EXCEPT ![l] = p] /\ delayed' = [delayed EXCEPT ![l] = d]
             /\ Tidy(p, d, active[l]) /\ Range(p) \cup d \cup active[l] \subseteq Members(l)
<1>7. \E p \in Seq(Jobs), d \in SUBSET Jobs : Change(p, d)
  <2>1. CASE \E rest \in Without(pending[l], {j}) :
               pending' = [pending EXCEPT ![l] = rest] /\ delayed' = delayed
    <3>1. PICK rest \in Without(pending[l], {j}) : pending' = [pending EXCEPT ![l] = rest]
      BY <2>1, Zenon
    <3>2. /\ rest \in Seq(Jobs) /\ Range(rest) = Range(pending[l]) \ {j}
          /\ IsInjective(pending[l]) => IsInjective(rest)
      BY <1>6, WithoutFacts, Zenon
    <3>3. Tidy(rest, delayed[l], active[l])
      BY <1>5, <3>2 DEF Tidy
    <3>4. Range(rest) \cup delayed[l] \cup active[l] \subseteq Members(l)
      BY <3>2 DEF Members
    <3>5. Change(rest, delayed[l])
      BY <1>6, <2>1, <3>1, <3>3, <3>4, Zenon
    <3> HIDE DEF Change
    <3> QED
      BY <1>6, <3>2, <3>5, Zenon
  <2>2. CASE pending' = pending /\ delayed' = [delayed EXCEPT ![l] = @ \ {j}]
    <3>1. Tidy(pending[l], delayed[l] \ {j}, active[l])
      BY <1>5 DEF Tidy
    <3>2. Range(pending[l]) \cup (delayed[l] \ {j}) \cup active[l] \subseteq Members(l)
      BY DEF Members
    <3>3. delayed[l] \ {j} \in SUBSET Jobs
      BY <1>6
    <3>4. Change(pending[l], delayed[l] \ {j})
      BY <1>6, <2>2, <3>1, <3>2
    <3> HIDE DEF Change
    <3> QED
      BY <1>6, <3>3, <3>4, Zenon
  <2>3. CASE pending' = pending /\ delayed' = delayed
    BY <1>5, <1>6, <2>3, Zenon DEF Members
  <2> QED
    BY <1>4, <2>1, <2>2, <2>3, Zenon
<1>8. /\ pending' \in [Lanes -> Seq(Jobs)] /\ delayed' \in [Lanes -> SUBSET Jobs]
      /\ active' \in [Lanes -> SUBSET Jobs]
      /\ \A m \in Lanes : Members(m)' \subseteq data'
      /\ LanesWithJobsAreListed' /\ InPlace' /\ DataHasLane'
  <2>1. active' = [active EXCEPT ![l] = active[l]] /\ UNCHANGED <<score, data, lane>>
    BY <1>1, <1>6
  <2>2. \A i \in dedupe \ dedupe' : FALSE
    BY <1>1
  <2> QED
    BY <1>3, <1>6, <1>7, <2>1, <2>2, LaneChange, Zenon
<1>9. failed \in Seq(data) /\ front \cup finished \cup dedupe \cup cancels \subseteq data
  BY DEF Inv, TypeOK
<1>10. j \in data => <<j>> \o failed \in Seq(data)
  BY <1>9, ConsFacts
<1>11. failed' \in Seq(data') /\ front' \cup finished' \cup dedupe' \cup cancels' \subseteq data'
  BY <1>1, <1>4, <1>9, <1>10, Zenon
<1>12. TypeOK'
  BY <1>1, <1>8, <1>11, Zenon DEF Inv, TypeOK, Members, TasksOK, TaskTypes
<1>13. LeaseIsOfActive'
  BY <1>1, Zenon DEF Inv, LeaseIsOfActive
<1> QED
  BY <1>8, <1>12, <1>13, Zenon DEF Inv, TasksOK

\* A completion is of an active job, and ends the only lease the job has.
LEMMA ExecFacts ==
    ASSUME Inv, NEW k \in LeaseKeys, NEW o, Exec(k, o)
    PROVE  /\ k[1] \in Jobs /\ lane[k[1]] \in Lanes /\ k[1] \in data
           /\ k[1] \in active[lane[k[1]]]
           /\ leases' = leases \ {k} /\ \A i \in leases' : i[1] # k[1]
           /\ active' = [active EXCEPT ![lane[k[1]]] = active[lane[k[1]]] \ {k[1]}]
           /\ token' \in [Jobs -> Tokens \cup {None}]
           /\ \A j \in Jobs : j # k[1] => token'[j] = token[j]
<1>1. /\ k \in leases /\ leases' = leases \ {k}
      /\ active' = [active EXCEPT ![lane[k[1]]] = active[lane[k[1]]] \ {k[1]}]
      /\ token' = [token EXCEPT ![k[1]] = None]
  BY DEF Exec, Inv, Guarded
<1>2. /\ lane[k[1]] \in Lanes /\ k[1] \in active[lane[k[1]]]
      /\ \A i \in leases : token[i[1]] = i[2]
  BY <1>1 DEF Inv, LeaseIsOfActive
<1>3. k[1] \in Jobs /\ k[1] \in data
  BY <1>2, Types DEF Inv, Members
<1>4. token \in [Jobs -> Tokens \cup {None}] /\ leases \subseteq LeaseKeys
  BY Types DEF Inv
<1>5. \A i \in leases' : i[1] # k[1]
  <2> SUFFICES ASSUME NEW i \in leases, i # k, i[1] = k[1]
               PROVE  FALSE
    BY <1>1, Zenon
  <2>1. i[2] = k[2]
    BY <1>1, <1>2
  <2> QED
    BY <1>4, <2>1 DEF LeaseKeys
<1>6. token' \in [Jobs -> Tokens \cup {None}] /\ \A j \in Jobs : j # k[1] => token'[j] = token[j]
  BY <1>1, <1>3, <1>4
<1> QED
  BY <1>1, <1>2, <1>3, <1>5, <1>6, Zenon

\* The leases that are left are as they were.
LEMMA OtherLeases ==
    ASSUME Inv, NEW k \in LeaseKeys, NEW o, Exec(k, o), UNCHANGED lane
    PROVE  LeaseIsOfActive'
<1> DEFINE l == lane[k[1]]
<1>1. /\ l \in Lanes /\ leases' \subseteq leases /\ \A i \in leases' : i[1] # k[1]
      /\ active' = [active EXCEPT ![l] = active[l] \ {k[1]}]
      /\ \A j \in Jobs : j # k[1] => token'[j] = token[j]
  BY ExecFacts
<1>2. active \in [Lanes -> SUBSET Jobs] /\ leases \subseteq LeaseKeys
  BY Types DEF Inv
<1> HIDE DEF l
<1>3. \A m \in Lanes : active[m] \ {k[1]} \subseteq active'[m]
  BY <1>1, <1>2
<1> SUFFICES ASSUME NEW i \in leases'
             PROVE  lane[i[1]] \in Lanes /\ i[1] \in active'[lane[i[1]]] /\ token'[i[1]] = i[2]
  BY Zenon DEF LeaseIsOfActive
<1>4. lane[i[1]] \in Lanes /\ i[1] \in active[lane[i[1]]] /\ token[i[1]] = i[2]
  BY <1>1 DEF Inv, LeaseIsOfActive
<1>5. i[1] \in Jobs /\ i[1] # k[1]
  BY <1>1, <1>2 DEF LeaseKeys
<1> QED
  BY <1>1, <1>3, <1>4, <1>5, Zenon

\* A job that is done leaves its lane for a list; in "Active" mode its id may then
\* be pushed again, to any lane.
LEMMA SettleKeeps ==
    ASSUME Inv, TasksOK', NEW k \in LeaseKeys, NEW o, Settle(k, o)
    PROVE  Inv'
<1> DEFINE j == k[1]
           l == lane[j]
<1>1. /\ Exec(k, o)
      /\ success' = <<j>> \o success \/ success' = success
      /\ failed' = <<j>> \o failed \/ failed' = failed
      /\ finished' = finished \cup {j}
      /\ dedupe' = dedupe \ {j} \/ dedupe' = dedupe
      /\ UNCHANGED <<pending, delayed, score, data, lane, front, cancels>>
  BY Zenon DEF Settle
<1>2. /\ j \in Jobs /\ l \in Lanes /\ j \in data /\ j \in active[l]
      /\ leases' = leases \ {k}
      /\ active' = [active EXCEPT ![l] = active[l] \ {j}]
      /\ token' \in [Jobs -> Tokens \cup {None}]
  BY <1>1, ExecFacts, Zenon
<1>3. LeaseIsOfActive'
  BY <1>1, OtherLeases
<1> HIDE DEF l, j
<1>4. /\ pending \in [Lanes -> Seq(Jobs)] /\ delayed \in [Lanes -> SUBSET Jobs]
      /\ active \in [Lanes -> SUBSET Jobs] /\ leases \subseteq LeaseKeys
  BY Types DEF Inv
<1>5. Tidy(pending[l], delayed[l], active[l])
  BY <1>2 DEF Inv, InPlace
<1>6. /\ Tidy(pending[l], delayed[l], active[l] \ {j})
      /\ Range(pending[l]) \cup delayed[l] \cup (active[l] \ {j}) \subseteq Members(l)
      /\ j \notin Range(pending[l]) \cup delayed[l] \cup (active[l] \ {j})
  BY <1>2, <1>5 DEF Tidy, Members
<1>7. /\ pending' = [pending EXCEPT ![l] = pending[l]]
      /\ delayed' = [delayed EXCEPT ![l] = delayed[l]]
      /\ pending[l] \in Seq(Jobs) /\ delayed[l] \in SUBSET Jobs
      /\ active[l] \ {j} \in SUBSET Jobs
  BY <1>1, <1>2, <1>4
<1>8. /\ pending' \in [Lanes -> Seq(Jobs)] /\ delayed' \in [Lanes -> SUBSET Jobs]
      /\ active' \in [Lanes -> SUBSET Jobs]
      /\ \A m \in Lanes : Members(m)' \subseteq data'
      /\ LanesWithJobsAreListed' /\ InPlace' /\ DataHasLane'
  <2>1. \A i \in dedupe \ dedupe' :
          lane[i] = l /\ i \notin Range(pending[l]) \cup delayed[l] \cup (active[l] \ {j})
    BY <1>1, <1>6 DEF l
  <2>2. UNCHANGED <<score, data, lane>>
    BY <1>1
  <2>3. PICK p \in Seq(Jobs), d \in SUBSET Jobs, a \in SUBSET Jobs :
          p = pending[l] /\ d = delayed[l] /\ a = active[l] \ {j}
    BY <1>7, Zenon
  <2>4. /\ pending' = [pending EXCEPT ![l] = p] /\ delayed' = [delayed EXCEPT ![l] = d]
        /\ active' = [active EXCEPT ![l] = a]
        /\ Tidy(p, d, a) /\ Range(p) \cup d \cup a \subseteq Members(l)
    BY <1>2, <1>6, <1>7, <2>3, Zenon
  <2>5. \A i \in dedupe \ dedupe' : lane[i] = l /\ i \notin Range(p) \cup d \cup a
    BY <2>1, <2>3, Zenon
  <2> QED
    BY <1>2, <2>2, <2>4, <2>5, LaneChange, Zenon
<1>9. /\ success \in Seq(data) /\ failed \in Seq(data)
      /\ front \cup finished \cup dedupe \cup cancels \subseteq data
  BY DEF Inv, TypeOK
<1>10. <<j>> \o failed \in Seq(data) /\ <<j>> \o success \in Seq(data)
  BY <1>2, <1>9, ConsFacts
<1>11. /\ success' \in Seq(data') /\ failed' \in Seq(data')
       /\ front' \cup finished' \cup dedupe' \cup cancels' \subseteq data'
  BY <1>1, <1>2, <1>9, <1>10, Zenon
<1>12. leases' \subseteq LeaseKeys
  BY <1>2, <1>4
<1>13. TypeOK'
  BY <1>1, <1>2, <1>8, <1>11, <1>12, Zenon DEF Inv, TypeOK, Members, TasksOK, TaskTypes
<1> QED
  BY <1>3, <1>8, <1>13, Zenon DEF Inv, TasksOK

\* A job that is nacked or deferred goes from the active hash of its lane to the
\* list or the delayed set of the same lane.
LEMMA GiveBackKeeps ==
    ASSUME Inv, TasksOK', NEW k \in LeaseKeys, NEW o, GiveBack(k, o)
    PROVE  Inv'
<1> DEFINE j == k[1]
           l == lane[j]
<1>1. /\ Exec(k, o)
      /\ UNCHANGED <<score, data, lane, finished, lists>>
  BY Zenon DEF GiveBack
<1>2. \/ /\ front' \subseteq front \cup {j} /\ pending' = pending
         /\ delayed' = [delayed EXCEPT ![l] = delayed[l] \cup {j}]
      \/ /\ front' = front /\ delayed' = delayed
         /\ \/ pending' = [pending EXCEPT ![l] = <<j>> \o pending[l]]
            \/ pending' = [pending EXCEPT ![l] = Append(pending[l], j)]
  BY Zenon DEF GiveBack, Reenter
<1>3. /\ j \in Jobs /\ l \in Lanes /\ j \in data /\ j \in active[l]
      /\ leases' = leases \ {k}
      /\ active' = [active EXCEPT ![l] = active[l] \ {j}]
      /\ token' \in [Jobs -> Tokens \cup {None}]
  BY <1>1, ExecFacts, Zenon
<1>4. LeaseIsOfActive'
  BY <1>1, OtherLeases
<1> HIDE DEF l, j
<1>5. /\ pending \in [Lanes -> Seq(Jobs)] /\ delayed \in [Lanes -> SUBSET Jobs]
      /\ active \in [Lanes -> SUBSET Jobs] /\ leases \subseteq LeaseKeys
  BY Types DEF Inv
<1>6. /\ pending[l] \in Seq(Jobs) /\ delayed[l] \in SUBSET Jobs
      /\ delayed[l] \cup {j} \in SUBSET Jobs /\ active[l] \ {j} \in SUBSET Jobs
      /\ pending = [pending EXCEPT ![l] = pending[l]]
      /\ delayed = [delayed EXCEPT ![l] = delayed[l]]
  BY <1>3, <1>5
<1>7. Tidy(pending[l], delayed[l], active[l])
  BY <1>3 DEF Inv, InPlace
<1>8. j \notin Range(pending[l])
  BY <1>3, <1>7 DEF Tidy
<1> DEFINE Change(p, d) ==
             /\ pending' = [pending EXCEPT ![l] = p] /\ delayed' = [delayed EXCEPT ![l] = d]
             /\ Tidy(p, d, active[l] \ {j})
             /\ Range(p) \cup d \cup (active[l] \ {j}) \subseteq Members(l)
<1>9. \E p \in Seq(Jobs), d \in SUBSET Jobs : Change(p, d)
  <2>1. CASE delayed' = [delayed EXCEPT ![l] = delayed[l] \cup {j}] /\ pending' = pending
    <3>1. /\ Tidy(pending[l], delayed[l] \cup {j}, active[l] \ {j})
          /\ Range(pending[l]) \cup (delayed[l] \cup {j}) \cup (active[l] \ {j}) \subseteq Members(l)
      BY <1>3, <1>7 DEF Tidy, Members
    <3>2. Change(pending[l], delayed[l] \cup {j})
      BY <1>6, <2>1, <3>1
    <3> HIDE DEF Change
    <3> QED
      BY <1>6, <3>2, Zenon
  <2>2. ASSUME NEW p \in Seq(Jobs), Range(p) = Range(pending[l]) \cup {j}, IsInjective(p),
               pending' = [pending EXCEPT ![l] = p], delayed' = delayed
        PROVE  \E q \in Seq(Jobs), d \in SUBSET Jobs : Change(q, d)
    <3>1. Tidy(p, delayed[l], active[l] \ {j})
      BY <1>3, <1>7, <2>2 DEF Tidy
    <3>2. Range(p) \cup delayed[l] \cup (active[l] \ {j}) \subseteq Members(l)
      BY <1>3, <2>2 DEF Members
    <3>3. Change(p, delayed[l])
      BY <1>6, <2>2, <3>1, <3>2, Zenon
    <3> HIDE DEF Change
    <3> QED
      BY <1>6, <3>3, Zenon
  <2>3. /\ <<j>> \o pending[l] \in Seq(Jobs) /\ IsInjective(<<j>> \o pending[l])
        /\ Range(<<j>> \o pending[l]) = Range(pending[l]) \cup {j}
    BY <1>3, <1>6, <1>7, <1>8, ConsFacts DEF Tidy
  <2>4. /\ Append(pending[l], j) \in Seq(Jobs) /\ IsInjective(Append(pending[l], j))
        /\ Range(Append(pending[l], j)) = Range(pending[l]) \cup {j}
    BY <1>3, <1>6, <1>7, <1>8, AppendFacts DEF Tidy
  <2> HIDE DEF Change
  <2> QED
    BY <1>2, <2>1, <2>2, <2>3, <2>4, Zenon
<1>10. /\ pending' \in [Lanes -> Seq(Jobs)] /\ delayed' \in [Lanes -> SUBSET Jobs]
       /\ active' \in [Lanes -> SUBSET Jobs]
       /\ \A m \in Lanes : Members(m)' \subseteq data'
       /\ LanesWithJobsAreListed' /\ InPlace' /\ DataHasLane'
  <2>1. \A i \in dedupe \ dedupe' : FALSE
    BY <1>1 DEF lists
  <2>2. UNCHANGED <<score, data, lane>>
    BY <1>1
  <2> QED
    BY <1>3, <1>6, <1>9, <2>1, <2>2, LaneChange, Zenon
<1>11. front' \cup finished' \cup dedupe' \cup cancels' \subseteq data'
  <2>1. front \cup finished \cup dedupe \cup cancels \subseteq data
    BY DEF Inv, TypeOK
  <2> QED
    BY <1>1, <1>2, <1>3, <2>1, Zenon DEF lists
<1>12. leases' \subseteq LeaseKeys
  BY <1>3, <1>5
<1>13. TypeOK'
  BY <1>1, <1>3, <1>10, <1>11, <1>12, Zenon
     DEF Inv, TypeOK, Members, lists, TasksOK, TaskTypes
<1> QED
  BY <1>4, <1>10, <1>13, Zenon DEF Inv, TasksOK

-----------------------------------------------------------------------------
(* The poll                                                                *)

\* A poll of w: its loop left s, and its leases have the tokens new.
Polled(w, s, new) ==
    LET ran   == Range(s.popped)
        taken == {<<j, new[j]>> : j \in ran}
        lost  == UNION {active[l] \ s.active[l] : l \in Lanes}
    IN  /\ new \in [ran -> Tokens]
        /\ \A j \in ran : new[j] \in FreshTokens(j)
        /\ pending' = s.pending /\ delayed' = s.delayed /\ active' = s.active
        /\ score' = s.score /\ front' \subseteq front
        /\ token' = [j \in Jobs |-> IF j \in ran THEN new[j]
                                   ELSE IF j \in lost THEN None ELSE token[j]]
        /\ leases' = leases \cup taken
        /\ task' = [k \in LeaseKeys |->
                      IF k \in taken THEN [phase |-> "running", worker |-> w] ELSE task[k]]

\* No id is popped twice, so that the tokens of a poll are those of its ids.
LEMMA DeliverFacts ==
    ASSUME NEW w, NEW batch, NEW s, LoopInv(s, batch),
           NEW given \in [DOMAIN s.popped -> Tokens],
           \A i \in DOMAIN given : given[i] \in FreshTokens(s.popped[i]),
           Deliver(w, s, given)
    PROVE  \E new : Polled(w, s, new)
<1> DEFINE ran == Range(s.popped)
           new == [j \in ran |-> given[LastCopy(j, s.popped)]]
           lost == UNION {active[l] \ s.active[l] : l \in Lanes}
           taken == {<<s.popped[i], given[i]>> : i \in DOMAIN s.popped}
<1>1. DOMAIN given = DOMAIN s.popped /\ s.popped \in Seq(Jobs)
  BY LoopFields DEF LoopInv
<1>2. ASSUME NEW i \in DOMAIN s.popped
      PROVE  LastCopy(s.popped[i], s.popped) = i
  <2>1. \A h \in DOMAIN s.popped : s.popped[h] = s.popped[i] => h = i
    BY DEF LoopInv, IsInjective
  <2>2. i <= i
    BY <1>1, ListFacts
  <2> QED
    BY <2>1, <2>2 DEF LastCopy
<1>3. \A i \in DOMAIN s.popped : s.popped[i] \in ran /\ new[s.popped[i]] = given[i]
  BY <1>2 DEF Range
<1>4. \A j \in ran : \E i \in DOMAIN s.popped : j = s.popped[i]
  BY DEF Range
<1>5. taken = {<<j, new[j]>> : j \in ran}
  <2> HIDE DEF ran, new
  <2> QED
    BY <1>3, <1>4
<1>6. /\ new \in [ran -> Tokens]
      /\ \A j \in ran : new[j] \in FreshTokens(j)
  <2>1. ASSUME NEW j \in ran PROVE new[j] \in Tokens /\ new[j] \in FreshTokens(j)
    <3>1. PICK i \in DOMAIN s.popped : j = s.popped[i]
      BY <1>4
    <3>2. new[j] = given[i]
      BY <1>3, <3>1
    <3> HIDE DEF new
    <3> QED
      BY <1>1, <3>1, <3>2
  <2> HIDE DEF ran
  <2> QED
    BY <2>1
<1>7. /\ pending' = s.pending /\ delayed' = s.delayed /\ active' = s.active
      /\ score' = s.score /\ front' \subseteq front
      /\ leases' = leases \cup taken
      /\ task' = [k \in LeaseKeys |->
                    IF k \in taken THEN [phase |-> "running", worker |-> w] ELSE task[k]]
      /\ token' = [j \in Jobs |-> IF j \in ran THEN given[LastCopy(j, s.popped)]
                                 ELSE IF j \in lost THEN None ELSE token[j]]
  BY DEF Deliver
<1> HIDE DEF lost
<1>8. token' = [j \in Jobs |-> IF j \in ran THEN new[j]
                              ELSE IF j \in lost THEN None ELSE token[j]]
  BY <1>7
<1>9. /\ leases' = leases \cup {<<j, new[j]>> : j \in ran}
      /\ task' = [k \in LeaseKeys |-> IF k \in {<<j, new[j]>> : j \in ran}
                                     THEN [phase |-> "running", worker |-> w] ELSE task[k]]
  <2> HIDE DEF taken, new, ran
  <2> QED
    BY <1>5, <1>7
<1> HIDE DEF new
<1>10. Polled(w, s, new)
  BY <1>6, <1>7, <1>8, <1>9, Zenon DEF Polled, lost
<1> QED
  BY <1>10

LEMMA PollFacts ==
    ASSUME Inv, NEW w \in Workers, NEW batch \in Batches(w), PopBatchJobs(w, batch)
    PROVE  /\ batch \in Nat /\ batch <= Permits(w)
           /\ UNCHANGED watch
           /\ \E s, new : LoopInv(s, batch) /\ FairLoop(s) /\ Polled(w, s, new)
<1>1. batch \in Nat /\ batch <= Permits(w)
  <2>1. Permits(w) \in Int
    <3>1. Permits(w) \in 0..LocalConcurrency /\ LocalConcurrency \in Nat
      BY ConstantsAssumption DEF Inv, TypeOK
    <3> QED
      BY <3>1
  <2>2. batch \in 0..Permits(w) \/ batch \in 1..Permits(w)
    BY Zenon DEF Batches
  <2> HIDE DEF Permits
  <2> QED
    BY <2>1, <2>2
<1>2. PICK ring \in Rings : \E s \in Round(ring, batch) :
        \E given \in [DOMAIN s.popped -> Tokens] :
          /\ \A i \in DOMAIN given : given[i] \in FreshTokens(s.popped[i])
          /\ Deliver(w, s, given)
  BY Zenon DEF PopBatchJobs
<1>3. PICK s \in Round(ring, batch) :
        \E given \in [DOMAIN s.popped -> Tokens] :
          /\ \A i \in DOMAIN given : given[i] \in FreshTokens(s.popped[i])
          /\ Deliver(w, s, given)
  BY <1>2, Zenon
<1>4. LoopInv(s, batch) /\ FairLoop(s)
  BY <1>1, RoundKeeps, Zenon
<1>5. \E new : Polled(w, s, new)
  BY <1>3, <1>4, DeliverFacts, Zenon
<1>6. UNCHANGED watch
  BY Zenon DEF PopBatchJobs, watch
<1> QED
  BY <1>1, <1>4, <1>5, <1>6, Zenon

\* The cancellations a poll settles change the two lists only.
LEMMA PollLists ==
    ASSUME Inv, NEW w, NEW batch, PopBatchJobs(w, batch)
    PROVE  /\ UNCHANGED <<data, lane, dedupe>>
           /\ finished' \cup cancels' \subseteq data
           /\ success' \in Seq(data) /\ failed' \in Seq(data)
<1>1. /\ success \in Seq(data) /\ failed \in Seq(data) /\ cancels \subseteq data
      /\ finished \subseteq data /\ data \subseteq Jobs /\ IsFiniteSet(Jobs)
  BY Constants DEF Inv, TypeOK
<1>2. CancelledLate \subseteq Settled /\ Settled \subseteq cancels
  BY DEF CancelledLate, Settled
<1>3. /\ CancelledLate \in SUBSET data /\ IsFiniteSet(CancelledLate)
      /\ Settled \ CancelledLate \in SUBSET data /\ IsFiniteSet(Settled \ CancelledLate)
  <2>1. /\ CancelledLate \subseteq data /\ Settled \ CancelledLate \subseteq data
        /\ CancelledLate \subseteq Jobs /\ Settled \ CancelledLate \subseteq Jobs
    BY <1>1, <1>2
  <2> QED
    BY <1>1, <2>1, FS_Subset
<1>4. PICK late \in Orders(CancelledLate) : failed' = late \o failed
  BY Zenon DEF PopBatchJobs
<1>5. late \in Seq(data) /\ late \o failed \in Seq(data)
  BY <1>1, <1>3, OrdersFacts, ConcatFacts, Zenon
<1>6. PICK again \in Orders(Settled \ CancelledLate), rest \in Without(success, Settled) :
        success' = again \o rest
  BY Zenon DEF PopBatchJobs
<1>7. again \in Seq(data) /\ rest \in Seq(data)
  BY <1>1, <1>3, OrdersFacts, WithoutFacts, Zenon
<1>8. again \o rest \in Seq(data)
  BY <1>7, ConcatFacts, Zenon
<1>9. finished' = finished \cup CancelledLate /\ cancels' = cancels \ Settled
      /\ UNCHANGED <<data, lane, dedupe>>
  BY Zenon DEF PopBatchJobs
<1> QED
  BY <1>1, <1>2, <1>4, <1>5, <1>6, <1>8, <1>9, Zenon

\* A poll starts at most as many tasks as its batch, hence as its worker has
\* permits, and leaves the other tasks alone.
LEMMA PollTasks ==
    ASSUME Inv, NEW w \in Workers, NEW batch \in Nat, batch <= Permits(w),
           NEW s, NEW new, LoopInv(s, batch), Polled(w, s, new), UNCHANGED watch
    PROVE  TasksOK'
<1> DEFINE ran == Range(s.popped)
           given == [j \in ran |-> <<j, new[j]>>]
           N == {<<j, new[j]>> : j \in ran}
           started == [phase |-> "running", worker |-> w]
<1>1. /\ s.popped \in Seq(Jobs) /\ s.left \in Nat /\ Len(s.popped) + s.left = batch
      /\ Len(s.popped) \in Nat
  BY LoopFields, ListFacts DEF LoopInv
<1>2. IsFiniteSet(ran) /\ Cardinality(ran) <= Len(s.popped) /\ Cardinality(ran) \in Nat
  BY <1>1, RangeCardinality, FS_CardinalityType
<1>3. TaskTypes
  BY DEF Inv, TypeOK, TaskTypes
<1>4. /\ task' = [k \in LeaseKeys |-> IF k \in N THEN started ELSE task[k]]
      /\ leases \subseteq leases'
  BY Zenon DEF Polled
<1>5. /\ started \in [phase : Phases, worker : Workers \cup {None}]
      /\ started.phase = "running" /\ started.worker = w
  BY PhaseNames
<1> HIDE DEF ran, started
<1>6. given \in Surjection(ran, N)
  BY Zenon DEF Surjection
<1>7. IsFiniteSet(N) /\ Cardinality(N) <= Cardinality(ran)
  <2> HIDE DEF given, N
  <2> QED
    BY <1>2, <1>6, FS_Surjection, Zenon
<1> HIDE DEF N
<1>8. TaskTypes'
  BY <1>3, <1>4, <1>5 DEF TaskTypes, watch
<1>9. \A k \in LeaseKeys : task'[k] = started \/ task'[k] = task[k]
  BY <1>4
<1>10. TaskShape'
  BY <1>5, <1>9 DEF Inv, TaskShape
<1>11. Guarded'
  <2> SUFFICES ASSUME NEW k \in LeaseKeys, task'[k].phase = "watching"
               PROVE  /\ k \in watched[task'[k].worker]
                      /\ k \in leases' \/ task'[k].worker \in dirty
    BY DEF Guarded, watch
  <2>1. task'[k] = task[k]
    BY <1>5, <1>9
  <2> QED
    BY <1>4, <2>1 DEF Inv, Guarded
<1>12. ASSUME NEW v \in Workers
       PROVE  Permits(v)' \in 0..LocalConcurrency
  <2>1. CASE v # w
    <3>1. Busy(v)' \subseteq Busy(v)
      BY <1>5, <1>9, <2>1 DEF Busy
    <3> QED
      BY <3>1, PermitsKept DEF Inv
  <2>2. CASE v = w
    <3>1. Busy(w)' \subseteq Busy(w) \cup N
      BY <1>4 DEF Busy
    <3>2. /\ IsFiniteSet(Busy(w)) /\ Cardinality(Busy(w)) \in Nat
          /\ Permits(w) = LocalConcurrency - Cardinality(Busy(w)) /\ LocalConcurrency \in Nat
      BY BusyFinite, ConstantsAssumption
    <3>3. /\ IsFiniteSet(Busy(w) \cup N)
          /\ Cardinality(Busy(w) \cup N)
               = Cardinality(Busy(w)) + Cardinality(N) - Cardinality(Busy(w) \cap N)
          /\ Cardinality(N) \in Nat /\ Cardinality(Busy(w) \cap N) \in Nat
      <4>1. IsFiniteSet(Busy(w) \cap N)
        BY <3>2, FS_Subset
      <4> QED
        BY <1>7, <3>2, <4>1, FS_Union, FS_CardinalityType, Zenon
    <3>4. IsFiniteSet(Busy(w)') /\ Cardinality(Busy(w)') <= Cardinality(Busy(w) \cup N)
      BY <3>1, <3>3, FS_Subset
    <3>5. Cardinality(Busy(w)') \in Nat
      BY <3>4, FS_CardinalityType
    <3>6. Permits(w)' = LocalConcurrency - Cardinality(Busy(w)')
      BY DEF Permits, Busy
    <3>7. Cardinality(Busy(w)) + Cardinality(N) <= LocalConcurrency
      BY <1>1, <1>2, <1>7, <3>2, <3>3
    <3>8. LocalConcurrency - Cardinality(Busy(w)') \in 0..LocalConcurrency
      BY <3>2, <3>3, <3>4, <3>5, <3>7
    <3> QED
      BY <2>2, <3>6, <3>8, Zenon
  <2> QED
    BY <2>1, <2>2
<1> QED
  BY <1>8, <1>10, <1>11, <1>12 DEF TasksOK

\* The leases of a poll are of jobs it popped, and it takes no lease's token away.
LEMMA PollLeases ==
    ASSUME Inv, NEW w, NEW batch, NEW s, NEW new, LoopInv(s, batch),
           Polled(w, s, new), UNCHANGED lane
    PROVE  /\ token' \in [Jobs -> Tokens \cup {None}]
           /\ leases' \subseteq LeaseKeys
           /\ LeaseIsOfActive'
<1> DEFINE ran == Range(s.popped)
           lost == UNION {active[l] \ s.active[l] : l \in Lanes}
<1>1. ran \subseteq Jobs
  BY LoopFields, ListFacts DEF LoopInv
<1>2. /\ token' = [j \in Jobs |-> IF j \in ran THEN new[j]
                                 ELSE IF j \in lost THEN None ELSE token[j]]
      /\ leases' = leases \cup {<<j, new[j]>> : j \in ran}
      /\ active' = s.active /\ new \in [ran -> Tokens]
  BY Zenon DEF Polled
<1>3. /\ \A j \in ran : lane[j] \in Lanes /\ j \in s.active[lane[j]]
      /\ \A k \in leases : k[1] \notin ran
      /\ \A k \in leases, l \in Lanes : lane[k[1]] = l => k[1] \in s.active[l]
  BY Zenon DEF LoopInv, LaneKept
<1>4. \A k \in leases : k[1] \notin lost
  <2> SUFFICES ASSUME NEW k \in leases, NEW l \in Lanes, k[1] \in active[l], k[1] \notin s.active[l]
               PROVE  FALSE
    BY Zenon
  <2>1. lane[k[1]] = l
    BY DEF Inv, InPlace, Members
  <2> QED
    BY <1>3, <2>1, Zenon
<1>5. token \in [Jobs -> Tokens \cup {None}] /\ leases \subseteq LeaseKeys
  BY Types DEF Inv
<1> HIDE DEF ran, lost
<1>6. token' \in [Jobs -> Tokens \cup {None}]
  BY <1>2, <1>5
<1>7. leases' \subseteq LeaseKeys
  BY <1>1, <1>2, <1>5 DEF LeaseKeys
<1>8. ASSUME NEW k \in leases
      PROVE  lane[k[1]] \in Lanes /\ k[1] \in active'[lane[k[1]]] /\ token'[k[1]] = k[2]
  <2>1. k[1] \in Jobs
    BY <1>5 DEF LeaseKeys
  <2>2. lane[k[1]] \in Lanes /\ token[k[1]] = k[2]
    BY DEF Inv, LeaseIsOfActive
  <2>3. token'[k[1]] = token[k[1]]
    BY <1>2, <1>3, <1>4, <2>1
  <2> QED
    BY <1>2, <1>3, <2>2, <2>3, Zenon
<1>9. ASSUME NEW j \in ran
      PROVE  lane[j] \in Lanes /\ j \in active'[lane[j]] /\ token'[j] = new[j]
  BY <1>1, <1>2, <1>3
<1>10. LeaseIsOfActive'
  <2> SUFFICES ASSUME NEW k \in leases'
               PROVE  lane[k[1]] \in Lanes /\ k[1] \in active'[lane[k[1]]] /\ token'[k[1]] = k[2]
    BY Zenon DEF LeaseIsOfActive
  <2>1. CASE k \in leases
    BY <1>8, <2>1, Zenon
  <2>2. ASSUME NEW j \in ran, k = <<j, new[j]>>
        PROVE  lane[k[1]] \in Lanes /\ k[1] \in active'[lane[k[1]]] /\ token'[k[1]] = k[2]
    <3>1. k[1] = j /\ k[2] = new[j]
      BY <2>2
    <3> QED
      BY <1>9, <3>1, Zenon
  <2> QED
    BY <1>2, <2>1, <2>2, Zenon
<1> QED
  BY <1>6, <1>7, <1>10

LEMMA PollKeeps ==
    ASSUME Inv, NEW w \in Workers, NEW batch \in Batches(w), PopBatchJobs(w, batch)
    PROVE  Inv'
<1>1. batch \in Nat /\ batch <= Permits(w) /\ UNCHANGED watch
  BY PollFacts
<1>2. PICK s, new : LoopInv(s, batch) /\ FairLoop(s) /\ Polled(w, s, new)
  BY PollFacts, Zenon
<1>3. /\ UNCHANGED <<data, lane, dedupe>>
      /\ finished' \cup cancels' \subseteq data
      /\ success' \in Seq(data) /\ failed' \in Seq(data)
  BY PollLists
<1>4. /\ pending' = s.pending /\ delayed' = s.delayed /\ active' = s.active
      /\ score' = s.score /\ front' \subseteq front
  BY <1>2 DEF Polled
<1>5. /\ pending' \in [Lanes -> Seq(Jobs)] /\ delayed' \in [Lanes -> SUBSET Jobs]
      /\ active' \in [Lanes -> SUBSET Jobs] /\ score' \in [Lanes -> 0..Now \cup {None}]
  BY <1>2, <1>4, LoopFields DEF LoopInv
<1>6. \A l \in Lanes : /\ Tidy(pending'[l], delayed'[l], active'[l])
                       /\ Members(l)' = Members(l)
                       /\ score'[l] = None => Members(l) = {}
  BY <1>2, <1>4, Zenon DEF LoopInv, LaneKept, Members
<1>7. TasksOK'
  BY <1>1, <1>2, PollTasks, Zenon
<1>8. token' \in [Jobs -> Tokens \cup {None}] /\ leases' \subseteq LeaseKeys /\ LeaseIsOfActive'
  BY <1>2, <1>3, PollLeases, Zenon
<1>9. TypeOK'
  <2>1. \A l \in Lanes : Members(l)' \subseteq data'
    BY <1>3, <1>6, Types, Zenon DEF Inv
  <2>2. front' \cup finished' \cup dedupe' \cup cancels' \subseteq data'
    <3>1. front \subseteq data /\ dedupe \subseteq data
      BY DEF Inv, TypeOK
    <3> QED
      BY <1>3, <1>4, <3>1
  <2>3. data' \subseteq Jobs /\ lane' \in [Jobs -> Lanes \cup {None}]
    BY <1>3, Types DEF Inv
  <2> QED
    BY <1>3, <1>5, <1>7, <1>8, <2>1, <2>2, <2>3, Zenon
    DEF TypeOK, Members, TasksOK, TaskTypes
<1>10. LanesWithJobsAreListed'
  <2> SUFFICES ASSUME NEW l \in Lanes, score'[l] = None
               PROVE  pending'[l] = << >> /\ delayed'[l] = {} /\ active'[l] = {}
    BY DEF LanesWithJobsAreListed
  <2>1. Members(l)' = {}
    BY <1>6
  <2>2. Range(pending'[l]) = {} /\ delayed'[l] = {} /\ active'[l] = {}
    BY <2>1 DEF Members
  <2> QED
    BY <1>5, <2>2, NoMembers, Zenon
<1>11. InPlace' /\ DataHasLane'
  BY <1>3, <1>6, Zenon DEF Inv, InPlace, DataHasLane
<1> QED
  BY <1>7, <1>8, <1>9, <1>10, <1>11 DEF Inv, TasksOK

-----------------------------------------------------------------------------
(* The invariant holds                                                     *)

LEMMA InitKeeps ==
    ASSUME Init
    PROVE  Inv
<1>1. ASSUME NEW w \in Workers PROVE Permits(w) \in 0..LocalConcurrency
  <2>1. Busy(w) = {}
    BY IdleFields, Constants DEF Init, Busy
  <2>2. Cardinality(Busy(w)) = 0
    BY <2>1, FS_EmptySet
  <2> QED
    BY <2>1, <2>2, BusyFinite, ConstantsAssumption
<1>2. Range(<< >>) = {} /\ IsInjective(<< >>) /\ \A T : << >> \in Seq(T)
  BY EmptyList
<1>3. \A l \in Lanes : pending[l] = << >> /\ delayed[l] = {} /\ active[l] = {} /\ Members(l) = {}
  BY <1>2 DEF Init, Members
<1>4. /\ pending \in [Lanes -> Seq(Jobs)] /\ delayed \in [Lanes -> SUBSET Jobs]
      /\ active \in [Lanes -> SUBSET Jobs] /\ score \in [Lanes -> 0..Now \cup {None}]
      /\ lane \in [Jobs -> Lanes \cup {None}] /\ token \in [Jobs -> Tokens \cup {None}]
      /\ watched \in [Workers -> SUBSET LeaseKeys] /\ dirty \subseteq Workers
  BY <1>2, Zenon DEF Init
<1>5. TypeOK
  <2>1. Idle \in [phase : Phases, worker : Workers \cup {None}]
    BY PhaseNames DEF Idle
  <2>2. task \in [LeaseKeys -> [phase : Phases, worker : Workers \cup {None}]]
    BY <2>1 DEF Init
  <2> QED
    BY <1>1, <1>2, <1>3, <1>4, <2>2, Zenon DEF Init, TypeOK, Members
<1>6. InPlace
  BY <1>2, <1>3 DEF InPlace, Tidy
<1>7. LanesWithJobsAreListed /\ DataHasLane /\ LeaseIsOfActive
  BY <1>3 DEF Init, LanesWithJobsAreListed, DataHasLane, LeaseIsOfActive
<1>8. TaskShape /\ Guarded
  BY IdleFields DEF Init, TaskShape, Guarded
<1> QED
  BY <1>5, <1>6, <1>7, <1>8 DEF Inv

LEMMA NextKeeps ==
    ASSUME Inv, [Next]_vars, [KeepsWatches]_vars
    PROVE  Inv'
<1>1. Quiet => TasksOK'
  BY TasksKeep DEF Inv
<1>2. CASE UNCHANGED vars
  <2>1. UNCHANGED <<places, data, meta, lists, leases>> /\ Quiet
    BY <1>2 DEF vars, Quiet
  <2> QED
    BY <1>1, <2>1, NothingMoves
<1>3. ASSUME NEW l \in Lanes, NEW j \in Jobs, NEW wait \in BOOLEAN,
             NEW position \in {"first", "last"}, PushToLane(l, j, wait, position)
      PROVE  Inv'
  <2>1. Quiet
    BY <1>3, Zenon DEF PushToLane, Quiet
  <2> QED
    BY <1>1, <1>3, <2>1, PushKeeps, Zenon
<1>4. ASSUME NEW j \in Jobs, CancelJob(j) PROVE Inv'
  <2>1. Quiet
    BY <1>4, Zenon DEF CancelJob, Quiet
  <2> QED
    BY <1>1, <1>4, <2>1, CancelKeeps, Zenon
<1>5. ASSUME NEW w \in Workers, NEW batch \in Batches(w), PopBatchJobs(w, batch)
      PROVE  Inv'
  BY <1>5, PollKeeps, Zenon
<1>6. ASSUME NEW w \in Workers, Crash(w) PROVE Inv'
  <2>1. UNCHANGED <<places, data, meta, lists, leases>> /\ Quiet
    BY <1>6, Zenon DEF Crash, Quiet
  <2> QED
    BY <1>1, <2>1, NothingMoves
<1>7. ASSUME NEW k \in LeaseKeys, TaskStep(k) \/ Expire(k) \/ TaskDies(k) \/ ExecLost(k)
      PROVE  Inv'
  <2>1. TasksOK'
    BY <1>1, <1>7, Zenon DEF Quiet
  <2>2. CASE \/ WatchLease(k) \/ LeaseGone(k) \/ ExecAborted(k)
             \/ TaskDies(k) \/ ExecLost(k)
    <3>1. UNCHANGED <<places, data, meta, lists, leases>>
      BY <2>2, Zenon DEF WatchLease, LeaseGone, ExecAborted, TaskDies, ExecLost
    <3> QED
      BY <2>1, <3>1, NothingMoves
  <2>3. CASE Committed(k)
    <3>1. PICK o : Settle(k, o) \/ GiveBack(k, o)
      BY <2>3, Zenon DEF Committed
    <3> QED
      BY <2>1, <3>1, SettleKeeps, GiveBackKeeps, Zenon
  <2>4. CASE PostSuccessCompletion(k) \/ PostFailCompletion(k)
    BY <2>1, <2>4, PruneKeeps, Zenon
  <2>5. CASE Expire(k)
    BY <2>1, <2>5, ExpireKeeps, Zenon
  <2> QED
    BY <1>7, <2>2, <2>3, <2>4, <2>5, Zenon DEF TaskStep
<1>8. CASE Tick
  <2>1. Quiet
    BY <1>8, Zenon DEF Tick, Quiet
  <2> QED
    BY <1>1, <1>8, <2>1, TickKeeps, Zenon
<1> QED
  BY <1>2, <1>3, <1>4, <1>5, <1>6, <1>7, <1>8, Zenon DEF Next

LEMMA MultilaneInvariant == Spec /\ WatchesAreKept => []Inv
<1>1. Init => Inv
  BY InitKeeps
<1>2. Inv /\ [Next]_vars /\ [KeepsWatches]_vars => Inv'
  BY NextKeeps
<1> QED
  BY <1>1, <1>2, PTL DEF Spec, WatchesAreKept

\* As long as no watch is dropped between a WATCH and its EXEC, every place of the
\* queue holds what it should: an id in a list, set or hash of a lane has data,
\* which no pruning takes away, and no poll hands out more jobs than there are
\* permits (pop_batch_jobs, post_success_completion).
THEOREM MultilaneTypes == Spec /\ WatchesAreKept => []TypeOK
<1>1. Inv => TypeOK
  BY DEF Inv
<1> QED
  BY <1>1, MultilaneInvariant, PTL

\* As long as no watch is dropped, a lane with a job in it is in the lanes set,
\* where a poll finds it, whatever pushes, nacks, cancellations and leases that
\* run out come between the polls.  (A late nack that finds its watch dropped
\* brings a job back to a lane that has left the set.)
THEOREM MultilaneListed == Spec /\ WatchesAreKept => []LanesWithJobsAreListed
<1>1. Inv => LanesWithJobsAreListed
  BY DEF Inv
<1> QED
  BY <1>1, MultilaneInvariant, PTL

\* How often an id is in a list that repeats none.
LEMMA Occurrences ==
    ASSUME NEW p \in Seq(Jobs), IsInjective(p), NEW j
    PROVE  Cardinality({i \in DOMAIN p : p[i] = j}) = IF j \in Range(p) THEN 1 ELSE 0
<1>1. CASE j \in Range(p)
  <2>1. PICK i \in DOMAIN p : p[i] = j
    BY <1>1 DEF Range
  <2>2. {x \in DOMAIN p : p[x] = j} = {i}
    BY <2>1 DEF IsInjective
  <2> QED
    BY <1>1, <2>2, FS_Singleton, Zenon
<1>2. CASE j \notin Range(p)
  <2>1. {i \in DOMAIN p : p[i] = j} = {}
    BY <1>2 DEF Range
  <2> QED
    BY <1>2, <2>1, FS_EmptySet, Zenon
<1> QED
  BY <1>1, <1>2

LEMMA MeetOne ==
    ASSUME NEW S, NEW j
    PROVE  Cardinality({j} \cap S) = IF j \in S THEN 1 ELSE 0
<1>1. CASE j \in S
  <2>1. {j} \cap S = {j}
    BY <1>1
  <2> QED
    BY <1>1, <2>1, FS_Singleton
<1>2. CASE j \notin S
  <2>1. {j} \cap S = {}
    BY <1>2
  <2> QED
    BY <1>2, <2>1, FS_EmptySet
<1> QED
  BY <1>1, <1>2

\* As long as no watch is dropped, an id is in at most one place, and in the lane
\* its meta hash names, where cancel_job and a completion look for it.
THEOREM MultilaneInLane == Spec /\ WatchesAreKept => []JobIsInItsLane
<1>1. Inv => JobIsInItsLane
  <2> SUFFICES ASSUME Inv, NEW l \in Lanes, NEW j \in Jobs
               PROVE  Places(j, l) <= IF lane[j] = l THEN 1 ELSE 0
    BY Zenon DEF JobIsInItsLane
  <2> DEFINE p == pending[l]
             d == delayed[l]
             a == active[l]
  <2>1. p \in Seq(Jobs)
    BY Types DEF Inv
  <2>2. /\ IsInjective(p) /\ ~(j \in Range(p) /\ j \in d)
        /\ ~(j \in Range(p) /\ j \in a) /\ ~(j \in d /\ j \in a)
        /\ j \in Range(p) \/ j \in d \/ j \in a => lane[j] = l
    BY DEF Inv, InPlace, Tidy, Members
  <2>3. Places(j, l) = (IF j \in Range(p) THEN 1 ELSE 0) + (IF j \in d THEN 1 ELSE 0)
                         + (IF j \in a THEN 1 ELSE 0)
    <3>1. Cardinality({i \in DOMAIN p : p[i] = j}) = IF j \in Range(p) THEN 1 ELSE 0
      BY <2>1, <2>2, Occurrences, Zenon
    <3>2. /\ Cardinality({j} \cap d) = IF j \in d THEN 1 ELSE 0
          /\ Cardinality({j} \cap a) = IF j \in a THEN 1 ELSE 0
      BY MeetOne, Zenon
    <3>3. Places(j, l) = Cardinality({i \in DOMAIN p : p[i] = j}) + Cardinality({j} \cap d)
                           + Cardinality({j} \cap a)
      BY DEF Places
    <3> QED
      BY <3>1, <3>2, <3>3, Zenon
  <2> HIDE DEF p, d, a
  <2> QED
    BY <2>2, <2>3
<1> QED
  BY <1>1, MultilaneInvariant, PTL

\* As long as no watch is dropped, a live lease is that of an active job and the
\* one its meta hash names, so that a job has one holder at most and every
\* completion under a lease finds its job where it looks.
THEOREM MultilaneLease ==
    Spec /\ WatchesAreKept =>
      [](LeaseIsOfActive /\ \A i, k \in leases : i[1] = k[1] => i = k)
<1>1. Inv => LeaseIsOfActive /\ \A i, k \in leases : i[1] = k[1] => i = k
  <2> SUFFICES ASSUME Inv, NEW i \in leases, NEW k \in leases, i[1] = k[1]
               PROVE  i = k
    BY DEF Inv
  <2>1. i[2] = k[2]
    BY DEF Inv, LeaseIsOfActive
  <2>2. i = <<i[1], i[2]>> /\ k = <<k[1], k[2]>>
    BY Types DEF Inv, LeaseKeys
  <2> QED
    BY <2>1, <2>2
<1> QED
  BY <1>1, MultilaneInvariant, PTL

\* A poll gives out one lease for each job it popped.
LEMMA LeasesOfLane ==
    ASSUME Inv, NEW batch, NEW s, NEW new, NEW w, LoopInv(s, batch), Polled(w, s, new), NEW l
    PROVE  Cardinality({k \in leases' \ leases : lane[k[1]] = l}) = InLane(s.popped, l)
<1> DEFINE S == {j \in Range(s.popped) : lane[j] = l}
           T == {k \in leases' \ leases : lane[k[1]] = l}
           f == [j \in S |-> <<j, new[j]>>]
<1>1. IsFiniteSet(S) /\ InLane(s.popped, l) = Cardinality(S)
  BY LoopFields, InLaneNat, Zenon DEF LoopInv, InLane
<1>2. leases' \ leases = {<<j, new[j]>> : j \in Range(s.popped)}
  <2>1. /\ leases' = leases \cup {<<j, new[j]>> : j \in Range(s.popped)}
        /\ \A j \in Range(s.popped) : <<j, new[j]>> \notin leases
    BY Zenon DEF Polled, FreshTokens
  <2> QED
    BY <2>1, Zenon
<1>3. T = {<<j, new[j]>> : j \in S}
  BY <1>2
<1> HIDE DEF T
<1>4. f \in Surjection(S, T) /\ f \in Injection(S, T)
  BY <1>3 DEF Surjection, Injection, IsInjective
<1>5. Cardinality(T) = Cardinality(S)
  <2> HIDE DEF f, S
  <2> QED
    BY <1>1, <1>4, FS_Surjection, Zenon
<1> QED
  BY <1>1, <1>5 DEF T

\* Only a poll gives out leases.
LEMMA OnlyPollsLease ==
    ASSUME [Next]_vars, leases' \ leases # {}
    PROVE  \E w \in Workers : \E batch \in Batches(w) : PopBatchJobs(w, batch)
<1>1. UNCHANGED vars \/ Tick => leases' \subseteq leases
  BY DEF vars, Tick
<1>2. \A l \in Lanes, j \in Jobs, wait \in BOOLEAN, position \in {"first", "last"} :
        PushToLane(l, j, wait, position) => leases' \subseteq leases
  BY Zenon DEF PushToLane
<1>3. \A k \in LeaseKeys :
        (Expire(k) \/ TaskDies(k) \/ ExecLost(k) \/ WatchLease(k) \/ LeaseGone(k)
           \/ ExecAborted(k)) => leases' \subseteq leases
  BY Zenon DEF Expire, TaskDies, ExecLost, WatchLease, LeaseGone, ExecAborted
<1>4. \A k \in LeaseKeys : Committed(k) => leases' \subseteq leases
  BY Zenon DEF Committed, Settle, GiveBack, Exec
<1>5. \A k \in LeaseKeys : TaskStep(k) => leases' \subseteq leases
  BY <1>3, <1>4, Zenon DEF TaskStep, PostSuccessCompletion, PostFailCompletion, Forget
<1>6. \A j \in Jobs : CancelJob(j) => leases' \subseteq leases
  BY Zenon DEF CancelJob
<1>7. \A w \in Workers : Crash(w) => leases' \subseteq leases
  BY Zenon DEF Crash
<1>8. ~(leases' \subseteq leases)
  OBVIOUS
<1> QED
  BY <1>1, <1>2, <1>3, <1>5, <1>6, <1>7, <1>8, Zenon DEF Next

\* As long as no watch is dropped, the poll is fair to the lanes: one that leaves
\* a job pending in a lane took at most one job more from any other lane
\* (pop_batch_jobs, step 2).
THEOREM MultilaneFair == Spec /\ WatchesAreKept => PollIsFair
<1> DEFINE Taken(l) == Cardinality({k \in leases' \ leases : lane[k[1]] = l})
           Fair == leases' \ leases # {} =>
                     \A a, b \in Lanes : pending'[b] # << >> => Taken(a) <= Taken(b) + 1
<1>1. ASSUME Inv, [Next]_vars
      PROVE  Fair
  <2> SUFFICES ASSUME leases' \ leases # {}, NEW a \in Lanes, NEW b \in Lanes,
                      pending'[b] # << >>
               PROVE  Taken(a) <= Taken(b) + 1
    OBVIOUS
  <2>w. PICK w \in Workers : \E batch \in Batches(w) : PopBatchJobs(w, batch)
    BY <1>1, OnlyPollsLease
  <2>1. PICK batch \in Batches(w) : PopBatchJobs(w, batch)
    BY <2>w
  <2>2. PICK s, new : LoopInv(s, batch) /\ FairLoop(s) /\ Polled(w, s, new)
    BY <1>1, <2>1, PollFacts, Zenon
  <2>3. Taken(a) = PoppedFrom(s, a) /\ Taken(b) = PoppedFrom(s, b)
    BY <1>1, <2>2, LeasesOfLane, Zenon DEF PoppedFrom
  <2>4. PoppedFrom(s, a) \in Nat /\ PoppedFrom(s, b) \in Nat
    BY <2>2, LoopFields, InLaneNat, Zenon DEF LoopInv, PoppedFrom
  <2> HIDE DEF Taken
  <2>5. s.ring \in Seq(Lanes) /\ b \in Range(s.ring)
    <3>1. pending' = s.pending
      BY <2>2 DEF Polled
    <3> QED
      BY <2>2, <3>1, LoopFields, Zenon DEF LoopInv, LaneKept
  <2>6. PICK y \in 1..Len(s.ring) : s.ring[y] = b
    BY <2>5, ListFacts DEF Range
  <2>7. CASE a \notin Range(s.ring)
    <3>1. PoppedFrom(s, a) <= PoppedFrom(s, b)
      BY <2>2, <2>6, <2>7, Zenon DEF FairLoop
    <3> QED
      BY <2>3, <2>4, <3>1
  <2>8. CASE a \in Range(s.ring)
    <3>1. PICK x \in 1..Len(s.ring) : s.ring[x] = a
      BY <2>5, <2>8, ListFacts DEF Range
    <3>2. Len(s.ring) \in Nat
      BY <2>5, ListFacts
    <3>3. x < y \/ x = y \/ y < x
      BY <3>2
    <3>4. \/ PoppedFrom(s, a) <= PoppedFrom(s, b) \/ a = b
          \/ PoppedFrom(s, a) <= PoppedFrom(s, b) + 1
      BY <2>2, <2>6, <3>1, <3>3, Zenon DEF FairLoop
    <3> QED
      BY <2>3, <2>4, <3>4
  <2> QED
    BY <2>7, <2>8
<1>2. Inv /\ [Next]_vars => [Fair]_vars
  BY <1>1, Zenon
<1>3. PollIsFair <=> [][Fair]_vars
  BY DEF PollIsFair
<1> HIDE DEF Fair
<1> QED
  BY <1>2, <1>3, MultilaneInvariant, PTL DEF Spec

-----------------------------------------------------------------------------
(* One permit                                                              *)

\* No two tasks of a worker at once.
LEMMA OneTask ==
    ASSUME Inv, LocalConcurrency = 1, Unreadable = {},
           NEW w \in Workers, NEW k \in LeaseKeys, NEW l \in LeaseKeys,
           task[k].worker = w, task[l].worker = w
    PROVE  k = l
<1>1. k \in Busy(w) /\ l \in Busy(w)
  BY DEF Busy
<1>2. Permits(w) \in 0..1
  BY DEF Inv, TypeOK
<1>3. /\ IsFiniteSet(Busy(w)) /\ Cardinality(Busy(w)) \in Nat
      /\ Permits(w) = 1 - Cardinality(Busy(w))
  BY BusyFinite
<1>4. Cardinality(Busy(w)) <= 1
  BY <1>2, <1>3
<1>5. ASSUME k # l PROVE FALSE
  <2>1. {k, l} \subseteq Busy(w)
    BY <1>1
  <2>2. Cardinality({k, l}) = 2
    <3>1. IsFiniteSet({l}) /\ Cardinality({l}) = 1
      BY FS_Singleton
    <3>2. Cardinality({l} \cup {k}) = Cardinality({l}) + 1
      BY <1>5, <3>1, FS_AddElement
    <3>3. {l} \cup {k} = {k, l}
      OBVIOUS
    <3> QED
      BY <3>1, <3>2, <3>3
  <2>3. Cardinality({k, l}) <= Cardinality(Busy(w))
    BY <1>3, <2>1, FS_Subset
  <2> QED
    BY <1>3, <1>4, <2>2, <2>3
<1> QED
  BY <1>5

\* A task that waits for EXEC waits alone, and so keeps its watch.
LEMMA OneTaskStep ==
    ASSUME Inv, LocalConcurrency = 1, Unreadable = {}, [Next]_vars
    PROVE  [KeepsWatches]_vars
<1> SUFFICES ASSUME NEW k \in LeaseKeys,
                    task[k].phase = "watching", task'[k].phase = "watching"
             PROVE  watched[task[k].worker] \subseteq watched'[task[k].worker]
  BY DEF KeepsWatches
<1> DEFINE w == task[k].worker
<1>1. w \in Workers /\ TypeOK
  BY IdleFields DEF Inv, TaskShape
<1>2. ASSUME NEW l \in LeaseKeys, task[l].phase # "idle", task[l].phase # "watching" \/ task'[l].phase # "watching"
      PROVE  task[l].worker # w
  BY <1>1, <1>2, OneTask
<1>3. ASSUME NEW v, Unwatch(v), v # w PROVE watched'[w] = watched[w]
  BY <1>1, <1>3, UnwatchFacts
<1>4. ASSUME UNCHANGED watched PROVE watched[w] \subseteq watched'[w]
  BY <1>4
<1> HIDE DEF w
<1>5. ASSUME NEW v \in Workers, Crash(v) PROVE v # w
  BY <1>5, IdleFields DEF Crash, w
<1>6. ASSUME NEW l \in LeaseKeys, NEW phase, phase # "watching", task[l].phase # "idle",
             Goto(l, phase), Unwatch(task[l].worker)
      PROVE  watched[w] \subseteq watched'[w]
  <2>1. task'[l].phase # "watching"
    BY <1>1, <1>6, GotoFacts
  <2> QED
    BY <1>2, <1>3, <1>6, <2>1
<1>7. ASSUME NEW l \in LeaseKeys, TaskStep(l) \/ ExecLost(l)
      PROVE  watched[w] \subseteq watched'[w]
  <2>1. CASE WatchLease(l)
    <3>1. watched' = [watched EXCEPT ![task[l].worker] = @ \cup {l}]
      BY <2>1 DEF WatchLease
    <3>2. watched \in [Workers -> SUBSET LeaseKeys]
      BY <1>1 DEF TypeOK
    <3> QED
      BY <1>1, <3>1, <3>2
  <2>2. CASE Committed(l)
    <3>1. PICK o : Exec(l, o)
      BY <2>2, Zenon DEF Committed, Settle, GiveBack
    <3>2. Goto(l, AfterCommit(o)) /\ Unwatch(task[l].worker) /\ task[l].phase # "idle"
      BY <3>1 DEF Exec
    <3>3. AfterCommit(o) # "watching"
      BY PhaseNames
    <3> QED
      BY <1>6, <3>2, <3>3
  <2>3. CASE LeaseGone(l) \/ ExecAborted(l) \/ ExecLost(l)
    <3>1. /\ Goto(l, "idle") \/ Goto(l, "running") \/ \E o : Goto(l, AfterCommit(o))
          /\ Unwatch(task[l].worker) /\ task[l].phase # "idle"
      BY <2>3, Zenon DEF LeaseGone, ExecLost, ExecAborted
    <3>2. \E phase : phase # "watching" /\ Goto(l, phase)
      BY <3>1, PhaseNames
    <3> QED
      BY <1>6, <3>1, <3>2
  <2>4. CASE PostSuccessCompletion(l) \/ PostFailCompletion(l)
    BY <1>4, <2>4 DEF PostSuccessCompletion, PostFailCompletion, Forget, watch
  <2> QED
    BY <1>7, <2>1, <2>2, <2>3, <2>4 DEF TaskStep
<1>8. ASSUME NEW l \in LeaseKeys, Expire(l) \/ TaskDies(l)
      PROVE  UNCHANGED watched
  BY <1>8 DEF Expire, TaskDies, watch
<1>9. /\ \A l \in Lanes, j \in Jobs, wait \in BOOLEAN, position \in {"first", "last"} :
            PushToLane(l, j, wait, position) => UNCHANGED watched
      /\ \A j \in Jobs : CancelJob(j) => UNCHANGED watched
      /\ \A v \in Workers : \A batch \in Batches(v) :
            PopBatchJobs(v, batch) => UNCHANGED watched
      /\ Tick \/ UNCHANGED vars => UNCHANGED watched
  BY Zenon DEF PushToLane, CancelJob, PopBatchJobs, Tick, vars, watch
<1>10. ASSUME NEW v \in Workers, Crash(v) PROVE watched[w] \subseteq watched'[w]
  BY <1>3, <1>5, <1>10 DEF Crash
<1>11. watched[w] \subseteq watched'[w]
  BY <1>4, <1>7, <1>8, <1>9, <1>10, Zenon DEF Next
<1> QED
  BY <1>11 DEF w

\* Workers that run one job at a time never drop a watch between a WATCH and its
\* EXEC (complete_job): for them the results above hold without an assumption.
THEOREM MultilaneOnePermit ==
    ASSUME LocalConcurrency = 1, Unreadable = {}
    PROVE  Spec => WatchesAreKept /\ []Inv
<1>1. Init => Inv
  BY InitKeeps
<1>2. Inv /\ [Next]_vars => [KeepsWatches]_vars
  BY OneTaskStep
<1>3. Inv /\ [Next]_vars /\ [KeepsWatches]_vars => Inv'
  BY NextKeeps
<1> QED
  BY <1>1, <1>2, <1>3, PTL DEF Spec, WatchesAreKept

=============================================================================
