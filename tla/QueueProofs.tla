---------------------------- MODULE QueueProofs ----------------------------
(***************************************************************************)
(* Proofs about Queue, for every value of its constants.                   *)
(*                                                                         *)
(* First, for the whole interface and every option: the types, that no     *)
(* job is lost and, as long as no watch is dropped before its EXEC, that   *)
(* a completion commits only under its lease.  Then the inductive          *)
(* invariant of the lease protocol, which is proved for CoreSpec: any      *)
(* number of jobs, workers, permits, payloads and tokens, every outcome,   *)
(* crashes, expired leases and lost connections.  Last, what a poll takes. *)
(***************************************************************************)
EXTENDS Queue, FiniteSetTheorems, TLAPS

\* Zenon first, which is quick on the many leaves without arithmetic.
USE ZenonT(8), SMTT(30)

-----------------------------------------------------------------------------
(* Sequences                                                               *)

\* What the provers know of sequences without being told how.
LEMMA SeqLen ==
    ASSUME NEW S, NEW s \in Seq(S)
    PROVE  Len(s) \in Nat /\ DOMAIN s = 1..Len(s) /\ s \in [1..Len(s) -> S]
OBVIOUS

LEMMA SeqOfFunctions == \A S : Seq(S) = UNION {[1..n -> S] : n \in Nat}
OBVIOUS

LEMMA SeqEmpty ==
    ASSUME NEW S
    PROVE  << >> \in Seq(S) /\ Len(<< >>) = 0 /\ \A s \in Seq(S) : s # << >> => Len(s) # 0
OBVIOUS

LEMMA SeqAppend ==
    ASSUME NEW S, NEW s \in Seq(S), NEW x \in S
    PROVE  LET t == Append(s, x) IN
           /\ t \in Seq(S) /\ t # << >> /\ Len(t) = Len(s) + 1
           /\ t[Len(s) + 1] = x /\ \A i \in 1..Len(s) : t[i] = s[i]
OBVIOUS

LEMMA SeqWiden == ASSUME NEW S, NEW T, NEW s \in Seq(S), S \subseteq T PROVE s \in Seq(T)
OBVIOUS

LEMMA SeqConcat ==
    ASSUME NEW S, NEW s \in Seq(S), NEW t \in Seq(S)
    PROVE  /\ s \o t \in Seq(S) /\ Len(s \o t) = Len(s) + Len(t)
           /\ \A i \in 1..(Len(s) + Len(t)) :
                (s \o t)[i] = IF i <= Len(s) THEN s[i] ELSE t[i - Len(s)]
OBVIOUS

LEMMA SeqConcatEmpty == ASSUME NEW S, NEW s \in Seq(S) PROVE s \o << >> = s /\ << >> \o s = s
OBVIOUS

LEMMA SeqSub ==
    ASSUME NEW S, NEW s, NEW m \in Int, NEW n \in Int, \A i \in m..n : s[i] \in S
    PROVE  LET t == SubSeq(s, m, n) IN
           /\ t \in Seq(S) /\ Len(t) = IF m <= n THEN n - m + 1 ELSE 0
           /\ \A i \in 1..(n - m + 1) : t[i] = s[m + i - 1]
OBVIOUS

LEMMA SeqAppendConcat == ASSUME NEW S, NEW s \in Seq(S), NEW x \in S PROVE Append(s, x) = s \o <<x>>
OBVIOUS

LEMMA RangeConcat ==
    ASSUME NEW S, NEW s \in Seq(S), NEW t \in Seq(S)
    PROVE  Range(s \o t) = Range(s) \cup Range(t)
<1> DEFINE n == Len(s)
           m == Len(t)
           u == s \o t
<1>1. n \in Nat /\ m \in Nat /\ DOMAIN s = 1..n /\ DOMAIN t = 1..m /\ DOMAIN u = 1..(n + m)
  OBVIOUS
<1>2. \A i \in 1..n : i \in DOMAIN u /\ u[i] = s[i]
  BY <1>1, SeqConcat
<1>3. \A i \in 1..m : n + i \in DOMAIN u /\ u[n + i] = t[i]
  BY <1>1, SeqConcat
<1>4. \A i \in 1..(n + m) : (i \in 1..n /\ u[i] = s[i]) \/ (i - n \in 1..m /\ u[i] = t[i - n])
  BY <1>1, SeqConcat
<1> HIDE DEF n, m, u
<1>5. \A x \in Range(u) : x \in Range(s) \cup Range(t)
  BY <1>1, <1>4, Zenon DEF Range
<1>6. \A x \in Range(s) \cup Range(t) : x \in Range(u)
  BY <1>1, <1>2, <1>3, Zenon DEF Range
<1>7. Range(u) = Range(s) \cup Range(t)
  BY <1>5, <1>6
<1> QED
  BY <1>7 DEF u

\* An order of a finite set of ids is a sequence that ranges over the set.
LEMMA OrdersRange ==
    ASSUME NEW T, NEW S \in SUBSET T, IsFiniteSet(S), NEW f \in Orders(S)
    PROVE  f \in Seq(T) /\ Range(f) = S
<1>1. Cardinality(S) \in Nat
  BY FS_CardinalityType
<1>2. f \in [1..Cardinality(S) -> S] /\ \A t \in S : \E i \in 1..Cardinality(S) : f[i] = t
  BY DEF Orders, Bijection, Injection, Surjection
<1>3. f \in Seq(S)
  BY <1>1, <1>2, SeqOfFunctions
<1>4. f \in Seq(T)
  BY <1>3, SeqWiden
<1>5. Range(f) = S
  BY <1>2 DEF Range
<1> QED
  BY <1>4, <1>5

\* LREM takes out every copy of an id and keeps every other id.
LEMMA WithoutRange ==
    ASSUME NEW T, NEW s \in Seq(T), NEW x, NEW r \in Without(s, x)
    PROVE  r \in Seq(T) /\ Range(r) = Range(s) \ {x}
<1> DEFINE kept == {i \in 1..Len(s) : s[i] # x}
<1>1. PICK f \in Orders(kept) : r = [i \in DOMAIN f |-> s[f[i]]]
  BY Zenon DEF Without
<1>2. IsFiniteSet(kept) /\ kept \in SUBSET (1..Len(s))
  <2>1. Len(s) \in Nat
    BY SeqLen
  <2>2. IsFiniteSet(1..Len(s))
    BY <2>1, FS_Interval
  <2>3. kept \in SUBSET (1..Len(s))
    OBVIOUS
  <2> QED
    BY <2>2, <2>3, FS_Subset
<1>3. f \in Seq(1..Len(s)) /\ Range(f) = kept
  BY <1>2, OrdersRange, Zenon
<1>4. Len(f) \in Nat /\ DOMAIN f = 1..Len(f) /\ f \in [1..Len(f) -> 1..Len(s)]
  BY <1>3, SeqLen
<1>5. s \in [1..Len(s) -> T] /\ DOMAIN s = 1..Len(s)
  BY SeqLen
<1>6. r \in [1..Len(f) -> T]
  BY <1>1, <1>4, <1>5
<1>7. r \in Seq(T)
  BY <1>4, <1>6, SeqOfFunctions
<1>8. Range(r) = {s[i] : i \in kept}
  <2>1. DOMAIN r = DOMAIN f /\ \A i \in DOMAIN f : r[i] = s[f[i]]
    BY <1>1
  <2>2. Range(r) = {s[f[i]] : i \in DOMAIN f}
    BY <2>1 DEF Range
  <2>3. kept = {f[i] : i \in DOMAIN f}
    BY <1>3 DEF Range
  <2> QED
    BY <2>2, <2>3
<1>9. Range(s) \ {x} = {s[i] : i \in kept}
  BY <1>5 DEF Range
<1> QED
  BY <1>7, <1>8, <1>9

\* LPUSH and RPUSH add one id.
LEMMA ConsRange ==
    ASSUME NEW T, NEW s \in Seq(T), NEW x \in T
    PROVE  Range(<<x>> \o s) = Range(s) \cup {x}
<1> DEFINE one == <<x>>
<1>1. one \in Seq(T) /\ Range(one) = {x}
  BY DEF Range
<1>2. Range(one \o s) = Range(one) \cup Range(s)
  <2> HIDE DEF one
  <2> QED
    BY <1>1, RangeConcat
<1> QED
  BY <1>1, <1>2

LEMMA AppendRange ==
    ASSUME NEW T, NEW s \in Seq(T), NEW x \in T
    PROVE  Range(Append(s, x)) = Range(s) \cup {x}
<1> DEFINE one == <<x>>
<1>1. one \in Seq(T) /\ Range(one) = {x}
  BY DEF Range
<1>2. Append(s, x) = s \o one
  BY SeqAppendConcat
<1>3. Range(s \o one) = Range(s) \cup Range(one)
  <2> HIDE DEF one
  <2> QED
    BY <1>1, RangeConcat
<1> QED
  BY <1>1, <1>2, <1>3

\* Cutting a sequence in two loses nothing.
LEMMA CutRange ==
    ASSUME NEW T, NEW s \in Seq(T), NEW k \in 0..Len(s)
    PROVE  /\ SubSeq(s, 1, k) \in Seq(T)
           /\ SubSeq(s, k + 1, Len(s)) \in Seq(T)
           /\ DOMAIN SubSeq(s, 1, k) = 1..k
           /\ Range(s) = Range(SubSeq(s, 1, k)) \cup Range(SubSeq(s, k + 1, Len(s)))
<1>1. Len(s) \in Nat /\ s \in [1..Len(s) -> T]
  BY SeqLen
<1>2. SubSeq(s, 1, k) \in Seq(T) /\ SubSeq(s, k + 1, Len(s)) \in Seq(T)
  BY <1>1, SeqSub
<1>3. Len(SubSeq(s, 1, k)) = k
  BY <1>1, SeqSub
<1>4. DOMAIN SubSeq(s, 1, k) = 1..k
  BY <1>2, <1>3, SeqLen
<1>5. Len(SubSeq(s, k + 1, Len(s))) = Len(s) - k
  <2>1. \A i \in (k + 1)..Len(s) : s[i] \in T
    BY <1>1
  <2>2. Len(SubSeq(s, k + 1, Len(s)))
          = IF k + 1 <= Len(s) THEN Len(s) - (k + 1) + 1 ELSE 0
    BY <1>1, <2>1, SeqSub
  <2>3. ASSUME NEW m \in Nat, NEW n \in 0..m
        PROVE  (IF n + 1 <= m THEN m - (n + 1) + 1 ELSE 0) = m - n
    OBVIOUS
  <2> QED
    BY <1>1, <2>2, <2>3, Zenon
<1>6. /\ \A i \in 1..k : SubSeq(s, 1, k)[i] = s[i]
      /\ \A i \in 1..(Len(s) - k) : SubSeq(s, k + 1, Len(s))[i] = s[k + i]
  BY <1>1, SeqSub
<1>7. DOMAIN SubSeq(s, k + 1, Len(s)) = 1..(Len(s) - k)
  BY <1>2, <1>5, SeqLen
<1>8. ASSUME NEW e
      PROVE  e \in Range(s) <=> \/ e \in Range(SubSeq(s, 1, k))
                               \/ e \in Range(SubSeq(s, k + 1, Len(s)))
  <2>1. e \in Range(s) <=> \E i \in 1..Len(s) : e = s[i]
    BY <1>1 DEF Range
  <2>2. e \in Range(SubSeq(s, 1, k)) <=> \E i \in 1..k : e = s[i]
    BY <1>4, <1>6, Zenon DEF Range
  <2>3. e \in Range(SubSeq(s, k + 1, Len(s)))
          <=> \E i \in 1..(Len(s) - k) : e = s[k + i]
    BY <1>6, <1>7, Zenon DEF Range
  <2>4. ASSUME NEW i \in 1..Len(s), ~(i \in 1..k)
        PROVE  i - k \in 1..(Len(s) - k) /\ k + (i - k) = i
    BY <1>1, <2>4
  <2>5. \A i \in 1..(Len(s) - k) : k + i \in 1..Len(s)
    BY <1>1
  <2>6. \A i \in 1..k : i \in 1..Len(s)
    BY <1>1
  <2> QED
    BY <2>1, <2>2, <2>3, <2>4, <2>5, <2>6
<1> QED
  BY <1>2, <1>4, <1>8

\* A set of positions of a sequence has a last one.
LEMMA MaxExists ==
    ASSUME NEW n \in Nat, NEW S \in SUBSET (1..n), S # {}
    PROVE  \E m \in S : \A k \in S : k <= m
<1> DEFINE less == OpToRel(<, Nat)
           gaps == {n - i : i \in S}
<1>1. IsWellFoundedOn(less, Nat)
  BY NatLessThanWellFounded, Zenon
<1>2. gaps \subseteq Nat /\ gaps # {}
  <2>1. \A i \in S : n - i \in Nat
    OBVIOUS
  <2> QED
    BY <2>1, Zenon
<1>3. PICK g \in gaps : \A h \in gaps : ~(<<h, g>> \in less)
  <2> HIDE DEF less, gaps
  <2> QED
    BY <1>1, <1>2, WFMin, Zenon
<1>4. \A h \in gaps : ~(h < g)
  BY <1>2, <1>3, Zenon DEF OpToRel
<1>5. PICK m \in S : g = n - m
  OBVIOUS
<1>6. ASSUME NEW k \in S PROVE k <= m
  <2>1. n - k \in gaps
    OBVIOUS
  <2>2. ~(n - k < n - m)
    BY <1>4, <1>5, <2>1
  <2> QED
    BY <2>2
<1> QED
  BY <1>6

-----------------------------------------------------------------------------
(* Type correctness                                                        *)

\* What the prover needs to know of the constants.
LEMMA Constants ==
    /\ IsFiniteSet(Jobs)
    /\ Outcomes \subseteq AllOutcomes
    /\ MaxSuccess \in Nat
    /\ MaxFailed \in Nat
    /\ MaxJobErrors \in Nat
  BY ConstantsAssumption

\* Tasks are built from a phase, a worker, a payload and an outcome.
LEMMA TaskType ==
    ASSUME NEW phase \in Phases, NEW w \in Workers \cup {None},
           NEW d \in Data \cup {None}, NEW o \in Outcomes \cup {Fail, None}
    PROVE  Task(phase, w, d, o) \in Tasks
  BY DEF Task, Tasks

LEMMA IdleTaskType == IdleTask \in Tasks
  BY TaskType DEF IdleTask, Phases

LEMMA TaskFields ==
    ASSUME NEW t \in Tasks
    PROVE  /\ t.phase \in Phases
           /\ t.worker \in Workers \cup {None}
           /\ t.data \in Data \cup {None}
           /\ t.outcome \in Outcomes \cup {Fail, None}
  BY DEF Tasks

\* A task that moves to another phase is still a task.
LEMMA GotoType ==
    ASSUME TypeOK, NEW l \in LeaseKeys, NEW phase \in Phases, Goto(l, phase)
    PROVE  task' \in [LeaseKeys -> Tasks]
<1>1. task \in [LeaseKeys -> Tasks]
  BY DEF TypeOK
<1>2. Task(phase, task[l].worker, task[l].data, task[l].outcome) \in Tasks
  BY <1>1, TaskFields, TaskType, Zenon
<1> QED
  BY <1>1, <1>2, IdleTaskType DEF Goto

LEMMA AfterCommitType ==
    ASSUME NEW l
    PROVE  AfterCommit(l) \in Phases
  BY DEF AfterCommit, Phases

\* Dropping the watches of any connection keeps the watch state well typed.
LEMMA UnwatchType ==
    ASSUME TypeOK, NEW w, Unwatch(w)
    PROVE  watched' \in [Workers -> SUBSET LeaseKeys] /\ dirty' \subseteq Workers
  BY Zenon DEF TypeOK, Unwatch

\* Trimming a list keeps it a list of ids, and what is trimmed are ids.
LEMMA TrimType ==
    ASSUME NEW T, NEW s \in Seq(T), NEW max \in Nat
    PROVE  Trim(s, max) \in Seq(T) /\ Surplus(s, max) \subseteq T
<1>1. Len(s) \in Nat /\ s \in [1..Len(s) -> T]
  BY SeqLen
<1>2. Surplus(s, max) \subseteq T
  BY <1>1 DEF Surplus
<1>3. CASE max = 0 \/ Len(s) <= max
  BY <1>2, <1>3 DEF Trim
<1>4. CASE ~(max = 0 \/ Len(s) <= max)
  <2>1. \A i \in 1..max : s[i] \in T
    BY <1>1, <1>4
  <2>2. SubSeq(s, 1, max) \in Seq(T)
    BY <2>1, SeqSub
  <2> QED
    BY <1>2, <1>4, <2>2 DEF Trim
<1> QED
  BY <1>3, <1>4

\* The copies of an id among the popped ids are positions of the batch.
LEMMA CopiesFinite ==
    ASSUME NEW popped \in Seq(Jobs), NEW j
    PROVE  /\ Cardinality(Copies(j, popped)) \in Nat
           /\ Copies(j, popped) # {} => LastCopy(j, popped) \in Copies(j, popped)
<1>1. Len(popped) \in Nat /\ DOMAIN popped = 1..Len(popped)
  BY SeqLen
<1>2. Copies(j, popped) \in SUBSET (1..Len(popped))
  BY <1>1 DEF Copies, Borrowed
<1>3. IsFiniteSet(1..Len(popped))
  BY <1>1, FS_Interval
<1>4. IsFiniteSet(Copies(j, popped))
  BY <1>2, <1>3, FS_Subset
<1>5. Cardinality(Copies(j, popped)) \in Nat
  BY <1>4, FS_CardinalityType
<1>6. ASSUME Copies(j, popped) # {}
      PROVE  LastCopy(j, popped) \in Copies(j, popped)
  <2>1. \E i \in Copies(j, popped) : \A k \in Copies(j, popped) : k <= i
    BY <1>1, <1>2, <1>6, MaxExists, Zenon
  <2> QED
    BY <2>1 DEF LastCopy
<1> QED
  BY <1>5, <1>6

LEMMA AttemptsAfterPopType ==
    ASSUME TypeOK, NEW popped \in Seq(Jobs)
    PROVE  AttemptsAfterPop(popped) \in [Jobs -> Int]
<1>1. \A j \in Jobs : Cardinality(Copies(j, popped)) \in Nat
  BY CopiesFinite
<1>2. attempts \in [Jobs -> Int]
  BY DEF TypeOK
<1> QED
  BY <1>1, <1>2 DEF AttemptsAfterPop

LEMMA TokenAfterPopType ==
    ASSUME TypeOK, NEW popped \in Seq(Jobs),
           NEW new \in [Borrowed(popped) -> Tokens]
    PROVE  TokenAfterPop(popped, new) \in [Jobs -> Tokens \cup {None}]
<1>1. ASSUME NEW j \in Jobs, Copies(j, popped) # {}
      PROVE  new[LastCopy(j, popped)] \in Tokens
  <2>1. LastCopy(j, popped) \in Borrowed(popped)
    BY <1>1, CopiesFinite, Zenon DEF Copies
  <2> QED
    BY <2>1
<1>2. token \in [Jobs -> Tokens \cup {None}]
  BY DEF TypeOK
<1> QED
  BY <1>1, <1>2 DEF TokenAfterPop

\* Step 4 of the poll: what it leaves is well typed, and every id that was in
\* the pending list or still active is in one of the two afterwards, unless it
\* has no data.
LEMMA TakeBatchFacts ==
    ASSUME TypeOK, NEW w \in Workers, NEW queued \in Seq(Jobs),
           NEW batch \in Nat, TakeBatch(w, queued, batch)
    PROVE  /\ pending' \in Seq(Jobs)
           /\ active' \subseteq Jobs
           /\ deferred' \subseteq Jobs
           /\ retrying' \subseteq Jobs
           /\ attempts' \in [Jobs -> Int]
           /\ token' \in [Jobs -> Tokens \cup {None}]
           /\ leases' \subseteq LeaseKeys
           /\ task' \in [LeaseKeys -> Tasks]
           /\ \A j \in Range(queued) \cup (active \ TimedOut) :
                data[j] # None => j \in Range(pending') \cup active'
<1> DEFINE k      == IF batch <= Len(queued) THEN batch ELSE Len(queued)
           popped == SubSeq(queued, 1, k)
           ran    == {popped[i] : i \in Borrowed(popped)}
<1>1. Len(queued) \in Nat
  BY SeqLen
<1>2. k \in 0..Len(queued)
  BY <1>1
<1>3. /\ pending' = SubSeq(queued, k + 1, Len(queued))
      /\ active' = (active \ TimedOut) \cup ran
      /\ deferred' = deferred \ ran
      /\ retrying' = retrying \ ran
      /\ attempts' = AttemptsAfterPop(popped)
  BY DEF TakeBatch
<1>4. PICK new \in [Borrowed(popped) -> Tokens] :
        /\ token' = TokenAfterPop(popped, new)
        /\ leases' = leases \cup {<<popped[i], new[i]>> : i \in Borrowed(popped)}
        /\ task' = [l \in LeaseKeys |->
                     IF l \in {<<popped[i], new[i]>> : i \in Borrowed(popped)}
                     THEN NewTask(w, l[1]) ELSE task[l]]
  BY Zenon DEF TakeBatch
<1> HIDE DEF k
<1>5. /\ popped \in Seq(Jobs)
      /\ SubSeq(queued, k + 1, Len(queued)) \in Seq(Jobs)
      /\ Range(queued) = Range(popped) \cup Range(SubSeq(queued, k + 1, Len(queued)))
  BY <1>2, CutRange
<1> HIDE DEF popped
<1>6. /\ Borrowed(popped) \subseteq DOMAIN popped
      /\ \A i \in DOMAIN popped : popped[i] \in Jobs
      /\ Range(popped) = {popped[i] : i \in DOMAIN popped}
  BY <1>5, SeqLen DEF Borrowed, Range
<1>7. ran \subseteq Jobs
  BY <1>6
<1>8. attempts' \in [Jobs -> Int]
  BY <1>3, <1>5, AttemptsAfterPopType
<1>9. token' \in [Jobs -> Tokens \cup {None}]
  BY <1>4, <1>5, TokenAfterPopType
<1>10. leases' \subseteq LeaseKeys
  BY <1>4, <1>6 DEF TypeOK, LeaseKeys
<1>11. task' \in [LeaseKeys -> Tasks]
  <2>1. ASSUME NEW j \in Jobs
        PROVE  NewTask(w, j) \in Tasks
    <3>1. data[j] \in Data \cup {None}
      BY DEF TypeOK
    <3>2. {"done", "running"} \subseteq Phases
      BY DEF Phases
    <3> QED
      BY <3>1, <3>2, TaskType, Zenon DEF NewTask
  <2>2. \A l \in LeaseKeys : l[1] \in Jobs /\ task[l] \in Tasks
    BY DEF LeaseKeys, TypeOK
  <2> QED
    BY <1>4, <2>1, <2>2
<1>12. ASSUME NEW j \in Range(queued) \cup (active \ TimedOut), data[j] # None
       PROVE  j \in Range(pending') \cup active'
  <2>1. CASE j \in Range(popped)
    <3>1. PICK i \in DOMAIN popped : j = popped[i]
      BY <1>6, <2>1
    <3>2. i \in Borrowed(popped)
      BY <1>12, <3>1 DEF Borrowed
    <3> QED
      BY <1>3, <3>1, <3>2
  <2>2. CASE j \notin Range(popped)
    BY <1>3, <1>5, <1>12, <2>2
  <2> QED
    BY <2>1, <2>2
<1> QED
  BY <1>3, <1>5, <1>7, <1>8, <1>9, <1>10, <1>11, <1>12 DEF TypeOK

\* The list that a poll pops from.
LEMMA RequeuedFacts ==
    ASSUME TypeOK, NEW due \in SUBSET delayed,
           NEW first \in Orders(due \cap front), NEW last \in Orders(due \ front),
           NEW back \in Orders(TimedOut)
    PROVE  /\ Requeued(first, back, last) \in Seq(Jobs)
           /\ due \cup TimedOut \cup Range(pending) \subseteq Range(Requeued(first, back, last))
<1>1. /\ due \cap front \in SUBSET Jobs
      /\ due \ front \in SUBSET Jobs
      /\ TimedOut \in SUBSET Jobs
      /\ pending \in Seq(Jobs)
  BY DEF TypeOK, TimedOut
<1>2. IsFiniteSet(due \cap front) /\ IsFiniteSet(due \ front) /\ IsFiniteSet(TimedOut)
  BY <1>1, Constants, FS_Subset
<1>3. /\ first \in Seq(Jobs) /\ Range(first) = due \cap front
      /\ last \in Seq(Jobs) /\ Range(last) = due \ front
      /\ back \in Seq(Jobs) /\ Range(back) = TimedOut
  BY <1>1, <1>2, OrdersRange
<1> DEFINE a == first \o back
           b == a \o pending
<1>4. a \in Seq(Jobs) /\ Range(a) = (due \cap front) \cup TimedOut
  BY <1>3, SeqConcat, RangeConcat
<1>5. b \in Seq(Jobs) /\ Range(b) = Range(a) \cup Range(pending)
  <2> HIDE DEF a
  <2> QED
    BY <1>1, <1>4, SeqConcat, RangeConcat
<1>6. b \o last \in Seq(Jobs) /\ Range(b \o last) = Range(b) \cup Range(last)
  <2> HIDE DEF b
  <2> QED
    BY <1>3, <1>5, SeqConcat, RangeConcat
<1>7. Requeued(first, back, last) = b \o last
  BY DEF Requeued
<1> HIDE DEF b, a
<1> QED
  BY <1>3, <1>4, <1>5, <1>6, <1>7

\* The whole poll keeps the types, and every id that was queued and has data
\* is queued afterwards.
LEMMA PollFacts ==
    ASSUME TypeOK, NEW w \in Workers, PopBatchJobs(w)
    PROVE  TypeOK' /\ \A j \in Jobs : Queued(j) /\ data[j] # None => Queued(j)'
<1>1. /\ failed' \in Seq(Jobs)
      /\ finished' \subseteq Jobs
      /\ cancels' \subseteq Jobs
  <2>1. PICK late \in Orders(CancelledLate) : failed' = late \o failed
    BY DEF PopBatchJobs
  <2>2. CancelledLate \in SUBSET Jobs
    BY DEF TypeOK, CancelledLate, Settled
  <2>3. IsFiniteSet(CancelledLate)
    BY <2>2, Constants, FS_Subset
  <2>4. late \in Seq(Jobs)
    BY <2>2, <2>3, OrdersRange
  <2>5. failed' \in Seq(Jobs)
    BY <2>1, <2>4, SeqConcat DEF TypeOK
  <2> QED
    BY <2>2, <2>5 DEF PopBatchJobs, TypeOK
<1>2. PICK batch \in (IF AlwaysPoll THEN 0 ELSE 1)..Permits(w), due \in SUBSET delayed :
        /\ delayed' = delayed \ due
        /\ front' = front \ due
        /\ \E first \in Orders(due \cap front), last \in Orders(due \ front),
             back \in Orders(TimedOut) :
               TakeBatch(w, Requeued(first, back, last), batch)
  BY Zenon DEF PopBatchJobs
<1>3. PICK first \in Orders(due \cap front), last \in Orders(due \ front),
           back \in Orders(TimedOut) :
             TakeBatch(w, Requeued(first, back, last), batch)
  BY <1>2
<1> DEFINE queued == Requeued(first, back, last)
<1>4. batch \in Nat
  BY <1>2
<1>5. /\ queued \in Seq(Jobs)
      /\ due \cup TimedOut \cup Range(pending) \subseteq Range(queued)
  BY RequeuedFacts
<1> HIDE DEF queued
<1>6. TakeBatch(w, queued, batch)
  BY <1>3 DEF queued
<1>7. TypeOK'
  BY <1>1, <1>2, <1>4, <1>5, <1>6, TakeBatchFacts DEF TypeOK, PopBatchJobs, watch
<1>8. ASSUME NEW j \in Jobs, Queued(j), data[j] # None
      PROVE  Queued(j)'
  <2>1. \A x \in Range(queued) \cup (active \ TimedOut) :
          data[x] # None => x \in Range(pending') \cup active'
    BY <1>4, <1>5, <1>6, TakeBatchFacts
  <2> QED
    BY <1>2, <1>5, <1>8, <2>1 DEF Queued
<1> QED
  BY <1>7, <1>8

\* Every step keeps every variable in its type.
LEMMA TypeStep ==
    ASSUME TypeOK, [Next]_vars
    PROVE  TypeOK'
<1>1. ASSUME NEW j \in Jobs, NEW d \in Data, NEW wait \in BOOLEAN,
             NEW position \in Positions, Push(j, d, wait, position)
      PROVE  TypeOK'
  <2>1. Append(pending, j) \in Seq(Jobs)
    BY SeqAppend DEF TypeOK
  <2>2. front' \subseteq Jobs
    BY <1>1 DEF TypeOK, Push, Reenter
  <2> QED
    BY <1>1, <2>1, <2>2 DEF TypeOK, Push, watch
<1>2. ASSUME NEW j \in Jobs, NEW d \in Data, TryReplacePendingData(j, d)
      PROVE  TypeOK'
  BY <1>2 DEF TypeOK, TryReplacePendingData, meta, watch
<1>3. ASSUME NEW j \in Jobs, CancelJob(j)
      PROVE  TypeOK'
  <2>1. <<j>> \o failed \in Seq(Jobs)
    BY SeqConcat DEF TypeOK
  <2>2. \A s \in Without(pending, j) : s \in Seq(Jobs)
    BY WithoutRange DEF TypeOK
  <2> QED
    BY <1>3, <2>1, <2>2, Zenon DEF TypeOK, CancelJob, watch
<1>4. ASSUME NEW j \in Jobs, RemoveFromDedupeSet(j)
      PROVE  TypeOK'
  BY <1>4 DEF TypeOK, RemoveFromDedupeSet, meta, watch
<1>5. CASE EmptyDedupeSet
  BY <1>5 DEF TypeOK, EmptyDedupeSet, meta, watch
<1>6. ASSUME NEW w \in Workers, WorkerStep(w)
      PROVE  TypeOK'
  <2>1. CASE PopBatchJobs(w)
    BY <2>1, PollFacts
  <2>2. CASE Crash(w)
    BY <2>2, UnwatchType, IdleTaskType DEF TypeOK, Crash, store, meta
  <2>3. CASE Shutdown(w)
    BY <2>3 DEF TypeOK, Shutdown, store, meta, watch
  <2>4. CASE WorkReturns(w)
    BY <2>4 DEF TypeOK, WorkReturns, store, meta, watch
  <2> QED
    BY <1>6, <2>1, <2>2, <2>3, <2>4 DEF WorkerStep
<1>7. ASSUME NEW w \in Workers, Reconnect(w)
      PROVE  TypeOK'
  BY <1>7, UnwatchType DEF TypeOK, Reconnect, store, meta
<1>8. ASSUME NEW l \in LeaseKeys, TaskStep(l)
      PROVE  TypeOK'
  <2> DEFINE j == l[1]
  <2>1. /\ j \in Jobs
        /\ {"idle", "done", "watching", "prune"} \subseteq Phases
        /\ AfterCommit(l) \in Phases
    BY AfterCommitType DEF LeaseKeys, Phases
  <2>2. <<j>> \o pending \in Seq(Jobs) /\ <<j>> \o success \in Seq(Jobs)
          /\ <<j>> \o failed \in Seq(Jobs) /\ Append(pending, j) \in Seq(Jobs)
    BY <2>1, SeqConcat, SeqAppend DEF TypeOK
  <2>3. ASSUME NEW kind, Exec(l, kind)
        PROVE  /\ task' \in [LeaseKeys -> Tasks]
               /\ watched' \in [Workers -> SUBSET LeaseKeys]
               /\ dirty' \subseteq Workers
               /\ leases' \subseteq LeaseKeys
               /\ active' \subseteq Jobs
               /\ token' \in [Jobs -> Tokens \cup {None}]
               /\ mode' = mode
    BY <2>1, <2>3, GotoType, UnwatchType DEF TypeOK, Exec
  <2>4. \A n \in Nat : AddErrorRecord(n) \in Nat
    BY Constants DEF AddErrorRecord
  <2>5. ASSUME NEW position
        PROVE  Reenter(j, position) \subseteq Jobs
    BY <2>1 DEF TypeOK, Reenter
  <2>6. ASSUME NEW gone, Forget(gone)
        PROVE  /\ dedupe' \subseteq Jobs
               /\ data' \in [Jobs -> Data \cup {None}]
               /\ created' \subseteq Jobs /\ finished' \subseteq Jobs
               /\ deferred' \subseteq Jobs /\ retrying' \subseteq Jobs
               /\ front' \subseteq Jobs
               /\ attempts' \in [Jobs -> Int]
               /\ token' \in [Jobs -> Tokens \cup {None}]
               /\ errors' \in [Jobs -> Nat]
               /\ UNCHANGED <<pending, delayed, active, cancels, leases, watched,
                              dirty, mode>>
    BY <2>6 DEF TypeOK, Forget, watch
  <2>7. Trim(success, MaxSuccess) \in Seq(Jobs) /\ Trim(failed, MaxFailed) \in Seq(Jobs)
    BY Constants, TrimType, Zenon DEF TypeOK
  <2> HIDE DEF j
  <2>8. ASSUME NEW outcome \in Outcomes, HandlerReturns(l, outcome)
        PROVE  TypeOK'
    <3>1. Task("done", task[l].worker, task[l].data, outcome) \in Tasks
      BY <2>1, TaskFields, TaskType, Zenon DEF TypeOK
    <3> QED
      BY <2>8, <3>1 DEF TypeOK, HandlerReturns, store, meta, watch
  <2>9. CASE WatchLease(l)
    BY <2>1, <2>9, GotoType, Zenon DEF TypeOK, WatchLease, store, meta
  <2>10. CASE LeaseGone(l)
    BY <2>1, <2>10, GotoType, UnwatchType DEF TypeOK, LeaseGone, store, meta
  <2>11. CASE CommitSuccess(l)
    BY <2>1, <2>2, <2>3, <2>11 DEF TypeOK, CommitSuccess, DedupeAfter, j
  <2>12. CASE CommitFail(l)
    BY <2>1, <2>2, <2>3, <2>4, <2>12, Zenon DEF TypeOK, CommitFail, DedupeAfter, j
  <2>13. CASE CommitNack(l)
    BY <2>1, <2>2, <2>3, <2>4, <2>5, <2>13, Zenon DEF TypeOK, CommitNack, j
  <2>14. CASE CommitDefer(l)
    BY <2>1, <2>3, <2>5, <2>14 DEF TypeOK, CommitDefer, j
  <2>15. CASE ExecAborted(l)
    BY <2>1, <2>15, GotoType, UnwatchType DEF TypeOK, ExecAborted, store, meta
  <2>16. CASE PostSuccessCompletion(l)
    BY <2>1, <2>6, <2>7, <2>16, GotoType, Zenon DEF TypeOK, PostSuccessCompletion
  <2>17. CASE PostFailCompletion(l)
    BY <2>1, <2>6, <2>7, <2>17, GotoType, Zenon DEF TypeOK, PostFailCompletion
  <2>18. CASE Expire(l)
    BY <2>18 DEF TypeOK, Expire, store, meta
  <2>19. CASE TaskDies(l)
    BY <2>1, <2>19, GotoType DEF TypeOK, TaskDies, store, meta, watch
  <2>20. CASE ExecLost(l)
    BY <2>1, <2>20, GotoType, UnwatchType DEF TypeOK, ExecLost, store, meta
  <2> QED
    BY <1>8, <2>8, <2>9, <2>10, <2>11, <2>12, <2>13, <2>14, <2>15, <2>16, <2>17,
       <2>18, <2>19, <2>20 DEF TaskStep, CompletionStep, Committed
<1>9. ASSUME NEW j \in Jobs, NEW d \in Data, NEW wait \in BOOLEAN,
             NEW position \in Positions, QueueJob(j, d, wait, position)
      PROVE  TypeOK'
  <2>1. Append(pending, j) \in Seq(Jobs)
    BY SeqAppend DEF TypeOK
  <2>2. front' \subseteq Jobs
    BY <1>9 DEF TypeOK, QueueJob, Reenter
  <2> QED
    BY <1>9, <2>1, <2>2 DEF TypeOK, QueueJob, watch
<1>10. CASE UNCHANGED vars
  BY <1>10 DEF TypeOK, vars, store, meta, watch
<1> QED
  BY <1>1, <1>2, <1>3, <1>4, <1>5, <1>6, <1>7, <1>8, <1>9, <1>10
     DEF Next, CancelNext, CoreNext, ClientStep

\* The type invariant holds of the queue's whole interface, with crashes,
\* expired leases and broken connections, for every set of jobs, workers,
\* payloads and options.
THEOREM TypeCorrect == Spec => []TypeOK
<1>1. Init => TypeOK
  BY IdleTaskType, SeqEmpty DEF Init, TypeOK
<1>2. TypeOK /\ [Next]_vars => TypeOK'
  BY TypeStep
<1> QED
  BY <1>1, <1>2, PTL DEF Spec

-----------------------------------------------------------------------------
(* No accepted job is lost                                                 *)

\* Where a step may leave a queued job that has its payload.
NotLost(j) ==
    \/ Queued(j)' /\ data'[j] # None
    \/ Recorded(j)
    \/ PrunedWhileDelayed(j)

\* Of the three steps that take a job out of the active hash for good, or out
\* of the pending list or the delayed set, each records it; the poll only moves
\* it; and the pruning scripts delete what is neither active nor pending.
LEMMA NoLostJobStep ==
    ASSUME TypeOK, [Next]_vars, NEW j \in Jobs, Queued(j), data[j] # None
    PROVE  NotLost(j)
<1>1. ASSUME UNCHANGED <<pending, delayed, active, data>>
      PROVE  NotLost(j)
  BY <1>1 DEF NotLost, Queued
<1>2. ASSUME UNCHANGED store
      PROVE  NotLost(j)
  BY <1>1, <1>2 DEF store
<1>3. ASSUME NEW i \in Jobs, Range(pending) \subseteq Range(pending'),
             delayed \subseteq delayed', active' = active,
             NEW d \in Data, data' = [data EXCEPT ![i] = d]
      PROVE  NotLost(j)
  <2>1. d # None
    BY ConstantsAssumption
  <2>2. data'[j] # None
    BY <1>3, <2>1 DEF TypeOK
  <2> QED
    BY <1>3, <2>2 DEF NotLost, Queued
<1>4. ASSUME NEW i \in Jobs PROVE Range(Append(pending, i)) = Range(pending) \cup {i}
  BY <1>4, AppendRange DEF TypeOK
<1>5. ASSUME NEW i \in Jobs, ClientStep(i)
      PROVE  NotLost(j)
  <2>1. ASSUME NEW d \in Data, NEW wait \in BOOLEAN, NEW position \in Positions,
               Push(i, d, wait, position)
        PROVE  NotLost(j)
    BY <1>3, <1>4, <2>1 DEF Push
  <2>2. ASSUME NEW d \in Data, TryReplacePendingData(i, d)
        PROVE  NotLost(j)
    BY <1>3, <2>2 DEF TryReplacePendingData
  <2> QED
    BY <1>5, <2>1, <2>2 DEF ClientStep
<1>6. ASSUME NEW i \in Jobs, NEW d \in Data, NEW wait \in BOOLEAN,
             NEW position \in Positions, QueueJob(i, d, wait, position)
      PROVE  NotLost(j)
  BY <1>3, <1>4, <1>6 DEF QueueJob
<1>7. ASSUME NEW i \in Jobs, CancelJob(i)
      PROVE  NotLost(j)
  <2>1. \A s \in Without(pending, i) : Range(s) = Range(pending) \ {i}
    BY WithoutRange DEF TypeOK
  <2>2. data' = data /\ active' = active
    BY <1>7 DEF CancelJob
  <2>3. CASE /\ pending' \in Without(pending, i) /\ delayed' = delayed
             /\ failed' = <<i>> \o failed
    BY <2>1, <2>2, <2>3 DEF NotLost, Recorded, Queued
  <2>4. CASE /\ delayed' = delayed \ {i} /\ pending' = pending
             /\ failed' = <<i>> \o failed
    BY <2>2, <2>4 DEF NotLost, Recorded, Queued
  <2>5. CASE pending' = pending /\ delayed' = delayed
    BY <1>1, <2>2, <2>5
  <2> QED
    BY <1>7, <2>3, <2>4, <2>5 DEF CancelJob
<1>8. ASSUME (\E i \in Jobs : RemoveFromDedupeSet(i)) \/ EmptyDedupeSet
      PROVE  NotLost(j)
  BY <1>1, <1>8 DEF RemoveFromDedupeSet, EmptyDedupeSet
<1>9. ASSUME NEW w \in Workers, PopBatchJobs(w)
      PROVE  NotLost(j)
  <2>1. Queued(j)'
    BY <1>9, PollFacts
  <2>2. data' = data
    BY <1>9 DEF PopBatchJobs
  <2> QED
    BY <2>1, <2>2 DEF NotLost
<1>10. ASSUME NEW w \in Workers, WorkerStep(w) \/ Reconnect(w)
       PROVE  NotLost(j)
  BY <1>2, <1>9, <1>10 DEF WorkerStep, Crash, Shutdown, WorkReturns, Reconnect
<1>11. ASSUME NEW l \in LeaseKeys, TaskStep(l)
       PROVE  NotLost(j)
  <2> DEFINE i == l[1]
  <2>1. i \in Jobs
    BY DEF LeaseKeys
  <2>2. ASSUME NEW kind, Exec(l, kind)
        PROVE  active' = active \ {i}
    BY <2>2 DEF Exec
  <2>3. /\ Range(<<i>> \o pending) = Range(pending) \cup {i}
        /\ Range(Append(pending, i)) = Range(pending) \cup {i}
    BY <2>1, ConsRange, AppendRange DEF TypeOK
  <2>4. CASE CommitSuccess(l)
    BY <2>2, <2>4 DEF CommitSuccess, NotLost, Recorded, Queued
  <2>5. CASE CommitFail(l)
    BY <2>2, <2>5 DEF CommitFail, NotLost, Recorded, Queued
  <2>6. CASE CommitNack(l)
    <3>1. /\ active' = active \ {i} /\ data' = data
          /\ \/ delayed' = delayed \cup {i} /\ pending' = pending
             \/ delayed' = delayed /\ pending' \in {<<i>> \o pending, Append(pending, i)}
      BY <2>2, <2>6 DEF CommitNack
    <3> HIDE DEF i
    <3> QED
      BY <2>3, <3>1 DEF NotLost, Queued
  <2>7. CASE CommitDefer(l)
    BY <2>2, <2>7 DEF CommitDefer, NotLost, Queued
  <2>8. ASSUME NEW ids, ids \subseteq Range(success) \cup Range(failed),
               Forget(Prunable(ids))
        PROVE  NotLost(j)
    <3>1. /\ data'[j] = IF j \in Prunable(ids) THEN None ELSE data[j]
          /\ UNCHANGED <<pending, delayed, active>>
      BY <2>8 DEF Forget
    <3>2. CASE j \in Prunable(ids)
      BY <2>8, <3>1, <3>2 DEF NotLost, PrunedWhileDelayed, Prunable, Queued
    <3>3. CASE j \notin Prunable(ids)
      BY <3>1, <3>3 DEF NotLost, Queued
    <3> QED
      BY <3>2, <3>3
  <2>9. /\ Surplus(success, MaxSuccess) \subseteq Range(success)
        /\ Surplus(failed, MaxFailed) \subseteq Range(failed)
    BY ConstantsAssumption, SeqLen DEF Surplus, Range, TypeOK
  <2>10. CASE PostSuccessCompletion(l)
    BY <2>8, <2>9, <2>10 DEF PostSuccessCompletion
  <2>11. CASE PostFailCompletion(l)
    BY <2>8, <2>9, <2>11 DEF PostFailCompletion
  <2>12. ASSUME NEW outcome, HandlerReturns(l, outcome)
         PROVE  NotLost(j)
    BY <1>2, <2>12 DEF HandlerReturns
  <2> QED
    BY <1>2, <1>11, <2>4, <2>5, <2>6, <2>7, <2>10, <2>11, <2>12, Zenon
       DEF TaskStep, CompletionStep, Committed, WatchLease, LeaseGone,
           ExecAborted, Expire, TaskDies, ExecLost
<1>12. CASE UNCHANGED vars
  BY <1>2, <1>12 DEF vars
<1> QED
  BY <1>5, <1>6, <1>7, <1>8, <1>10, <1>11, <1>12 DEF Next, CancelNext, CoreNext

\* No job is lost: under the whole interface, with every option, number of
\* permits and interleaving, a queued job keeps its payload and its place in
\* some key until the step that records its end, or until pruning meets its
\* reused id while it is delayed (lib.rs: push, cancel, poll, prune; hooks.rs:
\* queue_job; completion.rs: the four outcomes).
THEOREM JobsAreNotLost == Spec => NoLostJob
<1>1. TypeOK /\ [Next]_vars =>
        [\A j \in Jobs : Queued(j) /\ data[j] # None =>
             \/ Queued(j)' /\ data'[j] # None
             \/ Recorded(j)
             \/ PrunedWhileDelayed(j)]_vars
  BY NoLostJobStep DEF NotLost
<1> QED
  BY <1>1, TypeCorrect, PTL DEF Spec, NoLostJob

-----------------------------------------------------------------------------
(* Lists without repetition                                                *)

LEMMA RangeType ==
    ASSUME NEW T, NEW s \in Seq(T)
    PROVE  Range(s) \subseteq T
<1>1. s \in [1..Len(s) -> T] /\ DOMAIN s = 1..Len(s)
  BY SeqLen
<1> QED
  BY <1>1 DEF Range

\* Two lists without repetition and without a common member make one.
LEMMA ConcatInjective ==
    ASSUME NEW T, NEW s \in Seq(T), NEW t \in Seq(T),
           IsInjective(s), IsInjective(t), Range(s) \cap Range(t) = {}
    PROVE  IsInjective(s \o t)
<1>1. /\ Len(s) \in Nat /\ DOMAIN s = 1..Len(s)
      /\ Len(t) \in Nat /\ DOMAIN t = 1..Len(t)
  BY SeqLen
<1>2. /\ s \o t \in Seq(T)
      /\ Len(s \o t) = Len(s) + Len(t)
      /\ \A i \in 1..(Len(s) + Len(t)) :
            (s \o t)[i] = IF i <= Len(s) THEN s[i] ELSE t[i - Len(s)]
  BY SeqConcat
<1>3. DOMAIN (s \o t) = 1..(Len(s) + Len(t))
  BY <1>2, SeqLen
<1> SUFFICES ASSUME NEW a \in 1..(Len(s) + Len(t)), NEW b \in 1..(Len(s) + Len(t)),
                    (s \o t)[a] = (s \o t)[b]
             PROVE  a = b
  BY <1>3, Zenon DEF IsInjective
<1>4. ASSUME NEW i \in 1..(Len(s) + Len(t)), i <= Len(s)
      PROVE  i \in DOMAIN s /\ (s \o t)[i] = s[i] /\ s[i] \in Range(s)
  BY <1>1, <1>2, <1>4 DEF Range
<1>5. ASSUME NEW i \in 1..(Len(s) + Len(t)), ~(i <= Len(s))
      PROVE  /\ i - Len(s) \in DOMAIN t
             /\ (s \o t)[i] = t[i - Len(s)]
             /\ t[i - Len(s)] \in Range(t)
  <2>1. i - Len(s) \in 1..Len(t)
    BY <1>1, <1>5
  <2>2. (s \o t)[i] = t[i - Len(s)]
    BY <1>2, <1>5
  <2> QED
    BY <1>1, <2>1, <2>2 DEF Range
<1>6. CASE a <= Len(s) /\ b <= Len(s)
  BY <1>4, <1>6 DEF IsInjective
<1>7. CASE ~(a <= Len(s)) /\ ~(b <= Len(s))
  <2>1. a - Len(s) = b - Len(s)
    BY <1>5, <1>7 DEF IsInjective
  <2> QED
    BY <1>1, <2>1
<1>8. CASE a <= Len(s) /\ ~(b <= Len(s))
  BY <1>4, <1>5, <1>8
<1>9. CASE ~(a <= Len(s)) /\ b <= Len(s)
  BY <1>4, <1>5, <1>9
<1> QED
  BY <1>6, <1>7, <1>8, <1>9

\* LPUSH and RPUSH of a new id.
LEMMA PushInjective ==
    ASSUME NEW T, NEW s \in Seq(T), NEW x \in T, x \notin Range(s), IsInjective(s)
    PROVE  IsInjective(<<x>> \o s) /\ IsInjective(Append(s, x))
<1> DEFINE one == <<x>>
<1>1. one \in Seq(T) /\ Range(one) = {x} /\ IsInjective(one)
  BY DEF Range, IsInjective
<1>2. Append(s, x) = s \o one
  BY SeqAppendConcat
<1> HIDE DEF one
<1>3. IsInjective(one \o s) /\ IsInjective(s \o one)
  BY <1>1, ConcatInjective
<1> QED
  BY <1>2, <1>3 DEF one

\* An order of a set has no repetition.
LEMMA OrdersInjective ==
    ASSUME NEW S, NEW f \in Orders(S)
    PROVE  IsInjective(f)
  BY DEF Orders, Bijection, Injection

\* There is one order of no ids.
LEMMA OrdersOfNone ==
    ASSUME NEW f \in Orders({})
    PROVE  f = << >>
<1>1. {} \in SUBSET Jobs /\ IsFiniteSet({})
  BY FS_EmptySet
<1>2. f \in Seq(Jobs) /\ Range(f) = {}
  BY <1>1, OrdersRange
<1>3. Len(f) \in Nat /\ DOMAIN f = 1..Len(f)
  BY <1>2, SeqLen
<1>4. Len(f) = 0
  <2> SUFFICES ASSUME Len(f) # 0 PROVE FALSE
    OBVIOUS
  <2>1. 1 \in DOMAIN f
    BY <1>3
  <2> QED
    BY <1>2, <2>1 DEF Range
<1> QED
  BY <1>2, <1>4, SeqEmpty

\* The two parts of a list without repetition have none, and share no id.
LEMMA CutInjective ==
    ASSUME NEW T, NEW s \in Seq(T), NEW k \in 0..Len(s), IsInjective(s)
    PROVE  /\ IsInjective(SubSeq(s, 1, k))
           /\ IsInjective(SubSeq(s, k + 1, Len(s)))
           /\ Range(SubSeq(s, 1, k)) \cap Range(SubSeq(s, k + 1, Len(s))) = {}
<1>1. Len(s) \in Nat /\ s \in [1..Len(s) -> T] /\ DOMAIN s = 1..Len(s)
  BY SeqLen
<1>2. SubSeq(s, k + 1, Len(s)) \in Seq(T) /\ DOMAIN SubSeq(s, 1, k) = 1..k
  BY CutRange
<1>3. /\ \A i \in 1..k : SubSeq(s, 1, k)[i] = s[i]
      /\ \A i \in 1..(Len(s) - k) : SubSeq(s, k + 1, Len(s))[i] = s[k + i]
  BY <1>1, SeqSub
<1>4. DOMAIN SubSeq(s, k + 1, Len(s)) = 1..(Len(s) - k)
  <2>1. \A i \in (k + 1)..Len(s) : s[i] \in T
    BY <1>1
  <2>2. Len(SubSeq(s, k + 1, Len(s)))
          = IF k + 1 <= Len(s) THEN Len(s) - (k + 1) + 1 ELSE 0
    BY <1>1, <2>1, SeqSub
  <2>3. ASSUME NEW m \in Nat, NEW n \in 0..m
        PROVE  (IF n + 1 <= m THEN m - (n + 1) + 1 ELSE 0) = m - n
    OBVIOUS
  <2>4. Len(SubSeq(s, k + 1, Len(s))) = Len(s) - k
    BY <1>1, <2>2, <2>3, Zenon
  <2> QED
    BY <1>2, <2>4, SeqLen
<1>5. \A a, b \in 1..Len(s) : s[a] = s[b] => a = b
  BY <1>1 DEF IsInjective
<1>6. /\ \A i \in 1..k : i \in 1..Len(s)
      /\ \A i \in 1..(Len(s) - k) : k + i \in 1..Len(s) /\ k + i \notin 1..k
      /\ \A i, h \in 1..(Len(s) - k) : k + i = k + h => i = h
  BY <1>1
<1>7. IsInjective(SubSeq(s, 1, k))
  BY <1>2, <1>3, <1>5, <1>6 DEF IsInjective
<1>8. IsInjective(SubSeq(s, k + 1, Len(s)))
  BY <1>3, <1>4, <1>5, <1>6 DEF IsInjective
<1>9. ASSUME NEW e \in Range(SubSeq(s, 1, k)), e \in Range(SubSeq(s, k + 1, Len(s)))
      PROVE  FALSE
  <2>1. PICK a \in 1..k : e = s[a]
    BY <1>2, <1>3 DEF Range
  <2>2. PICK b \in 1..(Len(s) - k) : e = s[k + b]
    BY <1>3, <1>4, <1>9 DEF Range
  <2> QED
    BY <1>5, <1>6, <2>1, <2>2, Zenon
<1> QED
  BY <1>7, <1>8, <1>9

\* LTRIM drops what LRANGE returned, from a list without repetition.
LEMMA TrimInjective ==
    ASSUME NEW T, NEW s \in Seq(T), NEW max \in Nat \ {0}, IsInjective(s)
    PROVE  /\ IsInjective(Trim(s, max))
           /\ Range(Trim(s, max)) = Range(s) \ Surplus(s, max)
           /\ Surplus(s, max) \subseteq Range(s)
<1>1. Len(s) \in Nat /\ s \in [1..Len(s) -> T] /\ DOMAIN s = 1..Len(s)
  BY SeqLen
<1>2. Surplus(s, max) \subseteq Range(s)
  BY <1>1 DEF Surplus, Range
<1>3. CASE Len(s) <= max
  <2>1. (max + 1)..Len(s) = {}
    BY <1>1, <1>3
  <2>2. Surplus(s, max) = {}
    BY <2>1 DEF Surplus
  <2> QED
    BY <1>2, <1>3, <2>2 DEF Trim
<1>4. CASE ~(Len(s) <= max)
  <2>1. Trim(s, max) = SubSeq(s, 1, max) /\ max \in 0..Len(s)
    BY <1>1, <1>4 DEF Trim
  <2>2. IsInjective(SubSeq(s, 1, max)) /\ DOMAIN SubSeq(s, 1, max) = 1..max
    BY <2>1, CutInjective, CutRange
  <2>3. \A i \in 1..max : SubSeq(s, 1, max)[i] = s[i]
    BY <1>1, <2>1, SeqSub
  <2>4. \A a, b \in 1..Len(s) : s[a] = s[b] => a = b
    BY <1>1 DEF IsInjective
  <2>5. ASSUME NEW e
        PROVE  e \in Range(SubSeq(s, 1, max)) <=> e \in Range(s) \ Surplus(s, max)
    <3>1. e \in Range(SubSeq(s, 1, max)) <=> \E i \in 1..max : e = s[i]
      BY <2>2, <2>3, Zenon DEF Range
    <3>2. e \in Range(s) <=> \E i \in 1..Len(s) : e = s[i]
      BY <1>1 DEF Range
    <3>3. e \in Surplus(s, max) <=> \E i \in (max + 1)..Len(s) : e = s[i]
      BY DEF Surplus
    <3>4. /\ \A i \in 1..max : i \in 1..Len(s) /\ i \notin (max + 1)..Len(s)
          /\ \A i \in (max + 1)..Len(s) : i \in 1..Len(s)
          /\ \A i \in 1..Len(s) : i \in 1..max \/ i \in (max + 1)..Len(s)
      BY <1>1, <2>1
    <3> QED
      BY <2>4, <3>1, <3>2, <3>3, <3>4
  <2> QED
    BY <1>2, <2>1, <2>2, <2>5
<1> QED
  BY <1>3, <1>4

-----------------------------------------------------------------------------
(* Tasks and connections, with any number of permits                       *)

\* A task that is not idle belongs to a worker.
TaskShape ==
    \A l \in LeaseKeys :
        \/ task[l] = IdleTask
        \/ task[l].worker \in Workers /\ task[l].phase # "idle"

\* A connection watches the lease of every task that waits for EXEC on it, and
\* knows when one of them is gone.
Guarded ==
    \A l \in LeaseKeys :
        task[l].phase = "watching" =>
            /\ l \in watched[task[l].worker]
            /\ l \in leases \/ task[l].worker \in dirty

LEMMA NoneIsNothing ==
    /\ None \notin Tokens
    /\ None \notin Data
    /\ None \notin Workers
  BY ConstantsAssumption

\* The phases are five different ones.
LEMMA PhaseNames ==
    /\ {"running", "done", "watching", "prune"} \subseteq Phases \ {"idle"}
    /\ {"running", "done", "idle", "prune"} \subseteq Phases \ {"watching"}
    /\ \A l : AfterCommit(l) \in Phases \ {"watching"}
  BY DEF Phases, AfterCommit

\* A task that moves to another phase stays with its worker and its payload,
\* and the others do not notice.
LEMMA GotoFacts ==
    ASSUME TypeOK, NEW l \in LeaseKeys, NEW phase, Goto(l, phase)
    PROVE  /\ \A m \in LeaseKeys : m # l => task'[m] = task[m]
           /\ task'[l].phase = phase
           /\ phase = "idle" => task'[l] = IdleTask
           /\ phase # "idle" => /\ task'[l].worker = task[l].worker
                                /\ task'[l].data = task[l].data
<1>1. task \in [LeaseKeys -> Tasks]
  BY DEF TypeOK
<1>2. \A m \in LeaseKeys : m # l => task'[m] = task[m]
  BY <1>1 DEF Goto
<1>3. task'[l] = IF phase = "idle" THEN IdleTask
                 ELSE Task(phase, task[l].worker, task[l].data, task[l].outcome)
  BY <1>1 DEF Goto
<1> QED
  BY <1>2, <1>3 DEF Task, IdleTask

LEMMA IdleFields == IdleTask.phase = "idle" /\ IdleTask.worker = None
  BY DEF IdleTask, Task

\* A poll spawns tasks under new leases and touches no other.
LEMMA PollTasks ==
    ASSUME NEW w \in Workers, PopBatchJobs(w)
    PROVE  /\ leases \subseteq leases'
           /\ UNCHANGED watch
           /\ \A l \in LeaseKeys :
                \/ task'[l] = task[l]
                \/ task[l] = IdleTask /\ task'[l] = NewTask(w, l[1])
<1>1. PICK queued, batch : TakeBatch(w, queued, batch)
  BY Zenon DEF PopBatchJobs
<1> DEFINE k      == IF batch <= Len(queued) THEN batch ELSE Len(queued)
           popped == SubSeq(queued, 1, k)
<1>2. PICK nw \in [Borrowed(popped) -> Tokens] :
        /\ \A i \in Borrowed(popped) : nw[i] \in FreshTokens(popped[i])
        /\ leases' = leases \cup {<<popped[i], nw[i]>> : i \in Borrowed(popped)}
        /\ task' = [l \in LeaseKeys |->
                     IF l \in {<<popped[i], nw[i]>> : i \in Borrowed(popped)}
                     THEN NewTask(w, l[1]) ELSE task[l]]
  BY <1>1, Zenon DEF TakeBatch
<1> HIDE DEF popped
<1>3. \A i \in Borrowed(popped) : task[<<popped[i], nw[i]>>] = IdleTask
  BY <1>2 DEF FreshTokens
<1>4. ASSUME NEW l \in LeaseKeys
      PROVE  \/ task'[l] = task[l]
             \/ task[l] = IdleTask /\ task'[l] = NewTask(w, l[1])
  BY <1>2, <1>3
<1>5. UNCHANGED watch
  BY DEF PopBatchJobs
<1> QED
  BY <1>2, <1>4, <1>5

\* What one step may do to a task, its lease and its connection.
TaskEffect(l) ==
    /\ \/ task'[l] = IdleTask
       \/ /\ task'[l].phase # "idle"
          /\ \/ task'[l].worker \in Workers
             \/ task[l].phase # "idle" /\ task'[l].worker = task[l].worker
    /\ task[l].phase = "watching" /\ task'[l].phase = "watching" =>
          /\ task'[l].worker = task[l].worker
          /\ \A w \in Workers : w \in dirty \ dirty' => watched'[w] = {}
          /\ l \in leases => l \in leases' \/ \A w \in Workers : l \in watched[w] => w \in dirty'
    /\ task[l].phase # "watching" /\ task'[l].phase = "watching" =>
          /\ task[l].phase # "idle"
          /\ task'[l].worker = task[l].worker
          /\ task[l].worker \in Workers => l \in watched'[task[l].worker]
          /\ l \in leases'

LEMMA UnwatchFacts ==
    ASSUME TypeOK, NEW w, Unwatch(w)
    PROVE  \A v \in Workers : v \in dirty \ dirty' => watched'[v] = {}
<1>1. watched \in [Workers -> SUBSET LeaseKeys]
  BY DEF TypeOK
<1> QED
  BY <1>1 DEF Unwatch

LEMMA StepTasks ==
    ASSUME TypeOK, TaskShape, [Next]_vars, NEW l \in LeaseKeys
    PROVE  TaskEffect(l)
<1>1. task[l] = IdleTask \/ (task[l].worker \in Workers /\ task[l].phase # "idle")
  BY DEF TaskShape
<1>2. task[l].phase # "idle" => task[l].worker \in Workers
  BY <1>1, IdleFields
<1>3. ASSUME task'[l] = task[l], UNCHANGED <<leases, watch>>
      PROVE  TaskEffect(l)
  BY <1>1, <1>3 DEF TaskEffect, watch
<1>4. ASSUME task'[l] = task[l], UNCHANGED leases,
             \A v \in Workers : v \in dirty \ dirty' => watched'[v] = {}
      PROVE  TaskEffect(l)
  BY <1>1, <1>4 DEF TaskEffect
<1>5. ASSUME task'[l] = IdleTask
      PROVE  TaskEffect(l)
  BY <1>5, IdleFields DEF TaskEffect
<1>6. ASSUME NEW w \in Workers, WorkerStep(w) \/ Reconnect(w)
      PROVE  TaskEffect(l)
  <2>1. CASE PopBatchJobs(w)
    <3>1. /\ leases \subseteq leases'
          /\ UNCHANGED watch
          /\ \/ task'[l] = task[l]
             \/ task[l] = IdleTask /\ task'[l] = NewTask(w, l[1])
      BY <2>1, PollTasks
    <3>2. CASE task'[l] = task[l]
      BY <1>1, <3>1, <3>2 DEF TaskEffect, watch
    <3>3. CASE task[l] = IdleTask /\ task'[l] = NewTask(w, l[1])
      <4>1. task'[l].worker = w /\ task'[l].phase \in {"running", "done"}
        BY <3>3 DEF NewTask, Task
      <4> QED
        BY <3>3, <4>1, IdleFields DEF TaskEffect
    <3> QED
      BY <3>1, <3>2, <3>3
  <2>2. CASE Crash(w)
    <3>1. /\ task'[l] = IF task[l].worker = w THEN IdleTask ELSE task[l]
          /\ Unwatch(w) /\ UNCHANGED leases
      BY <2>2 DEF Crash
    <3> QED
      BY <1>4, <1>5, <3>1, UnwatchFacts
  <2>3. CASE Shutdown(w) \/ WorkReturns(w)
    BY <1>3, <2>3 DEF Shutdown, WorkReturns
  <2>4. CASE Reconnect(w)
    BY <1>4, <2>4, UnwatchFacts DEF Reconnect
  <2> QED
    BY <1>6, <2>1, <2>2, <2>3, <2>4 DEF WorkerStep
<1>7. ASSUME NEW m \in LeaseKeys, TaskStep(m)
      PROVE  TaskEffect(l)
  <2>1. ASSUME NEW phase \in Phases \ {"watching"}, task[m].phase # "idle", Goto(m, phase),
               \A v \in Workers : v \in dirty \ dirty' => watched'[v] = {},
               leases' = leases \/ leases' = leases \ {m}
        PROVE  TaskEffect(l)
    <3>1. /\ l # m => task'[l] = task[l]
          /\ task'[m].phase = phase
          /\ phase = "idle" => task'[m] = IdleTask
          /\ phase # "idle" => task'[m].worker = task[m].worker
      BY <2>1, GotoFacts
    <3>2. CASE l # m
      BY <1>1, <2>1, <3>1, <3>2 DEF TaskEffect
    <3>3. CASE l = m /\ phase # "idle"
      BY <2>1, <3>1, <3>3 DEF TaskEffect
    <3> QED
      BY <1>5, <3>1, <3>2, <3>3
  <2>2. ASSUME NEW outcome, HandlerReturns(m, outcome)
        PROVE  TaskEffect(l)
    <3>1. /\ task[m].phase = "running"
          /\ task' = [task EXCEPT ![m] = Task("done", task[m].worker, task[m].data, outcome)]
          /\ UNCHANGED <<leases, watch>>
      BY <2>2 DEF HandlerReturns
    <3>2. CASE l # m
      BY <1>3, <3>1, <3>2 DEF TypeOK
    <3>3. CASE l = m
      <4>1. task'[l] = Task("done", task[l].worker, task[l].data, outcome)
        BY <3>1, <3>3 DEF TypeOK
      <4>2. task'[l].phase = "done" /\ task'[l].worker = task[l].worker
        BY <4>1 DEF Task
      <4> QED
        BY <3>1, <3>3, <4>2 DEF TaskEffect
    <3> QED
      BY <3>2, <3>3
  <2>3. CASE WatchLease(m)
    <3>1. /\ l # m => task'[l] = task[l]
          /\ task'[m].phase = "watching"
          /\ task'[m].worker = task[m].worker
      BY <2>3, GotoFacts DEF WatchLease
    <3>2. /\ task[m].phase = "done" /\ m \in leases
          /\ watched' = [watched EXCEPT ![task[m].worker] = @ \cup {m}]
          /\ UNCHANGED <<leases, dirty>>
      BY <2>3 DEF WatchLease
    <3>3. CASE l # m
      BY <1>4, <3>1, <3>2, <3>3
    <3>4. CASE l = m
      <4>1. task[l].worker \in Workers => l \in watched'[task[l].worker]
        BY <3>2, <3>4 DEF TypeOK
      <4> QED
        BY <3>1, <3>2, <3>4, <4>1 DEF TaskEffect
    <3> QED
      BY <3>3, <3>4
  <2>4. ASSUME NEW kind, Exec(m, kind)
        PROVE  TaskEffect(l)
    <3>1. /\ Goto(m, AfterCommit(m)) /\ Unwatch(task[m].worker)
          /\ task[m].phase # "idle" /\ leases' = leases \ {m}
      BY <2>4 DEF Exec
    <3> QED
      BY <2>1, <3>1, UnwatchFacts, PhaseNames
  <2>5. CASE LeaseGone(m) \/ ExecLost(m) \/ ExecAborted(m)
    <3>1. /\ \E phase \in {"idle", "done", AfterCommit(m)} : Goto(m, phase)
          /\ Unwatch(task[m].worker)
          /\ task[m].phase # "idle" /\ leases' = leases
      BY <2>5, Zenon DEF LeaseGone, ExecLost, ExecAborted
    <3> QED
      BY <2>1, <3>1, UnwatchFacts, PhaseNames
  <2>6. CASE TaskDies(m) \/ PostSuccessCompletion(m) \/ PostFailCompletion(m)
    <3>1. Goto(m, "idle") /\ UNCHANGED <<leases, watched, dirty>> /\ task[m].phase # "idle"
      BY <2>6, Zenon DEF TaskDies, PostSuccessCompletion, PostFailCompletion, Forget, watch
    <3> QED
      BY <2>1, <3>1, PhaseNames
  <2>7. CASE Expire(m)
    <3>1. /\ leases' = leases \ {m}
          /\ dirty' = dirty \cup {w \in Workers : m \in watched[w]}
          /\ UNCHANGED <<task, watched>>
      BY <2>7 DEF Expire
    <3> QED
      BY <1>1, <3>1 DEF TaskEffect
  <2> QED
    BY <1>7, <2>2, <2>3, <2>4, <2>5, <2>6, <2>7, Zenon
       DEF TaskStep, CompletionStep, Committed, CommitSuccess, CommitFail, CommitNack,
           CommitDefer
<1>8. CASE UNCHANGED <<leases, task, watch>>
  BY <1>3, <1>8
<1>9. CASE UNCHANGED vars
  BY <1>8, <1>9 DEF vars
<1>10. ASSUME NEW j \in Jobs, NEW d \in Data, NEW wait \in BOOLEAN, NEW position \in Positions,
              Push(j, d, wait, position) \/ QueueJob(j, d, wait, position)
       PROVE  TaskEffect(l)
  BY <1>8, <1>10 DEF Push, QueueJob
<1>11. ASSUME NEW j \in Jobs, NEW d \in Data, TryReplacePendingData(j, d)
       PROVE  TaskEffect(l)
  BY <1>8, <1>11 DEF TryReplacePendingData
<1>12. ASSUME NEW j \in Jobs, CancelJob(j) \/ RemoveFromDedupeSet(j)
       PROVE  TaskEffect(l)
  BY <1>8, <1>12 DEF CancelJob, RemoveFromDedupeSet
<1>13. CASE EmptyDedupeSet
  BY <1>8, <1>13 DEF EmptyDedupeSet
<1> QED
  BY <1>6, <1>7, <1>9, <1>10, <1>11, <1>12, <1>13
     DEF Next, CancelNext, CoreNext, ClientStep

\* A task stays with its worker, and EXEC guarded, as long as no other EXEC
\* and no UNWATCH drops the watch.
LEMMA GuardedStep ==
    ASSUME TypeOK, TaskShape, Guarded, [Next]_vars, [KeepsWatches]_vars
    PROVE  TaskShape' /\ Guarded'
<1>1. ASSUME NEW l \in LeaseKeys
      PROVE  /\ \/ task'[l] = IdleTask
                \/ task'[l].worker \in Workers /\ task'[l].phase # "idle"
             /\ task'[l].phase = "watching" =>
                   /\ l \in watched'[task'[l].worker]
                   /\ l \in leases' \/ task'[l].worker \in dirty'
  <2>1. TaskEffect(l)
    BY StepTasks
  <2>2. task[l].phase # "idle" => task[l].worker \in Workers
    BY IdleFields DEF TaskShape
  <2>3. \/ task'[l] = IdleTask
        \/ task'[l].worker \in Workers /\ task'[l].phase # "idle"
    BY <2>1, <2>2 DEF TaskEffect
  <2>4. CASE task[l].phase = "watching" /\ task'[l].phase = "watching"
    <3> DEFINE w == task[l].worker
    <3>1. w \in Workers /\ task'[l].worker = w
      BY <2>1, <2>2, <2>4 DEF TaskEffect
    <3>2. l \in watched[w] /\ (l \in leases \/ w \in dirty)
      BY <2>4 DEF Guarded
    <3>3. watched[w] \subseteq watched'[w]
      BY <2>4 DEF KeepsWatches, vars, watch
    <3>4. /\ w \in dirty \ dirty' => watched'[w] = {}
          /\ l \in leases => l \in leases' \/ (l \in watched[w] => w \in dirty')
      BY <2>1, <2>4, <3>1 DEF TaskEffect
    <3> HIDE DEF w
    <3> QED
      BY <2>3, <3>1, <3>2, <3>3, <3>4
  <2>5. CASE task[l].phase # "watching" /\ task'[l].phase = "watching"
    BY <2>1, <2>2, <2>3, <2>5 DEF TaskEffect
  <2> QED
    BY <2>3, <2>4, <2>5
<1> QED
  BY <1>1 DEF TaskShape, Guarded, LeaseKeys, IdleTask

\* A completion changes the store only while its lease is live: whatever the
\* options, the number of permits and the calls on the queue's interface, if no
\* watch is dropped between WATCH and EXEC, the late result of a handler whose
\* job was reclaimed comes to nothing (completion.rs).
THEOREM CommitsAreUnderLease == Spec /\ WatchesAreKept => CommitUnderLease
<1> DEFINE Inv == TypeOK /\ TaskShape /\ Guarded
<1>1. Init => Inv
  BY IdleTaskType, SeqEmpty, IdleFields DEF Init, TypeOK, TaskShape, Guarded
<1>2. Inv /\ [Next]_vars /\ [KeepsWatches]_vars => Inv'
  BY TypeStep, GuardedStep
<1>3. ASSUME Inv, [Next]_vars, NEW l \in LeaseKeys,
             task[l].phase = "watching", task'[l].phase # "watching", store' # store
      PROVE  l \in leases
  <2>1. task # task'
    BY <1>3
  <2>2. ~ \E j \in Jobs : ClientStep(j) \/ CancelJob(j) \/ RemoveFromDedupeSet(j)
    BY <2>1 DEF ClientStep, Push, TryReplacePendingData, CancelJob, RemoveFromDedupeSet
  <2>3. ~ EmptyDedupeSet
    BY <2>1 DEF EmptyDedupeSet
  <2>4. ~ \E j \in Jobs, d \in Data, wait \in BOOLEAN, position \in Positions :
            QueueJob(j, d, wait, position)
    BY <2>1 DEF QueueJob
  <2>5. ASSUME NEW w \in Workers, WorkerStep(w) \/ Reconnect(w)
        PROVE  FALSE
    <3>1. PopBatchJobs(w)
      BY <1>3, <2>5 DEF WorkerStep, Crash, Shutdown, WorkReturns, Reconnect
    <3> QED
      BY <1>3, <3>1, PollTasks, IdleFields
  <2>6. PICK m \in LeaseKeys : TaskStep(m)
    BY <1>3, <2>2, <2>3, <2>4, <2>5 DEF Next, CancelNext, CoreNext, vars
  <2>7. Committed(m) \/ PostSuccessCompletion(m) \/ PostFailCompletion(m)
    BY <1>3, <2>6 DEF TaskStep, CompletionStep, HandlerReturns, WatchLease, LeaseGone,
                      ExecAborted, ExecLost, TaskDies, Expire
  <2>8. PICK phase : Goto(m, phase)
    BY <2>7, Zenon DEF Committed, CommitSuccess, CommitFail, CommitNack, CommitDefer, Exec,
                PostSuccessCompletion, PostFailCompletion
  <2>9. m = l
    BY <1>3, <2>8 DEF Goto, TypeOK
  <2>10. Committed(l)
    BY <1>3, <2>7, <2>9, ZenonT(30) DEF PostSuccessCompletion, PostFailCompletion
  <2>11. \E kind : Exec(l, kind)
    BY <2>10, Zenon DEF Committed, CommitSuccess, CommitFail, CommitNack, CommitDefer
  <2> QED
    BY <1>3, <2>11 DEF Exec, Guarded
<1>4. Inv /\ [Next]_vars =>
        [\A l \in LeaseKeys :
           /\ task[l].phase = "watching"
           /\ task'[l].phase # "watching"
           /\ store' # store
           => l \in leases]_vars
  BY <1>3
<1> QED
  BY <1>1, <1>2, <1>4, PTL DEF Spec, WatchesAreKept, CommitUnderLease

-----------------------------------------------------------------------------
(* The inductive invariant                                                 *)

\* The options the rest is proved for, which are the engine's: in Permanent
\* mode with histories an id is free again only when nothing is left of its
\* job, unless the caller frees it.
SafeOptions ==
    /\ IdempotencyMode = "Permanent"
    /\ MaxSuccess > 0
    /\ MaxFailed > 0

\* OnePlace, pair by pair.
Apart ==
    /\ Range(pending) \cap (delayed \cup active) = {}
    /\ Range(pending) \cap (Range(success) \cup Range(failed)) = {}
    /\ delayed \cap active = {}
    /\ (delayed \cup active) \cap (Range(success) \cup Range(failed)) = {}
    /\ Range(success) \cap Range(failed) = {}
    /\ IsInjective(pending)
    /\ IsInjective(success)
    /\ IsInjective(failed)

\* The dedupe set, the hashes and the two histories tell the same of a job as
\* the place it is in.
Known ==
    /\ created = Range(pending) \cup delayed \cup active
                   \cup Range(success) \cup Range(failed)
    /\ dedupe = created
    /\ finished = Range(success) \cup Range(failed)
    /\ result = Range(success)
    /\ cancels = {}
    /\ deferred \cup retrying \cup front \subseteq created
    /\ \A j \in Jobs : data[j] # None <=> j \in created
    /\ \A j \in Jobs : token[j] # None <=> j \in active
    /\ \A j \in Jobs : attempts[j] # 0 => j \in created

CoreInv ==
    /\ TypeOK
    /\ TaskShape
    /\ Guarded
    /\ Apart
    /\ Known
    /\ LeaseExclusive
    /\ ReplacementNotLost

\* What SafeOptions says of the constants.
LEMMA Options ==
    ASSUME SafeOptions
    PROVE  /\ \A j : DedupeAfter(j) = dedupe
           /\ MaxSuccess \in Nat \ {0}
           /\ MaxFailed \in Nat \ {0}
  BY ConstantsAssumption DEF SafeOptions, DedupeAfter

-----------------------------------------------------------------------------
(* The poll                                                                *)

\* Of the ids a poll of worker w finds in the pending list it borrows `ran',
\* under the tokens `new'; the jobs whose lease is gone leave the active hash.
Took(w, ids, ran, new) ==
    /\ ran \subseteq ids
    /\ Range(pending') = ids \ ran
    /\ IsInjective(pending')
    /\ active' = (active \ TimedOut) \cup ran
    /\ deferred' = deferred \ ran
    /\ retrying' = retrying \ ran
    /\ \A j \in Jobs : attempts'[j] # 0 => attempts[j] # 0 \/ j \in TimedOut \cup ran
    /\ \A j \in ran : new[j] \in FreshTokens(j)
    /\ token' = [j \in Jobs |-> IF j \in ran THEN new[j]
                               ELSE IF j \in TimedOut THEN None
                               ELSE token[j]]
    /\ leases' = leases \cup {<<j, new[j]>> : j \in ran}
    /\ task' = [l \in LeaseKeys |->
                  IF l \in {<<j, new[j]>> : j \in ran} THEN NewTask(w, l[1])
                                                       ELSE task[l]]

\* The whole poll, which moves `due' from the delayed set to the list first.
Polled(w, due, ran, new) ==
    /\ delayed' = delayed \ due
    /\ front' = front \ due
    /\ Took(w, due \cup TimedOut \cup Range(pending), ran, new)
    /\ UNCHANGED <<success, failed, dedupe, cancels, data, created, finished,
                   result, errors, watched, dirty, mode>>

\* If every id is in one place, that list holds it once.
LEMMA RequeuedOnce ==
    ASSUME TypeOK, Apart, NEW due \in SUBSET delayed,
           NEW first \in Orders(due \cap front), NEW last \in Orders(due \ front),
           NEW back \in Orders(TimedOut)
    PROVE  /\ Requeued(first, back, last) \in Seq(Jobs)
           /\ Range(Requeued(first, back, last)) = due \cup TimedOut \cup Range(pending)
           /\ IsInjective(Requeued(first, back, last))
<1>1. /\ due \cap front \in SUBSET Jobs
      /\ due \ front \in SUBSET Jobs
      /\ TimedOut \in SUBSET Jobs
      /\ TimedOut \subseteq active
      /\ pending \in Seq(Jobs)
  BY DEF TypeOK, TimedOut
<1>2. IsFiniteSet(due \cap front) /\ IsFiniteSet(due \ front) /\ IsFiniteSet(TimedOut)
  BY <1>1, Constants, FS_Subset
<1>3. /\ first \in Seq(Jobs) /\ Range(first) = due \cap front /\ IsInjective(first)
      /\ last \in Seq(Jobs) /\ Range(last) = due \ front /\ IsInjective(last)
      /\ back \in Seq(Jobs) /\ Range(back) = TimedOut /\ IsInjective(back)
  BY <1>1, <1>2, OrdersRange, OrdersInjective
<1>4. IsInjective(pending)
  BY DEF Apart
<1>5. /\ due \cap TimedOut = {}
      /\ (due \cup TimedOut) \cap Range(pending) = {}
  BY <1>1 DEF Apart
<1> DEFINE a == first \o back
           b == a \o pending
<1>6. a \in Seq(Jobs) /\ Range(a) = (due \cap front) \cup TimedOut /\ IsInjective(a)
  <2>1. Range(first) \cap Range(back) = {}
    BY <1>3, <1>5
  <2> QED
    BY <1>3, <2>1, SeqConcat, RangeConcat, ConcatInjective
<1>7. b \in Seq(Jobs) /\ Range(b) = Range(a) \cup Range(pending) /\ IsInjective(b)
  <2> HIDE DEF a
  <2>1. Range(a) \cap Range(pending) = {}
    BY <1>5, <1>6
  <2> QED
    BY <1>1, <1>4, <1>6, <2>1, SeqConcat, RangeConcat, ConcatInjective
<1>8. /\ b \o last \in Seq(Jobs)
      /\ Range(b \o last) = Range(b) \cup Range(last)
      /\ IsInjective(b \o last)
  <2> HIDE DEF a, b
  <2>1. Range(b) \cap Range(last) = {}
    BY <1>3, <1>5, <1>6, <1>7
  <2> QED
    BY <1>3, <1>7, <2>1, SeqConcat, RangeConcat, ConcatInjective
<1>9. Requeued(first, back, last) = b \o last
  BY DEF Requeued
<1> HIDE DEF a, b
<1>10. Range(b \o last) = due \cup TimedOut \cup Range(pending)
  BY <1>3, <1>6, <1>7, <1>8
<1> QED
  BY <1>8, <1>9, <1>10

\* Every id of a batch that has data is borrowed, each under its own token.
LEMMA PoppedOnce ==
    ASSUME NEW popped \in Seq(Jobs), IsInjective(popped),
           \A j \in Range(popped) : data[j] # None
    PROVE  /\ Borrowed(popped) = DOMAIN popped
           /\ \A i \in DOMAIN popped : /\ Copies(popped[i], popped) = {i}
                                       /\ LastCopy(popped[i], popped) = i
           /\ \A j : j \notin Range(popped) => Copies(j, popped) = {}
<1>1. Borrowed(popped) = DOMAIN popped
  BY Zenon DEF Borrowed, Range
<1>2. ASSUME NEW i \in DOMAIN popped PROVE Copies(popped[i], popped) = {i}
  BY <1>1 DEF Copies, IsInjective
<1>3. ASSUME NEW i \in DOMAIN popped PROVE LastCopy(popped[i], popped) = i
  BY <1>2, CopiesFinite, Zenon
<1>4. ASSUME NEW j, j \notin Range(popped) PROVE Copies(j, popped) = {}
  BY <1>1, <1>4 DEF Copies, Range
<1> QED
  BY <1>1, <1>2, <1>3, <1>4

\* Step 4, on a list that holds every id once and only ids with data.
LEMMA TakeEach ==
    ASSUME TypeOK, NEW w \in Workers, NEW queued \in Seq(Jobs),
           IsInjective(queued), \A j \in Range(queued) : data[j] # None,
           NEW batch \in Nat, TakeBatch(w, queued, batch)
    PROVE  \E ran \in SUBSET Jobs : \E new \in [ran -> Tokens] :
             Took(w, Range(queued), ran, new)
<1> DEFINE k      == IF batch <= Len(queued) THEN batch ELSE Len(queued)
           popped == SubSeq(queued, 1, k)
           rest   == SubSeq(queued, k + 1, Len(queued))
           ran    == {popped[i] : i \in Borrowed(popped)}
<1>1. Len(queued) \in Nat
  BY SeqLen
<1>2. k \in 0..Len(queued)
  BY <1>1
<1>3. /\ pending' = rest
      /\ active' = (active \ TimedOut) \cup ran
      /\ deferred' = deferred \ ran
      /\ retrying' = retrying \ ran
      /\ attempts' = AttemptsAfterPop(popped)
  BY DEF TakeBatch
<1>4. PICK nw \in [Borrowed(popped) -> Tokens] :
        /\ \A i \in Borrowed(popped) : nw[i] \in FreshTokens(popped[i])
        /\ token' = TokenAfterPop(popped, nw)
        /\ leases' = leases \cup {<<popped[i], nw[i]>> : i \in Borrowed(popped)}
        /\ task' = [l \in LeaseKeys |->
                     IF l \in {<<popped[i], nw[i]>> : i \in Borrowed(popped)}
                     THEN NewTask(w, l[1]) ELSE task[l]]
  BY Zenon DEF TakeBatch
<1> HIDE DEF k
<1>5. /\ popped \in Seq(Jobs)
      /\ DOMAIN popped = 1..k
      /\ Range(queued) = Range(popped) \cup Range(rest)
  BY <1>2, CutRange
<1>6. IsInjective(popped) /\ IsInjective(rest) /\ Range(popped) \cap Range(rest) = {}
  BY <1>2, CutInjective
<1> HIDE DEF popped, rest
<1>7. \A j \in Range(popped) : data[j] # None
  BY <1>5
<1>8. /\ Borrowed(popped) = DOMAIN popped
      /\ \A i \in DOMAIN popped : /\ Copies(popped[i], popped) = {i}
                                  /\ LastCopy(popped[i], popped) = i
      /\ \A j : j \notin Range(popped) => Copies(j, popped) = {}
  BY <1>5, <1>6, <1>7, PoppedOnce, Zenon
<1>9. ran = Range(popped)
  BY <1>8 DEF Range
<1> HIDE DEF ran
<1> DEFINE new == [j \in ran |-> nw[LastCopy(j, popped)]]
<1>10. \A j \in ran : \E i \in DOMAIN popped : j = popped[i] /\ new[j] = nw[i]
  BY <1>8, <1>9 DEF Range
<1>11. \A i \in DOMAIN popped : popped[i] \in ran /\ new[popped[i]] = nw[i]
  BY <1>8, <1>9 DEF Range
<1>12. new \in [ran -> Tokens]
  <2>1. \A i \in DOMAIN popped : nw[i] \in Tokens
    BY <1>4, <1>8
  <2>2. \A j \in ran : new[j] \in Tokens
    BY <1>10, <2>1
  <2> QED
    BY <2>2
<1>13. {<<popped[i], nw[i]>> : i \in Borrowed(popped)} = {<<j, new[j]>> : j \in ran}
  <2> HIDE DEF new
  <2>1. \A i \in DOMAIN popped : <<popped[i], nw[i]>> = <<popped[i], new[popped[i]]>>
    BY <1>11
  <2>2. \A j \in ran : \E i \in DOMAIN popped : <<j, new[j]>> = <<popped[i], nw[i]>>
    BY <1>10
  <2> QED
    BY <1>8, <1>11, <2>1, <2>2
<1>14. token' = [j \in Jobs |-> IF j \in ran THEN new[j]
                              ELSE IF j \in TimedOut THEN None
                              ELSE token[j]]
  <2>1. \A j \in ran : Copies(j, popped) # {}
    BY <1>8, <1>10, Zenon
  <2>2. \A j \in ran : new[j] = nw[LastCopy(j, popped)]
    OBVIOUS
  <2> HIDE DEF new
  <2> QED
    BY <1>4, <1>8, <1>9, <2>1, <2>2 DEF TokenAfterPop
<1> HIDE DEF new
<1>15. ASSUME NEW j \in Jobs, attempts'[j] # 0
       PROVE  attempts[j] # 0 \/ j \in TimedOut \cup ran
  <2> SUFFICES ASSUME attempts[j] = 0, j \notin TimedOut, j \notin ran PROVE FALSE
    OBVIOUS
  <2>1. Cardinality(Copies(j, popped)) = 0
    BY <1>8, <1>9, FS_EmptySet, Zenon
  <2>2. attempts'[j] = 0 + 0 + 0
    BY <1>3, <2>1 DEF AttemptsAfterPop
  <2> QED
    BY <1>15, <2>2
<1>18. \A j \in ran : new[j] \in FreshTokens(j)
  BY <1>4, <1>8, <1>10
<1>19. ran \in SUBSET Range(queued) /\ Range(pending') = Range(queued) \ ran
  BY <1>3, <1>5, <1>6, <1>9
<1>20. IsInjective(pending')
  BY <1>3, <1>6
<1>21. /\ leases' = leases \cup {<<j, new[j]>> : j \in ran}
       /\ task' = [l \in LeaseKeys |->
                     IF l \in {<<j, new[j]>> : j \in ran} THEN NewTask(w, l[1])
                                                          ELSE task[l]]
  BY <1>4, <1>13
<1>22. Took(w, Range(queued), ran, new)
  BY <1>3, <1>14, <1>15, <1>18, <1>19, <1>20, <1>21 DEF Took
<1>23. ran \in SUBSET Jobs
  BY <1>5, <1>9, RangeType
<1> QED
  BY <1>12, <1>22, <1>23

\* The whole poll.
LEMMA PollEffect ==
    ASSUME CoreInv, NEW w \in Workers, PopBatchJobs(w)
    PROVE  \E due \in SUBSET delayed, ran \in SUBSET Jobs :
           \E new \in [ran -> Tokens] : Polled(w, due, ran, new)
<1>1. PICK batch \in (IF AlwaysPoll THEN 0 ELSE 1)..Permits(w), due \in SUBSET delayed :
        /\ delayed' = delayed \ due
        /\ front' = front \ due
        /\ \E first \in Orders(due \cap front), last \in Orders(due \ front),
             back \in Orders(TimedOut) :
               TakeBatch(w, Requeued(first, back, last), batch)
  BY Zenon DEF PopBatchJobs
<1>2. PICK first \in Orders(due \cap front), last \in Orders(due \ front),
           back \in Orders(TimedOut) :
             TakeBatch(w, Requeued(first, back, last), batch)
  BY <1>1
<1> DEFINE queued == Requeued(first, back, last)
<1>3. TypeOK /\ Apart /\ Known
  BY DEF CoreInv
<1>4. batch \in Nat
  BY <1>1
<1>5. /\ queued \in Seq(Jobs)
      /\ Range(queued) = due \cup TimedOut \cup Range(pending)
      /\ IsInjective(queued)
  BY <1>3, RequeuedOnce, Zenon
<1>6. TakeBatch(w, queued, batch)
  BY <1>2
<1> HIDE DEF queued
<1>7. Range(queued) \subseteq Jobs
  BY <1>5, RangeType
<1>8. \A j \in Range(queued) : data[j] # None
  BY <1>3, <1>5, <1>7 DEF Known, TimedOut
<1>9. /\ UNCHANGED <<success, dedupe, data, created, result, errors, watched, dirty, mode>>
      /\ failed' = failed /\ finished' = finished /\ cancels' = cancels
  <2>1. Settled = {} /\ CancelledLate = {}
    BY <1>3 DEF Known, Settled, CancelledLate
  <2>2. PICK late \in Orders({}) : failed' = late \o failed
    BY <2>1 DEF PopBatchJobs
  <2>3. failed' = failed
    BY <1>3, <2>2, OrdersOfNone, SeqConcatEmpty DEF TypeOK
  <2> QED
    BY <2>1, <2>3 DEF PopBatchJobs, watch
<1>10. PICK ran \in SUBSET Jobs : \E new \in [ran -> Tokens] : Took(w, Range(queued), ran, new)
  BY <1>3, <1>4, <1>5, <1>6, <1>8, TakeEach, Zenon
<1>11. PICK new \in [ran -> Tokens] : Took(w, Range(queued), ran, new)
  BY <1>10
<1>12. Polled(w, due, ran, new)
  BY <1>1, <1>5, <1>9, <1>11 DEF Polled
<1> QED
  BY <1>12

=============================================================================
