-------------------------- MODULE BroadcasterProofs --------------------------
(***************************************************************************)
(* Proofs about Broadcaster, for any number of slots, payloads, keys and   *)
(* handler invocations, and for any lag of the endpoints that are read.    *)
(*                                                                         *)
(* The properties speak of a handler that sends and of a job that is       *)
(* settled.  What makes them inductive is what a handler knows before: the *)
(* keys it has read were not ahead of the chain then, so they are not now, *)
(* and the holder of a lease works on the stored payload of its own job.   *)
(***************************************************************************)
EXTENDS Broadcaster, SequenceTheorems, TLAPS

\* The provers get more time than by default: the contexts are long.
USE SMTT(30), ZenonT(30)

-----------------------------------------------------------------------------
(* The inductive invariant                                                 *)

\* The chain has reached the nonce_seq of job j on key k.
Reached(j, k) == chain[k] >= SeqOf[j]

\* The chain has passed the nonce_seq of job j on one of its keys.
Passed(j) == \E k \in Range(KeysOf[j]) : chain[k] > SeqOf[j]

\* A handler that still reads: a key of its job is yet to be read, or was
\* found reached, unless some key was found ahead.
ReadingOK(x) ==
    /\ x.verdict = None
    /\ x.keys \in Seq(NonceKeys) \ {<< >>}
    /\ Range(x.keys) \subseteq Range(KeysOf[x.job])
    /\ "ahead" \in x.compared
         \/ \A k \in Range(KeysOf[x.job]) : k \in Range(x.keys) \/ Reached(x.job, k)
    /\ "past" \in x.compared => Passed(x.job)

SendingOK(x) ==
    /\ x.verdict = None
    /\ \A k \in Range(KeysOf[x.job]) : Reached(x.job, k)

ReturnedOK(x) ==
    /\ x.verdict \in Verdicts
    /\ x.verdict = "broadcast" => <<x.job, x.tx>> \in accepted
    /\ x.verdict = "superseded" => Passed(x.job)

RunOK(x) ==
    \/ x = IdleRun
    \/ /\ x.phase \in {"reading", "sending", "returned"}
       /\ x.job \in Jobs
       /\ x.tx \in Data
       /\ x.tries \in Nat
       /\ x.phase = "reading" => ReadingOK(x)
       /\ x.phase = "sending" => SendingOK(x)
       /\ x.phase = "returned" => ReturnedOK(x)

\* The holder of a job's lease works on that job, with the stored payload, and
\* its attempt is counted.
LeaseOK(j) ==
    holder[j] # None =>
        /\ run[holder[j]] # IdleRun
        /\ run[holder[j]].job = j
        /\ run[holder[j]].tx = job[j].payload
        /\ job[j].state = "leased"
        /\ attempts[j] >= 1

\* A job that the queue knows has a payload, and only a settled one, whose
\* payload stays, has an outcome.
JobOK(j) ==
    /\ job[j].state # "absent" => job[j].payload \in Data
    /\ outcome[j] # None => job[j].state \in Queue!Terminal

BInv ==
    /\ TypeOK
    /\ run = [r \in Runs |-> run[r]]
    /\ \A r \in Runs : RunOK(run[r])
    /\ \A j \in Jobs : LeaseOK(j) /\ JobOK(j)
    /\ BroadcastWasAccepted
    /\ SupersededIsFinal

-----------------------------------------------------------------------------
(* What the invariant rests on                                             *)

\* The steps of JobLifecycle keep its types.
LEMMA JobTypes ==
    ASSUME NEW x \in Queue!AllJobs
    PROVE  /\ \A y \in Queue!Accepted(x) : /\ y \in Queue!AllJobs
                                           /\ x.state = "absent"
                                           /\ y.state = "waiting" /\ y.payload \in Data
           /\ \A y \in Queue!Replaced(x) : /\ y \in Queue!AllJobs
                                           /\ x.state = "waiting"
                                           /\ y.state = "waiting" /\ y.payload \in Data
           /\ \A y \in Queue!Borrowed(x) : /\ y \in Queue!AllJobs
                                           /\ x.state = "waiting"
                                           /\ y.state = "leased" /\ y.payload = x.payload
           /\ \A y \in Queue!GivenBack(x) : /\ y \in Queue!AllJobs
                                            /\ x.state = "leased"
                                            /\ y.state = "waiting" /\ y.payload = x.payload
           /\ \A y \in Queue!Settled(x) : /\ y \in Queue!AllJobs
                                          /\ x.state = "leased"
                                          /\ y.state \in Queue!Terminal
                                          /\ y.payload = x.payload
<1> USE DEF Queue!AllJobs, Queue!Job, Queue!States
<1>1. \A y \in Queue!Accepted(x) : /\ y \in Queue!AllJobs
                                   /\ x.state = "absent"
                                   /\ y.state = "waiting" /\ y.payload \in Data
  BY DEF Queue!Accepted
<1>2. \A y \in Queue!Replaced(x) : /\ y \in Queue!AllJobs
                                   /\ x.state = "waiting"
                                   /\ y.state = "waiting" /\ y.payload \in Data
  BY DEF Queue!Replaced
<1>3. \A y \in Queue!Borrowed(x) : /\ y \in Queue!AllJobs
                                   /\ x.state = "waiting"
                                   /\ y.state = "leased" /\ y.payload = x.payload
  BY DEF Queue!Borrowed
<1>4. \A y \in Queue!GivenBack(x) : /\ y \in Queue!AllJobs
                                    /\ x.state = "leased"
                                    /\ y.state = "waiting" /\ y.payload = x.payload
  BY DEF Queue!GivenBack
<1>5. \A y \in Queue!Settled(x) : /\ y \in Queue!AllJobs
                                  /\ x.state = "leased"
                                  /\ y.state \in Queue!Terminal
                                  /\ y.payload = x.payload
  BY DEF Queue!Settled, Queue!Terminal
<1> QED
  BY <1>1, <1>2, <1>3, <1>4, <1>5

LEMMA IdleIsNothing ==
    /\ IdleRun.phase = "idle"
    /\ IdleRun.verdict = None
    /\ None \notin Jobs /\ None \notin Runs /\ None \notin Data /\ None \notin Verdicts
  BY BroadcasterAssumption DEF IdleRun, Run

\* Counting stays in its range.
LEMMA CountedType ==
    ASSUME NEW n \in Nat
    PROVE  Counted(n + 1) \in 1..(MaxBroadcastAttempts + 1)
  BY BroadcasterAssumption DEF Counted

\* What a handler knows of the chain and of the mempool stays true: sequences
\* only grow, and what was accepted was accepted.
LEMMA KnowledgeStays ==
    ASSUME TypeOK, NEW r \in Runs, RunOK(run[r]), run'[r] = run[r],
           \A k \in NonceKeys : chain'[k] \in Nat /\ chain'[k] >= chain[k],
           accepted \subseteq accepted'
    PROVE  RunOK(run[r])'
<1>1. ASSUME NEW j \in Jobs
      PROVE  /\ Range(KeysOf[j]) \subseteq NonceKeys
             /\ SeqOf[j] \in Nat
  BY BroadcasterAssumption, <1>1, LenProperties DEF Range
<1>2. \A k \in NonceKeys : chain[k] \in Nat
  BY DEF TypeOK
<1>3. ASSUME NEW j \in Jobs
      PROVE  /\ \A k \in Range(KeysOf[j]) : Reached(j, k) => Reached(j, k)'
             /\ Passed(j) => Passed(j)'
  BY <1>1, <1>2, <1>3 DEF Reached, Passed
<1>4. CASE run[r] = IdleRun
  BY <1>4 DEF RunOK, IdleRun, Run
<1>5. CASE run[r] # IdleRun
  <2> DEFINE j == run[r].job
  <2>1. j \in Jobs
    BY <1>5 DEF RunOK
  <2>2. run[r].phase = "reading" => ReadingOK(run[r])'
    BY <1>3, <1>5, <2>1 DEF RunOK, ReadingOK
  <2>3. run[r].phase = "sending" => SendingOK(run[r])'
    BY <1>3, <1>5, <2>1 DEF RunOK, SendingOK
  <2>4. run[r].phase = "returned" => ReturnedOK(run[r])'
    BY <1>3, <1>5, <2>1 DEF RunOK, ReturnedOK
  <2> QED
    BY <1>5, <2>2, <2>3, <2>4 DEF RunOK
<1> QED
  BY <1>4, <1>5


-----------------------------------------------------------------------------
(* Each step keeps the invariant                                           *)

\* What is reported stays true, for every step that reports nothing new.
LEMMA ReportsStay ==
    ASSUME BInv, UNCHANGED outcome,
           \A j \in Jobs : outcome[j] # None => job'[j] = job[j],
           \A k \in NonceKeys : chain'[k] \in Nat /\ chain'[k] >= chain[k],
           accepted \subseteq accepted'
    PROVE  BroadcastWasAccepted' /\ SupersededIsFinal'
<1>1. BroadcastWasAccepted'
  <2>1. "broadcast" # None
    BY BroadcasterAssumption DEF Verdicts
  <2> QED
    BY <2>1 DEF BInv, BroadcastWasAccepted
<1>2. ASSUME NEW j \in Jobs
      PROVE  Range(KeysOf[j]) \subseteq NonceKeys /\ SeqOf[j] \in Nat
  BY BroadcasterAssumption, <1>2, LenProperties DEF Range
<1>3. \A k \in NonceKeys : chain[k] \in Nat
  BY DEF BInv, TypeOK
<1>4. SupersededIsFinal'
  BY <1>2, <1>3 DEF BInv, SupersededIsFinal
<1> QED
  BY <1>1, <1>4

\* The chain, the mempool and other users of the sender's keys.
LEMMA ChainKeeps ==
    ASSUME BInv, UNCHANGED <<queue, run, accepted>>, pool' \subseteq accepted,
           chain' \in [NonceKeys -> Nat],
           \A k \in NonceKeys : chain'[k] \in Nat /\ chain'[k] >= chain[k]
    PROVE  BInv'
<1>1. UNCHANGED <<job, attempts, age, outcome, holder, run, accepted>>
  BY DEF queue
<1>2. TypeOK'
  BY <1>1 DEF BInv, TypeOK
<1>3. \A r \in Runs : RunOK(run[r])'
  BY <1>1, KnowledgeStays DEF BInv
<1>4. \A j \in Jobs : LeaseOK(j)' /\ JobOK(j)'
  BY <1>1, Zenon DEF BInv, LeaseOK, JobOK, IdleRun, Run
<1>5. BroadcastWasAccepted' /\ SupersededIsFinal'
  BY <1>1, ReportsStay
<1>6. run' = [r \in Runs |-> run'[r]]
  BY <1>1 DEF BInv
<1> QED
  BY <1>2, <1>3, <1>4, <1>5, <1>6 DEF BInv

LEMMA ChainStep ==
    ASSUME BInv,
           \/ \E t \in pool : Mine(t) \/ Evict(t)
           \/ \E k \in NonceKeys : Elsewhere(k)
    PROVE  BInv'
<1>1. TypeOK
  BY DEF BInv
<1>2. ASSUME NEW keys
      PROVE  /\ Advance(keys) \in [NonceKeys -> Nat]
             /\ \A k \in NonceKeys : Advance(keys)[k] \in Nat /\ Advance(keys)[k] >= chain[k]
  BY <1>1 DEF TypeOK, Advance
<1>3. ASSUME NEW t \in pool, Mine(t)
      PROVE  BInv'
  BY <1>1, <1>2, <1>3, ChainKeeps DEF Mine, TypeOK
<1>4. ASSUME NEW t \in pool, Evict(t)
      PROVE  BInv'
  <2>1. \A k \in NonceKeys : chain'[k] \in Nat /\ chain'[k] >= chain[k]
    BY <1>1, <1>4 DEF Evict, TypeOK
  <2> QED
    BY <1>1, <1>4, <2>1, ChainKeeps DEF Evict, TypeOK
<1>5. ASSUME NEW k \in NonceKeys, Elsewhere(k)
      PROVE  BInv'
  BY <1>1, <1>2, <1>5, ChainKeeps DEF Elsewhere, TypeOK
<1> QED
  BY <1>3, <1>4, <1>5

\* A handler that goes on with its job.
LEMMA HandlerKeeps ==
    ASSUME BInv, UNCHANGED <<queue, chain>>, NEW r \in Runs, run[r] # IdleRun,
           run' = [run EXCEPT ![r] = run'[r]], RunOK(run[r])', run'[r] # IdleRun,
           run'[r].job = run[r].job, run'[r].tx = run[r].tx,
           accepted \subseteq accepted', pool' \subseteq accepted',
           accepted' \subseteq Jobs \X Data
    PROVE  BInv'
<1>1. UNCHANGED <<job, attempts, age, outcome, holder, chain>>
  BY DEF queue
<1>2. \A k \in NonceKeys : chain'[k] \in Nat /\ chain'[k] >= chain[k]
  BY <1>1 DEF BInv, TypeOK
<1>3. \A q \in Runs : q # r => run'[q] = run[q]
  BY DEF BInv
<1>4. \A q \in Runs : RunOK(run[q])'
  BY <1>2, <1>3, KnowledgeStays DEF BInv
<1>5. \A q \in Runs : run'[q].verdict \in Verdicts \cup {None}
  BY <1>4, IdleIsNothing, Zenon DEF RunOK, ReadingOK, SendingOK, ReturnedOK
<1>6. TypeOK'
  BY <1>1, <1>5 DEF BInv, TypeOK
<1>7. \A j \in Jobs : LeaseOK(j)' /\ JobOK(j)'
  <2> SUFFICES ASSUME NEW j \in Jobs PROVE LeaseOK(j)' /\ JobOK(j)'
    OBVIOUS
  <2>1. JobOK(j)'
    BY <1>1 DEF BInv, JobOK
  <2>2. holder[j] # None => /\ run'[holder[j]] # IdleRun
                            /\ run'[holder[j]].job = run[holder[j]].job
                            /\ run'[holder[j]].tx = run[holder[j]].tx
    <3>1. holder[j] \in Runs \cup {None} /\ LeaseOK(j)
      BY DEF BInv, TypeOK
    <3>2. CASE holder[j] = r
      BY <3>2
    <3>3. CASE holder[j] # r
      BY <1>3, <3>1, <3>3 DEF LeaseOK
    <3> QED
      BY <3>2, <3>3
  <2>3. IdleRun' = IdleRun
    BY DEF IdleRun, Run
  <2>4. LeaseOK(j)
    BY DEF BInv
  <2> QED
    BY <1>1, <2>1, <2>2, <2>3, <2>4 DEF LeaseOK
<1>8. BroadcastWasAccepted' /\ SupersededIsFinal'
  BY <1>1, <1>2, ReportsStay
<1>9. run' = [q \in Runs |-> run'[q]]
  BY DEF BInv
<1> QED
  BY <1>4, <1>6, <1>7, <1>8, <1>9 DEF BInv


\* A run that does not rest has a job and a payload of its own.
LEMMA RunFacts ==
    ASSUME BInv, NEW r \in Runs, run[r] # IdleRun
    PROVE  /\ run[r].phase \in {"reading", "sending", "returned"}
           /\ run[r].job \in Jobs /\ run[r].tx \in Data /\ run[r].tries \in Nat
           /\ run[r].phase = "reading" => ReadingOK(run[r])
           /\ run[r].phase = "sending" => SendingOK(run[r])
           /\ run[r].phase = "returned" => ReturnedOK(run[r])
  BY DEF BInv, RunOK

\* A handler returns: what it says must be true.
LEMMA ReturnKeeps ==
    ASSUME BInv, NEW r \in Runs, run[r] # IdleRun, NEW verdict \in Verdicts,
           Return(r, verdict), UNCHANGED <<queue, chain>>,
           accepted \subseteq accepted', pool' \subseteq accepted',
           accepted' \subseteq Jobs \X Data,
           verdict = "broadcast" => Tx(r) \in accepted',
           verdict = "superseded" => Passed(run[r].job)
    PROVE  BInv'
<1>1. run'[r] = Run("returned", run[r].job, run[r].tx, run[r].tries, << >>, {}, verdict)
  BY DEF Return, BInv
<1>2. /\ run'[r].phase = "returned" /\ run'[r].verdict = verdict
      /\ run'[r].job = run[r].job /\ run'[r].tx = run[r].tx /\ run'[r].tries = run[r].tries
  BY <1>1 DEF Run
<1>3. run' = [run EXCEPT ![r] = run'[r]]
  BY <1>1, Zenon DEF Return
<1>4. Passed(run[r].job) => Passed(run[r].job)'
  BY <1>2 DEF Passed
<1>5. ReturnedOK(run[r])'
  BY <1>2, <1>4 DEF ReturnedOK, Tx, Verdicts
<1>6. RunOK(run[r])'
  BY <1>2, <1>5, RunFacts DEF RunOK
<1>7. run'[r] # IdleRun
  BY <1>2, IdleIsNothing
<1> QED
  BY <1>2, <1>3, <1>6, <1>7, HandlerKeeps

\* The first of the keys yet to be read, and the others.
LEMMA NextKey ==
    ASSUME NEW T, NEW s \in Seq(T), s # << >>
    PROVE  /\ Head(s) \in T
           /\ Tail(s) \in Seq(T)
           /\ Range(s) = {Head(s)} \cup Range(Tail(s))
<1>1. Len(s) \in Nat \ {0} /\ DOMAIN s = 1..Len(s) /\ \A i \in 1..Len(s) : s[i] \in T
  BY EmptySeq, LenProperties
<1>2. Head(s) = s[1] /\ Head(s) \in T
  BY <1>1, HeadTailProperties
<1>3. /\ Tail(s) \in Seq(T)
      /\ Len(Tail(s)) = Len(s) - 1
      /\ \A i \in 1..Len(Tail(s)) : Tail(s)[i] = s[i + 1]
  BY <1>1, HeadTailProperties
<1>4. DOMAIN Tail(s) = 1..(Len(s) - 1)
  BY <1>3, LenProperties
<1>5. \A i \in 1..Len(s) : i # 1 => i - 1 \in 1..(Len(s) - 1) /\ (i - 1) + 1 = i
  BY <1>1
<1>6. \A i \in 1..(Len(s) - 1) : i + 1 \in 1..Len(s)
  BY <1>1
<1>7. ASSUME NEW e \in Range(s) PROVE e \in {Head(s)} \cup Range(Tail(s))
  <2>1. PICK i \in 1..Len(s) : e = s[i]
    BY <1>1 DEF Range
  <2>2. CASE i = 1
    BY <1>2, <2>1, <2>2
  <2>3. CASE i # 1
    <3>1. i - 1 \in 1..(Len(s) - 1) /\ (i - 1) + 1 = i
      BY <1>5, <2>3
    <3>2. Tail(s)[i - 1] = s[i]
      BY <1>3, <3>1
    <3> QED
      BY <1>4, <2>1, <3>1, <3>2, Zenon DEF Range
  <2> QED
    BY <2>2, <2>3
<1>8. ASSUME NEW e \in {Head(s)} \cup Range(Tail(s)) PROVE e \in Range(s)
  <2>1. CASE e = Head(s)
    BY <1>1, <1>2, <2>1 DEF Range
  <2>2. CASE e \in Range(Tail(s))
    <3>1. PICK i \in 1..(Len(s) - 1) : e = Tail(s)[i]
      BY <1>4, <2>2 DEF Range
    <3> QED
      BY <1>1, <1>3, <1>6, <3>1 DEF Range
  <2> QED
    BY <1>8, <2>1, <2>2
<1> QED
  BY <1>2, <1>3, <1>7, <1>8

\* What reading one key tells, from an endpoint that is `lag' behind.
LEMMA ReadTells ==
    ASSUME TypeOK, NEW j \in Jobs, NEW k \in Range(KeysOf[j]), NEW lag \in Nat
    PROVE  /\ Compare(SeqOf[j], chain[k] - lag) \in {"past", "ready", "ahead"}
           /\ Compare(SeqOf[j], chain[k] - lag) = "past" => Passed(j)
           /\ Compare(SeqOf[j], chain[k] - lag) # "ahead" => Reached(j, k)
<1>1. SeqOf[j] \in Nat /\ k \in NonceKeys
  BY BroadcasterAssumption, LenProperties DEF Range
<1>2. chain[k] \in Nat
  BY <1>1 DEF TypeOK
<1>3. /\ SeqOf[j] < chain[k] - lag => chain[k] > SeqOf[j]
      /\ SeqOf[j] = chain[k] - lag => chain[k] >= SeqOf[j]
  BY <1>1, <1>2
<1>4. SeqOf[j] < chain[k] - lag => chain[k] >= SeqOf[j]
  BY <1>1, <1>2
<1> QED
  BY <1>3, <1>4 DEF Compare, Passed, Reached


\* The handler reads one more key, and decides after the last.
LEMMA ReadKeeps ==
    ASSUME BInv, NEW r \in Runs, ReadKey(r)
    PROVE  BInv'
<1> DEFINE x == run[r]
           k == Head(x.keys)
           c(lag) == Compare(SeqOf[x.job], chain[k] - lag)
           now(lag) == x.compared \cup {c(lag)}
<1>1. x.phase = "reading" /\ x # IdleRun /\ UNCHANGED <<queue, chain, pool, accepted>>
  BY IdleIsNothing DEF ReadKey, node
<1>2. x.job \in Jobs /\ x.tx \in Data /\ x.tries \in Nat /\ ReadingOK(x)
  BY <1>1, RunFacts
<1>3. /\ Tail(x.keys) \in Seq(NonceKeys)
      /\ Range(x.keys) = {k} \cup Range(Tail(x.keys))
      /\ k \in Range(KeysOf[x.job])
      /\ Range(Tail(x.keys)) \subseteq Range(KeysOf[x.job])
  BY <1>2, NextKey DEF ReadingOK
<1>4. PICK lag \in 0..MaxLag :
        \/ /\ Tail(x.keys) # << >>
           /\ run' = [run EXCEPT ![r] =
                        Run("reading", x.job, x.tx, x.tries, Tail(x.keys), now(lag), None)]
        \/ Tail(x.keys) = << >> /\ Decide(r, now(lag))
  BY Zenon DEF ReadKey
<1>5. lag \in Nat
  BY <1>4, BroadcasterAssumption
<1>6. /\ c(lag) = "past" => Passed(x.job)
      /\ c(lag) # "ahead" => Reached(x.job, k)
  BY <1>2, <1>3, <1>5, ReadTells DEF BInv
<1> HIDE DEF c
<1>7. /\ "past" \in now(lag) => Passed(x.job)
      /\ \/ "ahead" \in now(lag)
         \/ \A h \in Range(KeysOf[x.job]) : h \in Range(Tail(x.keys)) \/ Reached(x.job, h)
  BY <1>2, <1>3, <1>6 DEF ReadingOK
<1> HIDE DEF now
<1>8. /\ pool' \subseteq accepted' /\ accepted \subseteq accepted'
      /\ accepted' \subseteq Jobs \X Data
  BY <1>1 DEF BInv, TypeOK
<1>9. CASE /\ Tail(x.keys) # << >>
           /\ run' = [run EXCEPT ![r] =
                        Run("reading", x.job, x.tx, x.tries, Tail(x.keys), now(lag), None)]
  <2>1. run'[r] = Run("reading", x.job, x.tx, x.tries, Tail(x.keys), now(lag), None)
    BY <1>9 DEF BInv
  <2>2. /\ run'[r].phase = "reading" /\ run'[r].verdict = None
        /\ run'[r].job = x.job /\ run'[r].tx = x.tx /\ run'[r].tries = x.tries
        /\ run'[r].keys = Tail(x.keys) /\ run'[r].compared = now(lag)
    BY <2>1 DEF Run
  <2>3. ReadingOK(run[r])'
    BY <1>1, <1>3, <1>7, <1>9, <2>2, Zenon DEF ReadingOK, Reached, Passed
  <2>4. RunOK(run[r])'
    BY <1>2, <2>2, <2>3 DEF RunOK
  <2>5. run'[r] # IdleRun /\ run' = [run EXCEPT ![r] = run'[r]]
    BY <1>9, <2>1, <2>2, IdleIsNothing, Zenon
  <2> QED
    BY <1>1, <1>8, <2>2, <2>4, <2>5, HandlerKeeps
<1>10. CASE Tail(x.keys) = << >> /\ Decide(r, now(lag))
  <2>1. ASSUME NEW verdict \in Verdicts \ {"broadcast"}, Return(r, verdict),
               verdict = "superseded" => "past" \in now(lag)
        PROVE  BInv'
    BY <1>1, <1>7, <1>8, <2>1, ReturnKeeps
  <2>2. CASE \/ SeqState(now(lag)) = "superseded" /\ Return(r, "superseded")
             \/ /\ SeqState(now(lag)) = "future"
                /\ Return(r, IF age[x.job] >= MaxNonceHold THEN "hold_expired" ELSE "defer")
             \/ Return(r, "malformed")
    <3>1. SeqState(now(lag)) = "superseded" => "past" \in now(lag)
      BY DEF SeqState
    <3> QED
      BY <2>1, <2>2, <3>1 DEF Verdicts
  <2>3. CASE /\ SeqState(now(lag)) = "executable"
             /\ run' = [run EXCEPT ![r] =
                          Run("sending", x.job, x.tx, x.tries, << >>, {}, None)]
    <3>1. "ahead" \notin now(lag)
      BY <2>3 DEF SeqState
    <3>2. Range(Tail(x.keys)) = {}
      BY <1>10 DEF Range
    <3>3. run'[r] = Run("sending", x.job, x.tx, x.tries, << >>, {}, None)
      BY <2>3 DEF BInv
    <3>4. /\ run'[r].phase = "sending" /\ run'[r].verdict = None
          /\ run'[r].job = x.job /\ run'[r].tx = x.tx /\ run'[r].tries = x.tries
      BY <3>3 DEF Run
    <3>5. SendingOK(run[r])'
      BY <1>1, <1>7, <3>1, <3>2, <3>4 DEF SendingOK, Reached
    <3>6. RunOK(run[r])'
      BY <1>2, <3>4, <3>5 DEF RunOK
    <3>7. run'[r] # IdleRun /\ run' = [run EXCEPT ![r] = run'[r]]
      BY <2>3, <3>3, <3>4, IdleIsNothing, Zenon
    <3> QED
      BY <1>1, <1>8, <3>4, <3>6, <3>7, HandlerKeeps
  <2> QED
    BY <1>10, <2>2, <2>3 DEF Decide
<1> QED
  BY <1>4, <1>9, <1>10

\* The other requests of the handler.
LEMMA SendKeeps ==
    ASSUME BInv, NEW r \in Runs, ReadFails(r) \/ SendStep(r)
    PROVE  BInv'
<1>1. pool \subseteq accepted /\ accepted \subseteq Jobs \X Data
  BY DEF BInv, TypeOK
<1>2. \A n : Transient(n) \in Verdicts \ {"broadcast", "superseded"}
  BY DEF Transient, Verdicts
<1>3. ASSUME NEW verdict \in Verdicts \ {"broadcast", "superseded"}, Return(r, verdict),
             run[r].phase \in {"reading", "sending"}, UNCHANGED <<queue, node>>
      PROVE  BInv'
  BY <1>1, <1>3, ReturnKeeps, IdleIsNothing DEF node
<1>4. CASE ReadFails(r)
  BY <1>3, <1>4 DEF ReadFails, Verdicts
<1>5. CASE SendUnreached(r)
  BY <1>2, <1>3, <1>5 DEF SendUnreached
<1>6. ASSUME NEW replied \in BOOLEAN, SendRejected(r, replied)
      PROVE  BInv'
  BY <1>2, <1>3, <1>6 DEF SendRejected, Verdicts
<1>7. ASSUME NEW replied \in BOOLEAN, SendAccepted(r, replied)
      PROVE  BInv'
  <2> DEFINE verdict == IF replied THEN "broadcast" ELSE Transient(run[r].tries)
  <2>1. verdict \in Verdicts \ {"superseded"}
    BY <1>2 DEF Verdicts
  <2>2. /\ run[r].phase = "sending" /\ run[r] # IdleRun
        /\ pool' = (pool \ Conflicts(Tx(r))) \cup {Tx(r)}
        /\ accepted' = accepted \cup {Tx(r)}
        /\ Return(r, verdict)
        /\ UNCHANGED <<queue, chain>>
    BY <1>7, IdleIsNothing DEF SendAccepted
  <2>3. Tx(r) \in Jobs \X Data
    BY <2>2, RunFacts DEF Tx
  <2> HIDE DEF verdict
  <2> QED
    BY <1>1, <2>1, <2>2, <2>3, ReturnKeeps
<1> QED
  BY <1>4, <1>5, <1>6, <1>7 DEF SendStep


\* A step of the queue that leaves the node alone keeps what the handlers know
\* and what is reported.
LEMMA QueueKeeps ==
    ASSUME BInv, UNCHANGED <<outcome, node>>, NEW j \in Jobs,
           NEW x \in Queue!AllJobs, job' = [job EXCEPT ![j] = x],
           job[j].state \notin Queue!Terminal, x.payload \in Data,
           attempts' \in [Jobs -> 0..(MaxBroadcastAttempts + 1)],
           age' \in [Jobs -> 0..MaxNonceHold], holder' \in [Jobs -> Runs \cup {None}],
           run' = [q \in Runs |-> run'[q]],
           \A q \in Runs : run'[q] # run[q] => RunOK(run[q])',
           \A i \in Jobs : LeaseOK(i)'
    PROVE  BInv'
<1>1. UNCHANGED <<outcome, chain, pool, accepted>>
  BY DEF node
<1>2. \A k \in NonceKeys : chain'[k] \in Nat /\ chain'[k] >= chain[k]
  BY <1>1 DEF BInv, TypeOK
<1>3. \A q \in Runs : RunOK(run[q])'
  BY <1>1, <1>2, KnowledgeStays DEF BInv
<1>4. \A q \in Runs : run'[q].verdict \in Verdicts \cup {None}
  BY <1>3, IdleIsNothing, Zenon DEF RunOK, ReadingOK, SendingOK, ReturnedOK
<1>5. job' \in [Jobs -> Queue!AllJobs] /\ \A i \in Jobs : job'[i] = IF i = j THEN x ELSE job[i]
  BY DEF BInv, TypeOK
<1>6. TypeOK'
  BY <1>1, <1>4, <1>5 DEF BInv, TypeOK
<1>7. outcome[j] = None
  BY DEF BInv, JobOK
<1>8. \A i \in Jobs : JobOK(i)'
  BY <1>1, <1>5, <1>7 DEF BInv, JobOK
<1>9. BroadcastWasAccepted' /\ SupersededIsFinal'
  BY <1>1, <1>2, <1>5, <1>7, ReportsStay
<1> QED
  BY <1>3, <1>6, <1>8, <1>9 DEF BInv

LEMMA StateNames ==
    "absent" \notin Queue!Terminal /\ "waiting" \notin Queue!Terminal
      /\ "leased" \notin Queue!Terminal
  BY DEF Queue!Terminal

\* A submitted or replaced job waits, and no one holds a waiting job.
LEMMA ClientKeeps ==
    ASSUME BInv, NEW j \in Jobs, Submit(j) \/ Replace(j)
    PROVE  BInv'
<1>1. TypeOK /\ run = [r \in Runs |-> run[r]]
  BY DEF BInv
<1>2. PICK x \in Queue!AllJobs : /\ job' = [job EXCEPT ![j] = x]
                                 /\ job[j].state \in {"absent", "waiting"}
                                 /\ x.payload \in Data
  BY <1>1, JobTypes DEF Submit, Replace, Becomes, TypeOK
<1>3. UNCHANGED <<attempts, age, outcome, holder, run, node>>
  BY DEF Submit, Replace
<1>4. holder[j] = None
  BY <1>2 DEF BInv, LeaseOK
<1>5. ASSUME NEW i \in Jobs PROVE LeaseOK(i)'
  <2>1. i # j => job'[i] = job[i]
    BY <1>1, <1>2 DEF TypeOK
  <2>2. IdleRun' = IdleRun
    BY DEF IdleRun, Run
  <2> QED
    BY <1>3, <1>4, <2>1, <2>2 DEF BInv, LeaseOK
<1> QED
  BY <1>1, <1>2, <1>3, <1>5, QueueKeeps, StateNames, Zenon DEF TypeOK

\* Time passes.
LEMMA TickKeeps ==
    ASSUME BInv, NEW j \in Jobs, Tick(j)
    PROVE  BInv'
<1>1. TypeOK /\ run = [r \in Runs |-> run[r]]
  BY DEF BInv
<1>2. UNCHANGED <<job, attempts, outcome, holder, run, node>>
  BY DEF Tick
<1>3. job' = [job EXCEPT ![j] = job[j]] /\ job[j] \in Queue!AllJobs
  BY <1>1, <1>2 DEF TypeOK
<1>4. age' \in [Jobs -> 0..MaxNonceHold]
  BY <1>1, BroadcasterAssumption DEF Tick, TypeOK
<1>5. job[j].state \notin Queue!Terminal /\ job[j].payload \in Data
  BY StateNames DEF Tick, BInv, JobOK
<1>6. \A i \in Jobs : LeaseOK(i)'
  BY <1>2, Zenon DEF BInv, LeaseOK, IdleRun, Run
<1> QED
  BY <1>1, <1>2, <1>3, <1>4, <1>5, <1>6, QueueKeeps, Zenon DEF TypeOK

\* A run that starts gets the stored payload and the lease of a job that no one
\* holds.
LEMMA StartKeeps ==
    ASSUME BInv, NEW r \in Runs, NEW j \in Jobs, Start(r, j)
    PROVE  BInv'
<1> DEFINE tries == Counted(attempts[j] + 1)
<1>1. TypeOK /\ run = [q \in Runs |-> run[q]]
  BY DEF BInv
<1>2. PICK x \in Queue!AllJobs : /\ job' = [job EXCEPT ![j] = x]
                                 /\ job[j].state = "waiting"
                                 /\ x.state = "leased" /\ x.payload = job[j].payload
  BY <1>1, JobTypes, ZenonT(30) DEF Start, Becomes, TypeOK
<1>3. job[j].payload \in Data /\ holder[j] = None
  BY <1>2 DEF BInv, JobOK, LeaseOK
<1>4. tries \in 1..(MaxBroadcastAttempts + 1)
  BY <1>1, CountedType DEF TypeOK
<1>5. tries \in Nat /\ tries >= 1 /\ tries \in 0..(MaxBroadcastAttempts + 1)
  BY <1>4, BroadcasterAssumption
<1>6. /\ run[r] = IdleRun
      /\ attempts' = [attempts EXCEPT ![j] = tries]
      /\ holder' = [holder EXCEPT ![j] = r]
      /\ run' = [run EXCEPT ![r] =
                   IF j \in Unsendable
                   THEN Run("returned", j, job[j].payload, tries, << >>, {}, "malformed")
                   ELSE Run("reading", j, job[j].payload, tries, KeysOf[j], {}, None)]
      /\ UNCHANGED <<age, outcome, node>>
  BY DEF Start
<1> HIDE DEF tries
<1>7. /\ attempts' \in [Jobs -> 0..(MaxBroadcastAttempts + 1)]
      /\ holder' \in [Jobs -> Runs \cup {None}]
      /\ run' = [q \in Runs |-> run'[q]]
      /\ \A q \in Runs : q # r => run'[q] = run[q]
  BY <1>1, <1>5, <1>6 DEF TypeOK
<1>8. /\ run'[r].job = j /\ run'[r].tx = job[j].payload /\ run'[r].tries = tries
      /\ \/ run'[r].phase = "returned" /\ run'[r].verdict = "malformed"
         \/ /\ run'[r].phase = "reading" /\ run'[r].verdict = None
            /\ run'[r].keys = KeysOf[j] /\ run'[r].compared = {}
  BY <1>1, <1>6 DEF Run
<1>9. RunOK(run[r])'
  <2>1. run'[r].phase = "returned" => ReturnedOK(run[r])'
    BY <1>8 DEF ReturnedOK, Verdicts
  <2>2. run'[r].phase = "reading" => ReadingOK(run[r])'
    BY <1>8, BroadcasterAssumption DEF ReadingOK
  <2> QED
    BY <1>3, <1>5, <1>8, <2>1, <2>2 DEF RunOK
<1>10. ASSUME NEW i \in Jobs PROVE LeaseOK(i)'
  <2>1. IdleRun' = IdleRun /\ run'[r] # IdleRun
    BY <1>8, IdleIsNothing DEF IdleRun, Run
  <2>2. CASE i = j
    <3>1. holder'[j] = r /\ job'[j] = x /\ attempts'[j] = tries
      BY <1>1, <1>2, <1>6 DEF TypeOK
    <3> QED
      BY <1>2, <1>5, <1>8, <2>1, <2>2, <3>1 DEF LeaseOK
  <2>3. CASE i # j
    <3>1. holder'[i] = holder[i] /\ job'[i] = job[i] /\ attempts'[i] = attempts[i]
      BY <1>1, <1>2, <1>6, <2>3 DEF TypeOK
    <3>2. LeaseOK(i) /\ holder[i] \in Runs \cup {None}
      BY <1>1 DEF BInv, TypeOK
    <3>3. holder[i] # r
      BY <1>6, <3>2, IdleIsNothing DEF LeaseOK
    <3> QED
      BY <1>7, <2>1, <3>1, <3>2, <3>3 DEF LeaseOK
  <2> QED
    BY <2>2, <2>3
<1> QED
  BY <1>1, <1>2, <1>3, <1>6, <1>7, <1>9, <1>10, QueueKeeps, StateNames, Zenon DEF TypeOK


\* The lease runs out: the job waits again, and its run goes on without it.
LEMMA ExpireKeeps ==
    ASSUME BInv, NEW j \in Jobs, Expire(j)
    PROVE  BInv'
<1>1. TypeOK /\ run = [q \in Runs |-> run[q]]
  BY DEF BInv
<1>2. PICK x \in Queue!AllJobs : /\ job' = [job EXCEPT ![j] = x]
                                 /\ job[j].state = "leased"
                                 /\ x.payload = job[j].payload
  <2>1. job[j] \in Queue!AllJobs
    BY <1>1 DEF TypeOK
  <2>2. PICK x \in Queue!GivenBack(job[j]) : job' = [job EXCEPT ![j] = x]
    BY Zenon DEF Expire, Becomes
  <2> QED
    BY <2>1, <2>2, JobTypes, Zenon
<1>3. job[j].payload \in Data
  BY <1>2 DEF BInv, JobOK
<1>4. Counted(attempts[j] + 1) \in 0..(MaxBroadcastAttempts + 1)
  <2>1. attempts[j] \in Nat
    BY <1>1, BroadcasterAssumption DEF TypeOK
  <2>2. Counted(attempts[j] + 1) \in 1..(MaxBroadcastAttempts + 1)
    BY <2>1, CountedType
  <2> QED
    BY <2>2, BroadcasterAssumption
<1>5. /\ attempts' \in [Jobs -> 0..(MaxBroadcastAttempts + 1)]
      /\ holder' \in [Jobs -> Runs \cup {None}]
      /\ UNCHANGED <<age, outcome, run, node>>
  BY <1>1, <1>4 DEF Expire, TypeOK
<1>6. ASSUME NEW i \in Jobs PROVE LeaseOK(i)'
  <2>1. IdleRun' = IdleRun
    BY DEF IdleRun, Run
  <2>2. CASE i = j
    BY <1>1, <2>2 DEF Expire, TypeOK, LeaseOK
  <2>3. CASE i # j
    <3>1. holder'[i] = holder[i] /\ job'[i] = job[i] /\ attempts'[i] = attempts[i]
      BY <1>1, <1>2, <2>3 DEF Expire, TypeOK
    <3> QED
      BY <1>5, <2>1, <3>1 DEF BInv, LeaseOK
  <2> QED
    BY <2>2, <2>3
<1> QED
  BY <1>1, <1>2, <1>3, <1>5, <1>6, QueueKeeps, StateNames, Zenon DEF TypeOK

\* A run ends, and holds no lease any more.
LEMMA RestKeeps ==
    ASSUME BInv, NEW r \in Runs, run' = [run EXCEPT ![r] = IdleRun],
           UNCHANGED <<job, attempts, age, outcome, node>>,
           holder' \in [Jobs -> Runs \cup {None}],
           \A i \in Jobs : holder'[i] # None => holder'[i] = holder[i] /\ holder[i] # r
    PROVE  BInv'
<1>1. UNCHANGED <<chain, pool, accepted>> /\ IdleRun' = IdleRun
  BY DEF node, IdleRun, Run
<1>2. \A k \in NonceKeys : chain'[k] \in Nat /\ chain'[k] >= chain[k]
  BY <1>1 DEF BInv, TypeOK
<1>3. /\ run' = [q \in Runs |-> run'[q]]
      /\ run'[r] = IdleRun
      /\ \A q \in Runs : q # r => run'[q] = run[q]
  BY DEF BInv
<1>4. \A q \in Runs : RunOK(run[q])'
  <2>1. RunOK(run[r])'
    BY <1>1, <1>3 DEF RunOK
  <2> QED
    BY <1>1, <1>2, <1>3, <2>1, KnowledgeStays DEF BInv
<1>5. TypeOK'
  BY <1>1, <1>3, IdleIsNothing DEF BInv, TypeOK
<1>6. \A i \in Jobs : LeaseOK(i)' /\ JobOK(i)'
  <2> SUFFICES ASSUME NEW i \in Jobs PROVE LeaseOK(i)' /\ JobOK(i)'
    OBVIOUS
  <2>1. JobOK(i)'
    BY DEF BInv, JobOK
  <2>2. holder'[i] # None => run'[holder'[i]] = run[holder[i]]
    BY <1>3
  <2>3. LeaseOK(i)
    BY DEF BInv
  <2> QED
    BY <1>1, <2>1, <2>2, <2>3 DEF LeaseOK
<1>7. BroadcastWasAccepted' /\ SupersededIsFinal'
  BY <1>1, <1>2, ReportsStay
<1> QED
  BY <1>3, <1>4, <1>5, <1>6, <1>7 DEF BInv

LEMMA DieKeeps ==
    ASSUME BInv, NEW r \in Runs, Die(r)
    PROVE  BInv'
  BY RestKeeps DEF Die, BInv, TypeOK

\* A run holds the lease of its own job only.
LEMMA HoldsOne ==
    ASSUME BInv, NEW r \in Runs, NEW i \in Jobs, holder[i] = r
    PROVE  run[r].job = i
  BY IdleIsNothing DEF BInv, LeaseOK

\* The queue records what the holder of the lease returned.
LEMMA CompleteKeeps ==
    ASSUME BInv, NEW r \in Runs, Complete(r)
    PROVE  BInv'
<1> DEFINE j == run[r].job
           v == run[r].verdict
<1>1. TypeOK /\ run = [q \in Runs |-> run[q]]
  BY DEF BInv
<1>2. /\ run[r].phase = "returned" /\ run[r] # IdleRun
      /\ run' = [run EXCEPT ![r] = IdleRun]
      /\ UNCHANGED node
  BY IdleIsNothing DEF Complete
<1>3. j \in Jobs /\ ReturnedOK(run[r])
  BY <1>2, RunFacts
<1>4. CASE holder[j] # r /\ UNCHANGED queue
  <2>1. \A i \in Jobs : holder[i] # r
    BY <1>4, HoldsOne
  <2> QED
    BY <1>1, <1>2, <1>4, <2>1, RestKeeps DEF queue, TypeOK
<1>5. ASSUME holder[j] = r, holder' = [holder EXCEPT ![j] = None], UNCHANGED age
      PROVE  /\ holder' \in [Jobs -> Runs \cup {None}]
             /\ holder'[j] = None
             /\ \A i \in Jobs : i # j => holder'[i] = holder[i] /\ holder[i] # r
             /\ job[j].payload = run[r].tx /\ job[j].payload \in Data
             /\ job[j].state = "leased" /\ attempts[j] >= 1
             /\ run' = [q \in Runs |-> run'[q]]
             /\ \A q \in Runs : run'[q] # run[q] => run'[q] = IdleRun
             /\ \A i \in Jobs : i # j => LeaseOK(i) /\ (holder[i] # None => run'[holder[i]] = run[holder[i]])
  <2>1. \A i \in Jobs : i # j => holder[i] # r
    BY HoldsOne
  <2>2. holder[j] # None /\ LeaseOK(j)
    BY <1>3, <1>5, IdleIsNothing DEF BInv
  <2>3. job[j].payload = run[r].tx /\ job[j].state = "leased" /\ attempts[j] >= 1
    BY <1>5, <2>2 DEF LeaseOK
  <2>4. job[j].payload \in Data
    BY <1>2, <2>3, RunFacts
  <2>5. \A q \in Runs : q # r => run'[q] = run[q]
    BY <1>1, <1>2
  <2>6. run'[r] = IdleRun /\ run' = [q \in Runs |-> run'[q]]
    BY <1>1, <1>2
  <2>7. \A i \in Jobs : i # j => LeaseOK(i) /\ (holder[i] # None => run'[holder[i]] = run[holder[i]])
    BY <1>1, <2>1, <2>5 DEF BInv, TypeOK
  <2> QED
    BY <1>1, <1>3, <1>5, <2>1, <2>3, <2>4, <2>5, <2>6, <2>7, Zenon DEF TypeOK
<1>6. IdleRun' = IdleRun
  BY DEF IdleRun, Run
<1>7. CASE /\ holder[j] = r /\ holder' = [holder EXCEPT ![j] = None] /\ UNCHANGED age
           /\ v \in {"nack", "defer"}
           /\ Becomes(j, Queue!GivenBack(job[j]))
           /\ attempts' = [attempts EXCEPT ![j] = AttemptsAfter(v, @)]
           /\ UNCHANGED outcome
  <2>1. PICK x \in Queue!AllJobs : job' = [job EXCEPT ![j] = x] /\ x.payload = job[j].payload
    <3>1. job[j] \in Queue!AllJobs
      BY <1>1, <1>3 DEF TypeOK
    <3>2. PICK x \in Queue!GivenBack(job[j]) : job' = [job EXCEPT ![j] = x]
      BY <1>7, Zenon DEF Becomes
    <3>3. x \in Queue!AllJobs /\ x.payload = job[j].payload
      BY <3>1, JobTypes
    <3> QED
      BY <3>2, <3>3, Zenon
  <2>2. attempts[j] \in 1..(MaxBroadcastAttempts + 1)
    BY <1>1, <1>3, <1>5, <1>7 DEF TypeOK
  <2>3. AttemptsAfter(v, attempts[j]) \in 0..(MaxBroadcastAttempts + 1)
    BY <2>2, BroadcasterAssumption DEF AttemptsAfter
  <2>4. attempts' \in [Jobs -> 0..(MaxBroadcastAttempts + 1)]
    BY <1>1, <1>3, <1>7, <2>3 DEF TypeOK
  <2>5. \A q \in Runs : run'[q] # run[q] => RunOK(run[q])'
    BY <1>5, <1>6, <1>7 DEF RunOK
  <2>6. ASSUME NEW i \in Jobs PROVE LeaseOK(i)'
    <3>1. CASE i = j
      BY <1>5, <1>7, <3>1 DEF LeaseOK
    <3>2. CASE i # j
      <4>1. job'[i] = job[i] /\ attempts'[i] = attempts[i]
        BY <1>1, <1>7, <2>1, <3>2 DEF TypeOK
      <4> QED
        BY <1>5, <1>6, <1>7, <3>2, <4>1 DEF LeaseOK
    <3> QED
      BY <3>1, <3>2
  <2>7. job[j].state \notin Queue!Terminal /\ x.payload \in Data
    BY <1>5, <1>7, <2>1, StateNames
  <2>8. age' \in [Jobs -> 0..MaxNonceHold] /\ UNCHANGED <<outcome, node>>
    BY <1>1, <1>2, <1>7 DEF TypeOK
  <2>9. holder' \in [Jobs -> Runs \cup {None}] /\ run' = [q \in Runs |-> run'[q]]
    BY <1>5, <1>7
  <2> HIDE DEF j, v
  <2> QED
    BY <1>3, <2>1, <2>4, <2>5, <2>6, <2>7, <2>8, <2>9, QueueKeeps, Zenon
<1>8. CASE /\ holder[j] = r /\ holder' = [holder EXCEPT ![j] = None] /\ UNCHANGED age
           /\ Becomes(j, {x \in Queue!Settled(job[j]) :
                            (x.state = "succeeded") <=> (v \in {"broadcast", "superseded"})})
           /\ outcome' = [outcome EXCEPT ![j] = v]
           /\ UNCHANGED attempts
  <2>1. PICK x \in Queue!AllJobs : /\ job' = [job EXCEPT ![j] = x]
                                   /\ x.payload = job[j].payload
                                   /\ x.state \in Queue!Terminal
    BY <1>1, <1>3, <1>8, JobTypes, ZenonT(30) DEF Becomes, TypeOK
  <2>2. /\ job' \in [Jobs -> Queue!AllJobs] /\ job'[j] = x
        /\ \A i \in Jobs : i # j => job'[i] = job[i]
        /\ outcome' \in [Jobs -> Verdicts \cup {None}] /\ outcome'[j] = v
        /\ \A i \in Jobs : i # j => outcome'[i] = outcome[i]
        /\ UNCHANGED <<chain, pool, accepted, attempts, age>>
    BY <1>1, <1>2, <1>3, <1>8, <2>1 DEF TypeOK, ReturnedOK, node
  <2>3. \A k \in NonceKeys : chain'[k] \in Nat /\ chain'[k] >= chain[k]
    BY <1>1, <2>2 DEF TypeOK
  <2>4. \A q \in Runs : RunOK(run[q])'
    <3>1. \A q \in Runs : run'[q] # run[q] => RunOK(run[q])'
      BY <1>5, <1>6, <1>8 DEF RunOK
    <3> QED
      BY <1>1, <2>2, <2>3, <3>1, KnowledgeStays DEF BInv
  <2>5. TypeOK'
    <3>1. \A q \in Runs : run'[q].verdict \in Verdicts \cup {None}
      BY <1>1, <1>5, <1>8, IdleIsNothing DEF TypeOK
    <3> QED
      BY <1>1, <1>5, <1>8, <2>2, <3>1, Zenon DEF TypeOK
  <2>6. \A i \in Jobs : JobOK(i)'
    BY <1>5, <1>8, <2>1, <2>2 DEF BInv, JobOK
  <2>7. \A i \in Jobs : LeaseOK(i)'
    <3> SUFFICES ASSUME NEW i \in Jobs PROVE LeaseOK(i)'
      OBVIOUS
    <3>1. CASE i = j
      BY <1>5, <1>8, <3>1 DEF LeaseOK
    <3>2. CASE i # j
      BY <1>5, <1>6, <1>8, <2>2, <3>2 DEF LeaseOK
    <3> QED
      BY <3>1, <3>2
  <2>8. BroadcastWasAccepted'
    BY <1>3, <1>5, <1>8, <2>1, <2>2 DEF BInv, BroadcastWasAccepted, ReturnedOK
  <2>9. SupersededIsFinal'
    BY <1>3, <2>2 DEF BInv, SupersededIsFinal, ReturnedOK, Passed
  <2> QED
    BY <1>5, <1>8, <2>4, <2>5, <2>6, <2>7, <2>8, <2>9 DEF BInv
<1> QED
  BY <1>4, <1>7, <1>8 DEF Complete, HoldsLease


-----------------------------------------------------------------------------
(* The theorems                                                            *)

LEMMA BInit ==
    ASSUME Init
    PROVE  BInv
<1>1. job = [j \in Jobs |-> Queue!NoJob] /\ Queue!NoJob \in Queue!AllJobs
  BY DEF Init, Queue!Init, Queue!NoJob, Queue!Job, Queue!AllJobs, Queue!States
<1>2. Queue!NoJob.state = "absent"
  BY DEF Queue!NoJob, Queue!Job
<1>3. TypeOK
  BY <1>1, IdleIsNothing, BroadcasterAssumption DEF Init, TypeOK
<1>4. \A r \in Runs : RunOK(run[r])
  BY DEF Init, RunOK
<1>5. \A j \in Jobs : LeaseOK(j) /\ JobOK(j)
  BY <1>1, <1>2 DEF Init, LeaseOK, JobOK
<1>6. BroadcastWasAccepted /\ SupersededIsFinal
  BY IdleIsNothing DEF Init, BroadcastWasAccepted, SupersededIsFinal, Verdicts
<1>7. run = [r \in Runs |-> run[r]]
  BY DEF Init
<1> QED
  BY <1>3, <1>4, <1>5, <1>6, <1>7 DEF BInv

LEMMA BStep ==
    ASSUME BInv, [Next]_vars
    PROVE  BInv'
<1>1. CASE UNCHANGED vars
  <2>1. UNCHANGED <<queue, run, chain, pool, accepted>>
    BY <1>1 DEF vars, node
  <2>2. \A k \in NonceKeys : chain'[k] \in Nat /\ chain'[k] >= chain[k]
    BY <2>1 DEF BInv, TypeOK
  <2> QED
    BY <2>1, <2>2, ChainKeeps DEF BInv, TypeOK
<1>2. CASE CalmNext
  BY <1>2, ClientKeeps, TickKeeps, StartKeeps, ReadKeeps, SendKeeps, CompleteKeeps,
     ChainStep DEF CalmNext, HandlerStep
<1> QED
  BY <1>1, <1>2, ExpireKeeps, DieKeeps DEF Next

\* The inductive invariant holds, whatever runs out, dies or lags.
THEOREM BroadcasterInvariant == Spec => []BInv
<1>1. Init => BInv
  BY BInit
<1>2. BInv /\ [Next]_vars => BInv'
  BY BStep
<1> QED
  BY <1>1, <1>2, PTL DEF Spec

\* Types: a defer never takes back an attempt that was not counted, since only
\* the holder of the lease records one.
THEOREM BroadcasterTypes == Spec => []TypeOK
<1>1. BInv => TypeOK
  BY DEF BInv
<1> QED
  BY <1>1, BroadcasterInvariant, PTL

\* A transaction is sent only when the chain has reached its nonce_seq on every
\* key it selects, however far behind the endpoints were that were read.
THEOREM SendsAreNeverAhead == Spec => []NeverSentAhead
<1>1. BInv => NeverSentAhead
  BY IdleIsNothing DEF BInv, RunOK, SendingOK, Reached, NeverSentAhead
<1> QED
  BY <1>1, BroadcasterInvariant, PTL

\* A job reported as broadcast was accepted by a node, with the payload that is
\* stored.
THEOREM BroadcastsWereAccepted == Spec => []BroadcastWasAccepted
<1>1. BInv => BroadcastWasAccepted
  BY DEF BInv
<1> QED
  BY <1>1, BroadcasterInvariant, PTL

\* A job reported as superseded can never be executed any more.
THEOREM SupersededStays == Spec => []SupersededIsFinal
<1>1. BInv => SupersededIsFinal
  BY DEF BInv
<1> QED
  BY <1>1, BroadcasterInvariant, PTL


\* What the handler, the clients and time do to a job is what JobLifecycle,
\* which the queue implements, lets them do: Broadcaster adds no step of its
\* own to the queue it is built on.
THEOREM BroadcasterUsesLifecycle == Spec => Queue!Spec
<1>1. Init => Queue!Init
  BY DEF Init
<1>2. ASSUME TypeOK, TypeOK', [Next]_vars
      PROVE  [Queue!Next]_job
  <2>1. ASSUME NEW j \in Jobs, NEW x \in Queue!Steps(job[j]), job' = [job EXCEPT ![j] = x]
        PROVE  Queue!Next
    <3>1. \A i \in Jobs : job'[i] = IF i = j THEN x ELSE job[i]
      BY <1>2, <2>1 DEF TypeOK
    <3> QED
      BY <1>2, <3>1 DEF Queue!Next, TypeOK
  <2>2. ASSUME NEW j \in Jobs, Submit(j) \/ Replace(j) \/ Expire(j)
        PROVE  Queue!Next
    BY <2>1, <2>2 DEF Submit, Replace, Expire, Becomes, Queue!Steps
  <2>3. ASSUME NEW r \in Runs, NEW j \in Jobs, Start(r, j)
        PROVE  Queue!Next
    BY <2>1, <2>3, Zenon DEF Start, Becomes, Queue!Steps
  <2>4. ASSUME NEW r \in Runs, Complete(r), run[r].job \in Jobs
        PROVE  [Queue!Next]_job
    <3>1. \/ UNCHANGED queue
          \/ Becomes(run[r].job, Queue!GivenBack(job[run[r].job]))
          \/ \E x \in Queue!Settled(job[run[r].job]) :
               job' = [job EXCEPT ![run[r].job] = x]
      BY <2>4, Zenon DEF Complete, Becomes
    <3>2. CASE UNCHANGED queue
      BY <3>2, Zenon DEF queue
    <3>3. CASE \E x \in Queue!Steps(job[run[r].job]) :
                 job' = [job EXCEPT ![run[r].job] = x]
      BY <2>1, <2>4, <3>3, Zenon
    <3> QED
      BY <3>1, <3>2, <3>3, Zenon DEF Becomes, Queue!Steps
  <2>5. ASSUME NEW r \in Runs, Complete(r), run[r].job \notin Jobs
        PROVE  [Queue!Next]_job
    <3>1. job = [j \in Jobs |-> job[j]]
      BY <1>2 DEF TypeOK
    <3>2. \A x : [job EXCEPT ![run[r].job] = x] = job
      BY <2>5, <3>1
    <3>3. CASE UNCHANGED queue
      BY <3>3, Zenon DEF queue
    <3>4. CASE \E states : Becomes(run[r].job, states)
      BY <3>2, <3>4, Zenon DEF Becomes
    <3>5. UNCHANGED queue \/ \E states : Becomes(run[r].job, states)
      BY <2>5, Zenon DEF Complete
    <3> QED
      BY <3>3, <3>4, <3>5, Zenon
  <2>6. ASSUME NEW r \in Runs, ReadKey(r) \/ ReadFails(r) \/ SendStep(r) \/ Die(r)
        PROVE  UNCHANGED job
    BY <2>6 DEF ReadKey, ReadFails, SendStep, SendUnreached, SendAccepted, SendRejected,
                Die, queue
  <2>7. ASSUME \/ \E j \in Jobs : Tick(j)
               \/ \E t \in pool : Mine(t) \/ Evict(t)
               \/ \E k \in NonceKeys : Elsewhere(k)
               \/ UNCHANGED vars
        PROVE  UNCHANGED job
    BY <2>7, Zenon DEF Tick, Mine, Evict, Elsewhere, queue, vars
  <2>8. CASE CalmNext
    BY <2>2, <2>3, <2>4, <2>5, <2>6, <2>7, <2>8 DEF CalmNext, HandlerStep
  <2> QED
    BY <1>2, <2>2, <2>6, <2>7, <2>8 DEF Next
<1> QED
  BY <1>1, <1>2, BroadcasterTypes, PTL DEF Spec, Queue!Spec

=============================================================================
