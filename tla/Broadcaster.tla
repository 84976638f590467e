----------------------------- MODULE Broadcaster -----------------------------
(***************************************************************************)
(* MempoolBroadcaster (broadcaster/src/worker.rs), the queue's handler,    *)
(* on top of what the queue promises (JobLifecycle): it reads the current  *)
(* sequence of every nonce key the transaction selects, one request per    *)
(* key, decides, and sends.  Between any two requests the chain moves, the *)
(* lease may run out, and a second handler may start on the same job.      *)
(*                                                                         *)
(* A slot (sender, keys, seq) is a job; its payloads are the signed        *)
(* transactions a client may submit for it.                                *)
(***************************************************************************)
EXTENDS Integers, Sequences, FiniteSets, Functions

CONSTANTS
    Jobs,                   \* slots
    Data,                   \* signed transactions for a slot
    Unsendable,             \* slots without a parsable sender or a nonce_seq
    Unencodable,            \* slots that fail validate_wire_format
    NonceKeys,              \* nonce keys of the sender
    KeysOf,                 \* effective_nonce_keys of each slot
    SeqOf,                  \* nonce_seq of each slot
    Runs,                   \* handler invocations under way at a time
    MaxNonceHold,           \* MAX_NONCE_HOLD_SECS, in ticks
    MaxBroadcastAttempts,   \* MAX_BROADCAST_ATTEMPTS
    MaxLag,                 \* how far an endpoint's view may be behind
    MaxSeq,                 \* bound: sequences the chain reaches
    None

\* What a run of the handler ends with.
Verdicts == {"broadcast", "superseded", "malformed", "hold_expired",
             "unreachable", "rejected", "nack", "defer"}

ASSUME BroadcasterAssumption ==
    /\ KeysOf \in [Jobs -> Seq(NonceKeys) \ {<< >>}]
    /\ SeqOf \in [Jobs -> Nat]
    /\ MaxNonceHold \in Nat
    /\ MaxBroadcastAttempts \in Nat \ {0}
    /\ MaxLag \in Nat
    /\ MaxSeq \in Nat
    /\ None \notin Data \cup Jobs \cup Runs \cup Verdicts

VARIABLES
    job,        \* the queue's jobs, as in JobLifecycle
    attempts,   \* job.attempts
    age,        \* time since created_at, up to MaxNonceHold
    outcome,    \* what the settled job reports
    holder,     \* the run that has the job's lease, if it is still alive
    run,        \* the handler invocations
    chain,      \* current sequence of each key
    pool,       \* transactions in the mempool
    accepted    \* transactions a node ever accepted

queue == <<job, attempts, age, outcome, holder>>

node == <<chain, pool, accepted>>

vars == <<queue, run, node>>

Queue == INSTANCE JobLifecycle

\* A run: its phase, job, transaction and attempt number, the keys it has yet
\* to read, how the sequences it read compare with nonce_seq, and its verdict.
Run(phase, j, tx, tries, keys, compared, verdict) ==
    [phase |-> phase, job |-> j, tx |-> tx, tries |-> tries, keys |-> keys,
     compared |-> compared, verdict |-> verdict]

IdleRun == Run("idle", None, None, 0, << >>, {}, None)

Init ==
    /\ Queue!Init
    /\ attempts = [j \in Jobs |-> 0]
    /\ age = [j \in Jobs |-> 0]
    /\ outcome = [j \in Jobs |-> None]
    /\ holder = [j \in Jobs |-> None]
    /\ run = [r \in Runs |-> IdleRun]
    /\ chain = [k \in NonceKeys |-> 0]
    /\ pool = {}
    /\ accepted = {}

\* The queue takes job j to one of the given states.
Becomes(j, states) == \E x \in states : job' = [job EXCEPT ![j] = x]

\* `attempts` is only compared with MaxBroadcastAttempts when a job is borrowed.
\* Counting up to one more than that tells apart what it can tell apart: a
\* defer takes back the one attempt that its own run was counted as.
Counted(n) == IF n <= MaxBroadcastAttempts THEN n ELSE MaxBroadcastAttempts + 1

-----------------------------------------------------------------------------
(* The queue around the handler                                            *)

Submit(j) ==
    /\ Becomes(j, Queue!Accepted(job[j]))
    /\ UNCHANGED <<attempts, age, outcome, holder, run, node>>

Replace(j) ==
    /\ Becomes(j, Queue!Replaced(job[j]))
    /\ UNCHANGED <<attempts, age, outcome, holder, run, node>>

\* The queue hands the job to the handler, whose first checks need no request.
Start(r, j) ==
    LET tries == Counted(attempts[j] + 1) IN
    /\ run[r] = IdleRun
    /\ Becomes(j, Queue!Borrowed(job[j]))
    /\ attempts' = [attempts EXCEPT ![j] = tries]
    /\ holder' = [holder EXCEPT ![j] = r]
    /\ run' = [run EXCEPT ![r] =
                 IF j \in Unsendable
                 THEN Run("returned", j, job[j].payload, tries, << >>, {}, "malformed")
                 ELSE Run("reading", j, job[j].payload, tries, KeysOf[j], {}, None)]
    /\ UNCHANGED <<age, outcome, node>>

\* The lease runs out.  The poll that takes the job back counts an attempt.
Expire(j) ==
    /\ Becomes(j, Queue!GivenBack(job[j]))
    /\ attempts' = [attempts EXCEPT ![j] = Counted(@ + 1)]
    /\ holder' = [holder EXCEPT ![j] = None]
    /\ UNCHANGED <<age, outcome, run, node>>

\* The process of a run dies; its lease stays until it runs out.
Die(r) ==
    /\ run[r] # IdleRun
    /\ run' = [run EXCEPT ![r] = IdleRun]
    /\ holder' = [j \in Jobs |-> IF holder[j] = r THEN None ELSE holder[j]]
    /\ UNCHANGED <<job, attempts, age, outcome, node>>

Tick(j) ==
    /\ job[j].state \in {"waiting", "leased"}
    /\ age[j] < MaxNonceHold
    /\ age' = [age EXCEPT ![j] = @ + 1]
    /\ UNCHANGED <<job, attempts, outcome, holder, run, node>>

\* Mutant: any live lease of the job will do.
HoldsLeaseMut(r, j) == job[j].state = "leased"

\* Whether run r has the live lease of job j (run_lease_guarded).
HoldsLease(r, j) == holder[j] = r

\* Mutant: a defer takes back two attempts.
AttemptsAfterMut(verdict, n) == IF verdict = "defer" THEN n - 2 ELSE n

\* A defer takes back the attempt its run was counted as.
AttemptsAfter(verdict, n) == IF verdict = "defer" THEN n - 1 ELSE n

\* The queue records what the handler returned, if its lease is still live.
Complete(r) ==
    LET j == run[r].job
        v == run[r].verdict
    IN
    /\ run[r].phase = "returned"
    /\ run' = [run EXCEPT ![r] = IdleRun]
    /\ \/ /\ ~HoldsLease(r, j)
          /\ UNCHANGED queue
       \/ /\ HoldsLease(r, j)
          /\ holder' = [holder EXCEPT ![j] = None]
          /\ \/ /\ v \in {"nack", "defer"}
                /\ Becomes(j, Queue!GivenBack(job[j]))
                /\ attempts' = [attempts EXCEPT ![j] = AttemptsAfter(v, @)]
                /\ UNCHANGED outcome
             \/ /\ v \notin {"nack", "defer"}
                /\ Becomes(j, {x \in Queue!Settled(job[j]) :
                                 (x.state = "succeeded")
                                   <=> (v \in {"broadcast", "superseded"})})
                /\ outcome' = [outcome EXCEPT ![j] = v]
                /\ UNCHANGED attempts
          /\ UNCHANGED age
    /\ UNCHANGED node

-----------------------------------------------------------------------------
(* MempoolBroadcaster::process                                             *)

Return(r, verdict) ==
    LET x == run[r]
    IN  run' = [run EXCEPT ![r] =
                  Run("returned", x.job, x.tx, x.tries, << >>, {}, verdict)]

\* Mutant: a sequence that has just been reached counts as passed.
CompareMut(seq, sequence) == IF seq <= sequence THEN "past" ELSE "ahead"

\* How nonce_seq compares with the sequence that was read for one key.
Compare(seq, sequence) ==
    IF seq < sequence THEN "past" ELSE IF seq = sequence THEN "ready" ELSE "ahead"

\* Mutant: one key that is ready is enough.
SeqStateMut(compared) ==
    IF "past" \in compared THEN "superseded"
    ELSE IF "ready" \in compared THEN "executable"
    ELSE "future"

\* SeqState, from the comparisons of all keys.
SeqState(compared) ==
    IF "past" \in compared THEN "superseded"
    ELSE IF compared = {"ready"} THEN "executable"
    ELSE "future"

\* What process does when it knows the SeqState.
Decide(r, compared) ==
    LET x == run[r]
        s == SeqState(compared)
    IN
    \/ s = "superseded" /\ Return(r, "superseded")
    \/ /\ s = "future"
       /\ Return(r, IF age[x.job] >= MaxNonceHold THEN "hold_expired" ELSE "defer")
    \/ s = "executable" /\ x.job \in Unencodable /\ Return(r, "malformed")
    \/ /\ s = "executable" /\ x.job \notin Unencodable
       /\ run' = [run EXCEPT ![r] =
                    Run("sending", x.job, x.tx, x.tries, << >>, {}, None)]

\* get_keyed_nonce_seq answers for the next key, from an endpoint that may be
\* behind the chain; after the last key the handler decides.
ReadKey(r) ==
    LET x == run[r] IN
    /\ x.phase = "reading"
    /\ \E lag \in 0..MaxLag :
         LET k        == Head(x.keys)
             compared == x.compared \cup {Compare(SeqOf[x.job], chain[k] - lag)}
         IN
         /\ chain[k] - lag >= 0
         /\ \/ /\ Tail(x.keys) # << >>
               /\ run' = [run EXCEPT ![r] =
                            Run("reading", x.job, x.tx, x.tries, Tail(x.keys),
                                compared, None)]
            \/ Tail(x.keys) = << >> /\ Decide(r, compared)
    /\ UNCHANGED <<queue, node>>

\* Any error of the read nacks the job, however often it has happened.
ReadFails(r) ==
    /\ run[r].phase = "reading"
    /\ Return(r, "nack")
    /\ UNCHANGED <<queue, node>>

\* Mutant: the budget is not looked at.
TransientMut(tries) == "nack"

\* A transport error of the send: retry within the attempt budget.
Transient(tries) == IF tries >= MaxBroadcastAttempts THEN "unreachable" ELSE "nack"

Tx(r) == <<run[r].job, run[r].tx>>

Executable(t) == \A k \in Range(KeysOf[t[1]]) : chain[k] = SeqOf[t[1]]

Conflicts(t) ==
    {u \in pool : Range(KeysOf[u[1]]) \cap Range(KeysOf[t[1]]) # {}}

\* The request does not reach a node.
SendUnreached(r) ==
    /\ run[r].phase = "sending"
    /\ Return(r, Transient(run[r].tries))
    /\ UNCHANGED <<queue, node>>

\* A node takes the transaction, or has it already; `replied` says whether its
\* answer arrives.
SendAccepted(r, replied) ==
    /\ run[r].phase = "sending"
    /\ Tx(r) \in pool \/ Executable(Tx(r))
    /\ pool' = (pool \ Conflicts(Tx(r))) \cup {Tx(r)}
    /\ accepted' = accepted \cup {Tx(r)}
    /\ Return(r, IF replied THEN "broadcast" ELSE Transient(run[r].tries))
    /\ UNCHANGED <<queue, chain>>

\* A node refuses it, for its nonce, its fee or any other reason.  Before it
\* fails the job the handler simulates it to explain the refusal.
SendRejected(r, replied) ==
    /\ run[r].phase = "sending"
    /\ Tx(r) \notin pool
    /\ Return(r, IF replied THEN "rejected" ELSE Transient(run[r].tries))
    /\ UNCHANGED <<queue, node>>

-----------------------------------------------------------------------------
(* The chain                                                               *)

Advance(keys) == [k \in NonceKeys |-> IF k \in keys THEN chain[k] + 1 ELSE chain[k]]

\* A block includes a transaction of the mempool.
Mine(t) ==
    /\ t \in pool
    /\ Executable(t)
    /\ chain' = Advance(Range(KeysOf[t[1]]))
    /\ pool' = pool \ Conflicts(t)
    /\ UNCHANGED <<queue, run, accepted>>

\* The sender uses a key elsewhere.
Elsewhere(k) ==
    /\ chain[k] < MaxSeq
    /\ chain' = Advance({k})
    /\ pool' = {u \in pool : k \notin Range(KeysOf[u[1]])}
    /\ UNCHANGED <<queue, run, accepted>>

\* The mempool drops a transaction.
Evict(t) ==
    /\ t \in pool
    /\ pool' = pool \ {t}
    /\ UNCHANGED <<queue, run, chain, accepted>>

-----------------------------------------------------------------------------
(* Specification                                                           *)

SendStep(r) ==
    \/ SendUnreached(r)
    \/ \E replied \in BOOLEAN : SendAccepted(r, replied) \/ SendRejected(r, replied)

HandlerStep(r) == ReadKey(r) \/ ReadFails(r) \/ SendStep(r) \/ Complete(r)

\* Steps in which no process dies and no lease runs out under a handler.
CalmNext ==
    \/ \E j \in Jobs : Submit(j) \/ Replace(j) \/ Tick(j)
    \/ \E r \in Runs, j \in Jobs : Start(r, j)
    \/ \E r \in Runs : HandlerStep(r)
    \/ \E t \in pool : Mine(t) \/ Evict(t)
    \/ \E k \in NonceKeys : Elsewhere(k)

Next ==
    \/ CalmNext
    \/ \E j \in Jobs : Expire(j)
    \/ \E r \in Runs : Die(r)

Spec == Init /\ [][Next]_vars

-----------------------------------------------------------------------------
(* Properties                                                              *)

\* Types: attempts stay a count although a defer takes one back, and what is in
\* the mempool was accepted.
TypeOK ==
    /\ job \in [Jobs -> Queue!AllJobs]
    /\ attempts \in [Jobs -> 0..(MaxBroadcastAttempts + 1)]
    /\ age \in [Jobs -> 0..MaxNonceHold]
    /\ outcome \in [Jobs -> Verdicts \cup {None}]
    /\ holder \in [Jobs -> Runs \cup {None}]
    /\ \A r \in Runs : run[r].verdict \in Verdicts \cup {None}
    /\ chain \in [NonceKeys -> Nat]
    /\ pool \subseteq accepted
    /\ accepted \subseteq Jobs \X Data

\* "Broadcasting a future-sequence tx now would just be rejected or shelved by
\* the node" (worker.rs 231): however far behind the endpoint that was read, a
\* transaction is sent only when the chain has reached its nonce_seq on every
\* key it selects.
NeverSentAhead ==
    \A r \in Runs :
        run[r].phase = "sending" =>
            \A k \in Range(KeysOf[run[r].job]) : chain[k] >= SeqOf[run[r].job]

\* A job reported as broadcast was accepted by a node, and with the payload
\* that is stored: neither a run whose lease expired nor a replaced payload
\* is ever what is reported.
BroadcastWasAccepted ==
    \A j \in Jobs : outcome[j] = "broadcast" => <<j, job[j].payload>> \in accepted

\* A job is reported as superseded only when it can never be executed any more
\* (worker.rs 54-56), on whatever mixture of endpoints and moments its keys were
\* read.
SupersededIsFinal ==
    \A j \in Jobs :
        outcome[j] = "superseded" =>
            \E k \in Range(KeysOf[j]) : chain[k] > SeqOf[j]

-----------------------------------------------------------------------------
(* Liveness                                                                *)

\* Time passes, waiting jobs are polled, and each request of a node gets an
\* answer or an error.  The last is an assumption about the nodes and the
\* network: AlloyGateway::new sets no timeout.  The queue's own liveness
\* (crashes, expired leases) is Queue's.
Fairness ==
    /\ \A j \in Jobs : WF_vars(Tick(j)) /\ SF_vars(\E r \in Runs : Start(r, j))
    /\ \A r \in Runs : WF_vars(HandlerStep(r))

\* A node that is asked for a sequence again and again answers.
NodeAnswers ==
    \A r \in Runs : /\ SF_vars(ReadKey(r))
                    /\ SF_vars(ReadKey(r) /\ Tail(run[r].keys) = << >>)

DownSpec == Init /\ [][CalmNext]_vars /\ Fairness

LiveSpec == DownSpec /\ NodeAnswers

\* Every accepted job is settled: the nonce hold ends with its deadline and the
\* broadcast retries end with their budget.  Under DownSpec this is what
\* worker.rs 33 asks for: "a node that is down for good must not pin the slot
\* forever".
EveryJobSettles ==
    \A j \in Jobs : (job[j].state # "absent") ~> (job[j].state \in Queue!Terminal)

=============================================================================
