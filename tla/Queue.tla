------------------------------- MODULE Queue -------------------------------
(***************************************************************************)
(* The single-lane, Redis-backed job queue (queue/src/lib.rs) with its     *)
(* lease-guarded completion (queue/src/completion.rs).                     *)
(*                                                                         *)
(* Every Lua script and every MULTI/EXEC block is one atomic action: that  *)
(* is how Redis runs them.  A completion is not atomic: WATCH + EXISTS,    *)
(* EXEC and the pruning script are separate requests, and other tasks,     *)
(* other workers and lease expiry come in between.                         *)
(*                                                                         *)
(* Time is abstracted.  A live lease may run out at any moment, and a poll *)
(* may find any subset of the delayed jobs due.                            *)
(***************************************************************************)
EXTENDS Integers, Sequences, FiniteSets, Functions

CONSTANTS
    Jobs,               \* job ids
    Tokens,             \* lease tokens; bounds the leases one job may have
    Data,               \* job payloads
    Unreadable,         \* the payloads that no longer deserialize
    Workers,            \* processes running `work`, each with one connection
    Outcomes,           \* what a handler may return
    LocalConcurrency,   \* QueueOptions::local_concurrency
    AlwaysPoll,         \* QueueOptions::always_poll
    MaxSuccess,         \* QueueOptions::max_success
    MaxFailed,          \* QueueOptions::max_failed
    MaxJobErrors,       \* QueueOptions::max_job_errors
    IdempotencyMode,    \* "Permanent" or "Active"
    MaxAttempts,        \* bound: attempts after which nothing goes wrong
    MaxList,            \* bound: no push while the lists are this long
    None                \* the absent value

Kinds == {"ok", "fail", "nack", "defer"}

Positions == {"first", "last"}

\* JobResult.  `delayed` says whether a nack carries a delay; a defer always
\* does, and for "ok" and "fail" the last two fields mean nothing.
AllOutcomes == [kind : Kinds, delayed : BOOLEAN, position : Positions]

Fail == [kind |-> "fail", delayed |-> FALSE, position |-> "last"]

ASSUME ConstantsAssumption ==
    /\ IsFiniteSet(Jobs)
    /\ IsFiniteSet(Tokens)
    /\ Unreadable \subseteq Data
    /\ Outcomes \subseteq AllOutcomes
    /\ LocalConcurrency \in Nat \ {0}
    /\ AlwaysPoll \in BOOLEAN
    /\ MaxSuccess \in Nat
    /\ MaxFailed \in Nat
    /\ MaxJobErrors \in Nat
    /\ IdempotencyMode \in {"Permanent", "Active"}
    /\ MaxAttempts \in Nat
    /\ MaxList \in Nat
    /\ None \notin Tokens \cup Data \cup Workers \cup AllOutcomes

VARIABLES
    pending,    \* list of runnable ids
    delayed,    \* sorted set of ids waiting for their time
    active,     \* hash of ids held by a worker
    success,    \* list of succeeded ids, newest first
    failed,     \* list of failed and cancelled ids, newest first
    dedupe,     \* set of ids a push is refused for
    cancels,    \* pending_cancellations: ids to cancel once no longer active
    data,       \* job data hash
    created,    \* meta hash: ids with created_at
    finished,   \* meta hash: ids with finished_at
    deferred,   \* meta hash: ids with deferred_until
    retrying,   \* meta hash: ids with retry_at
    front,      \* meta hash: ids whose reentry_position is "first"
    attempts,   \* meta hash: attempts
    token,      \* meta hash: lease_token
    result,     \* ids with an entry in the result hash
    errors,     \* length of each job's error list
    leases,     \* live lease keys: <<id, token>>
    task,       \* the borrowed jobs the workers hold, by lease
    watched,    \* lease keys each worker's connection watches
    dirty,      \* connections with a watched key that changed
    mode        \* "running", "draining" (shutdown signalled) or "stopped"

meta == <<created, finished, deferred, retrying, front, attempts, token>>

store == <<pending, delayed, active, success, failed, dedupe, cancels,
           data, meta, result, errors>>

watch == <<watched, dirty>>

vars == <<store, leases, task, watch, mode>>

LeaseKeys == Jobs \X Tokens

Phases == {"idle", "running", "done", "watching", "prune"}

\* A task: its phase, the worker that spawned it, the payload it was given and
\* what the handler returned.
Task(phase, worker, payload, outcome) ==
    [phase |-> phase, worker |-> worker, data |-> payload, outcome |-> outcome]

IdleTask == Task("idle", None, None, None)

Tasks == [phase : Phases, worker : Workers \cup {None},
          data : Data \cup {None}, outcome : Outcomes \cup {Fail, None}]

Init ==
    /\ pending = << >>
    /\ delayed = {}
    /\ active = {}
    /\ success = << >>
    /\ failed = << >>
    /\ dedupe = {}
    /\ cancels = {}
    /\ data = [j \in Jobs |-> None]
    /\ created = {}
    /\ finished = {}
    /\ deferred = {}
    /\ retrying = {}
    /\ front = {}
    /\ attempts = [j \in Jobs |-> 0]
    /\ token = [j \in Jobs |-> None]
    /\ result = {}
    /\ errors = [j \in Jobs |-> 0]
    /\ leases = {}
    /\ task = [l \in LeaseKeys |-> IdleTask]
    /\ watched = [w \in Workers |-> {}]
    /\ dirty = {}
    /\ mode = [w \in Workers |-> "running"]

\* The bound MaxAttempts: past it no lease expires under a worker, no worker
\* dies and no handler nacks, so attempts stay finite.
MayGoWrong(j) == attempts[j] < MaxAttempts

-----------------------------------------------------------------------------
(* Lists and orders                                                        *)

\* The sequences that hold every member of the finite set S once.  Redis
\* enumerates hashes and sets in an order the code does not control.
Orders(S) == Bijection(1..Cardinality(S), S)

\* LREM list 0 x, as the set that holds the one resulting sequence.
Without(s, x) ==
    LET kept  == {i \in 1..Len(s) : s[i] # x}
        picks == {f \in Orders(kept) :
                    \A a, b \in DOMAIN f : a < b => f[a] < f[b]}
    IN  {[i \in DOMAIN f |-> s[f[i]]] : f \in picks}

\* The ids LRANGE list max -1 returns.
Surplus(s, max) == {s[i] : i \in (max + 1)..Len(s)}

\* LTRIM list 0 max-1; with max = 0 that is LTRIM 0 -1, which keeps the list.
Trim(s, max) == IF max = 0 \/ Len(s) <= max THEN s ELSE SubSeq(s, 1, max)

\* add_error_record: LPUSH, then LTRIM 0 max_job_errors-1.
AddErrorRecord(n) ==
    IF MaxJobErrors > 0 /\ n >= MaxJobErrors THEN MaxJobErrors ELSE n + 1

\* HSET reentry_position, which only "first" makes a difference for.
Reenter(j, position) ==
    IF position = "first" THEN front \cup {j} ELSE front \ {j}

-----------------------------------------------------------------------------
(* Clients                                                                 *)

\* push_with_outcome, for an id not yet in the dedupe set.  For one that is,
\* the script changes nothing and reports Duplicate.
Push(j, d, wait, position) ==
    /\ Len(pending) + Len(success) + Len(failed) < MaxList
    /\ j \notin dedupe
    /\ data' = [data EXCEPT ![j] = d]
    /\ created' = created \cup {j}
    /\ finished' = finished \ {j}
    /\ deferred' = deferred \ {j}
    /\ retrying' = retrying \ {j}
    /\ front' = IF wait THEN Reenter(j, position) ELSE front \ {j}
    /\ attempts' = [attempts EXCEPT ![j] = 0]
    /\ token' = [token EXCEPT ![j] = None]
    /\ result' = result \ {j}
    /\ errors' = [errors EXCEPT ![j] = 0]
    /\ dedupe' = dedupe \cup {j}
    /\ delayed' = IF wait THEN delayed \cup {j} ELSE delayed
    /\ pending' = IF wait THEN pending ELSE Append(pending, j)
    /\ UNCHANGED <<active, success, failed, cancels, leases, task, watch, mode>>

\* TransactionContext::queue_job, run with the transaction it was added to: no
\* look at the dedupe set, and only the fields it sets are reset.  A hook's
\* commands come first in its completion, so that a job queued by a handler of
\* this same queue is this step with the EXEC directly after it.
QueueJob(j, d, wait, position) ==
    /\ Len(pending) + Len(success) + Len(failed) < MaxList
    /\ data' = [data EXCEPT ![j] = d]
    /\ created' = created \cup {j}
    /\ attempts' = [attempts EXCEPT ![j] = 0]
    /\ dedupe' = dedupe \cup {j}
    /\ front' = IF wait THEN Reenter(j, position) ELSE front
    /\ delayed' = IF wait THEN delayed \cup {j} ELSE delayed
    /\ pending' = IF wait THEN pending ELSE Append(pending, j)
    /\ UNCHANGED <<active, success, failed, cancels, finished, deferred,
                   retrying, token, result, errors, leases, task, watch, mode>>

\* Mutant: an active job's payload may be replaced.
ReplaceableMut(j) ==
    /\ data[j] # None
    /\ j \notin finished

\* try_replace_pending_data, when it answers Replaced.
Replaceable(j) ==
    /\ data[j] # None
    /\ j \notin active
    /\ j \notin finished

TryReplacePendingData(j, d) ==
    /\ Replaceable(j)
    /\ data' = [data EXCEPT ![j] = d]
    /\ UNCHANGED <<pending, delayed, active, success, failed, dedupe, cancels,
                   meta, result, errors, leases, task, watch, mode>>

\* cancel_job: at once for a pending or delayed job, later for an active one.
CancelJob(j) ==
    /\ \/ /\ j \in Range(pending)
          /\ pending' \in Without(pending, j)
          /\ failed' = <<j>> \o failed
          /\ finished' = finished \cup {j}
          /\ UNCHANGED <<delayed, cancels>>
       \/ /\ j \in delayed \ Range(pending)
          /\ delayed' = delayed \ {j}
          /\ failed' = <<j>> \o failed
          /\ finished' = finished \cup {j}
          /\ UNCHANGED <<pending, cancels>>
       \/ /\ j \in active \ (delayed \cup Range(pending))
          /\ cancels' = cancels \cup {j}
          /\ UNCHANGED <<pending, delayed, failed, finished>>
    /\ UNCHANGED <<active, success, dedupe, data, created, deferred, retrying,
                   front, attempts, token, result, errors, leases, task, watch,
                   mode>>

RemoveFromDedupeSet(j) ==
    /\ j \in dedupe
    /\ dedupe' = dedupe \ {j}
    /\ UNCHANGED <<pending, delayed, active, success, failed, cancels, data,
                   meta, result, errors, leases, task, watch, mode>>

EmptyDedupeSet ==
    /\ dedupe # {}
    /\ dedupe' = {}
    /\ UNCHANGED <<pending, delayed, active, success, failed, cancels, data,
                   meta, result, errors, leases, task, watch, mode>>

\* What get_job_state reports.
JobState(j) ==
    IF \/ j \in created \cup finished \cup deferred \cup retrying \cup front
       \/ token[j] # None
       \/ attempts[j] # 0
    THEN CASE j \in finished \cap result -> "succeeded"
           [] j \in finished \ result   -> "failed"
           [] j \notin finished -> IF token[j] # None THEN "active"
                                  ELSE IF j \in deferred THEN "deferred"
                                  ELSE IF j \in retrying THEN "retrying"
                                  ELSE "pending"
    ELSE "unknown"

-----------------------------------------------------------------------------
(* The poll: pop_batch_jobs, one script in four steps                      *)

\* Mutant: every active job is taken back, whether its lease is live or not.
TimedOutEager == active

\* Mutant: only jobs without a recorded lease are taken back.
TimedOutLazy == {j \in active : token[j] = None}

\* Step 1 takes the active jobs whose lease is gone, or was never recorded.
TimedOut == {j \in active : <<j, token[j]>> \notin leases}

\* Step 2 settles the cancellations of jobs that step 1 leaves inactive ...
Settled == {j \in cancels : j \notin active \ TimedOut}

\* ... as failed, unless the job is found in the success list.
CancelledLate == {j \in Settled : j \notin Range(success)}

\* Mutant: the ids whose lease is gone are not pushed back.
RequeuedMut(first, back, last) == first \o pending \o last

\* The pending list after step 1 pushed the timed-out ids to its head, and
\* step 3 the due ids to its head or its tail.
Requeued(first, back, last) == first \o back \o pending \o last

\* Step 4 leaves out the popped ids that have no data.
Borrowed(popped) == {i \in DOMAIN popped : data[popped[i]] # None}

\* A lease token carries the time, the attempt and a random pop id: it is new.
FreshTokens(j) ==
    {t \in Tokens : /\ <<j, t>> \notin leases
                    /\ token[j] # t
                    /\ task[<<j, t>>] = IdleTask
                    /\ \A w \in Workers : <<j, t>> \notin watched[w]}

\* The positions of j among the popped ids.  Each counts as an attempt, and
\* the last one leaves its token in the meta hash.
Copies(j, popped) == {i \in Borrowed(popped) : popped[i] = j}

LastCopy(j, popped) ==
    CHOOSE i \in Copies(j, popped) : \A k \in Copies(j, popped) : k <= i

AttemptsAfterPop(popped) ==
    [j \in Jobs |-> attempts[j] + (IF j \in TimedOut THEN 1 ELSE 0)
                               + Cardinality(Copies(j, popped))]

\* Mutant: the meta hash records the lease key instead of the token.
TokenAfterPopKey(popped, new) ==
    [j \in Jobs |-> IF Copies(j, popped) # {}
                   THEN <<j, new[LastCopy(j, popped)]>> ELSE token[j]]

\* Mutant: the token of an expired lease stays in the meta hash.
TokenAfterPopKept(popped, new) ==
    [j \in Jobs |-> IF Copies(j, popped) # {} THEN new[LastCopy(j, popped)]
                                             ELSE token[j]]

TokenAfterPop(popped, new) ==
    [j \in Jobs |-> IF Copies(j, popped) # {} THEN new[LastCopy(j, popped)]
                   ELSE IF j \in TimedOut THEN None
                   ELSE token[j]]

\* A readable job is handed to the handler under a permit; an unreadable one
\* goes straight to complete_job_queue_error, which needs none.
NewTask(w, j) ==
    IF data[j] \in Unreadable THEN Task("done", w, data[j], Fail)
                              ELSE Task("running", w, data[j], None)

Permits(w) ==
    LocalConcurrency
      - Cardinality({l \in LeaseKeys :
                       task[l].worker = w /\ task[l].data \notin Unreadable})

\* Step 4, given the pending list that steps 1 to 3 produced.
TakeBatch(w, queued, batch) ==
    LET k      == IF batch <= Len(queued) THEN batch ELSE Len(queued)
        popped == SubSeq(queued, 1, k)
        ran    == {popped[i] : i \in Borrowed(popped)}
    IN  /\ pending' = SubSeq(queued, k + 1, Len(queued))
        /\ active' = (active \ TimedOut) \cup ran
        /\ deferred' = deferred \ ran
        /\ retrying' = retrying \ ran
        /\ attempts' = AttemptsAfterPop(popped)
        /\ \E new \in [Borrowed(popped) -> Tokens] :
             LET taken == {<<popped[i], new[i]>> : i \in Borrowed(popped)}
             IN  /\ \A i \in Borrowed(popped) : new[i] \in FreshTokens(popped[i])
                 /\ \A a, b \in Borrowed(popped) :
                       popped[a] = popped[b] /\ new[a] = new[b] => a = b
                 /\ token' = TokenAfterPop(popped, new)
                 /\ leases' = leases \cup taken
                 /\ task' = [l \in LeaseKeys |->
                               IF l \in taken THEN NewTask(w, l[1]) ELSE task[l]]

\* The permits are counted before the script runs, and some may come back in
\* between: the batch may be smaller than the permits free at that moment.
PopBatchJobs(w) ==
    /\ mode[w] = "running"
    /\ \E batch \in (IF AlwaysPoll THEN 0 ELSE 1)..Permits(w),
         due \in SUBSET delayed :
         /\ delayed' = delayed \ due
         /\ front' = front \ due
         /\ \E first \in Orders(due \cap front),
               last \in Orders(due \ front),
               back \in Orders(TimedOut) :
                 TakeBatch(w, Requeued(first, back, last), batch)
    /\ \E late \in Orders(CancelledLate) : failed' = late \o failed
    /\ finished' = finished \cup CancelledLate
    /\ cancels' = cancels \ Settled
    /\ UNCHANGED <<success, dedupe, data, created, result, errors, watch, mode>>

-----------------------------------------------------------------------------
(* The tasks a worker spawns: handler, lease-guarded completion, pruning   *)

\* The task of lease l moves to a phase; moving to "idle" drops its permit.
Goto(l, phase) ==
    task' = [task EXCEPT ![l] =
               IF phase = "idle" THEN IdleTask
               ELSE Task(phase, @.worker, @.data, @.outcome)]

\* EXEC and UNWATCH drop every watch of a worker's connection.
Unwatch(w) ==
    /\ watched' = [watched EXCEPT ![w] = {}]
    /\ dirty' = dirty \ {w}

\* After a commit only Ok and Fail go on to prune.
AfterCommit(l) ==
    IF task[l].outcome.kind \in {"ok", "fail"} THEN "prune" ELSE "idle"

\* `process` returns.
HandlerReturns(l, outcome) ==
    /\ task[l].phase = "running"
    /\ outcome.kind = "nack" => MayGoWrong(l[1])
    /\ task' = [task EXCEPT ![l] = Task("done", @.worker, @.data, outcome)]
    /\ UNCHANGED <<store, leases, watch, mode>>

\* Mutant: EXISTS without WATCH.
WatchLeaseUnwatched(l) ==
    /\ task[l].phase = "done"
    /\ l \in leases
    /\ Goto(l, "watching")
    /\ UNCHANGED <<store, leases, watch, mode>>

\* Mutant: the answer of EXISTS is ignored.
WatchLeaseUnchecked(l) ==
    /\ task[l].phase = "done"
    /\ watched' = [watched EXCEPT ![task[l].worker] = @ \cup {l}]
    /\ Goto(l, "watching")
    /\ UNCHANGED <<store, leases, dirty, mode>>

\* run_lease_guarded: WATCH the lease key, then EXISTS.
WatchLease(l) ==
    /\ task[l].phase = "done"
    /\ l \in leases
    /\ watched' = [watched EXCEPT ![task[l].worker] = @ \cup {l}]
    /\ Goto(l, "watching")
    /\ UNCHANGED <<store, leases, dirty, mode>>

\* Mutant: a missing lease is retried like an aborted EXEC.
LeaseGoneRetried(l) ==
    /\ task[l].phase = "done"
    /\ l \notin leases
    /\ Unwatch(task[l].worker)
    /\ UNCHANGED <<store, leases, task, mode>>

\* The same when EXISTS answers 0: UNWATCH, which drops every watch of the
\* connection, and give up without pruning.
LeaseGone(l) ==
    /\ task[l].phase = "done"
    /\ l \notin leases
    /\ Unwatch(task[l].worker)
    /\ Goto(l, "idle")
    /\ UNCHANGED <<store, leases, mode>>

\* Mutant: the completion leaves the id in the active hash.
ExecKeepsActive(l, kind) ==
    /\ task[l].phase = "watching"
    /\ task[l].outcome.kind = kind
    /\ task[l].worker \notin dirty
    /\ Unwatch(task[l].worker)
    /\ leases' = leases \ {l}
    /\ token' = [token EXCEPT ![l[1]] = None]
    /\ Goto(l, AfterCommit(l))
    /\ UNCHANGED <<active, mode>>

\* EXEC.  All clones of a ConnectionManager share one connection, so EXEC is
\* aborted by any watched key of the worker, and clears all its watches.
Exec(l, kind) ==
    /\ task[l].phase = "watching"
    /\ task[l].outcome.kind = kind
    /\ task[l].worker \notin dirty
    /\ Unwatch(task[l].worker)
    /\ leases' = leases \ {l}
    /\ active' = active \ {l[1]}
    /\ token' = [token EXCEPT ![l[1]] = None]
    /\ Goto(l, AfterCommit(l))
    /\ UNCHANGED mode

\* In Active mode a terminal outcome frees the id for another push.
DedupeAfter(j) == IF IdempotencyMode = "Active" THEN dedupe \ {j} ELSE dedupe

CommitSuccess(l) ==
    LET j == l[1] IN
    /\ Exec(l, "ok")
    /\ success' = <<j>> \o success
    /\ finished' = finished \cup {j}
    /\ result' = result \cup {j}
    /\ dedupe' = DedupeAfter(j)
    /\ UNCHANGED <<pending, delayed, failed, cancels, data, created, deferred,
                   retrying, front, attempts, errors>>

CommitFail(l) ==
    LET j == l[1] IN
    /\ Exec(l, "fail")
    /\ failed' = <<j>> \o failed
    /\ finished' = finished \cup {j}
    /\ errors' = [errors EXCEPT ![j] = AddErrorRecord(@)]
    /\ dedupe' = DedupeAfter(j)
    /\ UNCHANGED <<pending, delayed, success, cancels, data, created, deferred,
                   retrying, front, attempts, result>>

CommitNack(l) ==
    LET j == l[1]
        o == task[l].outcome
    IN
    /\ Exec(l, "nack")
    /\ errors' = [errors EXCEPT ![j] = AddErrorRecord(@)]
    /\ \/ /\ o.delayed
          /\ retrying' = retrying \cup {j}
          /\ front' = Reenter(j, o.position)
          /\ delayed' = delayed \cup {j}
          /\ UNCHANGED pending
       \/ /\ ~o.delayed
          /\ pending' = IF o.position = "first" THEN <<j>> \o pending
                                                ELSE Append(pending, j)
          /\ UNCHANGED <<delayed, retrying, front>>
    /\ UNCHANGED <<success, failed, dedupe, cancels, data, created, finished,
                   deferred, attempts, result>>

\* A defer undoes the attempt the pop counted and records no error.
CommitDefer(l) ==
    LET j == l[1] IN
    /\ Exec(l, "defer")
    /\ deferred' = deferred \cup {j}
    /\ attempts' = [attempts EXCEPT ![j] = @ - 1]
    /\ front' = Reenter(j, task[l].outcome.position)
    /\ delayed' = delayed \cup {j}
    /\ UNCHANGED <<pending, success, failed, dedupe, cancels, data, created,
                   finished, retrying, result, errors>>

\* An aborted EXEC applies nothing and answers Nil.  The client library turns
\* that into an error, and the loop retries, or into an empty Ok, and the
\* completion counts as committed: both are allowed here.
ExecAborted(l) ==
    /\ task[l].phase = "watching"
    /\ task[l].worker \in dirty
    /\ Unwatch(task[l].worker)
    /\ Goto(l, "done") \/ Goto(l, AfterCommit(l))
    /\ UNCHANGED <<store, leases, mode>>

\* The pruning scripts skip ids that are active or pending.  The test for
\* delayed ids compares the Lua type of a ZSCORE reply, a string, with
\* "number", so it never protects one.
Prunable(ids) == {j \in ids : j \notin active /\ j \notin Range(pending)}

\* What both scripts delete of the ids that fall off the list.
Forget(gone) ==
    /\ dedupe' = dedupe \ gone
    /\ data' = [j \in Jobs |-> IF j \in gone THEN None ELSE data[j]]
    /\ created' = created \ gone
    /\ finished' = finished \ gone
    /\ deferred' = deferred \ gone
    /\ retrying' = retrying \ gone
    /\ front' = front \ gone
    /\ attempts' = [j \in Jobs |-> IF j \in gone THEN 0 ELSE attempts[j]]
    /\ token' = [j \in Jobs |-> IF j \in gone THEN None ELSE token[j]]
    /\ errors' = [j \in Jobs |-> IF j \in gone THEN 0 ELSE errors[j]]
    /\ UNCHANGED <<pending, delayed, active, cancels, leases, watch, mode>>

PostSuccessCompletion(l) ==
    LET gone == Prunable(Surplus(success, MaxSuccess)) IN
    /\ task[l].phase = "prune"
    /\ task[l].outcome.kind = "ok"
    /\ Forget(gone)
    /\ result' = result \ gone
    /\ success' = Trim(success, MaxSuccess)
    /\ Goto(l, "idle")
    /\ UNCHANGED failed

PostFailCompletion(l) ==
    /\ task[l].phase = "prune"
    /\ task[l].outcome.kind = "fail"
    /\ Forget(Prunable(Surplus(failed, MaxFailed)))
    /\ failed' = Trim(failed, MaxFailed)
    /\ Goto(l, "idle")
    /\ UNCHANGED <<success, result>>

-----------------------------------------------------------------------------
(* Time, faults and shutdown                                               *)

\* A lease key reaches its TTL.  EXEC treats a watched key that expired as
\* changed.
Expire(l) ==
    /\ l \in leases
    /\ task[l] # IdleTask => MayGoWrong(l[1])
    /\ leases' = leases \ {l}
    /\ dirty' = dirty \cup {w \in Workers : l \in watched[w]}
    /\ UNCHANGED <<store, task, watched, mode>>

\* A task ends early: the handler panics, a request fails and `?` returns, or
\* the reply of the pop that borrowed the job is lost.  An error of EXEC is
\* retried instead, so a task does not end while it waits for EXEC; when only
\* the reply of EXEC is lost the retry finds no lease, and nothing is pruned.
TaskDies(l) ==
    /\ task[l].phase \in {"running", "done", "prune"}
    /\ MayGoWrong(l[1])
    /\ Goto(l, "idle")
    /\ UNCHANGED <<store, leases, watch, mode>>

\* The connection breaks before EXEC reaches Redis.  The error looks like a
\* tripped WATCH to the loop, which starts over.
ExecLost(l) ==
    /\ task[l].phase = "watching"
    /\ MayGoWrong(l[1])
    /\ Unwatch(task[l].worker)
    /\ Goto(l, "done")
    /\ UNCHANGED <<store, leases, mode>>

\* The process dies and is started again.
Crash(w) ==
    LET held == {l \in LeaseKeys : task[l].worker = w} IN
    /\ held # {} \/ mode[w] # "running"
    /\ \A l \in held : MayGoWrong(l[1])
    /\ task' = [l \in LeaseKeys |-> IF l \in held THEN IdleTask ELSE task[l]]
    /\ Unwatch(w)
    /\ mode' = [mode EXCEPT ![w] = "running"]
    /\ UNCHANGED <<store, leases>>

\* The ConnectionManager replaces a broken connection: the watches are gone.
Reconnect(w) ==
    /\ watched[w] # {}
    /\ Unwatch(w)
    /\ UNCHANGED <<store, leases, task, mode>>

\* `work` gets the shutdown signal: it polls no more ...
Shutdown(w) ==
    /\ mode[w] = "running"
    /\ mode' = [mode EXCEPT ![w] = "draining"]
    /\ UNCHANGED <<store, leases, task, watch>>

\* ... and returns once it has all its permits back.
WorkReturns(w) ==
    /\ mode[w] = "draining"
    /\ Permits(w) = LocalConcurrency
    /\ mode' = [mode EXCEPT ![w] = "stopped"]
    /\ UNCHANGED <<store, leases, task, watch>>

-----------------------------------------------------------------------------
(* Specifications                                                          *)

Committed(l) ==
    \/ CommitSuccess(l)
    \/ CommitFail(l)
    \/ CommitNack(l)
    \/ CommitDefer(l)

CompletionStep(l) ==
    \/ WatchLease(l)
    \/ LeaseGone(l)
    \/ Committed(l)
    \/ ExecAborted(l)
    \/ PostSuccessCompletion(l)
    \/ PostFailCompletion(l)

ClientStep(j) ==
    \/ \E d \in Data, wait \in BOOLEAN, position \in Positions :
          Push(j, d, wait, position)
    \/ \E d \in Data : TryReplacePendingData(j, d)

WorkerStep(w) ==
    \/ PopBatchJobs(w)
    \/ Crash(w)
    \/ Shutdown(w)
    \/ WorkReturns(w)

TaskStep(l) ==
    \/ \E outcome \in Outcomes : HandlerReturns(l, outcome)
    \/ CompletionStep(l)
    \/ Expire(l)
    \/ TaskDies(l)
    \/ ExecLost(l)

\* The queue without cancellation, freed ids, jobs queued from hooks and
\* connections that are replaced: an id is pushed again only after the queue
\* has forgotten it.
CoreNext ==
    \/ \E j \in Jobs : ClientStep(j)
    \/ \E w \in Workers : WorkerStep(w)
    \/ \E l \in LeaseKeys : TaskStep(l)

\* What the engine's API calls (api/src/main.rs): no push is delayed, and
\* retry_failed_slot frees the id of a job that failed, to push it again.
EngineNext ==
    \/ \E j \in Jobs, d \in Data : Push(j, d, FALSE, "last") \/ TryReplacePendingData(j, d)
    \/ \E j \in finished \ result : RemoveFromDedupeSet(j)
    \/ \E w \in Workers : WorkerStep(w)
    \/ \E l \in LeaseKeys : TaskStep(l)

CancelNext == CoreNext \/ \E j \in Jobs : CancelJob(j)

\* The whole interface of the queue, and connections replaced at any time.
Next ==
    \/ CancelNext
    \/ \E j \in Jobs, d \in Data, wait \in BOOLEAN, position \in Positions :
          QueueJob(j, d, wait, position)
    \/ \E j \in Jobs : RemoveFromDedupeSet(j)
    \/ EmptyDedupeSet
    \/ \E w \in Workers : Reconnect(w)

CoreSpec == Init /\ [][CoreNext]_vars

EngineSpec == Init /\ [][EngineNext]_vars

Spec == Init /\ [][Next]_vars

-----------------------------------------------------------------------------
(* Properties                                                              *)

Queued(j) == j \in Range(pending) \cup delayed \cup active

\* Types: the scripts and transactions keep every Redis key, and the workers
\* their tasks and watches, in the form the others rely on.
TypeOK ==
    /\ pending \in Seq(Jobs)
    /\ delayed \subseteq Jobs
    /\ active \subseteq Jobs
    /\ success \in Seq(Jobs)
    /\ failed \in Seq(Jobs)
    /\ dedupe \subseteq Jobs
    /\ cancels \subseteq Jobs
    /\ data \in [Jobs -> Data \cup {None}]
    /\ created \subseteq Jobs
    /\ finished \subseteq Jobs
    /\ deferred \subseteq Jobs
    /\ retrying \subseteq Jobs
    /\ front \subseteq Jobs
    /\ attempts \in [Jobs -> Int]
    /\ token \in [Jobs -> Tokens \cup {None}]
    /\ result \subseteq Jobs
    /\ errors \in [Jobs -> Nat]
    /\ leases \subseteq LeaseKeys
    /\ task \in [LeaseKeys -> Tasks]
    /\ watched \in [Workers -> SUBSET LeaseKeys]
    /\ dirty \subseteq Workers
    /\ mode \in [Workers -> {"running", "draining", "stopped"}]

\* The step that finishes a job records it at the head of a history.
Recorded(j) == success' = <<j>> \o success \/ failed' = <<j>> \o failed

\* The step prunes a delayed job whose id is in a history from an earlier use:
\* the one hole in the scripts' protection, which QueuedJobHasData is about.
PrunedWhileDelayed(j) ==
    /\ j \in delayed \ (active \cup Range(pending))
    /\ j \in Range(success) \cup Range(failed)
    /\ data'[j] = None

\* Whatever the interleaving of pushes, polls, completions, cancellations,
\* crashes and lost watches, no step loses a job.  One that is pending, delayed
\* or active and has its payload still is and has after every poll (which takes
\* it from one key and must put it in another), late completion and prune,
\* until the step that records it as succeeded, failed or cancelled; the only
\* other way out is that of PrunedWhileDelayed.
NoLostJob ==
    [][\A j \in Jobs :
         Queued(j) /\ data[j] # None =>
             \/ Queued(j)' /\ data'[j] # None
             \/ Recorded(j)
             \/ PrunedWhileDelayed(j)]_vars

\* "This prevents the race where metadata is pruned for a job that's currently
\* running or about to run (pending)", of the check for active, pending and
\* delayed ids "necessary for correctness when job IDs are reused" (lib.rs
\* 1260-1263): a job that a worker may still pop has its payload.
QueuedJobHasData == \A j \in Jobs : Queued(j) => data[j] # None

\* A job is in one place: its id is in the pending list at most once, and in
\* only one of the pending list, the delayed set, the active hash and the two
\* finished lists.
OnePlace ==
    LET places == <<Range(pending), delayed, active, Range(success),
                    Range(failed)>>
    IN  /\ \A a, b \in DOMAIN places : a # b => places[a] \cap places[b] = {}
        /\ \A s \in {pending, success, failed} : IsInjective(s)

\* The lease protocol: a live lease is the one recorded in the meta hash of
\* an active job, so a job never has two, however often it was reclaimed
\* while an earlier handler was still running.
LeaseExclusive ==
    \A l \in leases : l[1] \in active /\ token[l[1]] = l[2]

\* No other completion's EXEC or UNWATCH on the same connection comes between
\* a completion's WATCH and its EXEC, and the connection is not replaced then.
\* The code does not see to this: with more than one permit the tasks of a
\* worker share its connection.
KeepsWatches ==
    \A l \in LeaseKeys :
        task[l].phase = "watching" /\ task'[l].phase = "watching"
          => watched[task[l].worker] \subseteq watched'[task[l].worker]

WatchesAreKept == [][KeepsWatches]_vars

\* A completion takes effect only while its lease is live (completion.rs
\* 141-150): if the job was reclaimed, the late result of the first handler
\* changes nothing.
CommitUnderLease ==
    [][\A l \in LeaseKeys :
         /\ task[l].phase = "watching"
         /\ task'[l].phase # "watching"
         /\ store' # store
         => l \in leases]_vars

\* Succeeded and Failed are terminal (job.rs 281-285): no worker is handed a
\* job that has finished.
FinishedNeverRuns ==
    [][\A l \in LeaseKeys :
         task[l] = IdleTask /\ task'[l] # IdleTask => l[1] \notin finished]_vars

\* A replacement that try_replace_pending_data accepted is what the next run
\* works with: the holder of a live lease has the payload that is stored.
ReplacementNotLost ==
    \A l \in leases : task[l] # IdleTask => task[l].data = data[l[1]]

\* What get_job_state answers agrees with where the job is.
StateAgreesWithPlace ==
    \A j \in Jobs :
        CASE JobState(j) = "unknown"   -> ~Queued(j) /\ j \notin dedupe
          [] JobState(j) = "active"    -> j \in active
          [] JobState(j) = "succeeded" -> j \in Range(success)
          [] JobState(j) = "failed"    -> j \in Range(failed)
          [] OTHER                     -> j \in Range(pending) \cup delayed

\* The queue seen as a JobLifecycle.  A job is leased while the lease that its
\* meta hash names is live; one whose lease ran out is waiting, whether or not
\* a poll has taken it back yet.
AbstractState(j) ==
    IF j \notin created THEN "absent"
    ELSE IF j \in finished THEN IF j \in result THEN "succeeded" ELSE "failed"
    ELSE IF j \in active /\ <<j, token[j]>> \in leases THEN "leased"
    ELSE "waiting"

\* The payload of the pop that created the live lease.  A task that died has
\* none; then it is the stored one.
AbstractHeld(j) ==
    IF AbstractState(j) # "leased" THEN None
    ELSE LET t == task[<<j, token[j]>>]
         IN  IF t = IdleTask THEN data[j] ELSE t.data

Lifecycle == INSTANCE JobLifecycle WITH
    job <- [j \in Jobs |-> [state |-> AbstractState(j), payload |-> data[j],
                            held |-> AbstractHeld(j)]]

\* The queue implements JobLifecycle: through polls of several jobs, expiring
\* leases and late completions, a job is borrowed by one handler at a time and
\* settled once, by the holder of its lease, for the payload that is stored.
ImplementsLifecycle == Lifecycle!Spec

-----------------------------------------------------------------------------
(* Liveness                                                                *)

\* Workers keep polling, a delayed job that is due is due at every later poll,
\* the client library answers, an EXEC that is sent again and again arrives, and
\* the lease of a task that died runs out.  That handlers return is their part:
\* the queue sets them no time limit.
Fairness ==
    /\ \A w \in Workers :
         /\ WF_vars(PopBatchJobs(w))
         /\ WF_vars(WorkReturns(w))
         /\ \A j \in Jobs : SF_vars(PopBatchJobs(w) /\ j \in delayed \ delayed')
    /\ \A l \in LeaseKeys :
         /\ WF_vars(\E outcome \in Outcomes : HandlerReturns(l, outcome))
         /\ WF_vars(CompletionStep(l))
         /\ SF_vars(Committed(l))
         /\ WF_vars(task[l] = IdleTask /\ Expire(l))

LiveSpec == CoreSpec /\ Fairness

\* If the workers are not shut down, every accepted job reaches a terminal
\* state, through crashes, expired leases, nacks and delays.
EveryJobFinishes ==
    (\A w \in Workers : [](mode[w] = "running"))
      => \A j \in Jobs : (j \in dedupe) ~> (j \in finished)

\* A graceful shutdown ends: `work` gets all its permits back.
ShutdownEnds == \A w \in Workers : (mode[w] = "draining") ~> (mode[w] # "draining")

=============================================================================
