----------------------------- MODULE Multilane -----------------------------
(***************************************************************************)
(* The multi-lane job queue (queue/src/multilane.rs): one pending list,    *)
(* delayed set and active hash per lane, a sorted set of the lanes scored  *)
(* by the time of their last visit, and a poll that goes round the lanes.  *)
(*                                                                         *)
(* A worker is a process that runs `work': its tasks share its permits and *)
(* its one connection to Redis.  Attempts, errors and results are left     *)
(* out: nothing in this module reads them.  So are graceful shutdown and   *)
(* connections that are replaced, which Queue has.                         *)
(*                                                                         *)
(* Time is abstracted as in Queue.  Of the clock only the order of the     *)
(* lanes' scores matters, and whether a score is the current second.       *)
(***************************************************************************)
EXTENDS Integers, Sequences, FiniteSets, Functions

CONSTANTS
    Lanes,              \* lane ids
    Jobs,               \* job ids
    Tokens,             \* lease tokens; bounds the leases one job may have
    Workers,            \* the processes that poll the queue
    Unreadable,         \* the jobs whose payload does not deserialize
    Outcomes,           \* what a handler may return
    LocalConcurrency,   \* QueueOptions::local_concurrency, of each worker
    AlwaysPoll,         \* QueueOptions::always_poll
    MaxSuccess,         \* QueueOptions::max_success
    MaxFailed,          \* QueueOptions::max_failed
    IdempotencyMode,    \* "Permanent" or "Active"
    MaxList,            \* bound: no push, no cancellation past this length
    None                \* the absent value

VARIABLES
    pending,    \* per lane: list of runnable ids
    delayed,    \* per lane: sorted set of ids waiting for their time
    active,     \* per lane: hash of ids held by a worker
    score,      \* the lanes set: 0 never visited, None for no member
    data,       \* ids in the job data hash
    lane,       \* meta hash: lane_id
    token,      \* meta hash: lease_token
    front,      \* meta hash: ids whose reentry_position is "first"
    finished,   \* meta hash: ids with finished_at
    dedupe,     \* set of ids a push is refused for
    success,    \* list of succeeded ids, newest first
    failed,     \* list of failed and cancelled ids, newest first
    cancels,    \* pending_cancellations
    leases,     \* live lease keys: <<id, token>>
    task,       \* the task that was given a lease: its phase, its worker
    watched,    \* per worker: the lease keys its connection watches
    dirty       \* workers whose next EXEC aborts: a watched key changed

places == <<pending, delayed, active, score>>

meta == <<lane, token, front, finished>>

lists == <<success, failed, cancels, dedupe>>

watch == <<watched, dirty>>

vars == <<places, data, meta, lists, leases, task, watch>>

LeaseKeys == Jobs \X Tokens

\* The current second, later than any other a score can stand for.
Now == Cardinality(Lanes) + 1

Phases == {"idle", "running", "watching", "ok", "fail"}

Idle == [phase |-> "idle", worker |-> None]

Fail == [kind |-> "fail", delayed |-> FALSE, position |-> "last"]

AllOutcomes ==
    [kind : {"ok", "nack", "defer", "fail"}, delayed : BOOLEAN,
     position : {"first", "last"}]

ASSUME ConstantsAssumption ==
    /\ IsFiniteSet(Lanes)
    /\ IsFiniteSet(Jobs)
    /\ IsFiniteSet(Tokens)
    /\ Workers # {}
    /\ Outcomes \subseteq AllOutcomes
    /\ LocalConcurrency \in Nat
    /\ MaxSuccess \in Nat
    /\ MaxFailed \in Nat
    /\ None \notin Nat \cup Lanes \cup Tokens \cup Workers

Init ==
    /\ pending = [l \in Lanes |-> << >>]
    /\ delayed = [l \in Lanes |-> {}]
    /\ active = [l \in Lanes |-> {}]
    /\ score = [l \in Lanes |-> None]
    /\ data = {}
    /\ lane = [j \in Jobs |-> None]
    /\ token = [j \in Jobs |-> None]
    /\ front = {}
    /\ finished = {}
    /\ dedupe = {}
    /\ success = << >>
    /\ failed = << >>
    /\ cancels = {}
    /\ leases = {}
    /\ task = [k \in LeaseKeys |-> Idle]
    /\ watched = [w \in Workers |-> {}]
    /\ dirty = {}

\* The sequences that hold every member of the finite set S once.  Redis
\* enumerates hashes and sets in an order the code does not control.
Orders(S) == Bijection(1..Cardinality(S), S)

\* LREM list 0 j for every j in gone, as the set of the one resulting sequence.
Without(s, gone) ==
    LET kept == {i \in 1..Len(s) : s[i] \notin gone}
        up   == {f \in Orders(kept) : \A a, b \in DOMAIN f : a < b => f[a] < f[b]}
    IN  {[i \in DOMAIN f |-> s[f[i]]] : f \in up}

-----------------------------------------------------------------------------
(* Clients                                                                 *)

Reenter(j, position) ==
    IF position = "first" THEN front \cup {j} ELSE front \ {j}

\* push_to_lane, for an id not in the dedupe set.  A member of the lanes set
\* keeps its score, and what earlier runs left in the meta hash stays there.
PushToLane(l, j, wait, position) ==
    /\ Len(success) + Len(failed) < MaxList
    /\ j \notin dedupe
    /\ data' = data \cup {j}
    /\ lane' = [lane EXCEPT ![j] = l]
    /\ dedupe' = dedupe \cup {j}
    /\ score' = [score EXCEPT ![l] = IF @ = None THEN 0 ELSE @]
    /\ \/ /\ wait
          /\ front' = Reenter(j, position)
          /\ delayed' = [delayed EXCEPT ![l] = @ \cup {j}]
          /\ UNCHANGED pending
       \/ /\ ~wait
          /\ pending' = [pending EXCEPT ![l] = Append(@, j)]
          /\ UNCHANGED <<front, delayed>>
    /\ UNCHANGED <<active, token, finished, success, failed, cancels, leases,
                   task, watch>>

\* cancel_job: at once for a pending or delayed job, later for an active one.
CancelJob(j) ==
    LET l == lane[j] IN
    /\ l # None
    /\ Len(failed) + Cardinality(cancels) < MaxList
    /\ \/ /\ j \in Range(pending[l])
          /\ \E rest \in Without(pending[l], {j}) :
               pending' = [pending EXCEPT ![l] = rest]
          /\ failed' = <<j>> \o failed
          /\ finished' = finished \cup {j}
          /\ UNCHANGED <<delayed, cancels>>
       \/ /\ j \notin Range(pending[l])
          /\ j \in delayed[l]
          /\ delayed' = [delayed EXCEPT ![l] = @ \ {j}]
          /\ failed' = <<j>> \o failed
          /\ finished' = finished \cup {j}
          /\ UNCHANGED <<pending, cancels>>
       \/ /\ j \notin Range(pending[l])
          /\ j \in active[l] \ delayed[l]
          /\ cancels' = cancels \cup {j}
          /\ UNCHANGED <<pending, delayed, failed, finished>>
    /\ UNCHANGED <<active, score, data, lane, token, front, dedupe, success,
                   leases, task, watch>>

-----------------------------------------------------------------------------
(* The poll: pop_batch_jobs, one script                                    *)

\* Step 1 settles the cancellations of jobs that are no longer active ...
Settled == {j \in cancels : lane[j] # None /\ j \notin active[lane[j]]}

\* ... as failed, unless the job is found in the success list.
CancelledLate == {j \in Settled : j \notin Range(success)}

TimedOut(l) == {j \in active[l] : <<j, token[j]>> \notin leases}

\* Mutant: the visit does not reach the lanes set.
VisitedMut(scores, l) == scores

Visited(scores, l) == [scores EXCEPT ![l] = Now]

\* What a visit to a lane brings back to its list: the delayed jobs that the
\* clock made due, at either end, and the jobs whose lease has run out.
Arrivals(l) ==
    UNION {[first : Orders(due \cap front), back : Orders(TimedOut(l)),
            last : Orders(due \ front)] : due \in SUBSET delayed[l]}

\* cleanup_lane_leases, process_delayed_jobs and the new score of a lane.  A
\* lane that was visited in this second is left alone.
Housekeep(s, l, came) ==
    IF s.score[l] = Now THEN s
    ELSE [s EXCEPT
            !.active[l] = @ \ Range(came.back),
            !.delayed[l] = @ \ (Range(came.first) \cup Range(came.last)),
            !.pending[l] = came.first \o came.back \o @ \o came.last,
            !.score = Visited(@, l)]

\* pop_job_from_lane takes the tail of the list.  For an id that has no data
\* the lane counts as empty.
Pop(s, l) ==
    LET n == Len(s.pending[l])
        j == s.pending[l][n]
    IN  [s EXCEPT !.pending[l] = SubSeq(@, 1, n - 1),
                  !.active[l] = IF j \in data THEN @ \cup {j} ELSE @,
                  !.popped = IF j \in data THEN Append(@, j) ELSE @]

\* Mutant: the active hash is not looked at.
LaneIsDoneMut(s, l) == s.pending[l] = << >> /\ s.delayed[l] = {}

LaneIsDone(s, l) ==
    /\ s.pending[l] = << >>
    /\ s.delayed[l] = {}
    /\ s.active[l] = {}

\* A lane without a job to pop is closed for this poll, and leaves the lanes
\* set if nothing is left of it.
Close(s, l) ==
    IF LaneIsDone(s, l) THEN [s EXCEPT !.score[l] = None] ELSE s

\* The lane just visited goes to the end of the ring.
NextLane(ring) == Append(Tail(ring), Head(ring))

\* A visit of step 2's loop to the first lane of its ring.  The loop's state s:
\* the lanes not known to be empty, how many jobs are to go, what is written of
\* the store, the ids popped.
Visit(s, came) ==
    LET l == Head(s.ring)
        h == Housekeep(s, l, came)
        p == IF h.pending[l] = << >> THEN h ELSE Pop(h, l)
    IN  IF p.popped # s.popped
        THEN [p EXCEPT !.ring = NextLane(@), !.left = @ - 1]
        ELSE [Close(p, l) EXCEPT !.ring = Tail(@)]

\* The states a turn of the loop may lead to.
Turn(s) ==
    IF s.left = 0 \/ s.ring = << >> THEN {s}
    ELSE {Visit(s, came) : came \in Arrivals(Head(s.ring))}

Turned(states) == UNION {Turn(s) : s \in states}

LoopStart(ring, batch) ==
    [ring |-> ring, left |-> batch, pending |-> pending, delayed |-> delayed,
     active |-> active, score |-> score, popped |-> << >>]

\* The states the loop of step 2 may end in: a turn pops a job or closes a lane.
Round(ring, batch) ==
    LET turns == batch + Len(ring)
        after[i \in 0..turns] ==
            IF i = 0 THEN {LoopStart(ring, batch)} ELSE Turned(after[i - 1])
    IN  after[turns]

\* ZRANGE: the members by score; equal scores by name, which is arbitrary.
Rings ==
    {r \in Orders({l \in Lanes : score[l] # None}) :
        \A a, b \in DOMAIN r : a < b => score[r[a]] <= score[r[b]]}

\* A lease token carries the second and the attempt.  A task that outlived its
\* lease got it in an earlier second, so no task holds the new token; a token
\* that is out of use may stand for a new one.
FreshTokens(j) == {t \in Tokens : <<j, t>> \notin leases /\ task[<<j, t>>] = Idle}

Permits(w) ==
    LocalConcurrency
      - Cardinality({k \in LeaseKeys : task[k].worker = w /\ k[1] \notin Unreadable})

\* Mutant: the batch is the concurrency, whatever is running.
BatchesMut(w) == 1..LocalConcurrency

\* available_permits, which is read before the script runs and may be less
\* than what is free by then.
Batches(w) == (IF AlwaysPoll THEN 0 ELSE 1)..Permits(w)

\* A job that is popped twice gets two leases; the last one leaves its token in
\* the meta hash.
LastCopy(j, popped) ==
    CHOOSE i \in DOMAIN popped :
        /\ popped[i] = j
        /\ \A h \in DOMAIN popped : popped[h] = j => h <= i

\* What the script leaves of the lanes when its loop ended in s, and the leases
\* it gives out with the tokens new.
Deliver(w, s, new) ==
    LET ran   == Range(s.popped)
        taken == {<<s.popped[i], new[i]>> : i \in DOMAIN s.popped}
        lost  == UNION {active[l] \ s.active[l] : l \in Lanes}
        moved == UNION {delayed[l] \ s.delayed[l] : l \in Lanes}
    IN  /\ pending' = s.pending
        /\ delayed' = s.delayed
        /\ active' = s.active
        /\ score' = s.score
        /\ front' = front \ moved
        /\ token' = [j \in Jobs |-> IF j \in ran THEN new[LastCopy(j, s.popped)]
                                   ELSE IF j \in lost THEN None
                                   ELSE token[j]]
        /\ leases' = leases \cup taken
        /\ task' = [k \in LeaseKeys |->
                      IF k \in taken THEN [phase |-> "running", worker |-> w]
                                     ELSE task[k]]

PopBatchJobs(w, batch) ==
    /\ UNCHANGED <<data, lane, dedupe, watch>>
    /\ finished' = finished \cup CancelledLate
    /\ cancels' = cancels \ Settled
    /\ \E late \in Orders(CancelledLate) : failed' = late \o failed
    /\ \E again \in Orders(Settled \ CancelledLate),
          rest \in Without(success, Settled) : success' = again \o rest
    /\ \E ring \in Rings :
       \E s \in Round(ring, batch) :
       \E new \in [DOMAIN s.popped -> Tokens] :
         /\ \A i \in DOMAIN new : new[i] \in FreshTokens(s.popped[i])
         /\ \A g, i \in DOMAIN new :
               s.popped[g] = s.popped[i] /\ new[g] = new[i] => g = i
         /\ Deliver(w, s, new)

-----------------------------------------------------------------------------
(* The tasks: handler, completion under the lease, pruning                 *)

\* The task of lease k moves to a phase; moving to "idle" drops its permit.
Goto(k, phase) ==
    task' = [task EXCEPT ![k] = IF phase = "idle" THEN Idle
                                ELSE [phase |-> phase, worker |-> @.worker]]

\* EXEC and UNWATCH drop every watch of a worker's connection.
Unwatch(w) ==
    /\ watched' = [watched EXCEPT ![w] = {}]
    /\ dirty' = dirty \ {w}

\* Mutant: the answer of EXISTS is ignored.
WatchLeaseMut(k) ==
    /\ task[k].phase = "running"
    /\ watched' = [watched EXCEPT ![task[k].worker] = @ \cup {k}]
    /\ Goto(k, "watching")
    /\ UNCHANGED <<places, data, meta, lists, leases, dirty>>

\* The handler has returned: WATCH the lease key, then EXISTS.
WatchLease(k) ==
    /\ task[k].phase = "running"
    /\ k \in leases
    /\ watched' = [watched EXCEPT ![task[k].worker] = @ \cup {k}]
    /\ Goto(k, "watching")
    /\ UNCHANGED <<places, data, meta, lists, leases, dirty>>

\* The same when EXISTS answers 0: UNWATCH, and nothing is applied.
LeaseGone(k) ==
    /\ task[k].phase = "running"
    /\ k \notin leases
    /\ Unwatch(task[k].worker)
    /\ Goto(k, "idle")
    /\ UNCHANGED <<places, data, meta, lists, leases>>

\* After a commit only Ok and Fail go on to prune.
AfterCommit(o) == IF o.kind \in {"ok", "fail"} THEN o.kind ELSE "idle"

\* What every EXEC that is not aborted does for a handler that returned o; a
\* payload that does not deserialize fails in complete_job_queue_error.  The
\* code reads the job's lane before it watches: the lane of an id changes only
\* when it is pushed again, after it has finished.
Exec(k, o) ==
    /\ task[k].phase = "watching"
    /\ task[k].worker \notin dirty
    /\ k[1] \in Unreadable => o = Fail
    /\ Unwatch(task[k].worker)
    /\ leases' = leases \ {k}
    /\ active' = [active EXCEPT ![lane[k[1]]] = @ \ {k[1]}]
    /\ token' = [token EXCEPT ![k[1]] = None]
    /\ Goto(k, AfterCommit(o))

\* complete_job with Ok or Fail, and complete_job_queue_error.
Settle(k, o) ==
    LET j == k[1] IN
    /\ o.kind \in {"ok", "fail"}
    /\ Exec(k, o)
    /\ success' = IF o.kind = "ok" THEN <<j>> \o success ELSE success
    /\ failed' = IF o.kind = "ok" THEN failed ELSE <<j>> \o failed
    /\ finished' = finished \cup {j}
    /\ dedupe' = IF IdempotencyMode = "Active" THEN dedupe \ {j} ELSE dedupe
    /\ UNCHANGED <<pending, delayed, score, data, lane, front, cancels>>

\* complete_job with Nack or Defer: back to the job's own lane.
GiveBack(k, o) ==
    LET j == k[1]
        l == lane[j]
    IN
    /\ o.kind \in {"nack", "defer"}
    /\ Exec(k, o)
    /\ \/ /\ o.delayed
          /\ front' = Reenter(j, o.position)
          /\ delayed' = [delayed EXCEPT ![l] = @ \cup {j}]
          /\ UNCHANGED pending
       \/ /\ ~o.delayed
          /\ pending' = [pending EXCEPT ![l] =
                           IF o.position = "first" THEN <<j>> \o @ ELSE Append(@, j)]
          /\ UNCHANGED <<front, delayed>>
    /\ UNCHANGED <<score, data, lane, finished, lists>>

Committed(k) == \E o \in Outcomes \cup {Fail} : Settle(k, o) \/ GiveBack(k, o)

\* An aborted EXEC applies nothing and answers Nil.  The client library turns
\* that into an error, and the loop retries, or into an empty Ok, and the
\* completion counts as committed: both are allowed here.
ExecAborted(k) ==
    /\ task[k].phase = "watching"
    /\ task[k].worker \in dirty
    /\ Unwatch(task[k].worker)
    /\ \/ Goto(k, "running")
       \/ \E o \in Outcomes \cup {Fail} :
            (k[1] \in Unreadable => o = Fail) /\ Goto(k, AfterCommit(o))
    /\ UNCHANGED <<places, data, meta, lists, leases>>

\* LTRIM list 0 max-1; with max = 0 that keeps the list.
Trim(s, max) == IF max = 0 \/ Len(s) <= max THEN s ELSE SubSeq(s, 1, max)

\* The ids of the surplus that are deleted.  In Lua a missing reply is false,
\* and `false ~= nil' is true: every job that has a lane is taken for pending.
Prunable(s, max) == {j \in {s[i] : i \in (max + 1)..Len(s)} : lane[j] = None}

Forget(gone) ==
    /\ dedupe' = dedupe \ gone
    /\ data' = data \ gone
    /\ finished' = finished \ gone
    /\ front' = front \ gone
    /\ token' = [j \in Jobs |-> IF j \in gone THEN None ELSE token[j]]
    /\ UNCHANGED <<places, lane, cancels, leases, watch>>

PostSuccessCompletion(k) ==
    /\ task[k].phase = "ok"
    /\ Forget(Prunable(success, MaxSuccess))
    /\ success' = Trim(success, MaxSuccess)
    /\ Goto(k, "idle")
    /\ UNCHANGED failed

PostFailCompletion(k) ==
    /\ task[k].phase = "fail"
    /\ Forget(Prunable(failed, MaxFailed))
    /\ failed' = Trim(failed, MaxFailed)
    /\ Goto(k, "idle")
    /\ UNCHANGED success

-----------------------------------------------------------------------------
(* Time and faults                                                         *)

\* The next second: the scores are only compared with each other and with Now.
Tick ==
    /\ \E l \in Lanes : score[l] = Now
    /\ LET stamps == {score[l] : l \in Lanes} \ {None, 0}
       IN  score' = [l \in Lanes |->
                       IF score[l] \in stamps
                       THEN Cardinality({x \in stamps : x <= score[l]})
                       ELSE score[l]]
    /\ UNCHANGED <<pending, delayed, active, data, meta, lists, leases, task, watch>>

\* EXEC treats a watched key that expired as changed.
Expire(k) ==
    /\ k \in leases
    /\ leases' = leases \ {k}
    /\ dirty' = dirty \cup {w \in Workers : k \in watched[w]}
    /\ UNCHANGED <<places, data, meta, lists, task, watched>>

\* The handler panics or a request fails and `?` returns.  An error of EXEC is
\* retried instead, so a task does not end while it waits for EXEC.
TaskDies(k) ==
    /\ task[k].phase \in {"running", "ok", "fail"}
    /\ Goto(k, "idle")
    /\ UNCHANGED <<places, data, meta, lists, leases, watch>>

\* The connection breaks before EXEC reaches Redis.  The error looks like a
\* tripped WATCH to the loop, which starts over.
ExecLost(k) ==
    /\ task[k].phase = "watching"
    /\ Unwatch(task[k].worker)
    /\ Goto(k, "running")
    /\ UNCHANGED <<places, data, meta, lists, leases>>

\* The process dies and is started again.
Crash(w) ==
    /\ \E k \in LeaseKeys : task[k].worker = w
    /\ task' = [k \in LeaseKeys |-> IF task[k].worker = w THEN Idle ELSE task[k]]
    /\ Unwatch(w)
    /\ UNCHANGED <<places, data, meta, lists, leases>>

-----------------------------------------------------------------------------
(* Specification                                                           *)

TaskStep(k) ==
    \/ WatchLease(k)
    \/ LeaseGone(k)
    \/ Committed(k)
    \/ ExecAborted(k)
    \/ PostSuccessCompletion(k)
    \/ PostFailCompletion(k)

Next ==
    \/ \E l \in Lanes, j \in Jobs, wait \in BOOLEAN, position \in {"first", "last"} :
         PushToLane(l, j, wait, position)
    \/ \E j \in Jobs : CancelJob(j)
    \/ \E w \in Workers : Crash(w) \/ \E batch \in Batches(w) : PopBatchJobs(w, batch)
    \/ \E k \in LeaseKeys : TaskStep(k) \/ Expire(k) \/ TaskDies(k) \/ ExecLost(k)
    \/ Tick

Spec == Init /\ [][Next]_vars

\* The workers keep polling, the clock goes on, and an EXEC that is sent again
\* and again arrives.  That handlers return is their part.
Fairness ==
    /\ \A w \in Workers :
         WF_vars(\E batch \in Batches(w) : batch > 0 /\ PopBatchJobs(w, batch))
    /\ WF_vars(Tick)
    /\ \A k \in LeaseKeys : WF_vars(TaskStep(k)) /\ SF_vars(Committed(k))

LiveSpec == Spec /\ Fairness

-----------------------------------------------------------------------------
(* Properties                                                              *)

\* Types, and two facts the scripts rely on: every id in a list, set or hash of a
\* lane has data, and a poll never hands out more jobs than there are permits.
TypeOK ==
    /\ pending \in [Lanes -> Seq(Jobs)]
    /\ delayed \in [Lanes -> SUBSET Jobs]
    /\ active \in [Lanes -> SUBSET Jobs]
    /\ \A l \in Lanes : Range(pending[l]) \cup delayed[l] \cup active[l] \subseteq data
    /\ score \in [Lanes -> 0..Now \cup {None}]
    /\ data \subseteq Jobs
    /\ lane \in [Jobs -> Lanes \cup {None}]
    /\ token \in [Jobs -> Tokens \cup {None}]
    /\ front \cup finished \cup dedupe \cup cancels \subseteq data
    /\ success \in Seq(data)
    /\ failed \in Seq(data)
    /\ leases \subseteq LeaseKeys
    /\ task \in [LeaseKeys -> [phase : Phases, worker : Workers \cup {None}]]
    /\ watched \in [Workers -> SUBSET LeaseKeys]
    /\ dirty \subseteq Workers
    /\ \A w \in Workers : Permits(w) \in 0..LocalConcurrency

\* No step drops a watch of a task that waits for EXEC, as in Queue.
KeepsWatches ==
    \A k \in LeaseKeys :
        task[k].phase = "watching" /\ task'[k].phase = "watching"
          => watched[task[k].worker] \subseteq watched'[task[k].worker]

WatchesAreKept == [][KeepsWatches]_vars

\* A lane with a job in it is in the lanes set, where a poll finds it: the poll
\* that drops an empty lane (multilane.rs 742) races pushes, nacks and leases
\* that run out.
LanesWithJobsAreListed ==
    \A l \in Lanes :
        score[l] = None => pending[l] = << >> /\ delayed[l] = {} /\ active[l] = {}

Places(j, l) ==
    Cardinality({i \in DOMAIN pending[l] : pending[l][i] = j})
      + Cardinality({j} \cap delayed[l])
      + Cardinality({j} \cap active[l])

\* An id is in at most one place, and in the lane its meta hash names: that is
\* where cancel_job and a completion look for it.
JobIsInItsLane ==
    \A l \in Lanes, j \in Jobs : Places(j, l) <= IF lane[j] = l THEN 1 ELSE 0

\* "fair round-robin" (multilane.rs 546): a poll that leaves a job pending in a
\* lane took at most one job more from any other lane.
PollIsFair ==
    [][LET Taken(l) == Cardinality({k \in leases' \ leases : lane[k[1]] = l})
       IN  leases' \ leases # {} =>
             \A a, b \in Lanes : pending'[b] # << >> => Taken(a) <= Taken(b) + 1]_vars

\* No lane starves another: a lane with pending jobs gets one of them run, even
\* if the handlers of another lane nack for ever and there is one permit.
LaneIsServed ==
    \A l \in Lanes :
        (pending[l] # << >> /\ active[l] = {})
          ~> (pending[l] = << >> \/ active[l] # {})

=============================================================================
