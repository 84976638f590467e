# A verification of open-engine

open-engine takes EIP-8141 frame transactions over HTTP, compiles and
validates them, lets a sponsor policy decide whether to pay for them, queues
them in Redis and broadcasts them to an Ethereum node. This directory holds
TLA+ models of its parts, TLC configurations that check them on small
instances, and TLAPS proofs of what matters most for every instance. Paths
below are relative to `src/`.

## The system

| Part | Source | Role | Modelled in |
|---|---|---|---|
| Queue | `queue/src/lib.rs`, `completion.rs`, `job.rs`, `queue.rs`, `shutdown.rs` | durable jobs in Redis: push, poll, lease, complete, retry, cancel, prune | `Queue`, promise in `JobLifecycle` |
| Multilane queue | `queue/src/multilane.rs` | the same with one pending list per lane | `Multilane` (partly) |
| Hooks | `queue/src/hooks.rs` | commands a handler adds to a completion's transaction | `Queue` (`QueueJob`) |
| Broadcaster | `broadcaster/src/worker.rs` | the queue's handler: nonce check, send, retry | `Broadcaster` |
| API | `api/src/main.rs` | start-up; HTTP handlers: accept, resubmit, report | `Compile` (start-up, up to the enqueue), `Intake` (the rest), not the status endpoint |
| Compiler | `compiler/src/lib.rs` | validates, simulates, resolves the payer, signs | `Frames`, `Compile`; its outcome in `Intake` |
| Sponsor policy | `core/src/policy.rs` | decides which transactions are sponsored | `Compile`; its outcome in `Intake` |
| Policy store | `api/src/policy_store.rs` | sponsor budgets in Redis | `Intake`; its answers in `Compile` |
| Gateways | `core/src/gateway.rs`, `gateway/ethrex.rs`, `gateway/failover.rs` | JSON-RPC to the node, with failover | `Failover`, with its callers in `Compile` |
| Rate limiter | `api/src/rate_limit.rs` | requests per client and window | `Compile` (its answer) |
| Domain, encoding | `core/src/domain.rs`, `encoding.rs` | the transaction types and their RLP form | `Frames` |
| Signer, HTTP | `core/src/signer.rs`, `http.rs` | keys, remote signers, HTTP client set-up | `Compile` (what an answer comes to) |

A request runs through the compiler and the policy and ends with a push to the
queue, or, when its slot (sender, nonce keys, sequence) is taken, with a
replacement of the queued payload or a retry of a failed slot. Workers poll the
queue and give each job to the broadcaster, which asks the node, through the
failover gateway, for the sequence of each nonce key, and sends. What the
broadcaster returns (`Ok`, `Fail`, `Nack`, `Defer`) is committed to Redis under
the lease of the job.

## The modules

### JobLifecycle

What the queue promises about one job, as the set of states that may follow a
state: accepted, replaced while it waits, borrowed with the stored payload,
given back, settled once by the holder for the stored payload, forgotten.
`Queue` is shown to implement it and `Broadcaster` is built from its operators,
so that the two fit together.

### Queue

State: one variable per Redis key of the queue (the pending list, the delayed
set, the active hash, the success and failed lists, the dedupe set, the
cancellations, the job data), one per field of the meta hash, the live lease
keys, and on the side of the processes the task of each lease (its handler
`running`, `done`, its completion `watching` the lease, or at the `prune`), what
each connection watches, and whether a worker is running, draining or stopped.

Redis runs a Lua script and a MULTI/EXEC block atomically, so each is one
action: `Push`, `TryReplacePendingData`, `CancelJob`, `PopBatchJobs` (the four
steps of the poll in their order: take back, settle cancellations, make due,
pop), the four `Commit…`, the two `Post…Completion`. A completion as a whole is
not atomic: `WatchLease`/`LeaseGone`, the EXEC and the pruning script are
separate steps. An EXEC is aborted by any watched key of its connection and
clears all watches of it; clones of a `ConnectionManager` share one connection.
What an aborted EXEC looks like to the code depends on the client library, so
both outcomes are allowed.

Faults: a lease may run out at any moment, a task may end early (a panic, a
failed request, a lost reply), an EXEC may be lost, a process may crash and
start again, a connection may be replaced.

Abstractions: time (a poll may find any subset of the delayed jobs due, a lease
may end at any time), payloads (some of which no longer deserialize), error
records (only their number), lease tokens (fresh members of a finite set), the
order in which Redis enumerates a hash or a set (any).

Four next-state relations. `CoreNext` is the queue's own protocol: push, replace,
poll, complete, prune, with all the faults but replaced connections. An id is
pushed again only after the queue has forgotten it. `EngineNext` is what the
engine's API calls: no push is delayed, and the id of a failed job is freed to be
pushed again (`main.rs:575-583`). `CancelNext` adds cancellation to `CoreNext`, and
`Next`, the whole interface, adds the dedupe removals, the jobs queued from hooks
and replaced connections. `QueueJob` is what `queue_job` adds to a
transaction. A hook's commands come first in the transaction of its completion,
so a handler that queues into its own queue is `QueueJob` with the `Commit…`
directly after it; a handler of another queue, or a client with
`transaction_context_from_pipeline`, is `QueueJob` alone.

### Broadcaster

State: the jobs as in `JobLifecycle`, attempts, the age of a job up to the hold
deadline, the reported outcome, the run that holds the lease, the handler
invocations, and an abstract chain and mempool. `process` is cut at each of its
requests: `Start`, `ReadKey` per key from an endpoint that may lag, `ReadFails`,
the send with its three fates (not reached, accepted, rejected; the reply may
get lost), `Complete`. In between the chain moves (`Mine`, `Elsewhere`,
`Evict`), leases run out and processes die.

### Failover

State: the sticky index, and per call the endpoints left to ask and what was
heard. `Answer` is one endpoint's reply, classified as `classify_rpc_error`,
`is_already_known` and `to_domain` do, and what `attempt` or
`simulate_frame_transaction` makes of it. `GatewaySpec` is the gateway with
callers that call what they like, whenever they like.

### Frames

The transaction as data and what the code computes from it without asking
anybody, as operators: `pay_frame`, `effective_nonce_keys`, `total_gas_limit` and
`max_cost` with their saturation, `validate_wire_format`, the fields that reach
the wire and the signature hash, `validate_structure` with the scan of the
prefix, `resolve_payer`, `check_declared_intent`, the placeholder and its fill.
An address is whose it is and how it is spelled, because the code compares
texts and the wire carries bytes; a byte string is its length; the hash is the
tuple of what is hashed, so that it never collides. The last section holds
declarative references for the properties: the four shapes as sequences of
roles, the payer by role, and the cost over unbounded integers.

### Compile

State: the configuration, whether the process is up, and per request where it
is, the transaction as sent and as it stands, and who said what to it, in order.
`Boot` is `main` up to `axum::serve`. `Receive` is the local part of
`handle_transaction` and `compile_and_validate`; `Decide` (webhook), `Sign`,
`AskNode`, `NodeReads` and `NodeSimulates` (one endpoint's answer each, over
`Failover`) and `Reserve` are its awaits, with every kind of answer or failure
the code tells apart. Beside the requests, tasks of the broadcaster call the
same gateway and move its sticky index.

### Multilane

State: pending, delayed and active per lane, the lanes set with its scores, the
meta fields, the leases and tasks. The poll runs the lanes by score, looks after
each at most once a second, pops one job per lane in turn and drops lanes that
are empty. Its loop is a sequence of turns (`Turn`), each of which visits the
first lane of the ring (`Visit`: look after it, pop a job or close it), and
`Round` is the set of the states it may end in, since what time has made due in
a lane shows when the loop comes to it. `Deliver` is what the script then leaves
of the store. Scores are kept as ranks, which is all the code compares. A worker
is a process with its permits and its one connection, and a completion is the
same requests as in `Queue`: WATCH with the look at the lease, EXEC (which any
other completion's EXEC or UNWATCH on that connection leaves unguarded), prune.
Shutdown is the same code as in `Queue` and is left out.

### Intake

State: per request its phase (one per await), transaction, funding and what it
has read; of the queue what the API can see of an id; the two counters of the
policy store, for this window and the last; and two history variables with the
wei really reserved.
`handle_transaction`, `compile_and_validate`, `decide`/`reserve`,
`handle_resubmission`, `retry_failed_slot` and `is_valid_fee_bump` are its
steps. `Abandon` stands for each refusal, error and crash: at any await the
request may end. `get_job` reads data and metadata in two requests and so is
two steps. A push to an id that is still active clears its lease token, and such
an id (`tokenless`) is put back by the next poll without a look at its lease
(`queue/src/lib.rs:942-948`), which is `TakeBack`. The workers' completions are
under a live lease here: what a dropped watch does is `Queue`'s matter.
Compilation is reduced to what it may come to, which `Compile` shows in
detail. `try_reserve` reads the clock and puts the keys together before the
script runs: a window may end in between, and the script then counts in the
window that ended, whose key may be there still or may have expired.

## What is checked

| Run | Specification | What it shows |
|---|---|---|
| `queue_core` | `CoreSpec`; 2 jobs, 2 single-permit workers, 2 tokens, 2 payloads | no step loses a job or its data (`NoLostJob`); it is in one place (`OnePlace`) and has one live lease (`LeaseExclusive`); a replacement is what the next run works with (`ReplacementNotLost`); the reported state agrees with the place (`StateAgreesWithPlace`); late completions change nothing (`CommitUnderLease`); finished is final (`FinishedNeverRuns`); the queue implements `JobLifecycle` (`ImplementsLifecycle`) |
| `queue_live` | `LiveSpec`; 2 jobs, 1 worker | every accepted job finishes (`EveryJobFinishes`) and a graceful shutdown ends (`ShutdownEnds`) |
| `queue_shared` | `CoreSpec`; 1 worker with 2 permits | **violated**: two completions on one connection drop each other's WATCH |
| `queue_reuse` | `EngineSpec`; 2 jobs, 1 worker | **violated**: pruning takes the payload of a delayed job whose id was freed and pushed again |
| `broadcast_slot` | 1 slot, 2 keys, 2 payloads, 2 runs, lag 1 | nothing is sent ahead of its sequence, a reported broadcast was accepted with the stored payload, a superseded slot can never execute |
| `broadcast_live` | `LiveSpec`; 3 slots, 2 of them malformed | each job settles if nonce reads are answered now and then |
| `broadcast_down` | `DownSpec`; 1 slot | **violated**: a node that never answers pins the slot |
| `multilane` | 2 lanes, 2 jobs, 2 single-permit workers | a lane with work is listed (`LanesWithJobsAreListed`), a job is in its own lane only (`JobIsInItsLane`) |
| `multilane_live` | `LiveSpec`; 2 lanes, 2 jobs, 1 permit | no lane starves (`LaneIsServed`) |
| `compile` | `LiveSpec` of `Compile`; 1 request beside 1 broadcaster task, 2 endpoints, 6 configurations, 13 transactions | see below |
| `intake` | 2 requests, 1 slot, a quota; sponsored, self-paid and refused transactions | spend stays in the limit, what is queued was agreed and reserved, a slot that refuses a push has a job |
| `intake_retry` | 2 requests, 1 slot, no sponsor | **violated**: a late retry wipes a recorded result |

What `compile` shows. Of the gateway: a call gives up only after it asked each
endpoint once (`GivesUpOnlyAfterAll`), stops at a verdict
(`VerdictEndsTheSearch`) and prefers a decline to an error (`DeclineOutranks`).
Of the answer to the caller: a 400 is answered because of a verdict, with the
exceptions that the property lists (`RejectedIsJudged`), and a 503 only if
nobody said a thing against the transaction and, where nodes failed, all of them
did (`RetryableIsUnjudged`); a request is answered unless a node or Redis leaves
one of its calls unanswered for ever (`AnsweredUnlessLeftWaiting`). Of the
sponsor: guards, webhook, signature, nodes and reservation come in this order
(`SpendOrder`); what is queued is what was sent with the sponsor's signature
filled in over the right hash, and the payer is the declared one
(`AcceptedAsAgreed`); the ceiling bounds the engine's estimate of the cost of
what is queued, also when 64-bit sums saturate, up to the gas of the signature
that is filled in later (`CeilingHolds`); no way to acceptance leads around a
guard that is configured, also when the nodes judged nothing
(`GuardsAreApplied`). Of the checks: `validate_structure` and `pay_frame`, which
read the prefix independently, agree with the four shapes on every sequence of
up to four of ten frames, targets being compared by their text as the code does
(`ShapesAgree`).

What no run covers. With two permits to a worker the queue's properties fail
(`queue_shared`), so `queue_core` and `multilane` have one, and the theorems below
say what holds with more. The whole interface of the queue (`Next`: cancellation,
hooks, freed ids, replaced connections) is in no run; three theorems are about it.
`PollIsFair`, for which a run would need a batch of three, is proved only.

### Bounds

Two jobs are enough for one to be pruned by the other's completion and for
lists to have an order; two tokens let a reclaimed job overlap with its first
run; two workers have two connections. `MaxAttempts` ends the faults of a job
after that many attempts (2 where safety is checked, so that a job is reclaimed
and nacked; 4 where liveness is, so that faults may follow one another);
`MaxList` ends pushes while the lists are long, and lets pushes follow pruning.
In `Broadcaster`, `MaxSeq` bounds the sequences a key reaches by other means
than our jobs, `MaxLag` how far an endpoint is behind; attempts are counted up to
one more than their limit, which is all the code can tell apart. In `Intake`,
`MaxCopies` bounds the copies of an id in flight and `MaxHistory` the recorded
outcomes in each list; no reservation is under way for longer than a window; two
wei are a gwei, so that rounding up a cost and rounding down a
limit both show; one sponsored transaction uses up the sender's quota. The run
has no budget: the two limits are two counters of the same script, and the
theorems are for any of both. In
`Compile`, `MaxU64` is 255 and the gas constants are small, so that one
transaction saturates the sums; the transactions are one for each way through
the checks, and the configurations one for each guard, signer and posture that
makes a difference; four frames are the longest prefix; two endpoints suffice
for a call to fail over and for another call to move the index under it, and
the proofs below are for any number. Symmetry is
declared for safety runs only, over ids, tokens, workers, readable payloads,
runs and requests, of which the models distinguish none.

### Fairness

`Queue`: a worker that is not stopped keeps polling and returns from `work`
when it can (weak); a delayed job that is due stays due (strong: some poll takes
it); the steps of a completion go on (weak; the code awaits nothing but replies);
handlers return (weak, and an assumption about them: the queue sets them no time
limit, only their lease); an EXEC that is sent again and again arrives (strong); the
lease of a dead task runs out (weak: it is a TTL). `EveryJobFinishes` supposes
that no worker is shut down, and rests on the bound `MaxAttempts`: a handler that
nacks for ever never finishes, and the code does not cap it.

`Broadcaster`: time passes, waiting jobs are polled (strong: the permit comes and
goes), each request of a node gets an answer or an error. The last is an assumption
about nodes and network: the JSON-RPC client has no timeout of its own
(`gateway.rs:264-268`). `LiveSpec` adds that a node
asked again and again answers a read; `DownSpec` does not. Both are without
expired leases and crashes, which are `Queue`'s.

`Multilane`: the worker polls with a free permit, the clock goes on, the steps of a
completion go on and an EXEC that is sent again and again arrives; that handlers
return is assumed as in `Queue`.

`Compile`: the engine's own steps go on, and the webhook and the remote signer
answer or time out (weak; `http.rs` sets the timeouts). Nothing is assumed of the
nodes and of the policy store, whose clients have no timeout: a request that is
never answered there waits for ever, and `AnsweredUnlessLeftWaiting` says that
nothing else holds it up.

## What is proved

Eight modules hold proofs. All theorems are for every value of the constants
under the named assumptions of the module they are about, which TLC evaluates in
the runs. Every inductive invariant below was also model-checked, on the
instance of the run of its module, before it was proved.

### Queue, the whole interface

`QueueProofs` proves for `Spec` and for all finite sets of jobs and tokens, any
workers, permits, payloads, outcomes and options:

- `TypeCorrect`: `Spec => []TypeOK`. `TypeOK` is inductive.
- `JobsAreNotLost`: `Spec => NoLostJob`. Of each step: a job that is pending,
  delayed or active and has its payload still is and has afterwards, unless the
  step records its end, or prunes an older entry of its id while it is delayed.
  The last is the loss that `queue_reuse` exhibits; the theorem shows that it is
  the only one, also with dropped watches, hooks, cancellations and freed ids.
- `CommitsAreUnderLease`: `Spec /\ WatchesAreKept => CommitUnderLease`. An EXEC
  changes the store only while its lease is live, as long as no step drops a
  watch between a completion's WATCH and its EXEC.

`NoLostJob` is about steps and needs `TypeOK` only, because list operations keep or
lose an id only on well-typed lists. The argument for the poll is in
`TakeBatchFacts` (step 4 moves each popped id with data to the active hash) and
`PollFacts` (steps 1 and 3 move ids into the pending list); the other actions are
one step each. The third theorem rests on `Guarded` (see below), which each step
that keeps the watches keeps. The other lemmas are about sequences: what LREM,
LPUSH, RPUSH and a cut do to the set of ids in a list, that any enumeration of a
finite set has its members, and that no id comes into a list twice.

Assumptions: `ConstantsAssumption` of `Queue` (ids and tokens are finite sets,
the options are natural numbers, at least one permit, `None` is no value).
The bounds `MaxAttempts` and `MaxList` are constants, and the theorems hold for
each value of them. A step of a hook, `QueueJob`, is a step of `Spec`.

### Queue, the lease protocol

`QueueCoreProofs` proves of `CoreSpec` the other safety properties: `OnePlace`,
`LeaseExclusive`, `ReplacementNotLost`, `StateAgreesWithPlace`, the action property
`FinishedNeverRuns`, and that it implements `JobLifecycle`
(`QueueImplementsLifecycle`). With crashes, expired leases, lost requests and both
readings of an aborted EXEC; any number of jobs, workers, permits, payloads and
tokens.

Each has the hypothesis `WatchesAreKept`: no step drops a watch of a task that
waits for EXEC. **The engine does not ensure it.** Its workers run with the default
of 100 permits (`queue.rs:59`), whose tasks share one connection, and `queue_shared`
shows a watch dropped and a completion committed without a lease; with that, a
late nack queues a job twice and the other properties fail too. What the theorems
say is that the script, the lease and the guarded transaction are sound, and that
the shared connection is all they lack: with a connection to each completion, or
one permit to a worker, they hold. For the latter the hypothesis is proved
(`OnePermitKeepsWatches`: one permit, and payloads that deserialize, since the
permit of one that does not is given back while its completion is under way).

Nor is `CoreSpec` all the engine does: freed ids (`main.rs:575-583`) are outside it,
and with them `queue_reuse` refutes that a queued job has its payload, and an id
may be in the failed list and in the queue at once. Cancellation is outside it as
well; `FinishedNeverRuns` fails with it (see the divergences). The options are
`SafeOptions`, the engine's own: `Permanent` idempotency and histories that keep
something. In `Active` mode, or with a history of length 0, an id is free again
while something is left of its job.

None of the properties is inductive, and they need one another. `CoreInv` has
the types and

- `Apart`: `OnePlace`, pair by pair, and that no list repeats an id;
- `Known`: the dedupe set, `created_at`, the data, the tokens, `finished_at` and
  the results tell the same of an id as its place (a job is in the dedupe set
  exactly if it is somewhere, has a token exactly if it is active, and so on);
- `Guarded`: the connection of a task that waits for EXEC watches its lease, and
  if that lease is gone the connection is dirty. This is the heart of WATCH: an
  EXEC that goes through found a live lease;
- `LeaseExclusive`, `ReplacementNotLost`: a live lease is the token of an active
  job, and its task holds the stored payload.

`QueueProofs` ends with the invariant and with what a poll takes (`PollEffect`);
`QueueCoreProofs` shows of each action that it keeps the invariant: of what
changes the store (push, replacement, poll, EXEC, pruning), then of the steps of
a task, of time and of faults (`CoreStep`). For the refinement, `Moved` says for
each action from which abstract state to which it may take a job, and
`QueueImplementsLifecycle` compares that with `Lifecycle!Steps`.

### Broadcaster

`BroadcasterProofs` proves, for any jobs, keys, payloads and runs, with lagging
endpoints, expired leases, dying processes and a chain that moves at any time:
`TypeOK`, `NeverSentAhead`, `BroadcastWasAccepted`, `SupersededIsFinal`, and that
every step is one `JobLifecycle` allows (`BroadcasterUsesLifecycle`: `Spec =>
Queue!Spec`), so that the broadcaster and the proved queue fit together.

The inductive invariant `BInv` says of each handler what it may rely on: while it
reads, each key of its job is still to be read or the chain has reached its
sequence, unless some key was found behind; when it sends, all are reached; a
verdict of `superseded` means the chain has passed a key, one of `broadcast` that
a node accepted this payload (`RunOK`). All are true of the chain now although
the reads are old, because an endpoint that lags shows less than the chain has
and the chain only grows. And the holder of a lease has the stored payload and a
counted attempt (`LeaseOK`), without which a completion would report the outcome
of a payload that was replaced.

### Intake

`IntakeProofs` proves, for any requests, slots, transactions and limits, and any
number of wei to the gwei: `TypeOK`, `SpendStaysInBudget`, `QueuedAsAgreed`,
`HeldSlotHasJob`. `IInv` adds to them what a request carries from one await to
the next (`RequestsOK`: the payer is the declared one, and how the transaction is
funded follows from its phase); `Held`, which says more than `HeldSlotHasJob`: an
active id counts only with a live lease; and `Spent`: the gwei counted cover the
wei charged, and are within the limit rounded down. The arithmetic is in
`Rounding`: `SpendStaysInBudget` holds because costs are rounded up and limits
down, by the same divisor. Assumption: `IntakeAssumption` (costs and limits are
natural numbers, the divisor is not 0, `None` is no transaction).

### Multilane

`MultilaneProofs` proves, for all finite sets of lanes, jobs and tokens and any
workers and permits, with expired leases, crashes, cancellations, unreadable
payloads and either idempotency mode: `TypeOK`, `LanesWithJobsAreListed`,
`JobIsInItsLane`, that a live lease is the one the meta hash of an active job names
(`MultilaneLease`), and the action property `PollIsFair`. The hypothesis is
`WatchesAreKept` as in `Queue`, and for the same reason: with several permits on one
connection a late nack may put a job into a lane that no poll visits.
`MultilaneOnePermit` discharges it for workers with one permit and payloads that
deserialize.

The inductive invariant `Inv` adds to the types and to `LanesWithJobsAreListed`:
`InPlace` (an id is once in one list of the lane its meta hash names, and is in
the dedupe set, so that no push can put it into a second lane), `DataHasLane`
(an id with data has a lane, without which pruning would delete a job that is
queued), `LeaseIsOfActive`, and `Guarded` of `Queue`, so that an EXEC that goes
through finds its job in the lane it looks in.

A poll is one step with a loop of any length, so it has an invariant of its own:
each turn keeps every lane tidy and listed, and leaves the lanes it has not come
to as they were (`VisitKeeps`, `TurnKeeps`, and `RoundKeeps`, which is by
induction on a number as below, `Counting`). Fairness is part of it (`FairLoop`):
along the ring, from the lane visited longest ago, the jobs popped of a lane do
not become fewer, and from the first to the last they rise by at most one; a
closed lane had no more than any lane of the ring (`FairNextLane`, `FairTail`).
Assumption: `ConstantsAssumption` of `Multilane`.

### The gateway and the compiler

`CompileProofs` first proves, for any number of endpoints and callers, that
`GatewaySpec` implies `GivesUpOnlyAfterAll`, `VerdictEndsTheSearch` and
`DeclineOutranks`. None of the three is inductive: while a call is under way
other callers move `current`, and what the call has still to ask must be known
to be what it has not asked. The inductive invariant `GatewayInv`
(`GatewayInvariant`) says that there is an endpoint `s` from which each call walks:
what it heard and what it has yet to ask are the rotation of the endpoints from
`s`, in this order (`Walks`), where `s` is what `current` was when the call began
and is never read again; and that a call either has returned what its last
answer, or the answers together, come to, or has heard non-answers only. That
the rotation visits each endpoint once is arithmetic modulo `NumEndpoints`
(`RotationInjective`, `RotationCovers`). Assumption: `EndpointsAssumption`, at
least one endpoint, which `FailoverGateway::new` enforces.

It then proves that `Compile`, the API's requests together with the
broadcaster's tasks, implements the gateway (`CompileImplementsGateway`: `Spec =>
GatewaySpec`, every step being a step of the gateway or leaving it alone), and
so has the three properties. Then the inductive invariant of the pipeline,
`CInv`: a request that waits has been told exactly what those before the one it
waits for say when all goes well, and its transaction is as sent or as signed
accordingly (`Waiting`: `AtWebhook`, `AtSigner`, `AtNodes`, `AtStore`); one that
is answered was ended by one of them, and its answer is what that one's last word
comes to (`Finished`). `CompileInvariant` proves it together with `GatewayInv`,
since what the nodes say is what a call of the gateway returns.

`CompileResults` draws from it, for any requests, endpoints, configurations and
transactions: `TypeOK`, `RejectedIsJudged`, `RetryableIsUnjudged` (with
`GatewayInv`: a 503 from the nodes means that each of them failed), `SpendOrder`,
`GuardsAreApplied`, `CeilingHolds`, `AcceptedAsAgreed`, `ShapesAgree`. The last
three are about sums and scans over the frames as well, which are the matter of
`FrameProofs`. Assumptions: `SubmissionsAssumption`, `ProbesAssumption` (what
`ShapesAgree` is asked of is in order but for its frames), `ConfigsAssumption`,
`GasAssumption` (types) and `RequestsAssumption`.

### The transaction

`FrameProofs` proves what the computations of `Frames` come to, for every
transaction, with any number of frames and signatures.

- Sums. A fold takes the entries one at a time, in an order that is not
  specified; that the recursion along them has a solution is proved by induction
  on the size of the set (`FoldExists`). Along it, a saturating sum is the exact
  one or `MaxU64` (`SatSumIs`), and sums of sequences that differ in one entry
  differ by that entry (`SumChanges`). From this, the sponsor's signature raises
  `max_cost` by at most its own gas (`FillIsCheap`), and a limit below `MaxU64` is
  the exact sum (`LimitIsExact`), so that a ceiling below the cost of the largest
  limit bounds the exact cost (`CeilingIsExact`).
- The scan. The loop of `validate_structure` that collects the prefix has an
  invariant (`ScanIs`, `ScanCollects`): after `n` frames it has collected, in
  order, those up to the first that approves payment, expiry frames aside. So the
  prefix ends where `pay_frame` looks.
- The shapes. `PrefixIsShape` and `ShapeIsPrefix` show that the prefix that the
  scan finds has one of the four accepted forms exactly if some set of frames
  has the roles of a shape of EIP-8141 (`ShapeOf`), and that this set is then the
  prefix. `AgreesOnShapes` puts the two together with `PayerIsByRole`:
  `validate_structure` accepts exactly the shapes, and `resolve_payer` finds the
  payer of the last role.

These inductions are over data. The library's induction theorems have an operator
as a parameter, which the provers cannot instantiate. They are replaced by
`Counting`: a set that has 0 and with each number up to `n` the next has all of
`0..n`. Its parameter is a set, and it follows from the existence of a least number
that is not in it (`LeastExists`).

### Only model-checked

- Liveness under fairness (and ENABLED), which the prover does not handle:
  `EveryJobFinishes`, `ShutdownEnds`, `EveryJobSettles`, `LaneIsServed`,
  `AnsweredUnlessLeftWaiting`.

## Findings

Each has a run that exhibits it.

1. `queue_shared`: completions of one process share a connection and its WATCH
   state. `completion.rs:251`: "If the lease is gone the job was cancelled or
   timed out: apply nothing." After the EXEC or UNWATCH of one completion, the
   other's EXEC is unguarded; if its lease runs out just then it commits all the
   same.
2. `broadcast_down`: a failing nonce read is nacked without a bound
   (`worker.rs:212`); the budget of `worker.rs:32` ("a node that is down for good
   must not pin the slot forever") is only looked at by the send.
3. `intake_retry`: `retry_failed_slot` frees the slot without looking at it again
   (`main.rs:575`); `main.rs:658`: "A slot that produced an outcome keeps it."
4. `queue_reuse`: the pruning scripts test `type(ZSCORE) == "number"`, but a script
   gets the score as a string (`queue/src/lib.rs:1269`), so the test for a delayed
   job never succeeds. The API frees the id of a failed job and pushes it again
   (`main.rs:575-583`); pruning the entry of its first run then deletes the payload
   of the second while that one is delayed, and the next poll drops it.
   `queue/src/lib.rs:1260` says "Check if this job_id is currently
   active/pending/delayed".

### Divergences noticed while modelling

The models do what the code does; these have no run of their own.

- A cancellation of an active job is settled by a later poll, also when step 1
  or a nack has put the job back: it is marked failed and still runs
  (`lib.rs:958`). `FinishedNeverRuns` is checked and proved without cancellation.
- Taking back a job counts an attempt, and popping it counts another
  (`lib.rs:932`), so a lost run counts twice.
- `LTRIM list 0 max-1` with a limit of 0 keeps the list (`lib.rs:1284`), which
  each later prune walks.
- In `Active` mode a completion frees the id, a cancellation does not
  (`queue.rs:14-15`).
- The multilane pruning compares a missing Lua reply, `false`, with `nil`
  (`multilane.rs:991`): no job that has a lane is ever deleted.
- Two fee bumps of one original are each compared with what they read
  (`main.rs:669`): the lower one may be what stays.
- A send whose reply was lost may have been accepted; the retry then reports
  `superseded` or `rejected` for a transaction that landed.
- When the last endpoint lacks a method and an earlier one was unreachable, the
  failover gateway returns the error of the last, which is not retried. On a
  nonce read this is a 400, which `RejectedIsJudged` names.
- A job queued from a hook (`hooks.rs:51`) does not clear `finished_at`: an id
  that has finished before is reported as finished while it waits. Nor is the
  dedupe set looked at, so it may be pending twice. The engine uses no hooks.
- A reservation whose window ended before its script ran may find the key of
  that window expired, and starts its count anew (`policy_store.rs:106-109`).
  Each counter stays within its limit, which is `SpendStaysInBudget`; the sum
  over the ended window need not.
- The ceiling is checked, and the webhook told the cost, before the signature is
  filled in, whose calldata costs gas (`compiler/src/lib.rs:807`); `policy.rs:243`
  calls it "the largest amount the sponsor, as payer, could be charged".
  `CeilingHolds` states the bound with the gas of one signature added.
- `max_cost` is an estimate of what the node reserves and in two cases too low: the
  calldata of the nonces and the calldata floor of EIP-7623 are left out
  (`domain.rs:485-501`). `ExactCost` and `CeilingHolds` are about the estimate, so
  they do not bound what the sponsor is charged. `max_cost` also saturates, and a
  ceiling that is not below the fee for the largest u64 bounds nothing.
- "filling the placeholder does not change" the hash (`compiler/src/lib.rs:819`)
  is so for an entry without a digest of its own: the encoder elides only where
  `msg` is the empty text (`encoding.rs:125`), which "0x" is not although it decodes
  to no bytes. `AcceptedAsAgreed` states it for such entries; the run has a
  submission with "0x", whose signature is then over another hash.
- Addresses are compared by their text (`compiler/src/lib.rs:466`, `690`), while the
  wire carries bytes: it takes an address without 0x, and a target "0x" is an empty
  one (`encoding.rs:175-178`), which by `domain.rs:168` is the sender. The roles in
  `ShapesAgree` compare as the code does, so a target spelled another way is
  another target there too.
- The entry for the signature is looked for after the sponsor has signed.
- The gas of the prefix is added with `+=` (`compiler/src/lib.rs:420`), which wraps
  in a release build where `total_gas_limit` saturates.
- A signer that breaks (a KMS outage, a malformed answer) is a `SignError` and
  answered with 400, an unreachable one with 503.
- The rate limiter answers 429 also when it is Redis that failed.
- `200 {"approved": false}` is a refusal from the webhook, and an unreadable
  answer, hence a 503, from the remote signer; `http.rs:7-13` wants both to draw
  one line.
- A store with only a budget counts as a bound on admission, and one with only a
  quota as a bound on spend (`policy.rs:267-278`, `301`). So a public engine may
  start with nothing that limits who is sponsored. `GuardsAreApplied` says only that
  what is configured is applied.
- `domain.rs` says that flag bits 3-7 "must be zero" (163), that gas limits stay
  below 2^63 (184), that `MAX_VERIFY_GAS` is 100,000 (186) and that scheme 0x0 is
  SECP256K1 (235); the code checks neither of the first two, and its constants
  are 500_000, 1 and 2.
- `value_is_zero` lists "0x0", which `expect_u256` refuses. A target "0x" passes the
  wire check and is not the sender's. The sponsor's address without 0x, and an
  absent target of a pay frame, resolve to an external payer.

## Not modelled

- The status endpoint: it only reads, and what it reports is `JobState` in
  `Queue`, which `StateAgreesWithPlace` is about.
- Error types, metrics and logs: no state.
- RLP bytes, keccak and the cryptography of signatures: the models keep which
  fields are encoded and hashed, and who signed.
- The parsing of environment variables, URLs and credentials: sequential text
  processing before the engine is up; a configuration is a record.
- The count of the rate limiter: one counter in one transaction, on which
  nothing else depends. Its answer is in `Compile`.
- In `Multilane`, shutdown and replaced connections, which `Queue` has.
- Saturation at `i64::MAX` in the conversion to gwei.
- That the multilane pruning deletes what it prunes: it does not (see above),
  and the model does what the code does.

## Plan

Done: the queue with its promise and the hooks, the broadcaster, the multilane
queue, the transaction and its checks, compilation with all those it asks, the
gateways, the intake with the windows of the policy store; the theorems above.

Next, in the model:

1. `Multilane`: shutdown.
2. `Intake` composed with `JobLifecycle` in place of its own view of the queue.
3. Runs for two divergences that only the text above records: the entry with
   `msg` "0x", and a public engine whose only guard is a budget.

Next, in the proofs: `NoLostJob` for `Multilane`, and that it implements
`JobLifecycle`.
