------------------------------- MODULE Intake -------------------------------
(***************************************************************************)
(* POST /transaction (api/src/main.rs): a request is compiled (compiler),  *)
(* passes the sponsor policy (core/src/policy.rs, api/src/policy_store.rs) *)
(* and is pushed to the queue, or resubmitted to a slot that is taken.     *)
(*                                                                         *)
(* A request is a process: at each of its awaits other requests, workers   *)
(* and time come in between.  Of the queue this module keeps what the API  *)
(* sees of one id; Queue is the whole of it.                               *)
(***************************************************************************)
EXTENDS Integers, FiniteSets, TLC

CONSTANTS
    Requests,       \* requests handled at a time
    Slots,          \* job ids: sender, nonce keys and nonce sequence
    SenderOf,       \* the sender of each slot
    Txs,            \* transactions that callers submit
    Malformed,      \* the transactions validate_structure refuses
    Allowlist,      \* SponsorPolicy::sender_allowlist, or None
    MaxCostWei,     \* SponsorPolicy::max_cost_wei, or None
    QuotaWei,       \* per-sender spend limit of a window, or None
    BudgetWei,      \* spend limit of a window, or None
    WeiPerGwei,     \* WEI_PER_GWEI
    MaxCopies,      \* bound: no push while there are this many copies of an id
    MaxHistory,     \* bound: how often an id is in one list of history
    None            \* the absent value

\* Whether the sponsor's signature was filled in, and its cost reserved.
Fundings == {"none", "signed", "reserved"}

ASSUME IntakeAssumption ==
    /\ \A tx \in Txs : tx.slot \in Slots /\ tx.cost \in Nat
    /\ QuotaWei = None \/ QuotaWei \in Nat
    /\ BudgetWei = None \/ BudgetWei \in Nat
    /\ WeiPerGwei \in Nat \ {0}
    /\ MaxHistory \in Nat
    /\ None \notin Txs /\ None \notin [tx : Txs, funding : Fundings]

VARIABLES
    request,    \* per request: its phase, transaction, how that is funded and
                \* what it has seen: the stored transaction, or the clock
    dedupe,     \* queue: ids a push is refused for
    data,       \* queue: the stored transaction of an id
    pending,    \* queue: how often an id is in the pending list
    delayed,    \* queue: ids in the delayed set
    active,     \* queue: ids in the active hash
    tokenless,  \* queue: those whose meta hash names no lease
    runs,       \* queue: live leases on an id
    history,    \* queue: how often an id is in the success and the failed list
    finished,   \* queue: ids with finished_at
    result,     \* queue: ids with a recorded result
    quota,      \* policy store: gwei reserved by a sender, per window
    budget,     \* policy store: gwei reserved by all, per window
    charged,    \* history: wei of the reservations behind quota ...
    chargedAll  \* history: ... and behind budget

places == <<pending, delayed, active, tokenless, runs, history>>

queue == <<dedupe, data, places, finished, result>>

policy == <<quota, budget, charged, chargedAll>>

vars == <<request, queue, policy>>

Lists == {"success", "failed"}

Senders == {SenderOf[s] : s \in Slots}

\* The window of the present moment, and the one before it.
Windows == {"now", "past"}

Unspent == [w \in Windows |-> 0]

Counters == {"quota", "budget"}

\* now_secs() over the length of each window: a key of the policy store names
\* the window in which it was put together.
Clock == [counter \in Counters |-> "now"]

\* A transaction as compiled, with its funding.
Compiled(tx, funding) == [tx |-> tx, funding |-> funding]

Request(phase, tx, funding, seen) ==
    [phase |-> phase, tx |-> tx, funding |-> funding, seen |-> seen]

Idle == Request("idle", None, "none", None)

Init ==
    /\ request = [r \in Requests |-> Idle]
    /\ dedupe = {}
    /\ data = [s \in Slots |-> None]
    /\ pending = [s \in Slots |-> 0]
    /\ delayed = {}
    /\ active = {}
    /\ tokenless = {}
    /\ runs = [s \in Slots |-> 0]
    /\ history = [s \in Slots |-> [list \in Lists |-> 0]]
    /\ finished = {}
    /\ result = {}
    /\ quota = [a \in Senders |-> Unspent]
    /\ budget = Unspent
    /\ charged = [a \in Senders |-> Unspent]
    /\ chargedAll = Unspent

Goto(r, phase) ==
    request' = [request EXCEPT ![r] = Request(phase, @.tx, @.funding, @.seen)]

\* The request is answered.
Answer(r) == request' = [request EXCEPT ![r] = Idle]

-----------------------------------------------------------------------------
(* Compiling: compile_and_validate                                         *)

\* check_declared_intent: the declared payer is there and is the one
\* resolve_payer finds in the frames.
DeclaredRight(tx) == tx.declared = tx.payer

\* Steps 1 and 2.  A transaction that fails them is answered at once.
Receive(r, tx) ==
    /\ request[r] = Idle
    /\ tx \notin Malformed
    /\ DeclaredRight(tx)
    /\ request' = [request EXCEPT ![r] =
                     Request(IF tx.payer = "sponsor" THEN "policy" ELSE "simulate",
                             tx, "none", None)]
    /\ UNCHANGED <<queue, policy>>

\* check_stateless: the sender allowlist and the ceiling of one transaction.
CheckStateless(tx) ==
    /\ Allowlist # None => SenderOf[tx.slot] \in Allowlist
    /\ MaxCostWei # None => tx.cost <= MaxCostWei

\* Step 3, inject_sponsor_signature, when the webhook approves and the signer
\* signs.  When a guard, the webhook or the signer refuses or is unreachable
\* the request ends with Abandon.
InjectSponsorSignature(r) ==
    /\ request[r].phase = "policy"
    /\ CheckStateless(request[r].tx)
    /\ request' = [request EXCEPT ![r] = Request("simulate", @.tx, "signed", None)]
    /\ UNCHANGED <<queue, policy>>

\* Mutant: a skipped simulation returns before the reservation.
AfterSimulationMut(r, verdict) ==
    IF verdict = "passed" /\ request[r].tx.payer = "sponsor" THEN "reserve" ELSE "push"

\* Step 5 is for sponsored transactions only, whatever made step 4 succeed.
AfterSimulation(r, verdict) ==
    IF request[r].tx.payer = "sponsor" THEN "reserve" ELSE "push"

\* Step 4, simulate, when it lets the transaction pass: the node passed it, or
\* it was skipped because the sequence is in the future or no node would run
\* it.  A violated prefix, a revert or an unreachable node is Abandon.  There
\* is no await from here to the clock of try_reserve.
Simulate(r, verdict) ==
    LET phase == AfterSimulation(r, verdict) IN
    /\ request[r].phase = "simulate"
    /\ request' = [request EXCEPT ![r] =
                     Request(phase, @.tx, @.funding,
                             IF phase = "reserve" THEN Clock ELSE None)]
    /\ UNCHANGED <<queue, policy>>

\* wei_to_gwei_floor, for limits.
GweiFloor(wei) == wei \div WeiPerGwei

\* Mutant: amounts are rounded down like limits.
GweiCeilMut(wei) == wei \div WeiPerGwei

\* wei_to_gwei_ceil, for amounts.
GweiCeil(wei) == (wei + WeiPerGwei - 1) \div WeiPerGwei

Fits(current, amount, limit) == limit # None => current + amount <= GweiFloor(limit)

\* RESERVE_SCRIPT, on the keys of the windows the request has seen.  The reply
\* may be lost: then the amount stays reserved, and the caller is told to try
\* again.
Reserve(r, replied) ==
    LET tx     == request[r].tx
        sender == SenderOf[tx.slot]
        amount == GweiCeil(tx.cost)
        key    == request[r].seen
    IN
    /\ request[r].phase = "reserve"
    /\ Fits(quota[sender][key["quota"]], amount, QuotaWei)
    /\ Fits(budget[key["budget"]], amount, BudgetWei)
    /\ quota' = IF QuotaWei = None THEN quota
                ELSE [quota EXCEPT ![sender][key["quota"]] = @ + amount]
    /\ budget' = IF BudgetWei = None THEN budget
                 ELSE [budget EXCEPT ![key["budget"]] = @ + amount]
    /\ charged' = IF QuotaWei = None THEN charged
                  ELSE [charged EXCEPT ![sender][key["quota"]] = @ + tx.cost]
    /\ chargedAll' = IF BudgetWei = None THEN chargedAll
                     ELSE [chargedAll EXCEPT ![key["budget"]] = @ + tx.cost]
    /\ \/ /\ replied
          /\ request' = [request EXCEPT ![r] = Request("push", @.tx, "reserved", None)]
       \/ /\ ~replied
          /\ Answer(r)
    /\ UNCHANGED queue

-----------------------------------------------------------------------------
(* Queueing: handle_transaction, handle_resubmission, retry_failed_slot    *)

\* How often the workers have, or will have, the id to run.
Copies(s) == pending[s] + runs[s] + Cardinality(delayed \cap {s})

\* The push script, for an id that is not in the dedupe set.  It deletes the
\* meta hash, and with it the lease token of an id that is still active.
PushScript(r) ==
    LET s == request[r].tx.slot IN
    /\ Copies(s) < MaxCopies
    /\ s \notin dedupe
    /\ dedupe' = dedupe \cup {s}
    /\ data' = [data EXCEPT ![s] = Compiled(request[r].tx, request[r].funding)]
    /\ pending' = [pending EXCEPT ![s] = @ + 1]
    /\ finished' = finished \ {s}
    /\ result' = result \ {s}
    /\ tokenless' = tokenless \cup ({s} \cap active)
    /\ UNCHANGED <<delayed, active, runs, history>>

\* push_with_outcome answers Created, in handle_transaction or, for a slot that
\* was freed, in retry_failed_slot.
PushCreated(r) ==
    /\ request[r].phase \in {"push", "push again"}
    /\ PushScript(r)
    /\ Answer(r)
    /\ UNCHANGED policy

\* It answers Duplicate: the first push goes on to handle_resubmission.
PushDuplicate(r) ==
    /\ request[r].phase \in {"push", "push again"}
    /\ request[r].tx.slot \in dedupe
    /\ IF request[r].phase = "push" THEN Goto(r, "look up") ELSE Answer(r)
    /\ UNCHANGED <<queue, policy>>

Bumped(old, new) ==
    old # None /\ new # None /\ new >= old + (old + 9) \div 10

\* Both the fee cap and the priority fee rise by a tenth, rounded up.
IsValidFeeBump(existing, incoming) ==
    Bumped(existing.fee, incoming.fee) /\ Bumped(existing.tip, incoming.tip)

\* get_job reads the data hash ...
LookUp(r) ==
    LET stored == data[request[r].tx.slot] IN
    /\ request[r].phase = "look up"
    /\ request' = [request EXCEPT ![r] =
                     IF stored = None THEN Idle
                     ELSE Request("read meta", @.tx, @.funding, stored.tx)]
    /\ UNCHANGED <<queue, policy>>

\* ... and then the meta hash; handle_resubmission decides from both.
ReadMeta(r) ==
    /\ request[r].phase = "read meta"
    /\ \/ /\ request[r].tx.slot \in finished
          /\ Goto(r, "read state")
       \/ /\ request[r].tx.slot \notin finished
          /\ IsValidFeeBump(request[r].seen, request[r].tx)
          /\ Goto(r, "replace")
       \/ /\ request[r].tx.slot \notin finished
          /\ ~IsValidFeeBump(request[r].seen, request[r].tx)
          /\ Answer(r)
    /\ UNCHANGED <<queue, policy>>

\* get_job_state: a failed slot is retried, any other outcome is kept.
ReadState(r) ==
    LET s == request[r].tx.slot IN
    /\ request[r].phase = "read state"
    /\ IF s \in finished \ result THEN Goto(r, "free") ELSE Answer(r)
    /\ UNCHANGED <<queue, policy>>

\* retry_failed_slot: remove_from_dedupe_set, then the push.
FreeSlot(r) ==
    /\ request[r].phase = "free"
    /\ dedupe' = dedupe \ {request[r].tx.slot}
    /\ Goto(r, "push again")
    /\ UNCHANGED <<data, places, finished, result, policy>>

\* try_replace_pending_data; unless it answers Replaced nothing changes.
Replace(r) ==
    LET s == request[r].tx.slot IN
    /\ request[r].phase = "replace"
    /\ data' = IF data[s] # None /\ s \notin active \cup finished
               THEN [data EXCEPT ![s] = Compiled(request[r].tx, request[r].funding)]
               ELSE data
    /\ Answer(r)
    /\ UNCHANGED <<dedupe, places, finished, result, policy>>

\* A dependency refuses or is unreachable, a request to Redis fails, the caller
\* goes away or the process dies.
Abandon(r) ==
    /\ request[r] # Idle
    /\ Answer(r)
    /\ UNCHANGED <<queue, policy>>

-----------------------------------------------------------------------------
(* The workers, as far as the API can tell (see Queue), and time           *)

\* A poll pops an id; one without data is dropped.
Pop(s) ==
    /\ pending[s] > 0
    /\ pending' = [pending EXCEPT ![s] = @ - 1]
    /\ active' = IF data[s] = None THEN active ELSE active \cup {s}
    /\ tokenless' = IF data[s] = None THEN tokenless ELSE tokenless \ {s}
    /\ runs' = [runs EXCEPT ![s] = IF data[s] = None THEN @ ELSE @ + 1]
    /\ UNCHANGED <<request, dedupe, data, delayed, history, finished, result, policy>>

\* Mutant: a completion does not look at its lease.
FinishMut(s, list) ==
    /\ history[s][list] < MaxHistory
    /\ runs' = [runs EXCEPT ![s] = @ - 1]
    /\ active' = active \ {s}
    /\ tokenless' = tokenless \ {s}
    /\ finished' = finished \cup {s}
    /\ result' = IF list = "success" THEN result \cup {s} ELSE result
    /\ history' = [history EXCEPT ![s][list] = @ + 1]
    /\ UNCHANGED <<request, dedupe, data, pending, delayed, policy>>

\* A completion commits success or failure.
Finish(s, list) ==
    /\ runs[s] > 0
    /\ history[s][list] < MaxHistory
    /\ runs' = [runs EXCEPT ![s] = @ - 1]
    /\ active' = active \ {s}
    /\ tokenless' = tokenless \ {s}
    /\ finished' = finished \cup {s}
    /\ result' = IF list = "success" THEN result \cup {s} ELSE result
    /\ history' = [history EXCEPT ![s][list] = @ + 1]
    /\ UNCHANGED <<request, dedupe, data, pending, delayed, policy>>

\* A completion commits a nack or a defer: the broadcaster always delays them.
Reschedule(s) ==
    /\ runs[s] > 0
    /\ runs' = [runs EXCEPT ![s] = @ - 1]
    /\ active' = active \ {s}
    /\ tokenless' = tokenless \ {s}
    /\ delayed' = delayed \cup {s}
    /\ UNCHANGED <<request, dedupe, data, pending, history, finished, result, policy>>

\* A poll finds a delayed job due.
BecomeDue(s) ==
    /\ s \in delayed
    /\ delayed' = delayed \ {s}
    /\ pending' = [pending EXCEPT ![s] = @ + 1]
    /\ UNCHANGED <<request, dedupe, data, active, tokenless, runs, history,
                   finished, result, policy>>

\* A lease runs out.  A poll takes the job back if the lease is the recorded
\* one and the job is still active; a second lease on the id need not be.
LoseLease(s) ==
    /\ runs[s] > 0
    /\ runs' = [runs EXCEPT ![s] = @ - 1]
    /\ \/ /\ s \in active
          /\ active' = active \ {s}
          /\ pending' = [pending EXCEPT ![s] = @ + 1]
          /\ tokenless' = tokenless \ {s}
       \/ /\ s \notin active \/ runs[s] > 1
          /\ UNCHANGED <<active, tokenless, pending>>
    /\ UNCHANGED <<request, dedupe, data, delayed, history, finished, result, policy>>

\* "No lease token in meta, something's wrong": a poll takes an active job back
\* although its lease is live.
TakeBack(s) ==
    /\ s \in tokenless
    /\ active' = active \ {s}
    /\ tokenless' = tokenless \ {s}
    /\ pending' = [pending EXCEPT ![s] = @ + 1]
    /\ UNCHANGED <<request, dedupe, data, delayed, runs, history, finished, result, policy>>

\* Mutant: the dedupe entry outlives the job.
PruneMut(s, list) ==
    /\ history[s][list] > 0
    /\ s \notin active /\ pending[s] = 0
    /\ history' = [history EXCEPT ![s][list] = @ - 1]
    /\ data' = [data EXCEPT ![s] = None]
    /\ finished' = finished \ {s}
    /\ result' = IF list = "success" THEN result \ {s} ELSE result
    /\ UNCHANGED <<request, dedupe, pending, delayed, active, tokenless, runs, policy>>

\* post_success_completion and post_fail_completion reach the id at the end of
\* a list and delete the job; only the first deletes a result too.  Their test
\* for a delayed id never succeeds.
Prune(s, list) ==
    /\ history[s][list] > 0
    /\ s \notin active /\ pending[s] = 0
    /\ history' = [history EXCEPT ![s][list] = @ - 1]
    /\ dedupe' = dedupe \ {s}
    /\ data' = [data EXCEPT ![s] = None]
    /\ finished' = finished \ {s}
    /\ result' = IF list = "success" THEN result \ {s} ELSE result
    /\ UNCHANGED <<request, pending, delayed, active, tokenless, runs, policy>>

\* The list entry goes, and a job that is queued or active stays.
PruneKept(s, list) ==
    /\ history[s][list] > 0
    /\ s \in active \/ pending[s] > 0
    /\ history' = [history EXCEPT ![s][list] = @ - 1]
    /\ UNCHANGED <<request, dedupe, data, pending, delayed, active, tokenless, runs,
                   finished, result, policy>>

\* The requests that will reserve with a key of sender a.
Reserving(a) ==
    {r \in Requests : request[r].phase = "reserve" /\ SenderOf[request[r].tx.slot] = a}

\* A window ends.  Its key stays for a window after the last reservation, so a
\* script that comes late finds it or, if it is `gone', makes it anew.
Rolled(count, late, gone) ==
    [w \in Windows |-> IF w = "now" \/ late = {} \/ gone THEN 0 ELSE count["now"]]

Late(late, counter) ==
    request' = [r \in Requests |->
                  IF r \in late THEN [request[r] EXCEPT !.seen[counter] = "past"]
                                ELSE request[r]]

\* The next window has a key of its own.  Bound: no script is under way for
\* longer than a window.
RollSender(a, gone) ==
    LET late == Reserving(a) IN
    /\ quota[a]["now"] > 0 \/ late # {}
    /\ \A r \in late : request[r].seen["quota"] = "now"
    /\ Late(late, "quota")
    /\ quota' = [quota EXCEPT ![a] = Rolled(@, late, gone)]
    /\ charged' = [charged EXCEPT ![a] = Rolled(@, late, gone)]
    /\ UNCHANGED <<queue, budget, chargedAll>>

RollBudget(gone) ==
    LET late == UNION {Reserving(a) : a \in Senders} IN
    /\ budget["now"] > 0 \/ late # {}
    /\ \A r \in late : request[r].seen["budget"] = "now"
    /\ Late(late, "budget")
    /\ budget' = Rolled(budget, late, gone)
    /\ chargedAll' = Rolled(chargedAll, late, gone)
    /\ UNCHANGED <<queue, quota, charged>>

-----------------------------------------------------------------------------

Next ==
    \/ \E r \in Requests :
         \/ \E tx \in Txs : Receive(r, tx)
         \/ InjectSponsorSignature(r)
         \/ \E verdict \in {"passed", "skipped"} : Simulate(r, verdict)
         \/ \E replied \in BOOLEAN : Reserve(r, replied)
         \/ PushCreated(r)
         \/ PushDuplicate(r)
         \/ LookUp(r)
         \/ ReadMeta(r)
         \/ ReadState(r)
         \/ FreeSlot(r)
         \/ Replace(r)
         \/ Abandon(r)
    \/ \E s \in Slots :
         \/ Pop(s)
         \/ \E list \in Lists : Finish(s, list) \/ Prune(s, list) \/ PruneKept(s, list)
         \/ Reschedule(s)
         \/ BecomeDue(s)
         \/ LoseLease(s)
         \/ TakeBack(s)
    \/ \E gone \in BOOLEAN :
         \/ \E a \in Senders : RollSender(a, gone)
         \/ RollBudget(gone)

Spec == Init /\ [][Next]_vars

-----------------------------------------------------------------------------

Phases == {"idle", "policy", "simulate", "reserve", "push", "look up", "read meta",
           "read state", "replace", "free", "push again"}

\* Every variable has its type: in particular no completion commits without a
\* live lease, and only an active job can lack its lease token.
TypeOK ==
    /\ request \in [Requests -> [phase : Phases, tx : Txs \cup {None},
                                 funding : Fundings,
                                 seen : Txs \cup {None} \cup [Counters -> Windows]]]
    /\ data \in [Slots -> [tx : Txs, funding : Fundings] \cup {None}]
    /\ dedupe \subseteq Slots /\ delayed \subseteq Slots
    /\ tokenless \subseteq active /\ active \subseteq Slots
    /\ finished \subseteq Slots /\ result \subseteq Slots
    /\ pending \in [Slots -> Nat] /\ runs \in [Slots -> Nat]
    /\ history \in [Slots -> [Lists -> 0..MaxHistory]]
    /\ quota \in [Senders -> [Windows -> Nat]] /\ budget \in [Windows -> Nat]
    /\ charged \in [Senders -> [Windows -> Nat]] /\ chargedAll \in [Windows -> Nat]

\* What the reservations on one counter allow the sponsor to be charged stays
\* within the limits configured in wei, for every sender and in total, although
\* requests race, reserve with the key of a window that is over, lose replies
\* and try again, and Redis counts in gwei (try_reserve).
SpendStaysInBudget ==
    \A w \in Windows :
        /\ QuotaWei # None => \A a \in Senders : charged[a][w] <= QuotaWei
        /\ BudgetWei # None => chargedAll[w] <= BudgetWei

\* Whatever way a transaction got into the queue (push, retry of a failed slot
\* or replacement), the caller declared who pays for it, and the sponsor's
\* signature is on it exactly if its cost was reserved.
QueuedAsAgreed ==
    \A s \in Slots : data[s] # None =>
        /\ data[s].tx.declared = data[s].tx.payer
        /\ data[s].funding = IF data[s].tx.payer = "sponsor" THEN "reserved" ELSE "none"

\* A slot that refuses a push has a job that is queued, runs or has ended, and
\* whose data a resubmission can read: no interleaving of retries, workers and
\* pruning leaves a slot that nobody can use again.
HeldSlotHasJob ==
    \A s \in dedupe :
        /\ data[s] # None
        /\ pending[s] > 0 \/ s \in delayed \/ runs[s] > 0 \/ s \in finished

\* handle_resubmission: "A slot that produced an outcome keeps it."  A recorded
\* result stays until the job is pruned.
OutcomeIsKept ==
    [][\A s \in result : s \in result' \/ data'[s] = None]_vars

=============================================================================
