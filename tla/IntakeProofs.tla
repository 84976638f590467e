---------------------------- MODULE IntakeProofs ----------------------------
(***************************************************************************)
(* Proofs about Intake, for any number of requests, slots, senders and     *)
(* transactions, any limits, and any number of wei to the gwei.            *)
(*                                                                         *)
(* The properties speak of what is stored.  They are inductive together    *)
(* with what a request carries from one await to the next: a transaction   *)
(* that was declared and funded as far as its phase says, and the windows  *)
(* of the keys it will reserve with.                                       *)
(***************************************************************************)
EXTENDS Intake, TLAPS

\* The provers get more time than by default: the contexts are long.
USE SMTT(30), ZenonT(30)

-----------------------------------------------------------------------------
(* The inductive invariant                                                 *)

\* How a transaction is funded once nothing more is to be reserved for it.
Agreed(tx) == IF tx.payer = "sponsor" THEN "reserved" ELSE "none"

\* What a request carries from one await to the next.
RequestOK(x) ==
    \/ x = Idle
    \/ /\ x.phase # "idle"
       /\ x.tx \in Txs
       /\ x.tx.declared = x.tx.payer
       /\ x.phase = "policy" => x.tx.payer = "sponsor"
       /\ x.phase = "simulate" =>
             x.funding = IF x.tx.payer = "sponsor" THEN "signed" ELSE "none"
       /\ x.phase = "reserve" => x.tx.payer = "sponsor" /\ x.seen \in [Counters -> Windows]
       /\ x.phase \notin {"policy", "simulate", "reserve"} => x.funding = Agreed(x.tx)

RequestsOK == \A r \in Requests : RequestOK(request[r])

\* A slot that refuses a push has data and is queued, finished, or active under
\* a lease: a second lease on the id, which is not active, does not count.
Held ==
    \A s \in dedupe :
        /\ data[s] # None
        /\ \/ pending[s] > 0
           \/ s \in delayed
           \/ s \in finished
           \/ s \in active /\ runs[s] > 0

\* A counter in gwei is within its limit, rounded down, and what was charged on
\* it is covered by what it counts, which was rounded up.
Covered(wei, gwei, limit) ==
    limit # None => gwei <= GweiFloor(limit) /\ wei <= gwei * WeiPerGwei

Spent ==
    \A w \in Windows :
        /\ \A a \in Senders : Covered(charged[a][w], quota[a][w], QuotaWei)
        /\ Covered(chargedAll[w], budget[w], BudgetWei)

IInv ==
    /\ TypeOK
    /\ RequestsOK
    /\ QueuedAsAgreed
    /\ Held
    /\ Spent

-----------------------------------------------------------------------------
(* Wei and gwei                                                            *)

\* An amount rounded up to gwei covers it; a limit rounded down is within it.
LEMMA Rounding ==
    ASSUME NEW wei \in Nat
    PROVE  /\ GweiCeil(wei) \in Nat
           /\ wei <= GweiCeil(wei) * WeiPerGwei
           /\ GweiFloor(wei) \in Nat
           /\ GweiFloor(wei) * WeiPerGwei <= wei
<1>1. WeiPerGwei \in Nat \ {0}
  BY IntakeAssumption
<1>2. ASSUME NEW n \in Nat, NEW d \in Nat \ {0}
      PROVE  /\ n \div d \in Nat
             /\ (n \div d) * d <= n
             /\ n < (n \div d) * d + d
  <2>1. /\ n = d * (n \div d) + (n % d)
        /\ n % d \in 0..(d - 1)
        /\ n \div d \in Int
    OBVIOUS
  <2>2. n \div d >= 0
    OBVIOUS
  <2> QED
    BY <2>1, <2>2
<1> DEFINE up == wei + WeiPerGwei - 1
<1>3. up \in Nat /\ up = wei + WeiPerGwei - 1
  BY <1>1
<1>4. /\ up \div WeiPerGwei \in Nat
      /\ up < (up \div WeiPerGwei) * WeiPerGwei + WeiPerGwei
  BY <1>1, <1>2, <1>3
<1>5. GweiCeil(wei) = up \div WeiPerGwei
  BY DEF GweiCeil
<1> HIDE DEF up
<1>6. wei <= GweiCeil(wei) * WeiPerGwei
  <2>1. ASSUME NEW m \in Int, NEW c \in Nat \ {0}, up < m + c, c = WeiPerGwei
        PROVE  wei <= m
    BY <1>3, <2>1
  <2>2. (up \div WeiPerGwei) * WeiPerGwei \in Int
    BY <1>1, <1>4
  <2> QED
    BY <1>1, <1>4, <1>5, <2>1, <2>2, Zenon
<1>7. GweiFloor(wei) \in Nat /\ GweiFloor(wei) * WeiPerGwei <= wei
  BY <1>1, <1>2 DEF GweiFloor
<1> QED
  BY <1>4, <1>5, <1>6, <1>7

\* RESERVE_SCRIPT adds to a counter what still fits.
LEMMA ReserveCovered ==
    ASSUME NEW wei \in Nat, NEW gwei \in Nat, NEW limit, NEW cost \in Nat,
           limit # None, Covered(wei, gwei, limit), Fits(gwei, GweiCeil(cost), limit)
    PROVE  Covered(wei + cost, gwei + GweiCeil(cost), limit)
<1>1. WeiPerGwei \in Nat \ {0}
  BY IntakeAssumption
<1>2. GweiCeil(cost) \in Nat /\ cost <= GweiCeil(cost) * WeiPerGwei
  BY Rounding
<1>3. gwei + GweiCeil(cost) <= GweiFloor(limit) /\ wei <= gwei * WeiPerGwei
  BY DEF Covered, Fits
<1>4. ASSUME NEW a \in Nat, NEW b \in Nat, NEW c \in Nat
      PROVE  (a + b) * c = a * c + b * c
  OBVIOUS
<1>5. (gwei + GweiCeil(cost)) * WeiPerGwei = gwei * WeiPerGwei + GweiCeil(cost) * WeiPerGwei
  BY <1>1, <1>2, <1>4
<1>6. gwei * WeiPerGwei \in Nat /\ GweiCeil(cost) * WeiPerGwei \in Nat
  BY <1>1, <1>2
<1>7. wei + cost <= (gwei + GweiCeil(cost)) * WeiPerGwei
  BY <1>2, <1>3, <1>5, <1>6
<1> QED
  BY <1>3, <1>7 DEF Covered

\* A covered counter is within the limit that was configured in wei.
LEMMA CoveredIsWithin ==
    ASSUME NEW wei \in Nat, NEW gwei \in Nat, NEW limit \in Nat, limit # None,
           Covered(wei, gwei, limit)
    PROVE  wei <= limit
<1>1. WeiPerGwei \in Nat \ {0}
  BY IntakeAssumption
<1>2. GweiFloor(limit) \in Nat /\ GweiFloor(limit) * WeiPerGwei <= limit
  BY Rounding
<1>3. gwei <= GweiFloor(limit) /\ wei <= gwei * WeiPerGwei
  BY DEF Covered
<1>4. ASSUME NEW a \in Nat, NEW b \in Nat, NEW c \in Nat, a <= b
      PROVE  a * c <= b * c
  BY <1>4
<1>5. gwei * WeiPerGwei <= GweiFloor(limit) * WeiPerGwei
  BY <1>1, <1>2, <1>3, <1>4
<1>6. gwei * WeiPerGwei \in Nat /\ GweiFloor(limit) * WeiPerGwei \in Nat
  BY <1>1, <1>2
<1> QED
  BY <1>2, <1>3, <1>5, <1>6


-----------------------------------------------------------------------------
(* The requests                                                            *)

\* The three parts of TypeOK.
AllRequests ==
    [phase : Phases, tx : Txs \cup {None}, funding : Fundings,
     seen : Txs \cup {None} \cup [Counters -> Windows]]

RequestType == request \in [Requests -> AllRequests]

QueueType ==
    /\ data \in [Slots -> [tx : Txs, funding : Fundings] \cup {None}]
    /\ dedupe \subseteq Slots /\ delayed \subseteq Slots
    /\ tokenless \subseteq active /\ active \subseteq Slots
    /\ finished \subseteq Slots /\ result \subseteq Slots
    /\ pending \in [Slots -> Nat] /\ runs \in [Slots -> Nat]
    /\ history \in [Slots -> [Lists -> 0..MaxHistory]]

PolicyType ==
    /\ quota \in [Senders -> [Windows -> Nat]] /\ budget \in [Windows -> Nat]
    /\ charged \in [Senders -> [Windows -> Nat]] /\ chargedAll \in [Windows -> Nat]

LEMMA TypeParts == TypeOK <=> RequestType /\ QueueType /\ PolicyType
  BY DEF TypeOK, RequestType, AllRequests, QueueType, PolicyType

\* A request is well formed, and RequestOK is about its four fields.
LEMMA RequestRecord ==
    ASSUME NEW phase \in Phases, NEW tx \in Txs \cup {None}, NEW funding \in Fundings,
           NEW seen \in Txs \cup {None} \cup [Counters -> Windows]
    PROVE  /\ Request(phase, tx, funding, seen) \in AllRequests
           /\ Request(phase, tx, funding, seen).phase = phase
           /\ Request(phase, tx, funding, seen).tx = tx
           /\ Request(phase, tx, funding, seen).funding = funding
           /\ Request(phase, tx, funding, seen).seen = seen
  BY DEF Request, AllRequests

LEMMA IdleRecord == Idle \in AllRequests /\ Idle.phase = "idle" /\ RequestOK(Idle)
  BY DEF Idle, Request, AllRequests, Phases, Fundings, RequestOK

\* A request under way has a declared transaction.
LEMMA UnderWay ==
    ASSUME RequestType, RequestsOK, NEW r \in Requests, request[r].phase # "idle"
    PROVE  /\ request[r] \in AllRequests
           /\ request[r] # Idle
           /\ request[r].tx \in Txs
           /\ request[r].tx.declared = request[r].tx.payer
           /\ request[r].tx.slot \in Slots /\ request[r].tx.cost \in Nat
           /\ request[r].phase = "policy" => request[r].tx.payer = "sponsor"
           /\ request[r].phase = "simulate" =>
                 request[r].funding = IF request[r].tx.payer = "sponsor" THEN "signed" ELSE "none"
           /\ request[r].phase = "reserve" =>
                 request[r].tx.payer = "sponsor" /\ request[r].seen \in [Counters -> Windows]
           /\ request[r].phase \notin {"policy", "simulate", "reserve"} =>
                 request[r].funding = Agreed(request[r].tx)
<1>1. RequestOK(request[r]) /\ request[r] \in AllRequests
  BY DEF RequestsOK, RequestType
<1>2. request[r] # Idle
  BY IdleRecord
<1> QED
  BY <1>1, <1>2, IntakeAssumption DEF RequestOK

\* One request moves on.
LEMMA OneRequest ==
    ASSUME RequestType, RequestsOK, NEW r \in Requests, NEW y \in AllRequests, RequestOK(y),
           request' = [request EXCEPT ![r] = y]
    PROVE  RequestType' /\ RequestsOK'
<1>1. \A q \in Requests : request'[q] = IF q = r THEN y ELSE request[q]
  BY DEF RequestType
<1>2. request' \in [Requests -> AllRequests]
  BY DEF RequestType
<1>3. \A q \in Requests : RequestOK(request'[q])
  BY <1>1 DEF RequestsOK
<1> QED
  BY <1>2, <1>3, Zenon DEF RequestType, RequestsOK, AllRequests, RequestOK, Idle, Request,
     Phases, Fundings, Counters, Windows, Agreed

\* It is answered, or gets to a phase for which it is funded as agreed.
LEMMA AnswerKeeps ==
    ASSUME RequestType, RequestsOK, NEW r \in Requests, Answer(r)
    PROVE  RequestType' /\ RequestsOK'
  BY OneRequest, IdleRecord, Zenon DEF Answer

LEMMA GotoKeeps ==
    ASSUME RequestType, RequestsOK, NEW r \in Requests,
           NEW phase \in Phases \ {"idle", "policy", "simulate", "reserve"}, Goto(r, phase),
           request[r].phase \notin {"idle", "policy", "simulate", "reserve"}
    PROVE  RequestType' /\ RequestsOK'
<1> DEFINE x == request[r]
           y == Request(phase, x.tx, x.funding, x.seen)
<1>1. /\ x \in AllRequests /\ x.tx \in Txs /\ x.tx.declared = x.tx.payer
      /\ x.funding = Agreed(x.tx)
  BY UnderWay
<1>2. x.funding \in Fundings /\ x.seen \in Txs \cup {None} \cup [Counters -> Windows]
  BY <1>1 DEF AllRequests
<1>3. /\ y \in AllRequests /\ y.phase = phase /\ y.tx = x.tx
      /\ y.funding = x.funding /\ y.seen = x.seen
  BY <1>1, <1>2, RequestRecord
<1>4. request' = [request EXCEPT ![r] = y]
  BY DEF Goto
<1> HIDE DEF x, y
<1>5. RequestOK(y)
  BY <1>1, <1>3 DEF RequestOK
<1> QED
  BY <1>3, <1>4, <1>5, OneRequest, Zenon


\* compile_and_validate: declared, then signed, then reserved, each for sponsored
\* transactions only.
LEMMA CompileKeeps ==
    ASSUME RequestType, RequestsOK, NEW r \in Requests,
           \/ \E tx \in Txs : Receive(r, tx)
           \/ InjectSponsorSignature(r)
           \/ \E verdict \in {"passed", "skipped"} : Simulate(r, verdict)
           \/ \E replied \in BOOLEAN : Reserve(r, replied)
    PROVE  RequestType' /\ RequestsOK'
<1> DEFINE x == request[r]
<1>1. ASSUME NEW tx \in Txs, Receive(r, tx)
      PROVE  RequestType' /\ RequestsOK'
  <2> DEFINE y == Request(IF tx.payer = "sponsor" THEN "policy" ELSE "simulate", tx, "none", None)
  <2>1. /\ y \in AllRequests /\ y.tx = tx /\ y.funding = "none"
        /\ y.phase = IF tx.payer = "sponsor" THEN "policy" ELSE "simulate"
    BY DEF Request, AllRequests, Phases, Fundings
  <2>2. request' = [request EXCEPT ![r] = y] /\ tx.declared = tx.payer
    BY <1>1 DEF Receive, DeclaredRight
  <2> HIDE DEF y
  <2>3. RequestOK(y)
    BY <2>1, <2>2 DEF RequestOK
  <2> QED
    BY <2>1, <2>2, <2>3, OneRequest, Zenon
<1>2. ASSUME InjectSponsorSignature(r)
      PROVE  RequestType' /\ RequestsOK'
  <2> DEFINE y == Request("simulate", x.tx, "signed", None)
  <2>1. x.tx \in Txs /\ x.tx.declared = x.tx.payer /\ x.tx.payer = "sponsor"
    BY <1>2, UnderWay DEF InjectSponsorSignature
  <2>2. y \in AllRequests /\ y.tx = x.tx /\ y.funding = "signed" /\ y.phase = "simulate"
    BY <2>1 DEF Request, AllRequests, Phases, Fundings
  <2>3. request' = [request EXCEPT ![r] = y]
    BY <1>2 DEF InjectSponsorSignature
  <2> HIDE DEF x, y
  <2>4. RequestOK(y)
    BY <2>1, <2>2 DEF RequestOK
  <2> QED
    BY <2>2, <2>3, <2>4, OneRequest, Zenon
<1>3. ASSUME NEW verdict \in {"passed", "skipped"}, Simulate(r, verdict)
      PROVE  RequestType' /\ RequestsOK'
  <2> DEFINE phase == AfterSimulation(r, verdict)
             y == Request(phase, x.tx, x.funding, IF phase = "reserve" THEN Clock ELSE None)
  <2>1. /\ x.tx \in Txs /\ x.tx.declared = x.tx.payer
        /\ x.funding = IF x.tx.payer = "sponsor" THEN "signed" ELSE "none"
    BY <1>3, UnderWay DEF Simulate
  <2>2. phase = IF x.tx.payer = "sponsor" THEN "reserve" ELSE "push"
    BY DEF AfterSimulation
  <2>3. request' = [request EXCEPT ![r] = y]
    BY <1>3 DEF Simulate
  <2>4. Clock \in [Counters -> Windows]
    BY DEF Clock, Windows
  <2>5. /\ y \in AllRequests /\ y.tx = x.tx /\ y.funding = x.funding /\ y.phase = phase
        /\ y.seen = IF phase = "reserve" THEN Clock ELSE None
    BY <2>1, <2>2, <2>4 DEF Request, AllRequests, Phases, Fundings
  <2> HIDE DEF x, y, phase
  <2>6. RequestOK(y)
    BY <2>1, <2>2, <2>4, <2>5 DEF RequestOK, Agreed
  <2> QED
    BY <2>3, <2>5, <2>6, OneRequest, Zenon
<1>4. ASSUME NEW replied \in BOOLEAN, Reserve(r, replied)
      PROVE  RequestType' /\ RequestsOK'
  <2> DEFINE y == Request("push", x.tx, "reserved", None)
  <2>1. x.tx \in Txs /\ x.tx.declared = x.tx.payer /\ x.tx.payer = "sponsor"
    BY <1>4, UnderWay, Zenon DEF Reserve
  <2>2. y \in AllRequests /\ y.tx = x.tx /\ y.funding = "reserved" /\ y.phase = "push"
    BY <2>1 DEF Request, AllRequests, Phases, Fundings
  <2>3. request' = [request EXCEPT ![r] = y] \/ Answer(r)
    BY <1>4, Zenon DEF Reserve
  <2> HIDE DEF x, y
  <2>4. RequestOK(y)
    BY <2>1, <2>2 DEF RequestOK, Agreed
  <2> QED
    BY <2>2, <2>3, <2>4, OneRequest, AnswerKeeps
<1> QED
  BY <1>1, <1>2, <1>3, <1>4

\* handle_transaction, handle_resubmission and retry_failed_slot: the request
\* keeps its transaction and its funding.
LEMMA SubmitKeeps ==
    ASSUME RequestType, RequestsOK, QueueType, NEW r \in Requests,
           \/ PushCreated(r) \/ PushDuplicate(r) \/ LookUp(r) \/ ReadMeta(r)
           \/ ReadState(r) \/ FreeSlot(r) \/ Replace(r) \/ Abandon(r)
    PROVE  RequestType' /\ RequestsOK'
<1> DEFINE x == request[r]
<1>1. CASE PushCreated(r) \/ Replace(r) \/ Abandon(r)
  BY <1>1, AnswerKeeps, Zenon DEF PushCreated, Replace, Abandon
<1>2. CASE PushDuplicate(r)
  BY <1>2, AnswerKeeps, GotoKeeps, Zenon DEF PushDuplicate, Phases
<1>3. CASE ReadMeta(r)
  BY <1>3, AnswerKeeps, GotoKeeps, Zenon DEF ReadMeta, Phases
<1>4. CASE ReadState(r)
  BY <1>4, AnswerKeeps, GotoKeeps, Zenon DEF ReadState, Phases
<1>5. CASE FreeSlot(r)
  BY <1>5, GotoKeeps, Zenon DEF FreeSlot, Phases
<1>6. CASE LookUp(r)
  <2> DEFINE stored == data[x.tx.slot]
             y == Request("read meta", x.tx, x.funding, stored.tx)
  <2>1. /\ x \in AllRequests /\ x.tx \in Txs /\ x.tx.declared = x.tx.payer
        /\ x.funding = Agreed(x.tx) /\ x.tx.slot \in Slots
    BY <1>6, UnderWay, Zenon DEF LookUp
  <2>2. CASE stored = None
    BY <1>6, <2>2, AnswerKeeps, Zenon DEF LookUp, Answer
  <2>3. CASE stored # None
    <3>1. stored.tx \in Txs /\ x.funding \in Fundings
      BY <2>1, <2>3 DEF QueueType, AllRequests
    <3>2. /\ y \in AllRequests /\ y.tx = x.tx /\ y.funding = x.funding
          /\ y.phase = "read meta"
      BY <2>1, <3>1, Zenon DEF Request, AllRequests, Phases
    <3>3. request' = [request EXCEPT ![r] = y]
      BY <1>6, <2>3, Zenon DEF LookUp
    <3> HIDE DEF x, y
    <3>4. RequestOK(y)
      BY <2>1, <3>2, Zenon DEF RequestOK
    <3> QED
      BY <3>2, <3>3, <3>4, OneRequest, Zenon
  <2> QED
    BY <2>2, <2>3
<1> QED
  BY <1>1, <1>2, <1>3, <1>4, <1>5, <1>6

\* The end of a window only makes requests late.
LEMMA LateKeeps ==
    ASSUME RequestType, RequestsOK, NEW late, NEW counter \in Counters, Late(late, counter),
           \A r \in late : r \in Requests /\ request[r].phase = "reserve"
    PROVE  RequestType' /\ RequestsOK'
<1>1. ASSUME NEW r \in Requests
      PROVE  request'[r] \in AllRequests /\ RequestOK(request'[r])
  <2>1. CASE r \notin late
    BY <2>1 DEF Late, RequestType, RequestsOK
  <2>2. CASE r \in late
    <3> DEFINE x == request[r]
               seen == [x.seen EXCEPT ![counter] = "past"]
               y == [x EXCEPT !.seen = seen]
    <3>1. /\ x \in AllRequests /\ x.tx \in Txs /\ x.tx.declared = x.tx.payer
          /\ x.tx.payer = "sponsor" /\ x.seen \in [Counters -> Windows]
          /\ x.phase = "reserve"
      BY <2>2, UnderWay
    <3>2. request'[r] = y
      BY <2>2 DEF Late
    <3>3. seen \in [Counters -> Windows]
      BY <3>1 DEF Windows
    <3> HIDE DEF seen
    <3>4. /\ y \in AllRequests /\ y.tx = x.tx /\ y.phase = "reserve" /\ y.seen = seen
      BY <3>1, <3>3 DEF AllRequests
    <3> HIDE DEF x, y
    <3>5. RequestOK(y)
      BY <3>1, <3>3, <3>4 DEF RequestOK
    <3> QED
      BY <3>2, <3>4, <3>5
  <2> QED
    BY <2>1, <2>2
<1>2. request' \in [Requests -> AllRequests]
  BY <1>1 DEF Late
<1> QED
  BY <1>1, <1>2, Zenon DEF RequestType, RequestsOK, AllRequests, RequestOK, Idle, Request,
     Phases, Fundings, Counters, Windows, Agreed


-----------------------------------------------------------------------------
(* The queue                                                               *)

\* What is stored of a job, and that a slot which refuses a push has one.
QueueInv == QueueType /\ QueuedAsAgreed /\ Held

LEMMA QueueKept ==
    ASSUME QueueInv, UNCHANGED queue
    PROVE  QueueInv'
<1>1. UNCHANGED <<dedupe, data, pending, delayed, active, tokenless, runs, history,
                  finished, result>>
  BY DEF queue, places
<1> QED
  BY <1>1 DEF QueueInv, QueueType, QueuedAsAgreed, Held, Fundings, Lists

\* What is stored is a compiled transaction, as agreed.
LEMMA StoredAsAgreed ==
    ASSUME QueueType, QueuedAsAgreed, NEW s \in Slots, NEW tx \in Txs, tx.declared = tx.payer,
           data' = [data EXCEPT ![s] = Compiled(tx, Agreed(tx))]
    PROVE  /\ data' \in [Slots -> [tx : Txs, funding : Fundings] \cup {None}]
           /\ QueuedAsAgreed'
           /\ data'[s] # None
           /\ \A q \in Slots : q # s => data'[q] = data[q]
<1>1. /\ Compiled(tx, Agreed(tx)) \in [tx : Txs, funding : Fundings]
      /\ Compiled(tx, Agreed(tx)).tx = tx
      /\ Compiled(tx, Agreed(tx)).funding = Agreed(tx)
  BY DEF Compiled, Agreed, Fundings
<1>2. data'[s] = Compiled(tx, Agreed(tx)) /\ \A q \in Slots : q # s => data'[q] = data[q]
  BY DEF QueueType
<1>3. data' \in [Slots -> [tx : Txs, funding : Fundings] \cup {None}]
  BY <1>1 DEF QueueType
<1>4. data'[s] # None
  BY <1>1, <1>2, IntakeAssumption
<1>5. QueuedAsAgreed'
  BY <1>1, <1>2 DEF QueuedAsAgreed, Agreed
<1> QED
  BY <1>2, <1>3, <1>4, <1>5

LEMMA PushQueue ==
    ASSUME RequestType, RequestsOK, QueueInv, NEW r \in Requests, PushCreated(r)
    PROVE  QueueInv'
<1> DEFINE x == request[r]
           s == x.tx.slot
<1>1. x.tx \in Txs /\ x.tx.declared = x.tx.payer /\ x.funding = Agreed(x.tx) /\ s \in Slots
  BY UnderWay, Zenon DEF PushCreated
<1>2. /\ dedupe' = dedupe \cup {s}
      /\ data' = [data EXCEPT ![s] = Compiled(x.tx, Agreed(x.tx))]
      /\ pending' = [pending EXCEPT ![s] = @ + 1]
      /\ finished' = finished \ {s}
      /\ result' = result \ {s}
      /\ tokenless' = tokenless \cup ({s} \cap active)
      /\ UNCHANGED <<delayed, active, runs, history>>
  BY <1>1, Zenon DEF PushCreated, PushScript
<1> HIDE DEF x, s
<1>3. QueueType /\ QueuedAsAgreed /\ Held
  BY DEF QueueInv
<1>4. /\ data' \in [Slots -> [tx : Txs, funding : Fundings] \cup {None}]
      /\ QueuedAsAgreed' /\ data'[s] # None
      /\ \A q \in Slots : q # s => data'[q] = data[q]
  BY <1>1, <1>2, <1>3, StoredAsAgreed, Zenon
<1>5. QueueType'
  BY <1>1, <1>2, <1>3, <1>4 DEF QueueType, Fundings, Lists
<1>6. Held'
  BY <1>1, <1>2, <1>3, <1>4 DEF QueueType, Held
<1> QED
  BY <1>4, <1>5, <1>6 DEF QueueInv

LEMMA FreeQueue ==
    ASSUME RequestType, RequestsOK, QueueInv, NEW r \in Requests, FreeSlot(r)
    PROVE  QueueInv'
<1>1. /\ dedupe' \subseteq dedupe
      /\ UNCHANGED <<data, pending, delayed, active, tokenless, runs, history, finished,
                     result>>
  BY Zenon DEF FreeSlot, places
<1> QED
  BY <1>1 DEF QueueInv, QueueType, QueuedAsAgreed, Held, Fundings, Lists

LEMMA ReplaceQueue ==
    ASSUME RequestType, RequestsOK, QueueInv, NEW r \in Requests, Replace(r)
    PROVE  QueueInv'
<1> DEFINE x == request[r]
           s == x.tx.slot
<1>1. x.tx \in Txs /\ x.tx.declared = x.tx.payer /\ x.funding = Agreed(x.tx) /\ s \in Slots
  BY UnderWay DEF Replace
<1>2. UNCHANGED <<dedupe, pending, delayed, active, tokenless, runs, history, finished,
                  result>>
  BY DEF Replace, places
<1>3. CASE data' = data
  BY <1>2, <1>3, QueueKept DEF queue, places
<1>4. CASE data' = [data EXCEPT ![s] = Compiled(x.tx, Agreed(x.tx))]
  <2>1. QueueType /\ QueuedAsAgreed /\ Held
    BY DEF QueueInv
  <2>2. /\ data' \in [Slots -> [tx : Txs, funding : Fundings] \cup {None}]
        /\ QueuedAsAgreed' /\ data'[s] # None
        /\ \A q \in Slots : q # s => data'[q] = data[q]
    BY <1>1, <1>4, <2>1, StoredAsAgreed, Zenon
  <2> HIDE DEF x, s
  <2>3. QueueType' /\ Held'
    BY <1>2, <2>1, <2>2 DEF QueueType, Held, Fundings, Lists
  <2> QED
    BY <2>2, <2>3 DEF QueueInv
<1> QED
  BY <1>1, <1>3, <1>4 DEF Replace


\* The workers move an id between the places that Held names, and pruning
\* frees the slot together with its data.
LEMMA WorkerQueue ==
    ASSUME QueueInv, NEW s \in Slots,
           \/ Pop(s) \/ Reschedule(s) \/ BecomeDue(s) \/ LoseLease(s) \/ TakeBack(s)
           \/ \E list \in Lists : Finish(s, list) \/ Prune(s, list) \/ PruneKept(s, list)
    PROVE  QueueInv'
<1>1. QueueType /\ QueuedAsAgreed /\ Held
  BY DEF QueueInv
<1>2. /\ pending[s] \in Nat /\ runs[s] \in Nat
      /\ \A list \in Lists : history[s][list] \in 0..MaxHistory
      /\ MaxHistory \in Nat
  BY <1>1, IntakeAssumption DEF QueueType
<1>3. ASSUME NEW f \in [Slots -> Nat], NEW g, NEW v \in Nat, g = [f EXCEPT ![s] = v]
      PROVE  /\ g \in [Slots -> Nat]
             /\ g[s] = v
             /\ \A q \in Slots : q # s => g[q] = f[q]
  BY <1>3
<1>4. ASSUME UNCHANGED data PROVE QueuedAsAgreed'
  BY <1>1, <1>4 DEF QueuedAsAgreed
<1>5. CASE Pop(s)
  <2>1. pending[s] - 1 \in Nat /\ runs[s] + 1 \in Nat /\ runs[s] + 1 > 0
    BY <1>2, <1>5 DEF Pop
  <2>2. /\ pending' \in [Slots -> Nat]
        /\ \A q \in Slots : q # s => pending'[q] = pending[q] /\ runs'[q] = runs[q]
        /\ runs' \in [Slots -> Nat]
        /\ runs'[s] = IF data[s] = None THEN runs[s] ELSE runs[s] + 1
    BY <1>1, <1>2, <1>5, <2>1 DEF Pop, QueueType
  <2>3. QueueType'
    BY <1>1, <1>5, <2>2 DEF Pop, QueueType, Fundings, Lists
  <2>4. Held'
    BY <1>1, <1>5, <2>1, <2>2 DEF Pop, Held, QueueType
  <2> QED
    BY <1>4, <1>5, <2>3, <2>4 DEF Pop, QueueInv
<1>6. CASE Reschedule(s)
  <2>1. runs[s] - 1 \in Nat
    BY <1>2, <1>6 DEF Reschedule
  <2>2. runs' \in [Slots -> Nat] /\ \A q \in Slots : q # s => runs'[q] = runs[q]
    BY <1>1, <1>6, <2>1 DEF Reschedule, QueueType
  <2>3. QueueType'
    BY <1>1, <1>6, <2>2 DEF Reschedule, QueueType, Fundings, Lists
  <2>4. Held'
    BY <1>1, <1>6, <2>2 DEF Reschedule, Held, QueueType
  <2> QED
    BY <1>4, <1>6, <2>3, <2>4 DEF Reschedule, QueueInv
<1>7. CASE BecomeDue(s)
  <2>1. pending[s] + 1 \in Nat /\ pending[s] + 1 > 0
    BY <1>2
  <2>2. /\ pending' \in [Slots -> Nat] /\ pending'[s] > 0
        /\ \A q \in Slots : q # s => pending'[q] = pending[q]
    BY <1>1, <1>7, <2>1 DEF BecomeDue, QueueType
  <2>3. QueueType'
    BY <1>1, <1>7, <2>2 DEF BecomeDue, QueueType, Fundings, Lists
  <2>4. Held'
    BY <1>1, <1>7, <2>2 DEF BecomeDue, Held, QueueType
  <2> QED
    BY <1>4, <1>7, <2>3, <2>4 DEF BecomeDue, QueueInv
<1>8. CASE LoseLease(s)
  <2>1. /\ runs[s] - 1 \in Nat /\ (runs[s] > 1 => runs[s] - 1 > 0)
        /\ pending[s] + 1 \in Nat /\ pending[s] + 1 > 0
    BY <1>2, <1>8 DEF LoseLease
  <2>2. /\ runs' \in [Slots -> Nat] /\ runs'[s] = runs[s] - 1
        /\ \A q \in Slots : q # s => runs'[q] = runs[q]
        /\ UNCHANGED <<dedupe, data, delayed, history, finished, result>>
    BY <1>1, <1>8, <2>1 DEF LoseLease, QueueType
  <2>3. \/ /\ s \in active /\ active' = active \ {s} /\ tokenless' = tokenless \ {s}
           /\ pending' \in [Slots -> Nat] /\ pending'[s] > 0
           /\ \A q \in Slots : q # s => pending'[q] = pending[q]
        \/ /\ s \notin active \/ runs[s] > 1
           /\ UNCHANGED <<active, tokenless, pending>>
    BY <1>1, <1>8, <2>1 DEF LoseLease, QueueType
  <2>4. QueueType'
    BY <1>1, <2>2, <2>3 DEF QueueType, Fundings, Lists
  <2>5. Held'
    BY <1>1, <2>1, <2>2, <2>3 DEF Held, QueueType
  <2> QED
    BY <1>4, <2>2, <2>4, <2>5 DEF QueueInv
<1>9. ASSUME NEW list \in Lists, NEW n \in 0..MaxHistory,
             history' = [history EXCEPT ![s][list] = n]
      PROVE  history' \in [Slots -> [Lists -> 0..MaxHistory]]
  <2>1. [history[s] EXCEPT ![list] = n] \in [Lists -> 0..MaxHistory]
    BY <1>1 DEF QueueType
  <2>2. history' = [history EXCEPT ![s] = [history[s] EXCEPT ![list] = n]]
    BY <1>9
  <2> QED
    BY <1>1, <2>1, <2>2 DEF QueueType
<1>10. ASSUME NEW list \in Lists, Finish(s, list)
       PROVE  QueueInv'
  <2>1. runs[s] - 1 \in Nat /\ history[s][list] + 1 \in 0..MaxHistory
    BY <1>2, <1>10 DEF Finish
  <2>2. runs' \in [Slots -> Nat] /\ \A q \in Slots : q # s => runs'[q] = runs[q]
    BY <1>1, <1>10, <2>1 DEF Finish, QueueType
  <2>3. history' \in [Slots -> [Lists -> 0..MaxHistory]]
    BY <1>9, <1>10, <2>1, Zenon DEF Finish
  <2>4. QueueType'
    BY <1>1, <1>10, <2>2, <2>3 DEF Finish, QueueType, Fundings, Lists
  <2>5. Held'
    BY <1>1, <1>10, <2>2 DEF Finish, Held, QueueType
  <2> QED
    BY <1>4, <1>10, <2>4, <2>5 DEF Finish, QueueInv
<1>11. ASSUME NEW list \in Lists, Prune(s, list)
       PROVE  QueueInv'
  <2>1. history[s][list] - 1 \in 0..MaxHistory
    BY <1>2, <1>11 DEF Prune
  <2>2. history' \in [Slots -> [Lists -> 0..MaxHistory]]
    BY <1>9, <1>11, <2>1, Zenon DEF Prune
  <2>3. /\ data' \in [Slots -> [tx : Txs, funding : Fundings] \cup {None}]
        /\ data'[s] = None /\ \A q \in Slots : q # s => data'[q] = data[q]
    BY <1>1, <1>11 DEF Prune, QueueType
  <2>4. QueueType'
    BY <1>1, <1>11, <2>2, <2>3 DEF Prune, QueueType, Fundings, Lists
  <2>5. QueuedAsAgreed'
    BY <1>1, <2>3 DEF QueuedAsAgreed
  <2>6. Held'
    BY <1>1, <1>11, <2>3 DEF Prune, Held, QueueType
  <2> QED
    BY <2>4, <2>5, <2>6 DEF QueueInv
<1>12. ASSUME NEW list \in Lists, PruneKept(s, list)
       PROVE  QueueInv'
  <2>1. history[s][list] - 1 \in 0..MaxHistory
    BY <1>2, <1>12 DEF PruneKept
  <2>2. history' \in [Slots -> [Lists -> 0..MaxHistory]]
    BY <1>9, <1>12, <2>1, Zenon DEF PruneKept
  <2>3. QueueType'
    BY <1>1, <1>12, <2>2 DEF PruneKept, QueueType, Fundings, Lists
  <2>4. Held'
    BY <1>1, <1>12 DEF PruneKept, Held
  <2> QED
    BY <1>4, <1>12, <2>3, <2>4 DEF PruneKept, QueueInv
<1>13. CASE TakeBack(s)
  <2>1. pending[s] + 1 \in Nat /\ pending[s] + 1 > 0
    BY <1>2
  <2>2. /\ pending' \in [Slots -> Nat] /\ pending'[s] > 0
        /\ \A q \in Slots : q # s => pending'[q] = pending[q]
    BY <1>1, <1>13, <2>1 DEF TakeBack, QueueType
  <2>3. QueueType'
    BY <1>1, <1>13, <2>2 DEF TakeBack, QueueType, Fundings, Lists
  <2>4. Held'
    BY <1>1, <1>13, <2>2 DEF TakeBack, Held, QueueType
  <2> QED
    BY <1>4, <1>13, <2>3, <2>4 DEF TakeBack, QueueInv
<1> QED
  BY <1>5, <1>6, <1>7, <1>8, <1>10, <1>11, <1>12, <1>13


-----------------------------------------------------------------------------
(* The sponsor's money                                                     *)

\* One counter, in gwei, and the wei that was charged on it, per window.
Tracked(wei, gwei, limit) ==
    /\ wei \in [Windows -> Nat] /\ gwei \in [Windows -> Nat]
    /\ \A w \in Windows : Covered(wei[w], gwei[w], limit)

PolicyInv == PolicyType /\ Spent

LEMMA PolicyParts ==
    PolicyType => (Spent <=> /\ \A a \in Senders : Tracked(charged[a], quota[a], QuotaWei)
                             /\ Tracked(chargedAll, budget, BudgetWei))
  BY DEF PolicyType, Spent, Tracked

\* RESERVE_SCRIPT on one counter, which it leaves alone without a limit.
LEMMA ReserveTracked ==
    ASSUME NEW wei, NEW gwei, NEW limit, Tracked(wei, gwei, limit),
           NEW w \in Windows, NEW cost \in Nat, Fits(gwei[w], GweiCeil(cost), limit)
    PROVE  Tracked(IF limit = None THEN wei ELSE [wei EXCEPT ![w] = @ + cost],
                   IF limit = None THEN gwei ELSE [gwei EXCEPT ![w] = @ + GweiCeil(cost)],
                   limit)
<1> DEFINE wei1 == IF limit = None THEN wei ELSE [wei EXCEPT ![w] = @ + cost]
           gwei1 == IF limit = None THEN gwei ELSE [gwei EXCEPT ![w] = @ + GweiCeil(cost)]
<1>1. GweiCeil(cost) \in Nat
  BY Rounding
<1>2. /\ wei1 \in [Windows -> Nat] /\ gwei1 \in [Windows -> Nat]
      /\ limit # None => /\ wei1[w] = wei[w] + cost
                         /\ gwei1[w] = gwei[w] + GweiCeil(cost)
      /\ \A v \in Windows : v # w => wei1[v] = wei[v] /\ gwei1[v] = gwei[v]
  BY <1>1 DEF Tracked
<1> HIDE DEF wei1, gwei1
<1>3. ASSUME NEW v \in Windows
      PROVE  Covered(wei1[v], gwei1[v], limit)
  <2>1. CASE limit = None
    BY <2>1 DEF Covered
  <2>2. CASE limit # None /\ v = w
    <3>1. wei[w] \in Nat /\ gwei[w] \in Nat /\ Covered(wei[w], gwei[w], limit)
      BY DEF Tracked
    <3> QED
      BY <1>2, <2>2, <3>1, ReserveCovered
  <2>3. CASE v # w
    BY <1>2, <2>3 DEF Tracked
  <2> QED
    BY <2>1, <2>2, <2>3
<1>4. Tracked(wei1, gwei1, limit)
  BY <1>2, <1>3 DEF Tracked
<1> QED
  BY <1>4 DEF wei1, gwei1

\* The end of a window starts a counter at zero, and what is late finds the one
\* of the window that is over, or none.
LEMMA RollTracked ==
    ASSUME NEW wei, NEW gwei, NEW limit, Tracked(wei, gwei, limit),
           limit = None \/ limit \in Nat, NEW late, NEW gone
    PROVE  Tracked(Rolled(wei, late, gone), Rolled(gwei, late, gone), limit)
<1>1. ASSUME NEW v \in Windows
      PROVE  \/ Rolled(wei, late, gone)[v] = 0 /\ Rolled(gwei, late, gone)[v] = 0
             \/ /\ Rolled(wei, late, gone)[v] = wei["now"]
                /\ Rolled(gwei, late, gone)[v] = gwei["now"]
  BY DEF Rolled
<1>2. "now" \in Windows
  BY DEF Windows
<1>3. Covered(0, 0, limit)
  <2>1. CASE limit = None
    BY <2>1 DEF Covered
  <2>2. CASE limit # None
    <3>1. GweiFloor(limit) \in Nat
      BY <2>2, Rounding
    <3> QED
      BY <3>1, IntakeAssumption DEF Covered
  <2> QED
    BY <2>1, <2>2
<1>4. /\ Rolled(wei, late, gone) \in [Windows -> Nat]
      /\ Rolled(gwei, late, gone) \in [Windows -> Nat]
  BY <1>2 DEF Rolled, Tracked
<1>5. ASSUME NEW v \in Windows
      PROVE  Covered(Rolled(wei, late, gone)[v], Rolled(gwei, late, gone)[v], limit)
  BY <1>1, <1>2, <1>3 DEF Tracked
<1> QED
  BY <1>4, <1>5 DEF Tracked

\* One counter of a sender, or that of all, moves.
LEMMA PolicyMoves ==
    ASSUME PolicyInv,
           \/ UNCHANGED <<quota, charged>>
           \/ \E a \in Senders : \E gwei, wei :
                /\ quota' = [quota EXCEPT ![a] = gwei]
                /\ charged' = [charged EXCEPT ![a] = wei]
                /\ Tracked(wei, gwei, QuotaWei),
           \/ UNCHANGED <<budget, chargedAll>>
           \/ Tracked(chargedAll', budget', BudgetWei)
    PROVE  PolicyInv'
<1>1. PolicyType /\ \A a \in Senders : Tracked(charged[a], quota[a], QuotaWei)
  BY PolicyParts DEF PolicyInv
<1>2. Tracked(chargedAll', budget', BudgetWei)
  <2>1. Tracked(chargedAll, budget, BudgetWei)
    BY PolicyParts DEF PolicyInv
  <2> QED
    BY <2>1
<1>3. /\ quota' \in [Senders -> [Windows -> Nat]]
      /\ charged' \in [Senders -> [Windows -> Nat]]
      /\ \A b \in Senders : Tracked(charged'[b], quota'[b], QuotaWei)
  <2>1. CASE UNCHANGED <<quota, charged>>
    BY <1>1, <2>1 DEF PolicyType
  <2>2. ASSUME NEW a \in Senders, NEW gwei, NEW wei,
               quota' = [quota EXCEPT ![a] = gwei],
               charged' = [charged EXCEPT ![a] = wei],
               Tracked(wei, gwei, QuotaWei)
        PROVE  /\ quota' \in [Senders -> [Windows -> Nat]]
               /\ charged' \in [Senders -> [Windows -> Nat]]
               /\ \A b \in Senders : Tracked(charged'[b], quota'[b], QuotaWei)
    <3>1. wei \in [Windows -> Nat] /\ gwei \in [Windows -> Nat]
      BY <2>2 DEF Tracked
    <3>2. \A b \in Senders : /\ quota'[b] = IF b = a THEN gwei ELSE quota[b]
                             /\ charged'[b] = IF b = a THEN wei ELSE charged[b]
      BY <1>1, <2>2 DEF PolicyType
    <3> QED
      BY <1>1, <2>2, <3>1, <3>2 DEF PolicyType
  <2> QED
    BY <2>1, <2>2
<1>4. PolicyType'
  BY <1>2, <1>3 DEF PolicyType, Tracked, Senders, Windows
<1>5. Spent'
  BY <1>2, <1>3 DEF Spent, Tracked, Covered, Senders, Windows
<1> QED
  BY <1>4, <1>5 DEF PolicyInv


LEMMA ReservePolicy ==
    ASSUME RequestType, RequestsOK, PolicyInv, NEW r \in Requests,
           NEW replied \in BOOLEAN, Reserve(r, replied)
    PROVE  PolicyInv'
<1> DEFINE x == request[r]
           a == SenderOf[x.tx.slot]
           q == x.seen["quota"]
           b == x.seen["budget"]
           cost == x.tx.cost
           wei == IF QuotaWei = None THEN charged[a]
                  ELSE [charged[a] EXCEPT ![q] = @ + cost]
           gwei == IF QuotaWei = None THEN quota[a]
                   ELSE [quota[a] EXCEPT ![q] = @ + GweiCeil(cost)]
<1>1. x.tx.slot \in Slots /\ cost \in Nat /\ x.seen \in [Counters -> Windows]
  BY UnderWay, Zenon DEF Reserve
<1>2. a \in Senders /\ q \in Windows /\ b \in Windows
  BY <1>1 DEF Senders, Counters
<1>3. /\ Fits(quota[a][q], GweiCeil(cost), QuotaWei)
      /\ Fits(budget[b], GweiCeil(cost), BudgetWei)
      /\ quota' = IF QuotaWei = None THEN quota
                  ELSE [quota EXCEPT ![a][q] = @ + GweiCeil(cost)]
      /\ charged' = IF QuotaWei = None THEN charged
                    ELSE [charged EXCEPT ![a][q] = @ + cost]
      /\ budget' = IF BudgetWei = None THEN budget
                   ELSE [budget EXCEPT ![b] = @ + GweiCeil(cost)]
      /\ chargedAll' = IF BudgetWei = None THEN chargedAll
                       ELSE [chargedAll EXCEPT ![b] = @ + cost]
  BY Zenon DEF Reserve
<1>4. PolicyType
  BY DEF PolicyInv
<1>5. Tracked(charged[a], quota[a], QuotaWei) /\ Tracked(chargedAll, budget, BudgetWei)
  BY <1>2, PolicyParts DEF PolicyInv
<1>6. Tracked(wei, gwei, QuotaWei)
  BY <1>1, <1>2, <1>3, <1>5, ReserveTracked, Zenon
<1>7. Tracked(chargedAll', budget', BudgetWei)
  BY <1>1, <1>2, <1>3, <1>5, ReserveTracked, Zenon
<1>8. quota' = [quota EXCEPT ![a] = gwei] /\ charged' = [charged EXCEPT ![a] = wei]
  BY <1>2, <1>3, <1>4, Zenon DEF PolicyType
<1> HIDE DEF wei, gwei, a
<1> QED
  BY <1>2, <1>6, <1>7, <1>8, PolicyMoves, ZenonT(30)

LEMMA RollPolicy ==
    ASSUME PolicyInv, NEW gone \in BOOLEAN,
           (\E a \in Senders : RollSender(a, gone)) \/ RollBudget(gone)
    PROVE  PolicyInv'
<1>1. ASSUME NEW a \in Senders, RollSender(a, gone)
      PROVE  PolicyInv'
  <2> DEFINE wei == Rolled(charged[a], Reserving(a), gone)
             gwei == Rolled(quota[a], Reserving(a), gone)
  <2>1. Tracked(charged[a], quota[a], QuotaWei)
    BY PolicyParts DEF PolicyInv
  <2>2. Tracked(wei, gwei, QuotaWei)
    BY <2>1, RollTracked, IntakeAssumption
  <2>3. /\ quota' = [quota EXCEPT ![a] = gwei] /\ charged' = [charged EXCEPT ![a] = wei]
        /\ UNCHANGED <<budget, chargedAll>>
    BY <1>1 DEF RollSender
  <2> HIDE DEF wei, gwei
  <2> QED
    BY <2>2, <2>3, PolicyMoves, Zenon
<1>2. ASSUME RollBudget(gone)
      PROVE  PolicyInv'
  <2>1. Tracked(chargedAll, budget, BudgetWei)
    BY PolicyParts DEF PolicyInv
  <2>2. Tracked(chargedAll', budget', BudgetWei)
    BY <1>2, <2>1, RollTracked, IntakeAssumption DEF RollBudget
  <2> QED
    BY <1>2, <2>2, PolicyMoves DEF RollBudget
<1> QED
  BY <1>1, <1>2

\* The end of a window, for the requests that will reserve.
LEMMA RollRequests ==
    ASSUME RequestType, RequestsOK, NEW gone \in BOOLEAN,
           (\E a \in Senders : RollSender(a, gone)) \/ RollBudget(gone)
    PROVE  RequestType' /\ RequestsOK'
<1>1. \A a \in Senders : \A r \in Reserving(a) : r \in Requests /\ request[r].phase = "reserve"
  BY DEF Reserving
<1>2. "quota" \in Counters /\ "budget" \in Counters
  BY DEF Counters
<1>3. ASSUME NEW a \in Senders, RollSender(a, gone)
      PROVE  RequestType' /\ RequestsOK'
  BY <1>1, <1>2, <1>3, LateKeeps DEF RollSender
<1>4. ASSUME RollBudget(gone)
      PROVE  RequestType' /\ RequestsOK'
  <2> DEFINE late == UNION {Reserving(a) : a \in Senders}
  <2>1. \A r \in late : r \in Requests /\ request[r].phase = "reserve"
    BY <1>1
  <2>2. Late(late, "budget")
    BY <1>4 DEF RollBudget
  <2> HIDE DEF late
  <2> QED
    BY <1>2, <2>1, <2>2, LateKeeps
<1> QED
  BY <1>3, <1>4

-----------------------------------------------------------------------------
(* The invariant                                                           *)

LEMMA IInvParts == IInv <=> RequestType /\ RequestsOK /\ QueueInv /\ PolicyInv
  BY TypeParts DEF IInv, QueueInv, PolicyInv

LEMMA RequestsKept ==
    ASSUME RequestType, RequestsOK, UNCHANGED request
    PROVE  RequestType' /\ RequestsOK'
  BY Zenon DEF RequestType, RequestsOK, AllRequests, RequestOK, Idle, Request,
     Phases, Fundings, Counters, Windows, Agreed

LEMMA PolicyKept ==
    ASSUME PolicyInv, UNCHANGED policy
    PROVE  PolicyInv'
  BY PolicyMoves DEF policy

LEMMA IInit == Init => IInv
<1> SUFFICES ASSUME Init PROVE IInv
  OBVIOUS
<1>1. RequestType /\ RequestsOK
  BY IdleRecord DEF Init, RequestType, RequestsOK
<1>2. QueueInv
  BY IntakeAssumption DEF Init, QueueInv, QueueType, QueuedAsAgreed, Held
<1>3. PolicyInv
  <2>1. Unspent \in [Windows -> Nat] /\ \A w \in Windows : Unspent[w] = 0
    BY DEF Unspent
  <2>2. Covered(0, 0, QuotaWei) /\ Covered(0, 0, BudgetWei)
    <3>1. QuotaWei # None => GweiFloor(QuotaWei) \in Nat
      BY Rounding, IntakeAssumption
    <3>2. BudgetWei # None => GweiFloor(BudgetWei) \in Nat
      BY Rounding, IntakeAssumption
    <3> QED
      BY <3>1, <3>2, IntakeAssumption DEF Covered
  <2> QED
    BY <2>1, <2>2 DEF Init, PolicyInv, PolicyType, Spent
<1> QED
  BY <1>1, <1>2, <1>3, IInvParts

LEMMA IStep == IInv /\ [Next]_vars => IInv'
<1> SUFFICES ASSUME IInv, [Next]_vars
             PROVE  RequestType' /\ RequestsOK' /\ QueueInv' /\ PolicyInv'
  BY IInvParts, PTL
<1>1. RequestType /\ RequestsOK /\ QueueInv /\ QueueType /\ PolicyInv
  BY IInvParts DEF QueueInv
<1>2. ASSUME NEW r \in Requests,
             \/ \E tx \in Txs : Receive(r, tx)
             \/ InjectSponsorSignature(r)
             \/ \E verdict \in {"passed", "skipped"} : Simulate(r, verdict)
      PROVE  RequestType' /\ RequestsOK' /\ QueueInv' /\ PolicyInv'
  <2>1. UNCHANGED <<queue, policy>>
    BY <1>2 DEF Receive, InjectSponsorSignature, Simulate
  <2> QED
    BY <1>1, <1>2, <2>1, CompileKeeps, QueueKept, PolicyKept
<1>3. ASSUME NEW r \in Requests, NEW replied \in BOOLEAN, Reserve(r, replied)
      PROVE  RequestType' /\ RequestsOK' /\ QueueInv' /\ PolicyInv'
  <2>1. UNCHANGED queue
    BY <1>3, Zenon DEF Reserve
  <2> QED
    BY <1>1, <1>3, <2>1, CompileKeeps, QueueKept, ReservePolicy
<1>4. ASSUME NEW r \in Requests,
             \/ PushDuplicate(r) \/ LookUp(r) \/ ReadMeta(r) \/ ReadState(r) \/ Abandon(r)
      PROVE  RequestType' /\ RequestsOK' /\ QueueInv' /\ PolicyInv'
  <2>1. UNCHANGED <<queue, policy>>
    BY <1>4, Zenon DEF PushDuplicate, LookUp, ReadMeta, ReadState, Abandon
  <2> QED
    BY <1>1, <1>4, <2>1, SubmitKeeps, QueueKept, PolicyKept
<1>5. ASSUME NEW r \in Requests, PushCreated(r) \/ FreeSlot(r) \/ Replace(r)
      PROVE  RequestType' /\ RequestsOK' /\ QueueInv' /\ PolicyInv'
  <2>1. UNCHANGED policy
    BY <1>5, Zenon DEF PushCreated, FreeSlot, Replace
  <2> QED
    BY <1>1, <1>5, <2>1, SubmitKeeps, PushQueue, FreeQueue, ReplaceQueue, PolicyKept
<1>6. ASSUME NEW s \in Slots,
             \/ Pop(s) \/ Reschedule(s) \/ BecomeDue(s) \/ LoseLease(s) \/ TakeBack(s)
             \/ \E list \in Lists : Finish(s, list) \/ Prune(s, list) \/ PruneKept(s, list)
      PROVE  RequestType' /\ RequestsOK' /\ QueueInv' /\ PolicyInv'
  <2>1. UNCHANGED <<request, policy>>
    BY <1>6 DEF Pop, Finish, Prune, PruneKept, Reschedule, BecomeDue, LoseLease,
       TakeBack
  <2> QED
    BY <1>1, <1>6, <2>1, RequestsKept, WorkerQueue, PolicyKept
<1>7. ASSUME NEW gone \in BOOLEAN,
             (\E a \in Senders : RollSender(a, gone)) \/ RollBudget(gone)
      PROVE  RequestType' /\ RequestsOK' /\ QueueInv' /\ PolicyInv'
  <2>1. UNCHANGED queue
    BY <1>7 DEF RollSender, RollBudget
  <2> QED
    BY <1>1, <1>7, <2>1, RollRequests, QueueKept, RollPolicy
<1>8. CASE UNCHANGED vars
  BY <1>1, <1>8, RequestsKept, QueueKept, PolicyKept DEF vars
<1> QED
  BY <1>2, <1>3, <1>4, <1>5, <1>6, <1>7, <1>8 DEF Next

\* The invariant holds in every reachable state of the intake.
THEOREM IntakeInvariant == Spec => []IInv
  BY IInit, IStep, PTL DEF Spec

\* No id is popped from an empty list, and every counter is a number, whatever
\* requests, workers and the clock do.
THEOREM IntakeTypes == Spec => []TypeOK
<1>1. IInv => TypeOK
  BY DEF IInv
<1> QED
  BY <1>1, IntakeInvariant, PTL

\* try_reserve: what was charged on a counter is within the limit in wei, for
\* any limits and any number of wei to the gwei, although the script compares
\* rounded numbers of gwei and runs with the keys of a window that may be over.
THEOREM SponsorStaysInBudget == Spec => []SpendStaysInBudget
<1>1. IInv => SpendStaysInBudget
  <2> SUFFICES ASSUME IInv, NEW w \in Windows
               PROVE  /\ QuotaWei # None => \A a \in Senders : charged[a][w] <= QuotaWei
                      /\ BudgetWei # None => chargedAll[w] <= BudgetWei
    BY DEF SpendStaysInBudget
  <2>1. PolicyType /\ Spent
    BY IInvParts DEF PolicyInv
  <2>2. ASSUME QuotaWei # None, NEW a \in Senders
        PROVE  charged[a][w] <= QuotaWei
    <3>1. charged[a][w] \in Nat /\ quota[a][w] \in Nat /\ QuotaWei \in Nat
      BY <2>1, <2>2, IntakeAssumption DEF PolicyType
    <3>2. Covered(charged[a][w], quota[a][w], QuotaWei)
      BY <2>1 DEF Spent
    <3> QED
      BY <2>2, <3>1, <3>2, CoveredIsWithin
  <2>3. ASSUME BudgetWei # None
        PROVE  chargedAll[w] <= BudgetWei
    <3>1. chargedAll[w] \in Nat /\ budget[w] \in Nat /\ BudgetWei \in Nat
      BY <2>1, <2>3, IntakeAssumption DEF PolicyType
    <3>2. Covered(chargedAll[w], budget[w], BudgetWei)
      BY <2>1 DEF Spent
    <3> QED
      BY <2>3, <3>1, <3>2, CoveredIsWithin
  <2> QED
    BY <2>2, <2>3
<1> QED
  BY <1>1, IntakeInvariant, PTL

\* Whatever way a transaction got into the queue (push, retry of a failed slot,
\* replacement), its payer is the declared one, and the sponsor's signature is
\* on it exactly if its cost was reserved.
THEOREM QueuedTransactionsAreAgreed == Spec => []QueuedAsAgreed
<1>1. IInv => QueuedAsAgreed
  BY DEF IInv
<1> QED
  BY <1>1, IntakeInvariant, PTL

\* A slot that refuses a push has data and a job that is queued, runs or has
\* ended: retries, workers and pruning never leave a slot nobody can use again.
THEOREM HeldSlotsHaveJobs == Spec => []HeldSlotHasJob
<1>1. IInv => HeldSlotHasJob
  BY DEF IInv, Held, HeldSlotHasJob
<1> QED
  BY <1>1, IntakeInvariant, PTL

=============================================================================
