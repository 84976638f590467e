------------------------------ MODULE Compile -------------------------------
(***************************************************************************)
(* compile_and_validate (compiler/src/lib.rs) as POST /transaction runs it *)
(* (handle_transaction of api/src/main.rs up to the enqueue), together     *)
(* with those it asks: the rate limiter, the policy webhook, the sponsor's *)
(* signer, the nodes behind the failover gateway and the policy store.     *)
(*                                                                         *)
(* Frames holds the transaction and the local checks; Failover is the      *)
(* gateway, whose calls and answers are steps of this module too, shared   *)
(* with the broadcaster's.  Intake takes over where this module ends.      *)
(***************************************************************************)
EXTENDS Frames, Failover, FiniteSets

CONSTANTS
    Requests,       \* the callers of the gateway that are requests to the API
    Submissions,    \* the transactions they bring
    Configs,        \* configurations the engine may be started with
    Probes          \* transactions the shape checks are compared on

ASSUME RequestsAssumption == Requests \subseteq Callers

ASSUME SubmissionsAssumption == Submissions \subseteq Transactions

ASSUME ProbesAssumption == \A tx \in Probes : tx \in Transactions /\ OtherwiseOk(tx)

\* A key that is held here signs like one of a KMS; the ceiling is a U256.
ASSUME ConfigsAssumption ==
    \A c \in Configs :
        c.signer \in {"none", "local", "remote"} /\ c.ceiling \in Nat \cup {None}

VARIABLES
    config,     \* the environment the process was started with
    up,         \* whether main reached axum::serve
    request     \* per request: where it is, its transaction and what was said

compiler == <<config, up, request>>

vars == <<compiler, gateway>>

\* A request: `sent' as it came, `tx' as it stands, `hash' what the sponsor
\* signed, the nonce keys still to read, whether one lies ahead; and for the
\* properties who said what to it, in order.
Idle ==
    [phase |-> "idle", sent |-> None, tx |-> None, hash |-> None,
     unread |-> << >>, future |-> FALSE, said |-> << >>, answer |-> "none"]

Init ==
    /\ config \in Configs
    /\ up = FALSE
    /\ request = [r \in Requests |-> Idle]
    /\ GatewayInit

Update(r, q) == request' = [request EXCEPT ![r] = q]

Goto(q, phase) == [q EXCEPT !.phase = phase]

Heard(q, party, said) == [q EXCEPT !.said = Append(@, <<party, said>>)]

Ended(q, answer) == [q EXCEPT !.phase = "answered", !.answer = answer]

-----------------------------------------------------------------------------
(* Those who are asked over HTTP, and what their answers come to           *)

\* "5xx" stands for any status that is neither success nor a client error.
NoDecision == {"silent", "5xx", "unreadable"}

WebhookReplies == NoDecision \cup {"4xx", "disapproved", "approved"}

\* A key held here or by a KMS signs or fails; an authority answers over HTTP.
SignerReplies(signer) ==
    CASE signer = "local"  -> {"signed", "failed"}
      [] signer = "remote" -> NoDecision \cup {"4xx", "malformed", "signed"}
      [] OTHER -> {"none"}

\* Mutant: an endpoint that fails has decided against the transaction.
HttpVerdictMut(reply) == IF reply = "silent" THEN "unavailable" ELSE "refused"

\* The split of PolicyAuthority::decide and RemoteSigner::request_signature:
\* a failing endpoint has judged nothing.  "failed" and "malformed" are
\* SignError, which is no outage to classify_signer_error.
HttpVerdict(reply) == IF reply \in NoDecision THEN "unavailable" ELSE "refused"

\* classify_policy_error and classify_signer_error, and the API's map_err.
Status(verdict) == IF verdict = "unavailable" THEN "unavailable" ELSE "bad_request"

\* Mutant: an error of the node is an outage of the node.
GatewayStatusMut(outcome) == Status("unavailable")

\* classify_gateway_error: only a transport error leaves things open.
GatewayStatus(outcome) == Status(IF outcome = "transport" THEN "unavailable" ELSE outcome)

-----------------------------------------------------------------------------
(* Starting the engine                                                     *)

Sponsoring == config.signer # "none"

HasSpendGuard(c) == c.ceiling # None \/ c.store # {}

\* Any store counts, also one that has a budget and no quota per sender.
HasAdmissionGuard(c) == c.allowlist # None \/ c.store # {}

\* SponsorPolicy::validate_for.
ValidateFor(c) ==
    c.signer # "none" /\ c.posture = "public" => HasSpendGuard(c) /\ HasAdmissionGuard(c)

\* build_sponsor_signer: a refusal and an outage do not keep the engine down,
\* a signer that fails or answers with something else does.
ProbeOk(reply) == reply \notin {"failed", "malformed"}

\* build_sponsor_policy: a store connects to Redis, and the policy is validated.
PolicyBuilt(redis) == (config.store # {} => redis) /\ ValidateFor(config)

\* main: the signer, the policy, and the queue and rate limiter on Redis.  A
\* panic leaves the engine down, to be started again.
Boot(reply, redis) ==
    /\ ~up
    /\ up' = (ProbeOk(reply) /\ PolicyBuilt(redis) /\ redis)
    /\ UNCHANGED <<config, request, gateway>>

-----------------------------------------------------------------------------
(* Before anybody is asked                                                 *)

Sponsored(tx) == ResolvePayer(tx, Sponsoring) = "sponsor"

\* SponsorPolicy::check_stateless.
CheckStateless(tx) ==
    /\ config.allowlist # None => Bytes(tx.sender) \in config.allowlist
    /\ config.ceiling # None => MaxCost(tx) <= config.ceiling

\* nonce_seq is there and steps 1 and 2 of compile_and_validate.
LocallyValid(tx) ==
    /\ tx.seq # None
    /\ ValidateStructure(tx)
    /\ CheckDeclaredIntent(tx, ResolvePayer(tx, Sponsoring))

\* simulate, from its first nonce read.
StartSimulation(q) ==
    [q EXCEPT !.phase = "nonce", !.unread = EffectiveNonceKeys(q.tx)]

\* Step 3 up to its first question.
StartSponsorship(q) ==
    IF ~CheckStateless(q.tx) THEN Ended(q, "bad_request")
    ELSE Goto(q, IF config.webhook THEN "decide" ELSE "sign")

Received(tx) == [Idle EXCEPT !.sent = tx, !.tx = tx]

\* RateLimiter::check failed, on its count or on Redis.
ReceiveLimited(r, tx) ==
    /\ up
    /\ config.limited
    /\ request[r] = Idle
    /\ Update(r, Ended(Received(tx), "too_many_requests"))
    /\ UNCHANGED <<config, up, gateway>>

Receive(r, tx) ==
    /\ up
    /\ request[r] = Idle
    /\ Update(r, CASE ~LocallyValid(tx) -> Ended(Received(tx), "bad_request")
                   [] LocallyValid(tx) /\ Sponsored(tx) -> StartSponsorship(Received(tx))
                   [] OTHER -> StartSimulation(Received(tx)))
    /\ UNCHANGED <<config, up, gateway>>

-----------------------------------------------------------------------------
(* The sponsor: inject_sponsor_signature                                   *)

\* Mutant: a body that cannot be read is taken for approval.
AfterDecisionGarbled(q, reply) ==
    IF reply \in {"approved", "unreadable"} THEN Goto(Heard(q, "webhook", reply), "sign")
    ELSE Ended(Heard(q, "webhook", reply), Status(HttpVerdict(reply)))

AfterDecision(q, reply) ==
    IF reply = "approved" THEN Goto(Heard(q, "webhook", reply), "sign")
    ELSE Ended(Heard(q, "webhook", reply), Status(HttpVerdict(reply)))

Decide(r, reply) ==
    /\ request[r].phase = "decide"
    /\ Update(r, AfterDecision(request[r], reply))
    /\ UNCHANGED <<config, up, gateway>>

\* The hash is of the transaction before the fill.
FillSponsorSignature(q) ==
    [q EXCEPT !.tx = Filled(q.tx), !.hash = ComputeSigHash(q.tx)]

\* The placeholder is looked for once the signature is there.
AfterSigning(q, reply) ==
    IF reply = "signed"
    THEN IF Placeholder(q.tx) = 0 THEN Ended(q, "bad_request")
         ELSE StartSimulation(FillSponsorSignature(q))
    ELSE Ended(q, Status(HttpVerdict(reply)))

Sign(r, reply) ==
    /\ request[r].phase = "sign"
    /\ Update(r, AfterSigning(Heard(request[r], "signer", reply), reply))
    /\ UNCHANGED <<config, up, gateway>>

-----------------------------------------------------------------------------
(* The nodes: simulate, over the gateway                                   *)

\* Mutant: where the nodes judged nothing, compile_and_validate returns early.
AfterSimulationMut(q) ==
    IF /\ Sponsored(q.sent)
       /\ config.store # {}
       /\ q.said[Len(q.said)][2] \notin {"declined", "unsupported", "ahead"}
    THEN Goto(q, "reserve")
    ELSE Ended(q, "accepted")

\* Step 5, or the end of compile_and_validate.
AfterSimulation(q) ==
    IF Sponsored(q.sent) /\ config.store # {} THEN Goto(q, "reserve")
    ELSE Ended(q, "accepted")

AskNode(r, phase, operation) ==
    /\ request[r].phase = phase
    /\ Call(r, operation)
    /\ UNCHANGED compiler

\* Mutant: a key that was read is read again.
AfterReadMut(q, outcome, against) ==
    CASE outcome # "ok" -> Ended(Heard(q, "node", outcome), GatewayStatus(outcome))
      [] outcome = "ok" /\ against = "behind" ->
            Ended(Heard(q, "node", against), "bad_request")
      [] OTHER -> [q EXCEPT !.future = @ \/ against = "ahead"]

\* What is made of a nonce read that came back `outcome', the sequence of the
\* transaction being `against' the current one of the key.
AfterRead(q, outcome, against) ==
    LET n == [q EXCEPT !.unread = Tail(@), !.future = @ \/ against = "ahead"] IN
    CASE outcome # "ok" -> Ended(Heard(q, "node", outcome), GatewayStatus(outcome))
      [] outcome = "ok" /\ against = "behind" ->
            Ended(Heard(q, "node", against), "bad_request")
      [] OTHER -> IF n.unread # << >> THEN n
                  ELSE IF n.future THEN AfterSimulation(Heard(n, "node", "ahead"))
                  ELSE Goto(n, "simulate")

\* Nobody judged the transaction, and admission at broadcast will.
Skipped == {"declined", "unsupported"}

\* Where the execution ran, what came of it; "unrecognized" is only logged.
Executions == {"none", "succeeded", "errored", "reverted", "unrecognized"}

AfterSimulate(q, outcome, reply, execution) ==
    CASE outcome \in Skipped -> AfterSimulation(Heard(q, "node", outcome))
      [] outcome \notin Skipped \cup {"ok"} ->
            Ended(Heard(q, "node", outcome), GatewayStatus(outcome))
      [] outcome = "ok" /\ reply = "violation" ->
            Ended(Heard(q, "node", reply), "bad_request")
      [] OTHER -> IF execution \in {"errored", "reverted"}
                  THEN Ended(Heard(q, "node", execution), "bad_request")
                  ELSE AfterSimulation(Heard(q, "node", execution))

\* An endpoint answers; when that ends the call, the compiler goes on.
NodeReads(r, reply, against) ==
    /\ op[r] = "read"
    /\ Answer(r, reply)
    /\ Update(r, IF op'[r] # "none" THEN request[r]
                 ELSE AfterRead(request[r], result'[r], against))
    /\ UNCHANGED <<config, up>>

NodeSimulates(r, reply, execution) ==
    /\ op[r] = "simulate"
    /\ Answer(r, reply)
    /\ Update(r, IF op'[r] # "none" THEN request[r]
                 ELSE AfterSimulate(request[r], result'[r], reply, execution))
    /\ UNCHANGED <<config, up>>

\* The broadcaster's calls, over the same gateway: nonce reads, the send, and
\* a simulation that explains a rejection.
BroadcasterCalls(c, operation) == up /\ Call(c, operation) /\ UNCHANGED compiler

BroadcasterHears(c) == Answered(c) /\ UNCHANGED compiler

-----------------------------------------------------------------------------
(* The policy store: SponsorPolicy::reserve                                *)

StoreReplies == {"reserved", "over", "error"}

ReserveStatus(reply) ==
    CASE reply = "reserved" -> "accepted"
      [] reply = "over"     -> Status("refused")
      [] OTHER -> Status("unavailable")

Reserve(r, reply) ==
    /\ request[r].phase = "reserve"
    /\ Update(r, Ended(Heard(request[r], "store", reply), ReserveStatus(reply)))
    /\ UNCHANGED <<config, up, gateway>>

-----------------------------------------------------------------------------

\* What the engine does by itself, or waits for no longer than a timeout.
EngineStep(r) ==
    \/ \E reply \in WebhookReplies : Decide(r, reply)
    \/ \E reply \in SignerReplies(config.signer) : Sign(r, reply)
    \/ AskNode(r, "nonce", "read")
    \/ AskNode(r, "simulate", "simulate")

\* What it waits for as long as it takes: the node that was asked, or Redis.
ReplyStep(r) ==
    \/ \E reply \in Replies("read"), against \in {"behind", "at", "ahead"} :
          NodeReads(r, reply, against)
    \/ \E reply \in Replies("simulate"), execution \in Executions :
          NodeSimulates(r, reply, execution)
    \/ \E reply \in StoreReplies : Reserve(r, reply)

CompileStep(r) == EngineStep(r) \/ ReplyStep(r)

Next ==
    \/ \E reply \in SignerReplies(config.signer), redis \in BOOLEAN : Boot(reply, redis)
    \/ \E r \in Requests, tx \in Submissions : ReceiveLimited(r, tx)
    \/ \E r \in Requests, tx \in Submissions : Receive(r, tx)
    \/ \E r \in Requests : CompileStep(r)
    \/ \E c \in Callers \ Requests, operation \in Operations : BroadcasterCalls(c, operation)
    \/ \E c \in Callers \ Requests : BroadcasterHears(c)

Spec == Init /\ [][Next]_vars

\* The engine goes on with a request by itself, and the webhook and a remote
\* signer answer or time out (build_client).  Nothing is assumed of the nodes
\* and of Redis: AlloyGateway::new sets no timeout on its provider, nor does
\* the policy store on its connection.
LiveSpec == Spec /\ \A r \in Requests : WF_vars(EngineStep(r))

-----------------------------------------------------------------------------
(* Properties                                                              *)

Parties == {"webhook", "signer", "node", "store"}

Answers == {"none", "accepted", "bad_request", "unavailable", "too_many_requests"}

Phases == {"idle", "decide", "sign", "nonce", "simulate", "reserve", "answered"}

\* Types: the gateway's state is that of Failover, and a request has an answer
\* exactly when handle_transaction is through with it.
TypeOK ==
    /\ GatewayTypeOK
    /\ config \in Configs
    /\ up \in BOOLEAN
    /\ \A r \in Requests :
          LET q == request[r] IN
          /\ q.phase \in Phases
          /\ q.answer \in Answers
          /\ q.phase = "answered" <=> q.answer # "none"
          /\ q.phase # "idle" => q.sent \in Submissions
          /\ \A i \in DOMAIN q.said : q.said[i][1] \in Parties
          /\ op[r] # "none" => q.phase \in {"nonce", "simulate"}

LastSaid(q) == q.said[Len(q.said)]

Said(q, party) == {q.said[i][2] : i \in {j \in DOMAIN q.said : q.said[j][1] = party}}

Verdicts ==
    ({"webhook"} \X {"4xx", "disapproved"})
        \cup {<<"signer", "4xx">>, <<"store", "over">>}
        \cup ({"node"} \X {"rpc_error", "behind", "violation", "errored", "reverted"})

\* A 400 tells the caller to rebuild the transaction (api/src/main.rs 485-489):
\* it is answered before anybody is asked, or because of what the one asked
\* last found.  What is no verdict and is answered so nevertheless: a signer
\* that breaks, an entry for the signature that is missing, and nodes none of
\* which can read the nonce.
RejectedIsJudged ==
    \A r \in Requests :
        LET q == request[r] IN
        q.answer = "bad_request" /\ q.said # << >> =>
            \/ LastSaid(q) \in Verdicts
            \/ LastSaid(q) \in {"signer"} \X {"failed", "malformed"}
            \/ LastSaid(q) = <<"signer", "signed">> /\ Placeholder(q.sent) = 0
            \/ LastSaid(q) = <<"node", "unsupported">> /\ q.unread # << >>

\* A 503 tells the caller to retry unchanged: nobody said a thing against the
\* transaction, and if it is the nodes that failed, all of them were asked in
\* that call and none answered.
RetryableIsUnjudged ==
    \A r \in Requests :
        LET q == request[r] IN
        q.answer = "unavailable" =>
            /\ Range(q.said) \cap Verdicts = {}
            /\ \/ LastSaid(q) \in {"webhook", "signer"} \X NoDecision
               \/ LastSaid(q) = <<"store", "error">>
               \/ /\ LastSaid(q) = <<"node", "transport">>
                  /\ {heard[r][i][1] : i \in DOMAIN heard[r]} = Endpoints
                  /\ OutcomesHeard(heard[r]) \subseteq {"transport", "unsupported"}

\* The order in which the sponsor commits itself (compiler/src/lib.rs 809-812
\* and 241-248): no signature before the guards and the webhook agree, no call
\* of a node before the signature is in place, no reservation before the nodes
\* had their say; and for another payer none of the sponsor's parties is asked.
SpendOrder ==
    \A r \in Requests :
        LET q      == request[r]
            atNode == op[r] # "none" \/ Said(q, "node") # {}
        IN
        q.phase # "idle" =>
            IF Sponsored(q.sent)
            THEN /\ Said(q, "signer") # {} =>
                      /\ CheckStateless(q.sent)
                      /\ config.webhook => Said(q, "webhook") = {"approved"}
                 /\ atNode => /\ Said(q, "signer") = {"signed"}
                              /\ "sponsor" \in {s.content : s \in Range(q.tx.sigs)}
                 /\ Said(q, "store") # {} =>
                      /\ Said(q, "node") # {}
                      /\ Range(q.said) \cap Verdicts \subseteq {<<"store", "over">>}
            ELSE \A i \in DOMAIN q.said : q.said[i][1] = "node"

\* What was agreed is what is queued: the payer is the one the caller declared
\* and the frames name, however they go on after the prefix; the sponsor's
\* signature is in its entry, nothing else of the transaction has changed, and
\* an entry signed over the canonical hash has it for the hash of the final
\* transaction.  Another payer's transaction is passed on untouched.
AcceptedAsAgreed ==
    \A r \in Requests :
        LET q == request[r] IN
        q.answer = "accepted" =>
            /\ q.sent.declared = PayerByRole(q.sent, Sponsoring)
            /\ IF q.sent.declared = "sponsor"
               THEN \E i \in DOMAIN q.tx.sigs :
                       /\ q.tx.sigs[i].signer = SponsorAddress
                       /\ q.tx.sigs[i].content = "sponsor"
                       /\ [q.tx EXCEPT !.sigs[i] = q.sent.sigs[i]] = q.sent
                       /\ q.tx.sigs[i].msg = "" => q.hash = ComputeSigHash(q.tx)
               ELSE q.tx = q.sent

\* The ceiling of one transaction (policy.rs 243-244) bounds the engine's own
\* estimate of what is queued, computed without the saturation of u64 sums and
\* products, up to the gas of the one signature that is filled in after the
\* check.  The estimate is not what the node reserves (domain.rs 485-501).
CeilingHolds ==
    \A r \in Requests :
        LET q == request[r] IN
        q.answer = "accepted" /\ Sponsored(q.sent) /\ config.ceiling # None
            /\ config.ceiling < q.tx.fee * MaxU64 =>
                ExactCost(q.tx) <= config.ceiling + q.tx.fee * SignatureLength

\* No way to acceptance leads around a guard of the sponsor (policy.rs 253-265,
\* 309-339): what is sponsored comes from a sender on the list, is within the
\* ceiling as it was sent, is approved by the webhook and holds a reservation,
\* whichever of these are configured; also when the nodes judged nothing,
\* because the nonce lies ahead or no node simulates.
GuardsAreApplied ==
    \A r \in Requests :
        LET q == request[r] IN
        q.answer = "accepted" /\ Sponsored(q.sent) =>
            /\ config.allowlist # None => Bytes(q.tx.sender) \in config.allowlist
            /\ config.ceiling # None => MaxCost(q.sent) <= config.ceiling
            /\ config.webhook => Said(q, "webhook") = {"approved"}
            /\ config.store # {} => Said(q, "store") = {"reserved"}

\* validate_structure accepts exactly the four shapes, without atomic frames in
\* the prefix, among transactions whose frames are all right one by one and
\* whose gas is small, targets being compared as the code does, by their
\* text; and pay_frame, which reads the prefix by itself (domain.rs 442-444),
\* finds the payer of the shape.  No state comes into this: it is evaluated
\* once, before the engine is up.
ShapesAgree == ~up => \A tx \in Probes : ShapeAgrees(tx)

\* The request waits for a node or for the policy store.
WaitsFor(r) == op[r] # "none" \/ request[r].phase = "reserve"

\* A request is answered unless one of its calls is never answered: however
\* the nodes fail over, and whatever else it asks, handle_transaction does not
\* go round in circles or come to rest in between.
AnsweredUnlessLeftWaiting ==
    \A r \in Requests :
        request[r].phase # "idle" ~>
            (request[r].phase = "answered" \/ [](WaitsFor(r)))

=============================================================================
