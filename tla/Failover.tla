------------------------------ MODULE Failover ------------------------------
(***************************************************************************)
(* FailoverGateway (core/src/gateway/failover.rs) over several endpoints,  *)
(* each an AlloyGateway (gateway.rs) speaking the ethrex dialect           *)
(* (gateway/ethrex.rs).  Tasks of the broadcaster and of the API share one *)
(* gateway, so several calls are under way at a time and each stores the   *)
(* endpoint that answered it in the one `current`.                         *)
(***************************************************************************)
EXTENDS Integers, Sequences, Functions

CONSTANTS
    Callers,        \* tasks with a call under way
    NumEndpoints    \* endpoints.len()

\* FailoverGateway::new refuses an empty list.
ASSUME EndpointsAssumption == NumEndpoints \in Nat \ {0}

Endpoints == 0..(NumEndpoints - 1)

\* The calls of ChainGateway; get_transaction_count is the read of key 0.
Operations == {"read", "simulate", "send"}

\* What a node may answer, "silent" standing for everything that is no answer.
Replies(op) ==
    {"silent", "method_not_found", "error"} \cup
    CASE op = "read"     -> {"value", "value_too_large"}
      [] op = "simulate" -> {"valid", "violation", "not_simulated", "null"}
      [] op = "send"     -> {"hash", "already_known"}

\* The sticky index moves with "ok" alone.  "declined" is an Ok whose prefix
\* the node chose not to run; "rpc_error" is a verdict on the request.
Outcomes == {"ok", "declined", "transport", "unsupported", "rpc_error"}

\* classify_rpc_error, is_already_known and to_domain.
Classify(reply) ==
    CASE reply = "silent"           -> "transport"
      [] reply = "method_not_found" -> "unsupported"
      [] reply = "not_simulated"    -> "declined"
      [] reply \in {"error", "null", "value_too_large"} -> "rpc_error"
      [] OTHER -> "ok"

VARIABLES
    current,    \* index of the last endpoint that answered
    op,         \* each caller's operation, or "none"
    order,      \* endpoints it has yet to ask, in order
    heard,      \* the endpoints it asked and what came of it
    result      \* what its last call returned

gateway == <<current, op, order, heard, result>>

NoResult == "pending"

GatewayInit ==
    /\ current = 0
    /\ op = [c \in Callers |-> "none"]
    /\ order = [c \in Callers |-> << >>]
    /\ heard = [c \in Callers |-> << >>]
    /\ result = [c \in Callers |-> NoResult]

\* Mutant: the order stops at the end of the list.
OrderNoWrap == [i \in 1..(NumEndpoints - current) |-> current + i - 1]

\* Mutant: the order runs over the end of the list.
OrderOverrun == [i \in 1..NumEndpoints |-> current + i - 1]

\* order: from the last endpoint that answered, wrapping through the rest.
Order == [i \in 1..NumEndpoints |-> (current + i - 1) % NumEndpoints]

Call(c, o) ==
    /\ op[c] = "none"
    /\ op' = [op EXCEPT ![c] = o]
    /\ order' = [order EXCEPT ![c] = Order]
    /\ heard' = [heard EXCEPT ![c] = << >>]
    /\ result' = [result EXCEPT ![c] = NoResult]
    /\ UNCHANGED current

\* Mutant: a verdict is asked of the next endpoint too.
NonAnswerMut(outcome) == outcome # "ok"

\* is_non_answer, and a declined simulation: the next endpoint may answer.
NonAnswer(outcome) == outcome \in {"declined", "transport", "unsupported"}

OutcomesHeard(h) == {h[i][2] : i \in DOMAIN h}

\* Mutant: the last non-answer is returned, a decline or not.
ExhaustedMut(h) == h[Len(h)][2]

\* What a call that asked every endpoint in vain returns: a decline if there
\* was one, or else the last error.
Exhausted(h) == IF "declined" \in OutcomesHeard(h) THEN "declined" ELSE h[Len(h)][2]

\* current.store(index), for an endpoint that answered Ok.
StoreCurrent(e, outcome) == IF outcome = "ok" THEN e ELSE current

\* One endpoint's answer to one caller, and what attempt or
\* simulate_frame_transaction makes of it.
Answer(c, reply) ==
    LET e       == Head(order[c])
        outcome == Classify(reply)
        h       == Append(heard[c], <<e, outcome>>)
        rest    == Tail(order[c])
    IN
    /\ op[c] # "none"
    /\ heard' = [heard EXCEPT ![c] = h]
    /\ current' = StoreCurrent(e, outcome)
    /\ \/ /\ NonAnswer(outcome)
          /\ rest # << >>
          /\ order' = [order EXCEPT ![c] = rest]
          /\ UNCHANGED <<op, result>>
       \/ /\ ~NonAnswer(outcome) \/ rest = << >>
          /\ op' = [op EXCEPT ![c] = "none"]
          /\ order' = [order EXCEPT ![c] = << >>]
          /\ result' = [result EXCEPT ![c] =
                          IF NonAnswer(outcome) THEN Exhausted(h) ELSE outcome]

Answered(c) == op[c] # "none" /\ \E reply \in Replies(op[c]) : Answer(c, reply)

GatewayNext ==
    \/ \E c \in Callers, o \in Operations : Call(c, o)
    \/ \E c \in Callers : Answered(c)

GatewaySpec == GatewayInit /\ [][GatewayNext]_gateway

-----------------------------------------------------------------------------
(* Properties                                                              *)

\* Types: `current` and the order of a call are indices of the endpoint list.
GatewayTypeOK ==
    /\ current \in Endpoints
    /\ op \in [Callers -> Operations \cup {"none"}]
    /\ order \in [Callers -> Seq(Endpoints)]
    /\ heard \in [Callers -> Seq(Endpoints \X Outcomes)]
    /\ result \in [Callers -> Outcomes \cup {NoResult}]

\* However `current` moves under a call, the call gives up only after it asked
\* every endpoint, each once, and none of them answered (failover.rs 90-94).
GivesUpOnlyAfterAll ==
    \A c \in Callers :
        /\ IsInjective([i \in DOMAIN heard[c] |-> heard[c][i][1]])
        /\ result[c] \in {"declined", "transport", "unsupported"} =>
             {heard[c][i][1] : i \in DOMAIN heard[c]} = Endpoints

\* A verdict is returned as it is and nobody is asked after it (failover.rs
\* 14-20): what a call returns is a verdict exactly if it is the last thing,
\* and the only verdict, that it heard.
VerdictEndsTheSearch ==
    \A c \in Callers :
        /\ \A i \in 1..(Len(heard[c]) - 1) :
              heard[c][i][2] \notin {"ok", "rpc_error"}
        /\ result[c] # NoResult =>
             LET last == heard[c][Len(heard[c])][2]
             IN  {result[c], last} \cap {"ok", "rpc_error"} # {} => result[c] = last

\* A decline outranks an unreachable endpoint (failover.rs 197-201): a call
\* returns an error that is no verdict only if no endpoint declined.
DeclineOutranks ==
    \A c \in Callers :
        result[c] \in {"transport", "unsupported"} =>
            "declined" \notin OutcomesHeard(heard[c])

=============================================================================
