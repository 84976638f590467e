-------------------------- MODULE CompileResults ---------------------------
(***************************************************************************)
(* What the invariant of CompileProofs says of an answer: that a           *)
(* rejection was somebody's verdict and a retryable answer nobody's, in    *)
(* which order the sponsor commits itself, and, with what FrameProofs says *)
(* of the transactions, that no guard of the sponsor is bypassed and that  *)
(* what is accepted is what was agreed.                                    *)
(***************************************************************************)
EXTENDS CompileProofs, FrameProofs

\* Zenon first, which is quick on the many leaves without arithmetic.
USE ZenonT(8), SMTT(30)

-----------------------------------------------------------------------------
(* What was said to a request                                              *)

SignerWords == NoDecision \cup {"4xx", "malformed", "signed", "failed"}

Words == WebhookReplies \cup SignerWords \cup NodeWords \cup StoreReplies

Sayings == Parties \X Words

LEMMA SayOneMore ==
    ASSUME NEW s \in Seq(Sayings), NEW x \in Sayings
    PROVE  /\ Append(s, x) \in Seq(Sayings) /\ Append(s, x) # << >>
           /\ Append(s, x)[Len(Append(s, x))] = x
           /\ Range(Append(s, x)) = Range(s) \cup {x}
<1> DEFINE t == Append(s, x)
<1>1. /\ Len(s) \in Nat /\ DOMAIN s = 1..Len(s)
      /\ t \in Seq(Sayings) /\ Len(t) = Len(s) + 1 /\ DOMAIN t = 1..Len(t)
  BY SeqAppend, SeqLen
<1>2. t[Len(t)] = x /\ \A i \in 1..Len(s) : t[i] = s[i]
  BY <1>1, SeqAppend
<1> HIDE DEF t
<1>3. t # << >>
  BY <1>1
<1>4. Len(t) \in DOMAIN t /\ \A i \in DOMAIN t : i = Len(t) \/ i \in DOMAIN s
  BY <1>1
<1>5. DOMAIN s \subseteq DOMAIN t
  BY <1>1
<1>6. Range(t) \subseteq Range(s) \cup {x}
  BY <1>1, <1>2, <1>4 DEF Range
<1>7. x \in Range(t) /\ Range(s) \subseteq Range(t)
  BY <1>1, <1>2, <1>4, <1>5 DEF Range
<1> QED
  BY <1>1, <1>2, <1>3, <1>6, <1>7 DEF t

LEMMA SayNothing == << >> \in Seq(Sayings) /\ Range(<< >>) = {}
  BY SeqEmpty DEF Range

LEMMA SayOne ==
    ASSUME NEW x \in Sayings
    PROVE  /\ <<x>> \in Seq(Sayings) /\ <<x>> # << >>
           /\ <<x>>[Len(<<x>>)] = x /\ Range(<<x>>) = {x}
<1>1. <<x>> = Append(<< >>, x)
  OBVIOUS
<1> QED
  BY <1>1, SayNothing, SayOneMore, Zenon

LEMMA ApprovalSaid ==
    ASSUME NEW c
    PROVE  /\ Approval(c) \in Seq(Sayings)
           /\ Range(Approval(c)) = IF c.webhook THEN {<<"webhook", "approved">>} ELSE {}
<1>1. <<"webhook", "approved">> \in Sayings
  BY DEF Sayings, Parties, Words, WebhookReplies
<1> QED
  BY <1>1, SayOne, SayNothing, Zenon DEF Approval

LEMMA PreludeSaid ==
    ASSUME NEW c, NEW tx
    PROVE  /\ Prelude(c, tx) \in Seq(Sayings)
           /\ Range(Prelude(c, tx)) = IF SponsoredBy(c, tx)
                                      THEN Range(Approval(c)) \cup {<<"signer", "signed">>}
                                      ELSE {}
<1>1. <<"signer", "signed">> \in Sayings
  BY DEF Sayings, Parties, Words, SignerWords
<1> QED
  BY <1>1, ApprovalSaid, SayOneMore, SayNothing, Zenon DEF Prelude

\* What a party said, of all that was said.
LEMMA SaidByParty ==
    ASSUME NEW q, q.said \in Seq(Sayings), NEW party
    PROVE  Said(q, party) = {w \in Words : <<party, w>> \in Range(q.said)}
<1> DEFINE s == q.said
<1>1. \A i \in DOMAIN s : s[i] \in Sayings /\ s[i] \in Range(s)
  BY SeqLen, SeqElement DEF Range
<1>2. \A i \in DOMAIN s : s[i] = <<s[i][1], s[i][2]>> /\ s[i][2] \in Words
  BY <1>1 DEF Sayings
<1>3. \A x \in Range(s) : \E i \in DOMAIN s : s[i] = x
  BY DEF Range
<1>4. Said(q, party) = {s[i][2] : i \in {j \in DOMAIN s : s[j][1] = party}}
  BY DEF Said
<1> HIDE DEF s
<1>5. \A w \in Said(q, party) : w \in Words /\ <<party, w>> \in Range(s)
  BY <1>1, <1>2, <1>4
<1>6. ASSUME NEW w \in Words, <<party, w>> \in Range(s)
      PROVE  w \in Said(q, party)
  <2>1. PICK i \in DOMAIN s : s[i] = <<party, w>>
    BY <1>3, <1>6
  <2>2. s[i][1] = party /\ s[i][2] = w
    BY <2>1
  <2> QED
    BY <1>4, <2>2
<1> QED
  BY <1>5, <1>6 DEF s

\* Only a signer there is can be asked.
LEMMA SponsorSigns ==
    ASSUME NEW c \in Configs, NEW tx, SponsoredBy(c, tx)
    PROVE  SignerReplies(c.signer) \subseteq SignerWords
<1>1. c.signer \in {"local", "remote"}
  BY ConfigsAssumption DEF SponsoredBy, ResolvePayer
<1> QED
  BY <1>1 DEF SignerReplies, SignerWords

\* The last thing said is x, and the others are those of `before'.
EndsWith(q, before, x) ==
    /\ q.said \in Seq(Sayings) /\ q.said # << >>
    /\ LastSaid(q) = x /\ Range(q.said) = before \cup {x}

\* How the words of a request that waits, or was ended, begin and end.
Unspoken(q) == q.said \in Seq(Sayings) /\ Range(q.said) = {} /\ q.said = << >>

AtSignerTold(c, q) ==
    AtSigner(c, q) /\ q.said \in Seq(Sayings) /\ Range(q.said) = Range(Approval(c))

AtNodesTold(c, q) ==
    AtNodes(c, q) /\ q.said \in Seq(Sayings) /\ Range(q.said) = Range(Prelude(c, q.sent))

AtStoreTold(c, q) ==
    AtStore(c, q) /\ \E n \in Passing : EndsWith(q, Range(Prelude(c, q.sent)), <<"node", n>>)

WebhookTold(c, q) ==
    \E reply \in WebhookReplies \ {"approved"} :
        /\ SponsoredBy(c, q.sent) /\ EndsWith(q, {}, <<"webhook", reply>>)
        /\ q.answer = Status(HttpVerdict(reply))

SignerTold(c, q) ==
    \E reply \in SignerWords :
        /\ ForSponsor(c, q) /\ EndsWith(q, Range(Approval(c)), <<"signer", reply>>)
        /\ IF reply = "signed" THEN q.answer = "bad_request" /\ Placeholder(q.sent) = 0
           ELSE q.answer = Status(HttpVerdict(reply))

NodesTold(c, q, res) ==
    \E n \in NodeWords :
        /\ Valid(c, q.sent) /\ Presentable(c, q)
        /\ EndsWith(q, Range(Prelude(c, q.sent)), <<"node", n>>)
        /\ NodeAnswer(c, q, res, n)

StoreTold(c, q) ==
    \E n \in Passing, reply \in StoreReplies :
        /\ Valid(c, q.sent) /\ ForSponsor(c, q) /\ Presentable(c, q)
        /\ EndsWith(q, Range(Prelude(c, q.sent)) \cup {<<"node", n>>}, <<"store", reply>>)
        /\ q.answer = ReserveStatus(reply)

LEMMA Transcript ==
    ASSUME NEW c \in Configs, NEW q, NEW res, Progress(c, q, res)
    PROVE  \/ /\ q.phase \notin {"idle", "answered"} /\ q.answer = "none" /\ Valid(c, q.sent)
              /\ \/ AtWebhook(c, q) /\ Unspoken(q)
                 \/ AtSignerTold(c, q) \/ AtNodesTold(c, q) \/ AtStoreTold(c, q)
           \/ /\ q.phase = "answered"
              /\ \/ Unspoken(q) /\ q.answer \in {"bad_request", "too_many_requests"}
                 \/ WebhookTold(c, q) \/ SignerTold(c, q) \/ NodesTold(c, q, res)
                 \/ StoreTold(c, q)
<1> DEFINE A == Approval(c)
           P == Prelude(c, q.sent)
<1>1. A \in Seq(Sayings) /\ P \in Seq(Sayings)
  BY ApprovalSaid, PreludeSaid
<1>2. \A w \in NodeWords : <<"node", w>> \in Sayings
  BY DEF Sayings, Parties, Words
<1>3. Passing \subseteq NodeWords
  BY DEF NodeWords
<1>4. \A s \in Seq(Sayings), x \in Sayings : q.said = Append(s, x) => EndsWith(q, Range(s), x)
  BY SayOneMore DEF EndsWith, LastSaid
<1>5. CASE Waiting(c, q)
  <2>1. q.answer = "none" /\ Valid(c, q.sent)
    BY <1>5 DEF Waiting
  <2>2. CASE AtWebhook(c, q)
    <3>1. q.phase = "decide" /\ q.said = << >>
      BY <2>2 DEF AtWebhook
    <3> QED
      BY <2>1, <2>2, <3>1, SayNothing DEF Unspoken
  <2>3. CASE AtSigner(c, q)
    <3>1. q.phase = "sign" /\ q.said = A
      BY <2>3 DEF AtSigner
    <3> QED
      BY <1>1, <2>1, <2>3, <3>1 DEF AtSignerTold
  <2>4. CASE AtNodes(c, q)
    <3>1. q.phase \in {"nonce", "simulate"} /\ q.said = P
      BY <2>4 DEF AtNodes
    <3> QED
      BY <1>1, <2>1, <2>4, <3>1 DEF AtNodesTold
  <2>5. CASE AtStore(c, q)
    <3>1. q.phase = "reserve"
      BY <2>5 DEF AtStore
    <3>2. PICK n \in Passing : q.said = Append(P, <<"node", n>>)
      BY <2>5 DEF AtStore
    <3>3. EndsWith(q, Range(P), <<"node", n>>)
      BY <1>1, <1>2, <1>3, <1>4, <3>2
    <3> QED
      BY <2>1, <2>5, <3>1, <3>3 DEF AtStoreTold
  <2> QED
    BY <1>5, <2>2, <2>3, <2>4, <2>5 DEF Waiting
<1>6. CASE Finished(c, q, res)
  <2>1. q.phase = "answered"
    BY <1>6 DEF Finished
  <2>2. CASE ByNobody(q)
    BY <2>1, <2>2, SayNothing DEF ByNobody, Unspoken
  <2>3. CASE ByWebhook(c, q)
    <3>1. PICK reply \in WebhookReplies \ {"approved"} :
              /\ q.said = <<<<"webhook", reply>>>>
              /\ q.answer = Status(HttpVerdict(reply))
      BY <2>3 DEF ByWebhook
    <3>2. <<"webhook", reply>> \in Sayings
      BY DEF Sayings, Parties, Words
    <3>3. EndsWith(q, {}, <<"webhook", reply>>)
      BY <3>1, <3>2, SayOne DEF EndsWith, LastSaid
    <3>4. SponsoredBy(c, q.sent)
      BY <2>3 DEF ByWebhook
    <3> QED
      BY <2>1, <3>1, <3>3, <3>4 DEF WebhookTold
  <2>4. CASE BySigner(c, q)
    <3>1. ForSponsor(c, q) /\ SponsoredBy(c, q.sent)
      BY <2>4 DEF BySigner, ForSponsor
    <3>2. PICK reply \in SignerReplies(c.signer) :
              /\ q.said = Append(A, <<"signer", reply>>)
              /\ IF reply = "signed" THEN q.answer = "bad_request" /\ Placeholder(q.sent) = 0
                 ELSE q.answer = Status(HttpVerdict(reply))
      BY <2>4 DEF BySigner
    <3>3. reply \in SignerWords
      BY <3>1, SponsorSigns
    <3>4. <<"signer", reply>> \in Sayings
      BY <3>3 DEF Sayings, Parties, Words
    <3>5. EndsWith(q, Range(A), <<"signer", reply>>)
      BY <1>1, <1>4, <3>2, <3>4
    <3> QED
      BY <2>1, <3>1, <3>2, <3>3, <3>5 DEF SignerTold
  <2>5. CASE ByNodes(c, q, res)
    <3>1. PICK n \in NodeWords : q.said = Append(P, <<"node", n>>) /\ NodeAnswer(c, q, res, n)
      BY <2>5 DEF ByNodes
    <3>2. EndsWith(q, Range(P), <<"node", n>>)
      BY <1>1, <1>2, <1>4, <3>1
    <3>3. Valid(c, q.sent) /\ Presentable(c, q)
      BY <2>5 DEF ByNodes
    <3> QED
      BY <2>1, <3>1, <3>2, <3>3 DEF NodesTold
  <2>6. CASE ByStore(c, q)
    <3>1. PICK n \in Passing, reply \in StoreReplies :
              /\ q.said = Append(Append(P, <<"node", n>>), <<"store", reply>>)
              /\ q.answer = ReserveStatus(reply)
      BY <2>6 DEF ByStore
    <3>2. <<"store", reply>> \in Sayings
      BY DEF Sayings, Parties, Words
    <3>3. <<"node", n>> \in Sayings
      BY <1>2, <1>3
    <3>4. /\ Append(P, <<"node", n>>) \in Seq(Sayings)
          /\ Range(Append(P, <<"node", n>>)) = Range(P) \cup {<<"node", n>>}
      BY <1>1, <3>3, SayOneMore
    <3>5. EndsWith(q, Range(P) \cup {<<"node", n>>}, <<"store", reply>>)
      BY <1>4, <3>1, <3>2, <3>4, Zenon
    <3>6. Valid(c, q.sent) /\ ForSponsor(c, q) /\ Presentable(c, q)
      BY <2>6 DEF ByStore
    <3> QED
      BY <2>1, <3>1, <3>5, <3>6, Zenon DEF StoreTold
  <2> QED
    BY <1>6, <2>2, <2>3, <2>4, <2>5, <2>6 DEF Finished
<1> QED
  BY <1>5, <1>6 DEF Progress

-----------------------------------------------------------------------------
(* The properties of Compile                                               *)

\* A request is idle, or it has got somewhere and what was said to it is known.
LEMMA IdleOrUnderWay ==
    ASSUME CInv, NEW r \in Requests
    PROVE  \/ request[r] = Idle /\ op[r] = "none"
           \/ request[r].phase # "idle" /\ Progress(config, request[r], result[r])
<1>1. RequestInv(r)
  BY DEF CInv
<1>2. CASE request[r] = Idle
  BY <1>1, <1>2, IdleFields DEF RequestInv, CallOK
<1>3. CASE Progress(config, request[r], result[r])
  BY <1>3, Zenon DEF Progress, Waiting, Finished, AtWebhook, AtSigner, AtNodes, AtStore
<1> QED
  BY <1>1, <1>2, <1>3 DEF RequestInv

\* What an outcome is answered with.
LEMMA Statuses ==
    /\ \A v : Status(v) = IF v = "unavailable" THEN "unavailable" ELSE "bad_request"
    /\ \A v : Status(HttpVerdict(v)) = IF v \in NoDecision THEN "unavailable"
                                                           ELSE "bad_request"
    /\ \A v \in StoreReplies :
          ReserveStatus(v) = CASE v = "reserved" -> "accepted"
                               [] v = "over"     -> "bad_request"
                               [] OTHER          -> "unavailable"
  BY DEF Status, HttpVerdict, ReserveStatus, StoreReplies

LEMMA CInvTypes == CInv /\ GatewayInv => TypeOK
<1> SUFFICES ASSUME CInv, GatewayInv, NEW r \in Requests
             PROVE  LET q == request[r] IN
                    /\ q.phase \in Phases
                    /\ q.answer \in Answers
                    /\ q.phase = "answered" <=> q.answer # "none"
                    /\ q.phase # "idle" => q.sent \in Submissions
                    /\ \A i \in DOMAIN q.said : q.said[i][1] \in Parties
                    /\ op[r] # "none" => q.phase \in {"nonce", "simulate"}
  BY DEF TypeOK, CInv, GatewayInv
<1> DEFINE q == request[r]
<1>1. op[r] # "none" => q.phase \in {"nonce", "simulate"}
  BY DEF CInv, RequestInv, CallOK
<1>2. CASE q = Idle
  <2>1. q.phase = "idle" /\ q.answer = "none" /\ q.said = << >>
    BY <1>2, IdleFields
  <2> QED
    BY <1>1, <2>1 DEF Phases, Answers
<1>3. CASE q.phase # "idle" /\ Progress(config, q, result[r])
  <2>1. config \in Configs /\ q.sent \in Submissions
    BY <1>3 DEF CInv, Progress
  <2>2. q.said \in Seq(Sayings)
    BY <1>3, <2>1, Transcript
       DEF Unspoken, AtSignerTold, AtNodesTold, AtStoreTold, WebhookTold, SignerTold,
           NodesTold, StoreTold, EndsWith
  <2>3. \A i \in DOMAIN q.said : q.said[i] \in Sayings
    BY <2>2, SeqLen, SeqElement
  <2>4. \A i \in DOMAIN q.said : q.said[i][1] \in Parties
    BY <2>3 DEF Sayings
  <2>5. CASE Waiting(config, q)
    <3>1. q.answer = "none" /\ q.phase \in Phases \ {"answered"}
      BY <2>5 DEF Waiting, AtWebhook, AtSigner, AtNodes, AtStore, Phases
    <3> QED
      BY <1>1, <2>1, <2>4, <3>1 DEF Answers
  <2>6. CASE Finished(config, q, result[r])
    <3>1. q.phase = "answered"
      BY <2>6 DEF Finished
    <3>2. q.answer \in {"accepted", "bad_request", "unavailable", "too_many_requests"}
      BY <2>6, Statuses, Zenon
         DEF Finished, ByNobody, ByWebhook, BySigner, ByNodes, NodeAnswer, ByStore
    <3> QED
      BY <1>1, <2>1, <2>4, <3>1, <3>2 DEF Answers, Phases
  <2> QED
    BY <1>3, <2>5, <2>6 DEF Progress
<1> QED
  BY <1>2, <1>3, IdleOrUnderWay

LEMMA CInvRejected == CInv => RejectedIsJudged
<1> SUFFICES ASSUME CInv, NEW r \in Requests,
                    request[r].answer = "bad_request", request[r].said # << >>
             PROVE  LET q == request[r] IN
                    \/ LastSaid(q) \in Verdicts
                    \/ LastSaid(q) \in {"signer"} \X {"failed", "malformed"}
                    \/ LastSaid(q) = <<"signer", "signed">> /\ Placeholder(q.sent) = 0
                    \/ LastSaid(q) = <<"node", "unsupported">> /\ q.unread # << >>
  BY DEF RejectedIsJudged
<1> DEFINE q == request[r]
<1>1. config \in Configs /\ Progress(config, q, result[r])
  BY IdleOrUnderWay, IdleFields DEF CInv
<1>2. \/ WebhookTold(config, q) \/ SignerTold(config, q) \/ NodesTold(config, q, result[r])
      \/ StoreTold(config, q)
  BY <1>1, Transcript DEF Unspoken
<1> HIDE DEF q
<1>3. CASE WebhookTold(config, q)
  <2>1. PICK reply \in WebhookReplies : /\ LastSaid(q) = <<"webhook", reply>>
                                        /\ q.answer = Status(HttpVerdict(reply))
                                        /\ reply # "approved"
    BY <1>3 DEF WebhookTold, EndsWith
  <2>2. reply \in {"4xx", "disapproved"}
    BY <2>1, Statuses DEF q, WebhookReplies
  <2> QED
    BY <2>1, <2>2 DEF q, Verdicts
<1>4. CASE SignerTold(config, q)
  <2>1. PICK reply \in SignerWords :
            /\ LastSaid(q) = <<"signer", reply>>
            /\ IF reply = "signed" THEN q.answer = "bad_request" /\ Placeholder(q.sent) = 0
               ELSE q.answer = Status(HttpVerdict(reply))
    BY <1>4 DEF SignerTold, EndsWith
  <2>2. reply \in {"4xx", "malformed", "signed", "failed"}
    BY <2>1, Statuses DEF q, SignerWords
  <2> QED
    BY <2>1, <2>2 DEF q, Verdicts
<1>5. CASE NodesTold(config, q, result[r])
  <2>1. PICK n \in NodeWords : /\ LastSaid(q) = <<"node", n>>
                               /\ NodeAnswer(config, q, result[r], n)
    BY <1>5 DEF NodesTold, EndsWith
  <2>2. n \in NodeVerdicts \/ (n = "unsupported" /\ q.unread # << >>)
    BY <2>1 DEF q, NodeAnswer
  <2> QED
    BY <2>1, <2>2 DEF q, Verdicts, NodeVerdicts
<1>6. CASE StoreTold(config, q)
  <2>1. PICK reply \in StoreReplies : /\ LastSaid(q) = <<"store", reply>>
                                      /\ q.answer = ReserveStatus(reply)
    BY <1>6 DEF StoreTold, EndsWith
  <2>2. reply = "over"
    BY <2>1, Statuses DEF q, StoreReplies
  <2> QED
    BY <2>1, <2>2 DEF q, Verdicts
<1> QED
  BY <1>2, <1>3, <1>4, <1>5, <1>6

LEMMA CInvRetryable == CInv /\ GatewayInv => RetryableIsUnjudged
<1> SUFFICES ASSUME CInv, GatewayInv, NEW r \in Requests, request[r].answer = "unavailable"
             PROVE  LET q == request[r] IN
                    /\ Range(q.said) \cap Verdicts = {}
                    /\ \/ LastSaid(q) \in {"webhook", "signer"} \X NoDecision
                       \/ LastSaid(q) = <<"store", "error">>
                       \/ /\ LastSaid(q) = <<"node", "transport">>
                          /\ {heard[r][i][1] : i \in DOMAIN heard[r]} = Endpoints
                          /\ OutcomesHeard(heard[r]) \subseteq {"transport", "unsupported"}
  BY DEF RetryableIsUnjudged
<1> DEFINE q == request[r]
           A == Range(Approval(config))
           P == Range(Prelude(config, q.sent))
<1>1. config \in Configs /\ Progress(config, q, result[r])
  BY IdleOrUnderWay, IdleFields DEF CInv
<1>2. \/ WebhookTold(config, q) \/ SignerTold(config, q) \/ NodesTold(config, q, result[r])
      \/ StoreTold(config, q)
  BY <1>1, Transcript
<1>3. A \cap Verdicts = {} /\ P \cap Verdicts = {}
  <2>1. <<"webhook", "approved">> \notin Verdicts /\ <<"signer", "signed">> \notin Verdicts
    BY DEF Verdicts
  <2>2. A \subseteq {<<"webhook", "approved">>}
    BY ApprovalSaid, Zenon
  <2>3. P \subseteq A \cup {<<"signer", "signed">>}
    BY PreludeSaid
  <2> HIDE DEF A, P
  <2> QED
    BY <2>1, <2>2, <2>3
<1> HIDE DEF q, A, P
<1>4. CASE WebhookTold(config, q)
  <2>1. PICK reply \in WebhookReplies : /\ EndsWith(q, {}, <<"webhook", reply>>)
                                        /\ q.answer = Status(HttpVerdict(reply))
    BY <1>4 DEF WebhookTold
  <2>2. reply \in NoDecision
    BY <2>1, Statuses DEF q
  <2>3. <<"webhook", reply>> \notin Verdicts
    BY <2>2 DEF Verdicts, NoDecision
  <2>4. Range(q.said) = {<<"webhook", reply>>} /\ LastSaid(q) = <<"webhook", reply>>
    BY <2>1 DEF EndsWith
  <2>5. Range(q.said) \cap Verdicts = {}
    BY <2>3, <2>4
  <2> QED
    BY <2>2, <2>4, <2>5 DEF q
<1>5. CASE SignerTold(config, q)
  <2>1. PICK reply \in SignerWords :
            /\ EndsWith(q, A, <<"signer", reply>>)
            /\ IF reply = "signed" THEN q.answer = "bad_request" /\ Placeholder(q.sent) = 0
               ELSE q.answer = Status(HttpVerdict(reply))
    BY <1>5 DEF SignerTold, A
  <2>2. reply \in NoDecision
    BY <2>1, Statuses DEF q
  <2>3. <<"signer", reply>> \notin Verdicts
    BY <2>2 DEF Verdicts, NoDecision
  <2> QED
    BY <1>3, <2>1, <2>2, <2>3 DEF q, EndsWith
<1>6. CASE NodesTold(config, q, result[r])
  <2>1. PICK n \in NodeWords : /\ EndsWith(q, P, <<"node", n>>)
                               /\ NodeAnswer(config, q, result[r], n)
    BY <1>6 DEF NodesTold, P
  <2>2. n = "transport" /\ result[r] = "transport"
    BY <2>1 DEF q, NodeAnswer
  <2>3. <<"node", "transport">> \notin Verdicts
    BY DEF Verdicts
  <2>4. r \in Callers
    BY RequestsAssumption
  <2>5. {heard[r][i][1] : i \in DOMAIN heard[r]} = Endpoints
    BY <2>2, <2>4, InvGivesUpOnlyAfterAll, Zenon DEF GivesUpOnlyAfterAll
  <2>6. "declined" \notin OutcomesHeard(heard[r])
    BY <2>2, <2>4, InvDeclineOutranks DEF DeclineOutranks
  <2>7. \A i \in DOMAIN heard[r] : heard[r][i][2] \notin {"ok", "rpc_error"}
    <3>1. VerdictEndsTheSearch /\ result[r] # NoResult
      BY <2>2, InvVerdictEndsTheSearch DEF NoResult
    <3>2. \A i \in 1..(Len(heard[r]) - 1) : heard[r][i][2] \notin {"ok", "rpc_error"}
      BY <2>4, <3>1 DEF VerdictEndsTheSearch
    <3>3. heard[r][Len(heard[r])][2] \notin {"ok", "rpc_error"}
      BY <2>2, <2>4, <3>1, Zenon DEF VerdictEndsTheSearch
    <3>4. heard[r] \in Seq(Endpoints \X Outcomes)
      BY <2>4 DEF GatewayInv, GatewayTypeOK
    <3>5. Len(heard[r]) \in Nat /\ DOMAIN heard[r] = 1..Len(heard[r])
      BY <3>4, SeqLen
    <3>6. \A i \in DOMAIN heard[r] : i = Len(heard[r]) \/ i \in 1..(Len(heard[r]) - 1)
      BY <3>5
    <3> QED
      BY <3>2, <3>3, <3>6
  <2>8. \A i \in DOMAIN heard[r] : heard[r][i][2] \in Outcomes
    <3>1. heard[r] \in Seq(Endpoints \X Outcomes)
      BY <2>4 DEF GatewayInv, GatewayTypeOK
    <3>2. \A i \in DOMAIN heard[r] : heard[r][i] \in Endpoints \X Outcomes
      BY <3>1, SeqLen, SeqElement
    <3> QED
      BY <3>2
  <2>9. OutcomesHeard(heard[r]) \subseteq {"transport", "unsupported"}
    BY <2>6, <2>7, <2>8 DEF OutcomesHeard, Outcomes
  <2> QED
    BY <1>3, <2>1, <2>2, <2>3, <2>5, <2>9 DEF q, EndsWith
<1>7. CASE StoreTold(config, q)
  <2>1. PICK n \in Passing, reply \in StoreReplies :
            /\ EndsWith(q, P \cup {<<"node", n>>}, <<"store", reply>>)
            /\ q.answer = ReserveStatus(reply)
    BY <1>7, Zenon DEF StoreTold, P
  <2>2. reply = "error"
    BY <2>1, Statuses DEF q, StoreReplies
  <2>3. <<"node", n>> \notin Verdicts /\ <<"store", "error">> \notin Verdicts
    BY DEF Verdicts, Passing
  <2> QED
    BY <1>3, <2>1, <2>2, <2>3 DEF q, EndsWith
<1> QED
  BY <1>2, <1>4, <1>5, <1>6, <1>7

\* The words of one party among those of all.
Voice(R, party) == {w \in Words : <<party, w>> \in R}

With(R, by, word) == R \cup {<<by, word>>}

LEMMA OneMoreVoice ==
    ASSUME NEW R, NEW by, NEW word \in Words, NEW S, S = With(R, by, word)
    PROVE  /\ Voice(S, by) = Voice(R, by) \cup {word}
           /\ \A party : party # by => Voice(S, party) = Voice(R, party)
<1>1. \A w : <<by, w>> \in S <=> <<by, w>> \in R \/ w = word
  BY DEF With
<1>2. \A party, w : party # by => (<<party, w>> \in S <=> <<party, w>> \in R)
  BY DEF With
<1> QED
  BY <1>1, <1>2 DEF Voice

LEMMA VoicesBefore ==
    ASSUME NEW c, NEW tx, NEW A, A = Range(Approval(c)), NEW P, P = Range(Prelude(c, tx)),
           SponsoredBy(c, tx)
    PROVE  /\ Voice(A, "webhook") = IF c.webhook THEN {"approved"} ELSE {}
           /\ Voice(A, "signer") = {} /\ Voice(A, "node") = {} /\ Voice(A, "store") = {}
           /\ Voice(P, "webhook") = IF c.webhook THEN {"approved"} ELSE {}
           /\ Voice(P, "signer") = {"signed"}
           /\ Voice(P, "node") = {} /\ Voice(P, "store") = {}
           /\ A \cap Verdicts = {} /\ P \cap Verdicts = {}
<1>1. "approved" \in Words /\ "signed" \in Words
  BY DEF Words, WebhookReplies, SignerWords
<1>2. A = IF c.webhook THEN With({}, "webhook", "approved") ELSE {}
  BY ApprovalSaid DEF With
<1>3. P = With(A, "signer", "signed")
  BY PreludeSaid DEF With
<1>4. \A party : Voice({}, party) = {}
  BY DEF Voice
<1>5. /\ Voice(A, "webhook") = IF c.webhook THEN {"approved"} ELSE {}
      /\ Voice(A, "signer") = {} /\ Voice(A, "node") = {} /\ Voice(A, "store") = {}
  <2>1. CASE c.webhook
    <3>1. A = With({}, "webhook", "approved")
      BY <1>2, <2>1
    <3>2. /\ Voice(A, "webhook") = Voice({}, "webhook") \cup {"approved"}
          /\ \A party : party # "webhook" => Voice(A, party) = Voice({}, party)
      BY <1>1, <3>1, OneMoreVoice
    <3> QED
      BY <1>4, <2>1, <3>2
  <2>2. CASE ~c.webhook
    BY <1>2, <1>4, <2>2
  <2> QED
    BY <2>1, <2>2
<1>6. /\ Voice(P, "signer") = Voice(A, "signer") \cup {"signed"}
      /\ \A party : party # "signer" => Voice(P, party) = Voice(A, party)
  BY <1>1, <1>3, OneMoreVoice
<1>7. <<"webhook", "approved">> \notin Verdicts /\ <<"signer", "signed">> \notin Verdicts
  BY DEF Verdicts
<1>8. A \cap Verdicts = {} /\ P \cap Verdicts = {}
  BY <1>2, <1>3, <1>7 DEF With
<1> QED
  BY <1>5, <1>6, <1>8

\* What SpendOrder asks for of a request of the sponsor, whose words are R.
Committed(c, q, R, atNode) ==
    /\ Voice(R, "signer") # {} =>
          Stateless(c, q.sent) /\ (c.webhook => Voice(R, "webhook") = {"approved"})
    /\ atNode \/ Voice(R, "node") # {} => Voice(R, "signer") = {"signed"} /\ Presentable(c, q)
    /\ Voice(R, "store") # {} =>
          Voice(R, "node") # {} /\ R \cap Verdicts \subseteq {<<"store", "over">>}

LEMMA SponsorCommits ==
    ASSUME NEW c \in Configs, NEW q, NEW res, Progress(c, q, res), SponsoredBy(c, q.sent)
    PROVE  /\ q.said \in Seq(Sayings)
           /\ Committed(c, q, Range(q.said), q.phase \in {"nonce", "simulate"})
<1> DEFINE A == Range(Approval(c))
           P == Range(Prelude(c, q.sent))
           R == Range(q.said)
           asks == q.phase \in {"nonce", "simulate"}
<1>1. /\ Voice(A, "webhook") = IF c.webhook THEN {"approved"} ELSE {}
      /\ Voice(A, "signer") = {} /\ Voice(A, "node") = {} /\ Voice(A, "store") = {}
      /\ Voice(P, "webhook") = IF c.webhook THEN {"approved"} ELSE {}
      /\ Voice(P, "signer") = {"signed"}
      /\ Voice(P, "node") = {} /\ Voice(P, "store") = {}
      /\ A \cap Verdicts = {} /\ P \cap Verdicts = {}
  BY VoicesBefore
<1>2. \A party : Voice({}, party) = {}
  BY DEF Voice
<1>3. Passing \subseteq NodeWords /\ NodeWords \subseteq Words /\ SignerWords \subseteq Words
      /\ WebhookReplies \subseteq Words /\ StoreReplies \subseteq Words
  BY DEF NodeWords, Words
<1> HIDE DEF A, P, R
<1>4. CASE Unspoken(q) /\ ~asks
  <2>1. q.said \in Seq(Sayings) /\ R = {}
    BY <1>4 DEF Unspoken, R
  <2> QED
    BY <1>2, <1>4, <2>1 DEF Committed, R
<1>5. CASE AtSignerTold(c, q)
  <2>1. q.said \in Seq(Sayings) /\ R = A /\ ~asks
    BY <1>5 DEF AtSignerTold, AtSigner, R, A
  <2> QED
    BY <1>1, <2>1 DEF Committed, R
<1>6. CASE AtNodesTold(c, q)
  <2>1. q.said \in Seq(Sayings) /\ R = P /\ Presentable(c, q)
    BY <1>6 DEF AtNodesTold, AtNodes, R, P
  <2>2. Stateless(c, q.sent)
    BY <2>1 DEF Presentable
  <2> QED
    BY <1>1, <2>1, <2>2 DEF Committed, R
<1>7. ASSUME NEW n \in NodeWords, EndsWith(q, P, <<"node", n>>), Presentable(c, q)
      PROVE  q.said \in Seq(Sayings) /\ Committed(c, q, R, asks)
  <2>1. q.said \in Seq(Sayings) /\ R = With(P, "node", n)
    BY <1>7 DEF EndsWith, R, With
  <2>2. Stateless(c, q.sent)
    BY <1>7 DEF Presentable
  <2>3. /\ Voice(R, "node") = Voice(P, "node") \cup {n}
        /\ \A party : party # "node" => Voice(R, party) = Voice(P, party)
    BY <1>3, <2>1, OneMoreVoice
  <2> QED
    BY <1>1, <1>7, <2>1, <2>2, <2>3 DEF Committed
<1>8. CASE WebhookTold(c, q) /\ ~asks
  <2>1. PICK reply \in WebhookReplies : EndsWith(q, {}, <<"webhook", reply>>)
    BY <1>8 DEF WebhookTold
  <2>2. q.said \in Seq(Sayings) /\ R = With({}, "webhook", reply)
    BY <2>1 DEF EndsWith, R, With
  <2>3. /\ Voice(R, "webhook") = Voice({}, "webhook") \cup {reply}
        /\ \A party : party # "webhook" => Voice(R, party) = Voice({}, party)
    BY <1>3, <2>2, OneMoreVoice
  <2>4. Voice(R, "signer") = {} /\ Voice(R, "node") = {} /\ Voice(R, "store") = {}
    BY <1>2, <2>3
  <2> QED
    BY <1>8, <2>2, <2>4 DEF Committed, R
<1>9. CASE SignerTold(c, q) /\ ~asks
  <2>1. PICK reply \in SignerWords : EndsWith(q, A, <<"signer", reply>>) /\ ForSponsor(c, q)
    BY <1>9 DEF SignerTold, A
  <2>2. q.said \in Seq(Sayings) /\ R = With(A, "signer", reply) /\ Stateless(c, q.sent)
    BY <2>1 DEF EndsWith, R, With, ForSponsor
  <2>3. /\ Voice(R, "signer") = Voice(A, "signer") \cup {reply}
        /\ \A party : party # "signer" => Voice(R, party) = Voice(A, party)
    BY <1>3, <2>2, OneMoreVoice
  <2>4. /\ Voice(R, "node") = {} /\ Voice(R, "store") = {}
        /\ c.webhook => Voice(R, "webhook") = {"approved"}
    BY <1>1, <2>3
  <2> QED
    BY <1>9, <2>2, <2>4 DEF Committed, R
<1>10. CASE StoreTold(c, q)
  <2>1. PICK n \in Passing, reply \in StoreReplies :
            /\ EndsWith(q, P \cup {<<"node", n>>}, <<"store", reply>>)
            /\ Presentable(c, q)
    BY <1>10, ZenonT(30) DEF StoreTold, P
  <2> DEFINE B == With(P, "node", n)
  <2>2. q.said \in Seq(Sayings) /\ R = With(B, "store", reply) /\ Stateless(c, q.sent)
    BY <2>1 DEF EndsWith, R, With, Presentable
  <2>3. /\ Voice(B, "node") = Voice(P, "node") \cup {n}
        /\ \A party : party # "node" => Voice(B, party) = Voice(P, party)
    BY <1>3, OneMoreVoice
  <2>4. <<"node", n>> \notin Verdicts
    BY DEF Verdicts, Passing
  <2>5. <<"store", reply>> \in Verdicts => <<"store", reply>> = <<"store", "over">>
    BY DEF Verdicts
  <2>6. R \cap Verdicts \subseteq {<<"store", "over">>}
    BY <1>1, <2>2, <2>4, <2>5 DEF With
  <2> HIDE DEF B
  <2>7. /\ Voice(R, "store") = Voice(B, "store") \cup {reply}
        /\ \A party : party # "store" => Voice(R, party) = Voice(B, party)
    BY <1>3, <2>2, OneMoreVoice
  <2>8. /\ Voice(R, "signer") = {"signed"} /\ Voice(R, "node") # {}
        /\ c.webhook => Voice(R, "webhook") = {"approved"}
    BY <1>1, <2>3, <2>7
  <2> QED
    BY <2>1, <2>2, <2>6, <2>8 DEF Committed, R
<1>11. CASE AtStoreTold(c, q)
  <2>1. PICK n \in Passing : EndsWith(q, P, <<"node", n>>)
    BY <1>11 DEF AtStoreTold, P
  <2>2. Presentable(c, q)
    BY <1>11 DEF AtStoreTold, AtStore
  <2> QED
    BY <1>3, <1>7, <2>1, <2>2 DEF R
<1>12. CASE NodesTold(c, q, res)
  <2>1. PICK n \in NodeWords : EndsWith(q, P, <<"node", n>>) /\ Presentable(c, q)
    BY <1>12 DEF NodesTold, P
  <2> QED
    BY <1>7, <2>1 DEF R
<1> QED
  <2>1. AtWebhook(c, q) => ~asks
    BY DEF AtWebhook
  <2> QED
    BY <1>4, <1>5, <1>6, <1>8, <1>9, <1>10, <1>11, <1>12, <2>1, Transcript

\* A request that is accepted, by the nodes or by the store.
LEMMA NodeSpoke ==
    ASSUME NEW q, NEW n, <<"node", n>> \in Range(q.said)
    PROVE  Said(q, "node") # {}
<1>1. PICK i \in DOMAIN q.said : q.said[i] = <<"node", n>>
  BY DEF Range
<1>2. i \in {j \in DOMAIN q.said : q.said[j][1] = "node"}
  BY <1>1
<1> QED
  BY <1>2 DEF Said

LEMMA Accepted ==
    ASSUME CInv, NEW r \in Requests, request[r].answer = "accepted"
    PROVE  LET q == request[r] IN
           /\ up /\ config \in Configs /\ q.sent \in Submissions /\ q.sent \in Transactions
           /\ Valid(config, q.sent) /\ Presentable(config, q)
           /\ Said(q, "node") # {}
           /\ SponsoredBy(config, q.sent) =>
                config.store = {} \/ Said(q, "store") = {"reserved"}
<1> DEFINE q == request[r]
           P == Range(Prelude(config, q.sent))
<1>1. config \in Configs /\ Progress(config, q, result[r]) /\ q.sent \in Submissions /\ up
  BY IdleOrUnderWay, IdleFields DEF CInv, RequestInv, Progress
<1>2. q.sent \in Transactions
  BY <1>1, SubmissionsAssumption
<1>3. NodesTold(config, q, result[r]) \/ StoreTold(config, q)
  BY <1>1, Transcript, Statuses, ZenonT(30) DEF WebhookTold, SignerTold
<1> HIDE DEF q, P
<1>4. CASE NodesTold(config, q, result[r])
  <2>1. Valid(config, q.sent) /\ Presentable(config, q)
    BY <1>4 DEF NodesTold
  <2>2. ~(SponsoredBy(config, q.sent) /\ config.store # {})
    BY <1>4 DEF NodesTold, NodeAnswer, q
  <2>3. PICK n \in NodeWords : EndsWith(q, P, <<"node", n>>)
    BY <1>4 DEF NodesTold, P
  <2>4. <<"node", n>> \in Range(q.said)
    BY <2>3 DEF EndsWith
  <2>5. Said(q, "node") # {}
    BY <2>4, NodeSpoke
  <2> QED
    BY <1>1, <1>2, <2>1, <2>2, <2>5 DEF q
<1>5. CASE StoreTold(config, q)
  <2>1. PICK n \in Passing, reply \in StoreReplies :
            /\ Valid(config, q.sent) /\ ForSponsor(config, q) /\ Presentable(config, q)
            /\ EndsWith(q, P \cup {<<"node", n>>}, <<"store", reply>>)
            /\ q.answer = ReserveStatus(reply)
    BY <1>5 DEF StoreTold, P
  <2>2. reply = "reserved"
    BY <2>1, Statuses DEF q, StoreReplies
  <2>3. n \in Words /\ reply \in Words
    BY DEF Words, NodeWords
  <2> DEFINE B == With(P, "node", n)
  <2>4. q.said \in Seq(Sayings) /\ Range(q.said) = With(B, "store", reply)
    BY <2>1 DEF EndsWith, With
  <2>5. Voice(B, "store") = Voice(P, "store")
    BY <2>3, OneMoreVoice
  <2> HIDE DEF B
  <2>6. Voice(Range(q.said), "store") = Voice(B, "store") \cup {reply}
    BY <2>3, <2>4, OneMoreVoice
  <2>7. Voice(P, "store") = {}
    BY <2>1, VoicesBefore DEF P, ForSponsor
  <2>8. Said(q, "store") = Voice(Range(q.said), "store")
    BY <2>4, SaidByParty DEF Voice
  <2>9. Said(q, "store") = {"reserved"}
    BY <2>2, <2>5, <2>6, <2>7, <2>8
  <2>10. <<"node", n>> \in Range(q.said)
    BY <2>1 DEF EndsWith
  <2>11. Said(q, "node") # {}
    BY <2>10, NodeSpoke
  <2> QED
    BY <1>1, <1>2, <2>1, <2>9, <2>11 DEF q
<1> QED
  BY <1>3, <1>4, <1>5

LEMMA CInvSpendOrder == CInv => SpendOrder
<1> SUFFICES ASSUME CInv, NEW r \in Requests, request[r].phase # "idle"
             PROVE  LET q      == request[r]
                        atNode == op[r] # "none" \/ Said(q, "node") # {}
                    IN
                    IF Sponsored(q.sent)
                    THEN /\ Said(q, "signer") # {} =>
                              /\ CheckStateless(q.sent)
                              /\ config.webhook => Said(q, "webhook") = {"approved"}
                         /\ atNode => /\ Said(q, "signer") = {"signed"}
                                      /\ "sponsor" \in {s.content : s \in Range(q.tx.sigs)}
                         /\ Said(q, "store") # {} =>
                              /\ Said(q, "node") # {}
                              /\ Range(q.said) \cap Verdicts \subseteq {<<"store", "over">>}
                    ELSE \A i \in DOMAIN q.said : q.said[i][1] = "node"
  BY DEF SpendOrder
<1> DEFINE q == request[r]
           R == Range(q.said)
<1>1. config \in Configs /\ Progress(config, q, result[r]) /\ q.sent \in Submissions
  BY IdleOrUnderWay, IdleFields DEF CInv, Progress
<1>2. op[r] # "none" => q.phase \in {"nonce", "simulate"}
  BY DEF CInv, RequestInv, CallOK
<1>3. CASE Sponsored(q.sent)
  <2>1. SponsoredBy(config, q.sent)
    BY <1>3, ByConfig
  <2>2. q.said \in Seq(Sayings) /\ Committed(config, q, R, q.phase \in {"nonce", "simulate"})
    BY <1>1, <2>1, SponsorCommits
  <2>3. \A party : Said(q, party) = Voice(R, party)
    BY <2>2, SaidByParty DEF Voice
  <2>4. Presentable(config, q) => "sponsor" \in {s.content : s \in Range(q.tx.sigs)}
    <3> SUFFICES ASSUME Presentable(config, q)
                 PROVE  "sponsor" \in {s.content : s \in Range(q.tx.sigs)}
      OBVIOUS
    <3>1. Placeholder(q.sent) # 0 /\ q.tx = Filled(q.sent) /\ q.sent \in Transactions
      BY <1>1, <2>1, SubmissionsAssumption DEF Presentable
    <3> DEFINE i == Placeholder(q.sent)
    <3>2. OnlyFilled(q.sent, q.tx, i)
      BY <3>1, FilledEntry
    <3> HIDE DEF i
    <3>3. q.tx.sigs[i] \in Range(q.tx.sigs)
      BY <3>2, Zenon DEF OnlyFilled, Range
    <3> QED
      BY <3>2, <3>3, Zenon DEF OnlyFilled
  <2>5. CheckStateless(q.sent) <=> Stateless(config, q.sent)
    BY ByConfig
  <2> HIDE DEF q
  <2> QED
    BY <1>2, <1>3, <2>2, <2>3, <2>4, <2>5 DEF q, Committed
<1>4. CASE ~Sponsored(q.sent)
  <2>1. ~SponsoredBy(config, q.sent)
    BY <1>4, ByConfig
  <2>2. Range(Prelude(config, q.sent)) = {}
    BY <2>1, PreludeSaid
  <2>3. R = {} \/ \E n : R = {<<"node", n>>}
    <3>1. \/ Unspoken(q) \/ AtNodesTold(config, q) \/ NodesTold(config, q, result[r])
      BY <1>1, <2>1, Transcript, Zenon
         DEF AtSignerTold, AtSigner, AtStoreTold, AtStore, WebhookTold, SignerTold, StoreTold,
             ForSponsor
    <3>2. CASE Unspoken(q) \/ AtNodesTold(config, q)
      BY <2>2, <3>2 DEF Unspoken, AtNodesTold
    <3>3. CASE NodesTold(config, q, result[r])
      <4>1. PICK n \in NodeWords : EndsWith(q, Range(Prelude(config, q.sent)), <<"node", n>>)
        BY <3>3 DEF NodesTold
      <4>2. R = {} \cup {<<"node", n>>}
        BY <2>2, <4>1 DEF EndsWith
      <4> QED
        BY <4>2
    <3> QED
      BY <3>1, <3>2, <3>3, Zenon
  <2>4. \A i \in DOMAIN q.said : q.said[i] \in R
    BY DEF Range
  <2>5. \A x \in R : x[1] = "node"
    BY <2>3
  <2> QED
    BY <1>4, <2>4, <2>5
<1> QED
  BY <1>3, <1>4

\* The nodes had their say, so the sponsor signed, so guards and webhook agreed.
LEMMA CInvGuards == CInv => GuardsAreApplied
<1> SUFFICES ASSUME CInv, NEW r \in Requests, request[r].answer = "accepted",
                    Sponsored(request[r].sent)
             PROVE  LET q == request[r] IN
                    /\ config.allowlist # None => Bytes(q.tx.sender) \in config.allowlist
                    /\ config.ceiling # None => MaxCost(q.sent) <= config.ceiling
                    /\ config.webhook => Said(q, "webhook") = {"approved"}
                    /\ config.store # {} => Said(q, "store") = {"reserved"}
  BY Zenon DEF GuardsAreApplied
<1> DEFINE q == request[r]
           tx == q.sent
<1>1. SponsoredBy(config, tx)
  BY ByConfig DEF SponsoredBy, ResolvePayer
<1>2. /\ tx \in Transactions /\ Presentable(config, q) /\ Said(q, "node") # {}
      /\ config.store # {} => Said(q, "store") = {"reserved"}
  BY <1>1, Accepted
<1>3. Stateless(config, tx) /\ Placeholder(tx) # 0 /\ q.tx = Filled(tx)
  BY <1>1, <1>2 DEF Presentable
<1>4. q.tx.sender = tx.sender
  <2>1. OnlyFilled(tx, q.tx, Placeholder(tx))
    BY <1>2, <1>3, FilledEntry
  <2> QED
    BY <2>1, ZenonT(30) DEF OnlyFilled
<1>5. q.phase # "idle"
  BY IdleOrUnderWay, IdleFields
<1>6. config.webhook => Said(q, "webhook") = {"approved"}
  <2>1. Said(q, "signer") = {"signed"}
    BY <1>2, <1>5, CInvSpendOrder, Zenon DEF SpendOrder
  <2> QED
    BY <2>1, <1>5, CInvSpendOrder, Zenon DEF SpendOrder
<1> QED
  BY <1>2, <1>3, <1>4, <1>6 DEF Stateless

LEMMA CInvCeiling == CInv => CeilingHolds
<1> SUFFICES ASSUME CInv, NEW r \in Requests, request[r].answer = "accepted",
                    Sponsored(request[r].sent), config.ceiling # None,
                    config.ceiling < request[r].tx.fee * MaxU64
             PROVE  LET q == request[r] IN
                    ExactCost(q.tx) <= config.ceiling + q.tx.fee * SignatureLength
  BY Zenon DEF CeilingHolds
<1> DEFINE q == request[r]
           tx == q.sent
<1>1. SponsoredBy(config, tx)
  BY ByConfig DEF SponsoredBy, ResolvePayer
<1>2. config \in Configs /\ tx \in Transactions /\ Valid(config, tx) /\ Presentable(config, q)
  BY Accepted
<1>3. Stateless(config, tx) /\ Placeholder(tx) # 0 /\ q.tx = Filled(tx)
  BY <1>1, <1>2 DEF Presentable
<1>4. MaxCost(tx) <= config.ceiling
  BY <1>3 DEF Stateless
<1>5. q.tx.fee = tx.fee
  <2>1. OnlyFilled(tx, q.tx, Placeholder(tx))
    BY <1>2, <1>3, FilledEntry
  <2> QED
    BY <2>1, Zenon DEF OnlyFilled
<1>6. ValidateStructure(tx)
  BY <1>2 DEF Valid
<1>7. config.ceiling \in Nat
  BY <1>2, ConfigsAssumption
<1>8. config.ceiling < tx.fee * MaxU64
  BY <1>5
<1>9. ExactCost(Filled(tx)) <= config.ceiling + tx.fee * SignatureLength
  <2> HIDE DEF q, tx
  <2> QED
    BY <1>2, <1>3, <1>4, <1>6, <1>7, <1>8, CeilingIsExact
<1> QED
  BY <1>3, <1>5, <1>9

LEMMA CInvAgreed == CInv => AcceptedAsAgreed
<1> SUFFICES ASSUME CInv, NEW r \in Requests, request[r].answer = "accepted"
             PROVE  LET q == request[r] IN
                    /\ q.sent.declared = PayerByRole(q.sent, Sponsoring)
                    /\ IF q.sent.declared = "sponsor"
                       THEN \E i \in DOMAIN q.tx.sigs :
                               /\ q.tx.sigs[i].signer = SponsorAddress
                               /\ q.tx.sigs[i].content = "sponsor"
                               /\ [q.tx EXCEPT !.sigs[i] = q.sent.sigs[i]] = q.sent
                               /\ q.tx.sigs[i].msg = "" => q.hash = ComputeSigHash(q.tx)
                       ELSE q.tx = q.sent
  BY Zenon DEF AcceptedAsAgreed
<1> DEFINE q == request[r]
           tx == q.sent
<1>1. /\ tx \in Submissions /\ tx \in Transactions
      /\ Valid(config, tx) /\ Presentable(config, q)
  BY Accepted
<1>2. tx.declared = ResolvePayer(tx, Sponsoring) /\ ValidateStructure(tx)
  BY <1>1 DEF Valid, CheckDeclaredIntent, Sponsoring
<1>3. tx.declared = PayerByRole(tx, Sponsoring)
  BY <1>1, <1>2, PayerIsByRole
<1>4. SponsoredBy(config, tx) <=> tx.declared = "sponsor"
  BY <1>2 DEF SponsoredBy, Sponsoring
<1>5. CASE tx.declared = "sponsor"
  <2> DEFINE i == Placeholder(tx)
  <2>1. Placeholder(tx) # 0 /\ q.tx = Filled(tx) /\ q.hash = ComputeSigHash(tx)
    BY <1>1, <1>4, <1>5 DEF Presentable
  <2>2. OnlyFilled(tx, q.tx, i)
    BY <1>1, <2>1, FilledEntry
  <2> HIDE DEF i
  <2> QED
    BY <1>3, <1>5, <2>1, <2>2, ZenonT(30) DEF OnlyFilled
<1>6. CASE tx.declared # "sponsor"
  <2>1. q.tx = tx
    BY <1>1, <1>4, <1>6 DEF Presentable
  <2> QED
    BY <1>3, <1>6, <2>1
<1> QED
  BY <1>5, <1>6, Zenon

-----------------------------------------------------------------------------
(* The results                                                             *)

\* The gateway's state is Failover's, a request has an answer exactly when
\* handle_transaction is through with it, and only one that reads nonces or
\* simulates has a call under way.
THEOREM CompileTypes == Spec => []TypeOK
BY CompileInvariant, CInvTypes, PTL

\* A 400 is answered before anybody is asked or because of what the one asked
\* last found, but for the cases RejectedIsJudged names (api/src/main.rs
\* 485-489), however many requests and endpoints there are.
THEOREM RejectionsAreJudged == Spec => []RejectedIsJudged
BY CompileInvariant, CInvRejected, PTL

\* A 503 means that nobody said a thing against the transaction, and if the
\* nodes failed that all of them did in that call: the invariant of the
\* pipeline together with that of the gateway.
THEOREM RetriesAreUnjudged == Spec => []RetryableIsUnjudged
BY CompileInvariant, CInvRetryable, PTL

\* The sponsor commits itself in order: guards, webhook, signature, nodes and
\* only then the reservation (compiler/src/lib.rs 809-812 and 241-248), under
\* every configuration.
THEOREM SponsorCommitsInOrder == Spec => []SpendOrder
BY CompileInvariant, CInvSpendOrder, PTL

\* No path to acceptance leads around a configured guard of the sponsor, be it
\* the allowlist, the ceiling, the webhook or the policy store (policy.rs
\* 253-265, 309-339), for every configuration and whatever the nodes answer.
THEOREM NoGuardIsBypassed == Spec => []GuardsAreApplied
BY CompileInvariant, CInvGuards, PTL

\* The ceiling of one transaction (policy.rs 243-244), which is checked before
\* the sponsor signs and on sums that saturate, bounds the engine's estimate of
\* what is queued, computed exactly, up to the gas of the sponsor's signature,
\* whatever the submission.  What the node reserves may be more (domain.rs
\* 485-501).
THEOREM CeilingBoundsTheCost == Spec => []CeilingHolds
BY CompileInvariant, CInvCeiling, PTL

\* What is accepted is what was agreed: the declared payer is the one of the
\* shape, the sponsor's signature is in its entry and over the hash of the final
\* transaction, and nothing else changed.
THEOREM AcceptedIsAgreed == Spec => []AcceptedAsAgreed
BY CompileInvariant, CInvAgreed, PTL

\* validate_structure accepts exactly the shapes of EIP-8141 and pay_frame finds
\* their payer, targets compared by their text as in the code, for every
\* transaction that is in order but for its frames, however many frames it has
\* (AgreesOnShapes).
THEOREM ValidationAgreesWithShapes == Spec => []ShapesAgree
<1>1. ShapesAgree
  BY ProbesAssumption, AgreesOnShapes DEF ShapesAgree
<1> QED
  BY <1>1, PTL

=============================================================================
