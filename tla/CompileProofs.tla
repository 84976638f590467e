--------------------------- MODULE CompileProofs ---------------------------
(***************************************************************************)
(* Proofs about Failover and Compile, for any requests, transactions,      *)
(* configurations and endpoints.                                           *)
(*                                                                         *)
(* First the gateway by itself.  A call walks once around the list of      *)
(* endpoints from where it started, however `current' moves meanwhile:     *)
(* what it heard and what it has yet to ask make up one rotation.  That is *)
(* not in the properties, and they are not inductive without it.           *)
(*                                                                         *)
(* Then, the API and the broadcaster together use the gateway as Failover  *)
(* says it is used, so what holds of it holds of the composition.  Last,   *)
(* the inductive invariant: what each phase of a request says of the       *)
(* transaction it carries and of what it was told.                         *)
(***************************************************************************)
EXTENDS Compile, TLAPS

\* Zenon first, which is quick on the many leaves without arithmetic.
USE ZenonT(8), SMTT(30)

-----------------------------------------------------------------------------
(* Sequences                                                               *)

LEMMA SeqLen ==
    ASSUME NEW S, NEW s \in Seq(S)
    PROVE  Len(s) \in Nat /\ DOMAIN s = 1..Len(s) /\ s \in [1..Len(s) -> S]
OBVIOUS

LEMMA SeqElement == ASSUME NEW S, NEW s \in Seq(S), NEW n \in 1..Len(s) PROVE s[n] \in S
OBVIOUS

LEMMA SeqOfFunctions == \A S : Seq(S) = UNION {[1..n -> S] : n \in Nat}
OBVIOUS

LEMMA SeqEmpty ==
    ASSUME NEW S
    PROVE  << >> \in Seq(S) /\ Len(<< >>) = 0 /\ \A s \in Seq(S) : s # << >> => Len(s) # 0
OBVIOUS

LEMMA SeqAppend ==
    ASSUME NEW S, NEW s \in Seq(S), NEW x \in S
    PROVE  LET t == Append(s, x) IN
           /\ t \in Seq(S) /\ t # << >> /\ Len(t) = Len(s) + 1
           /\ t[Len(s) + 1] = x /\ \A i \in 1..Len(s) : t[i] = s[i]
OBVIOUS

LEMMA SeqTail ==
    ASSUME NEW S, NEW s \in Seq(S), s # << >>
    PROVE  /\ Head(s) \in S /\ Tail(s) \in Seq(S) /\ Len(Tail(s)) = Len(s) - 1
           /\ \A i \in 1..Len(Tail(s)) : Tail(s)[i] = s[i + 1]
OBVIOUS

-----------------------------------------------------------------------------
(* The gateway                                                             *)

\* Below twice the number of endpoints, % takes it away once or not at all.
LEMMA ModWraps ==
    ASSUME NEW N \in Nat \ {0}, NEW a \in Nat, a < 2 * N
    PROVE  a % N = IF a < N THEN a ELSE a - N
<1>1. CASE a < N
  BY <1>1
<1>2. CASE a >= N
  <2>1. a - N \in 0..(N - 1)
    BY <1>2
  <2>2. a = N * 1 + (a - N)
    OBVIOUS
  <2> QED  BY <2>1, <2>2, <1>2
<1> QED  BY <1>1, <1>2


-----------------------------------------------------------------------------
(* The rotation                                                            *)

\* The k-th endpoint of a call that starts at s.
Rotation(s, k) == (s + k - 1) % NumEndpoints

\* It is counted on from s and starts over at the end of the list.
LEMMA RotationValue ==
    ASSUME NEW s \in Endpoints, NEW k \in 1..NumEndpoints
    PROVE  Rotation(s, k) = IF s + k - 1 < NumEndpoints THEN s + k - 1
                                                        ELSE s + k - 1 - NumEndpoints
<1>1. NumEndpoints \in Nat \ {0}
  BY EndpointsAssumption
<1>2. s \in Nat /\ s < NumEndpoints /\ k \in Nat /\ 1 <= k /\ k <= NumEndpoints
  BY <1>1 DEF Endpoints
<1> DEFINE a == s + k - 1
<1>3. a \in Nat /\ a < 2 * NumEndpoints
  BY <1>1, <1>2
<1> HIDE DEF a
<1>4. a % NumEndpoints = IF a < NumEndpoints THEN a ELSE a - NumEndpoints
  BY <1>1, <1>3, ModWraps, Zenon
<1> QED
  BY <1>1, <1>2, <1>4 DEF Rotation, a

\* A call asks no endpoint twice (order of failover.rs).
LEMMA RotationInjective ==
    ASSUME NEW s \in Endpoints, NEW i \in 1..NumEndpoints, NEW j \in 1..NumEndpoints,
           Rotation(s, i) = Rotation(s, j)
    PROVE  i = j
<1>1. /\ NumEndpoints \in Nat \ {0}
      /\ s \in Nat /\ s < NumEndpoints
      /\ i \in Nat /\ 1 <= i /\ i <= NumEndpoints
      /\ j \in Nat /\ 1 <= j /\ j <= NumEndpoints
  BY EndpointsAssumption DEF Endpoints
<1> DEFINE at(k) == IF s + k - 1 < NumEndpoints THEN s + k - 1 ELSE s + k - 1 - NumEndpoints
<1>2. Rotation(s, i) = at(i) /\ Rotation(s, j) = at(j)
  BY RotationValue
<1>3. at(i) = at(j)
  BY <1>2, Zenon
<1> QED
  BY <1>1, <1>3

\* A call that goes all the way round asks every endpoint, and none that is
\* not in the list.
LEMMA RotationCovers ==
    ASSUME NEW s \in Endpoints
    PROVE  /\ \A k \in 1..NumEndpoints : Rotation(s, k) \in Endpoints
           /\ \A e \in Endpoints : \E k \in 1..NumEndpoints : Rotation(s, k) = e
<1>1. NumEndpoints \in Nat \ {0} /\ s \in 0..(NumEndpoints - 1)
  BY EndpointsAssumption DEF Endpoints
<1>2. ASSUME NEW k \in 1..NumEndpoints
      PROVE  Rotation(s, k) \in Endpoints
  BY <1>1, RotationValue DEF Endpoints
<1>3. ASSUME NEW e \in Endpoints
      PROVE  \E k \in 1..NumEndpoints : Rotation(s, k) = e
  <2>1. e \in 0..(NumEndpoints - 1)
    BY DEF Endpoints
  <2> DEFINE k == IF e >= s THEN e - s + 1 ELSE e - s + 1 + NumEndpoints
  <2>2. k \in 1..NumEndpoints
    BY <1>1, <2>1
  <2>3. Rotation(s, k) = IF s + k - 1 < NumEndpoints THEN s + k - 1
                                                     ELSE s + k - 1 - NumEndpoints
    BY <2>2, RotationValue
  <2>4. Rotation(s, k) = e
    BY <1>1, <2>1, <2>3
  <2> QED
    BY <2>2, <2>4
<1> QED
  BY <1>2, <1>3

-----------------------------------------------------------------------------
(* The inductive invariant                                                 *)

\* The call of c is on its way round from s: it heard the first endpoints of
\* the rotation and, while it goes on, has the others before it.
Walks(c, s) ==
    /\ \A i \in 1..Len(heard[c]) : heard[c][i][1] = Rotation(s, i)
    /\ op[c] # "none" =>
         /\ Len(order[c]) = NumEndpoints - Len(heard[c])
         /\ \A j \in 1..Len(order[c]) : order[c][j] = Rotation(s, Len(heard[c]) + j)

\* What a call that has returned makes of what it heard.
Returned(c) ==
    LET n == Len(heard[c]) IN
    /\ op[c] = "none"
    /\ n >= 1
    /\ \A i \in 1..(n - 1) : NonAnswer(heard[c][i][2])
    /\ IF NonAnswer(heard[c][n][2])
       THEN n = NumEndpoints /\ result[c] = Exhausted(heard[c])
       ELSE result[c] = heard[c][n][2]

\* A call under way, or before the first: nobody has answered it yet.
Unanswered(c) ==
    /\ result[c] = NoResult
    /\ \A i \in 1..Len(heard[c]) : NonAnswer(heard[c][i][2])
    /\ op[c] # "none" => Len(order[c]) >= 1

CallInv(c) ==
    /\ Len(heard[c]) <= NumEndpoints
    /\ \E s \in Endpoints : Walks(c, s)
    /\ Returned(c) \/ Unanswered(c)

GatewayInv == GatewayTypeOK /\ \A c \in Callers : CallInv(c)

\* What is one on from the head of the rest is two on from the head.
LEMMA SumShifts == \A a, b \in Nat : a + (b + 1) = a + 1 + b
OBVIOUS

\* An endpoint fewer to ask is an endpoint more that was heard.
LEMMA DifferenceShifts == \A a, b \in Nat : (a - b) - 1 = a - (b + 1)
OBVIOUS

\* Another caller's step leaves the call of c alone, but for `current'.
LEMMA CallFrame ==
    ASSUME NEW c \in Callers, CallInv(c),
           op'[c] = op[c], order'[c] = order[c], heard'[c] = heard[c], result'[c] = result[c]
    PROVE  CallInv(c)'
BY DEF CallInv, Walks, Returned, Unanswered

\* The order of a new call is the rotation from `current'.
LEMMA OrderIsRotation ==
    ASSUME current \in Endpoints
    PROVE  /\ Order \in Seq(Endpoints)
           /\ Len(Order) = NumEndpoints
           /\ \A i \in 1..NumEndpoints : Order[i] = Rotation(current, i)
<1>1. NumEndpoints \in Nat
  BY EndpointsAssumption
<1>2. Order = [i \in 1..NumEndpoints |-> Rotation(current, i)]
  BY DEF Order, Rotation
<1>3. Order \in [1..NumEndpoints -> Endpoints]
  BY <1>2, RotationCovers
<1>4. Order \in Seq(Endpoints)
  BY <1>1, <1>3, SeqOfFunctions
<1>5. Len(Order) = NumEndpoints
  BY <1>1, <1>3, <1>4, SeqLen
<1> QED
  BY <1>2, <1>4, <1>5, Zenon

\* A call starts from `current'.
LEMMA CallStep ==
    ASSUME GatewayInv, NEW c \in Callers, NEW o \in Operations, Call(c, o)
    PROVE  GatewayInv'
<1>1. GatewayTypeOK /\ \A d \in Callers : CallInv(d)
  BY DEF GatewayInv
<1>2. current \in Endpoints /\ current' = current
  BY <1>1 DEF GatewayTypeOK, Call
<1>3. /\ op'[c] = o /\ order'[c] = Order /\ heard'[c] = << >> /\ result'[c] = NoResult
      /\ \A d \in Callers \ {c} : /\ op'[d] = op[d] /\ order'[d] = order[d]
                                  /\ heard'[d] = heard[d] /\ result'[d] = result[d]
  BY <1>1 DEF Call, GatewayTypeOK
<1>4. GatewayTypeOK'
  BY <1>1, <1>2, OrderIsRotation, SeqEmpty DEF GatewayTypeOK, Call
<1>5. CallInv(c)'
  <2>1. Len(heard'[c]) = 0
    BY <1>3, SeqEmpty
  <2>2. NumEndpoints \in Nat /\ NumEndpoints >= 1
    BY EndpointsAssumption
  <2>3. Walks(c, current)'
    BY <1>2, <1>3, <2>1, <2>2, OrderIsRotation DEF Walks, Rotation
  <2>4. Unanswered(c)'
    BY <1>2, <1>3, <2>1, <2>2, OrderIsRotation DEF Unanswered
  <2> QED
    BY <1>2, <2>1, <2>2, <2>3, <2>4 DEF CallInv
<1>6. \A d \in Callers \ {c} : CallInv(d)'
  BY <1>1, <1>3, CallFrame
<1> QED
  BY <1>4, <1>5, <1>6 DEF GatewayInv

\* What an endpoint's answer comes to is one of the outcomes.
LEMMA ClassifyType ==
    ASSUME NEW reply
    PROVE  Classify(reply) \in Outcomes
BY DEF Classify, Outcomes

\* A call that gives up returns an outcome.
LEMMA ExhaustedType ==
    ASSUME NEW h \in Seq(Endpoints \X Outcomes), Len(h) >= 1
    PROVE  Exhausted(h) \in Outcomes
<1>1. Len(h) \in 1..Len(h)
  BY SeqLen
<1>2. h[Len(h)] \in Endpoints \X Outcomes
  BY <1>1, SeqElement
<1> QED
  BY <1>2 DEF Exhausted, Outcomes

\* An endpoint answers a call: it moves one on in its rotation, or returns.
LEMMA AnswerStep ==
    ASSUME GatewayInv, NEW c \in Callers, NEW reply, Answer(c, reply)
    PROVE  GatewayInv'
<1> DEFINE e       == Head(order[c])
           outcome == Classify(reply)
           h       == Append(heard[c], <<e, outcome>>)
           rest    == Tail(order[c])
           n       == Len(heard[c])
<1>1. GatewayTypeOK /\ \A d \in Callers : CallInv(d)
  BY DEF GatewayInv
<1>2. /\ op[c] # "none"
      /\ order[c] \in Seq(Endpoints) /\ heard[c] \in Seq(Endpoints \X Outcomes)
      /\ current \in Endpoints
      /\ n \in Nat /\ NumEndpoints \in Nat /\ Len(order[c]) \in Nat
  BY <1>1, EndpointsAssumption, SeqLen DEF Answer, GatewayTypeOK
<1>3. Unanswered(c) /\ order[c] # << >>
  <2>1. Unanswered(c)
    BY <1>1, <1>2 DEF CallInv, Returned
  <2> QED
    BY <1>2, <2>1, SeqEmpty DEF Unanswered
<1>4. PICK s \in Endpoints : Walks(c, s)
  BY <1>1 DEF CallInv
<1>5. /\ e \in Endpoints /\ e = order[c][1]
      /\ rest \in Seq(Endpoints) /\ Len(rest) = Len(order[c]) - 1
      /\ \A i \in 1..Len(rest) : rest[i] = order[c][i + 1]
  BY <1>2, <1>3, SeqTail
<1>6. outcome \in Outcomes
  BY ClassifyType
<1>7. /\ h \in Seq(Endpoints \X Outcomes) /\ Len(h) = n + 1
      /\ \A i \in 1..n : h[i] = heard[c][i]
      /\ h[n + 1] = <<e, outcome>>
  BY <1>2, <1>5, <1>6, SeqAppend
<1> HIDE DEF e, outcome, h, rest
<1>8. /\ Len(order[c]) = NumEndpoints - n /\ Len(order[c]) >= 1
      /\ e = Rotation(s, n + 1)
      /\ \A i \in 1..Len(rest) : rest[i] = Rotation(s, n + 1 + i)
  <2>1. Len(order[c]) = NumEndpoints - n /\ Len(order[c]) >= 1
    BY <1>2, <1>3, <1>4, Zenon DEF Walks, Unanswered
  <2>2. \A j \in 1..Len(order[c]) : order[c][j] = Rotation(s, n + j)
    BY <1>2, <1>4 DEF Walks
  <2>3. ASSUME NEW i \in 1..Len(rest)
        PROVE  rest[i] = Rotation(s, n + 1 + i)
    <3>1. i \in Nat /\ 1 <= i /\ i <= Len(order[c]) - 1
      BY <1>2, <1>5
    <3>2. i + 1 \in 1..Len(order[c])
      BY <1>2, <3>1
    <3>3. order[c][i + 1] = Rotation(s, n + (i + 1))
      BY <2>2, <3>2, Zenon
    <3>4. n + (i + 1) = n + 1 + i
      BY <1>2, <3>1, SumShifts, Zenon
    <3> QED
      BY <1>5, <3>3, <3>4, Zenon
  <2>4. e = Rotation(s, n + 1)
    BY <1>2, <1>5, <2>1, <2>2
  <2> QED
    BY <2>1, <2>3, <2>4
<1>9. \A i \in 1..(n + 1) : h[i][1] = Rotation(s, i)
  <2>1. \A i \in 1..n : h[i][1] = Rotation(s, i)
    BY <1>4, <1>7 DEF Walks
  <2> QED
    BY <1>2, <1>7, <1>8, <2>1
<1>10. \A i \in 1..n : NonAnswer(h[i][2])
  BY <1>3, <1>7 DEF Unanswered
<1>11. h[n + 1][2] = outcome
  BY <1>7
<1>12. /\ heard'[c] = h /\ current' \in Endpoints
       /\ \A d \in Callers \ {c} : /\ op'[d] = op[d] /\ order'[d] = order[d]
                                   /\ heard'[d] = heard[d] /\ result'[d] = result[d]
  BY <1>1, <1>2, <1>5 DEF Answer, GatewayTypeOK, StoreCurrent, e, outcome, h
<1>13. Exhausted(h) \in Outcomes
  BY <1>2, <1>7, ExhaustedType
<1>14. GatewayTypeOK' /\ CallInv(c)'
  <2>1. CASE /\ NonAnswer(outcome) /\ rest # << >>
             /\ order' = [order EXCEPT ![c] = rest] /\ UNCHANGED <<op, result>>
    <3>1. GatewayTypeOK'
      BY <1>1, <1>5, <1>7, <1>12, <2>1 DEF GatewayTypeOK, Answer, e, outcome, h
    <3>2. order'[c] = rest /\ op'[c] = op[c] /\ result'[c] = NoResult /\ Len(rest) >= 1
      BY <1>1, <1>3, <1>5, <2>1, SeqEmpty DEF GatewayTypeOK, Unanswered
    <3>3. Walks(c, s)'
      <4>1. Len(heard'[c]) = n + 1 /\ Len(order'[c]) = NumEndpoints - (n + 1)
        <5>1. Len(heard'[c]) = n + 1
          BY <1>7, <1>12
        <5>2. Len(order'[c]) = Len(order[c]) - 1
          BY <1>5, <3>2
        <5>3. (NumEndpoints - n) - 1 = NumEndpoints - (n + 1)
          BY <1>2, DifferenceShifts
        <5> QED
          BY <1>8, <5>1, <5>2, <5>3
      <4>2. \A i \in 1..Len(heard'[c]) : heard'[c][i][1] = Rotation(s, i)
        BY <1>9, <1>12, <4>1
      <4>3. \A i \in 1..Len(order'[c]) : order'[c][i] = Rotation(s, Len(heard'[c]) + i)
        BY <1>8, <3>2, <4>1
      <4> QED
        BY <4>1, <4>2, <4>3, Zenon DEF Walks, Rotation
    <3>4. Unanswered(c)'
      BY <1>2, <1>7, <1>10, <1>11, <1>12, <2>1, <3>2 DEF Unanswered
    <3> QED
      BY <1>2, <1>5, <1>7, <1>8, <1>12, <3>1, <3>2, <3>3, <3>4 DEF CallInv
  <2>2. CASE /\ ~NonAnswer(outcome) \/ rest = << >>
             /\ op' = [op EXCEPT ![c] = "none"] /\ order' = [order EXCEPT ![c] = << >>]
             /\ result' = [result EXCEPT ![c] =
                              IF NonAnswer(outcome) THEN Exhausted(h) ELSE outcome]
    <3>1. GatewayTypeOK'
      BY <1>1, <1>6, <1>7, <1>12, <1>13, <2>2, SeqEmpty
         DEF GatewayTypeOK, Answer, e, outcome, h
    <3>2. /\ op'[c] = "none"
          /\ result'[c] = IF NonAnswer(outcome) THEN Exhausted(h) ELSE outcome
      BY <1>1, <2>2 DEF GatewayTypeOK
    <3>3. NonAnswer(outcome) => n + 1 = NumEndpoints
      BY <1>2, <1>5, <1>8, <2>2, SeqEmpty
    <3>4. Walks(c, s)'
      BY <1>7, <1>9, <1>12, <3>2 DEF Walks, Rotation
    <3>5. Returned(c)'
      BY <1>2, <1>7, <1>10, <1>11, <1>12, <3>2, <3>3 DEF Returned
    <3> QED
      BY <1>2, <1>7, <1>8, <1>12, <3>1, <3>4, <3>5 DEF CallInv
  <2> QED
    BY <2>1, <2>2 DEF Answer, e, outcome, h, rest
<1>15. \A d \in Callers \ {c} : CallInv(d)'
  BY <1>1, <1>12, CallFrame
<1> QED
  BY <1>14, <1>15 DEF GatewayInv

-----------------------------------------------------------------------------
(* What follows from it                                                    *)

\* Before the first call.
LEMMA GatewayInitInv == GatewayInit => GatewayInv
<1> SUFFICES ASSUME GatewayInit PROVE GatewayInv
  OBVIOUS
<1>1. NumEndpoints \in Nat /\ NumEndpoints >= 1 /\ 0 \in Endpoints
  BY EndpointsAssumption DEF Endpoints
<1>2. GatewayTypeOK
  BY <1>1, SeqEmpty DEF GatewayInit, GatewayTypeOK
<1>3. ASSUME NEW c \in Callers PROVE CallInv(c)
  <2>1. heard[c] = << >> /\ Len(heard[c]) = 0 /\ op[c] = "none" /\ result[c] = NoResult
    BY SeqEmpty DEF GatewayInit
  <2> QED
    BY <1>1, <2>1 DEF CallInv, Walks, Unanswered
<1> QED
  BY <1>2, <1>3 DEF GatewayInv

\* A step that leaves the gateway alone.
LEMMA GatewayStutter == GatewayInv /\ UNCHANGED gateway => GatewayInv'
<1> SUFFICES ASSUME GatewayInv, UNCHANGED gateway PROVE GatewayInv'
  OBVIOUS
<1>1. GatewayTypeOK'
  BY DEF GatewayInv, GatewayTypeOK, gateway
<1>2. \A c \in Callers : CallInv(c)'
  BY CallFrame DEF GatewayInv, gateway
<1> QED
  BY <1>1, <1>2 DEF GatewayInv

\* Callers of the shared gateway keep each other's walks whole: the inductive
\* invariant of FailoverGateway, for any number of endpoints and callers.
THEOREM GatewayInvariant == GatewaySpec => []GatewayInv
<1>1. GatewayInit => GatewayInv
  BY GatewayInitInv
<1>2. GatewayInv /\ [GatewayNext]_gateway => GatewayInv'
  <2> SUFFICES ASSUME GatewayInv, [GatewayNext]_gateway PROVE GatewayInv'
    OBVIOUS
  <2>1. CASE UNCHANGED gateway
    BY <2>1, GatewayStutter
  <2>2. ASSUME NEW c \in Callers, NEW o \in Operations, Call(c, o) PROVE GatewayInv'
    BY <2>2, CallStep
  <2>3. ASSUME NEW c \in Callers, Answered(c) PROVE GatewayInv'
    BY <2>3, AnswerStep DEF Answered
  <2> QED
    BY <2>1, <2>2, <2>3 DEF GatewayNext
<1> QED
  BY <1>1, <1>2, PTL DEF GatewaySpec

\* A walk that asks nobody twice and, all the way round, everybody.
LEMMA InvGivesUpOnlyAfterAll == GatewayInv => GivesUpOnlyAfterAll
<1> SUFFICES ASSUME GatewayInv, NEW c \in Callers
             PROVE  /\ IsInjective([i \in DOMAIN heard[c] |-> heard[c][i][1]])
                    /\ result[c] \in {"declined", "transport", "unsupported"} =>
                         {heard[c][i][1] : i \in DOMAIN heard[c]} = Endpoints
  BY DEF GivesUpOnlyAfterAll
<1> DEFINE n == Len(heard[c])
<1>1. CallInv(c) /\ heard[c] \in Seq(Endpoints \X Outcomes)
  BY DEF GatewayInv, GatewayTypeOK
<1>2. n \in Nat /\ NumEndpoints \in Nat /\ n <= NumEndpoints /\ DOMAIN heard[c] = 1..n
  BY <1>1, EndpointsAssumption, SeqLen DEF CallInv
<1>3. PICK s \in Endpoints : Walks(c, s)
  BY <1>1 DEF CallInv
<1> HIDE DEF n
<1>4. \A i \in 1..n : heard[c][i][1] = Rotation(s, i) /\ i \in 1..NumEndpoints
  BY <1>2, <1>3 DEF Walks, n
<1>5. IsInjective([i \in DOMAIN heard[c] |-> heard[c][i][1]])
  BY <1>2, <1>4, RotationInjective DEF IsInjective
<1>6. ASSUME result[c] \in {"declined", "transport", "unsupported"}
      PROVE  {heard[c][i][1] : i \in DOMAIN heard[c]} = Endpoints
  <2>1. Returned(c)
    BY <1>1, <1>6 DEF CallInv, Unanswered, NoResult
  <2>2. n = NumEndpoints
    BY <1>6, <2>1 DEF Returned, NonAnswer, n
  <2>3. {heard[c][i][1] : i \in 1..NumEndpoints} = {Rotation(s, i) : i \in 1..NumEndpoints}
    BY <1>4, <2>2
  <2> QED
    BY <1>2, <2>2, <2>3, RotationCovers, Zenon
<1> QED
  BY <1>5, <1>6

LEMMA InvVerdictEndsTheSearch == GatewayInv => VerdictEndsTheSearch
<1> SUFFICES ASSUME GatewayInv, NEW c \in Callers
             PROVE  /\ \A i \in 1..(Len(heard[c]) - 1) :
                          heard[c][i][2] \notin {"ok", "rpc_error"}
                    /\ result[c] # NoResult =>
                         LET last == heard[c][Len(heard[c])][2]
                         IN  {result[c], last} \cap {"ok", "rpc_error"} # {} =>
                                result[c] = last
  BY DEF VerdictEndsTheSearch
<1> DEFINE n == Len(heard[c])
<1>1. CallInv(c) /\ n \in Nat
  BY SeqLen DEF GatewayInv, GatewayTypeOK
<1> HIDE DEF n
<1>2. CASE Returned(c)
  <2>1. \A i \in 1..(n - 1) : NonAnswer(heard[c][i][2])
    BY <1>2 DEF Returned, n
  <2>2. IF NonAnswer(heard[c][n][2]) THEN result[c] = Exhausted(heard[c])
                                     ELSE result[c] = heard[c][n][2]
    BY <1>2 DEF Returned, n
  <2>3. Exhausted(heard[c]) \in {"declined", heard[c][n][2]}
    BY DEF Exhausted, n
  <2> QED
    BY <2>1, <2>2, <2>3 DEF NonAnswer, n
<1>3. CASE Unanswered(c)
  <2>1. \A i \in 1..n : NonAnswer(heard[c][i][2])
    BY <1>3 DEF Unanswered, n
  <2>2. \A i \in 1..(n - 1) : NonAnswer(heard[c][i][2])
    BY <1>1, <2>1
  <2> QED
    BY <1>3, <2>2 DEF NonAnswer, Unanswered, n
<1> QED
  BY <1>1, <1>2, <1>3 DEF CallInv

LEMMA InvDeclineOutranks == GatewayInv => DeclineOutranks
<1> SUFFICES ASSUME GatewayInv, NEW c \in Callers,
                    result[c] \in {"transport", "unsupported"}
             PROVE  "declined" \notin OutcomesHeard(heard[c])
  BY DEF DeclineOutranks
<1>1. Returned(c)
  BY DEF GatewayInv, CallInv, Unanswered, NoResult
<1>2. result[c] = Exhausted(heard[c])
  BY <1>1 DEF Returned, NonAnswer
<1> QED
  BY <1>2 DEF Exhausted

\* A call gives up only after it asked every endpoint, each once, whatever the
\* other callers do to `current' (failover.rs 90-94), for any list of
\* endpoints.
THEOREM GivesUpSafe == GatewaySpec => []GivesUpOnlyAfterAll
BY GatewayInvariant, InvGivesUpOnlyAfterAll, PTL

\* A verdict of one endpoint is returned as it is and no other endpoint is
\* asked after it (failover.rs 14-20), for any list of endpoints.
THEOREM VerdictSafe == GatewaySpec => []VerdictEndsTheSearch
BY GatewayInvariant, InvVerdictEndsTheSearch, PTL

\* A call that returns an error heard no endpoint decline (failover.rs
\* 197-201), for any list of endpoints.
THEOREM DeclineSafe == GatewaySpec => []DeclineOutranks
BY GatewayInvariant, InvDeclineOutranks, PTL

-----------------------------------------------------------------------------
(* The requests and the broadcaster at the gateway                         *)

\* A step of one request is a call, an endpoint's answer to it, or leaves the
\* gateway alone.
LEMMA RequestUsesGateway ==
    ASSUME NEW r \in Requests, CompileStep(r)
    PROVE  GatewayNext \/ UNCHANGED gateway
<1>1. r \in Callers
  BY RequestsAssumption
<1>2. ASSUME NEW reply \in WebhookReplies, Decide(r, reply) PROVE UNCHANGED gateway
  BY <1>2 DEF Decide
<1>3. ASSUME NEW reply \in SignerReplies(config.signer), Sign(r, reply)
      PROVE  UNCHANGED gateway
  BY <1>3 DEF Sign
<1>4. ASSUME NEW phase, NEW operation \in Operations, AskNode(r, phase, operation)
      PROVE  GatewayNext
  BY <1>1, <1>4 DEF AskNode, GatewayNext
<1>5. ASSUME NEW reply \in Replies("read"), NEW against, NodeReads(r, reply, against)
      PROVE  GatewayNext
  BY <1>1, <1>5 DEF NodeReads, GatewayNext, Answered
<1>6. ASSUME NEW reply \in Replies("simulate"), NEW execution,
             NodeSimulates(r, reply, execution)
      PROVE  GatewayNext
  BY <1>1, <1>6 DEF NodeSimulates, GatewayNext, Answered
<1>7. ASSUME NEW reply \in StoreReplies, Reserve(r, reply) PROVE UNCHANGED gateway
  BY <1>7 DEF Reserve
<1>8. "read" \in Operations /\ "simulate" \in Operations
  BY DEF Operations
<1> QED
  BY <1>2, <1>3, <1>4, <1>5, <1>6, <1>7, <1>8 DEF CompileStep, EngineStep, ReplyStep

\* handle_transaction and the broadcaster, sharing one gateway (api/src/main.rs
\* 1064-1093), implement the specification of the gateway.
THEOREM CompileImplementsGateway == Spec => GatewaySpec
<1>1. Init => GatewayInit
  BY DEF Init
<1>2. [Next]_vars => [GatewayNext]_gateway
  <2> SUFFICES ASSUME [Next]_vars PROVE GatewayNext \/ UNCHANGED gateway
    OBVIOUS
  <2>1. CASE UNCHANGED vars
    BY <2>1 DEF vars
  <2>2. ASSUME NEW reply, NEW redis, Boot(reply, redis) PROVE UNCHANGED gateway
    BY <2>2 DEF Boot
  <2>3. ASSUME NEW r \in Requests, NEW tx \in Submissions,
               ReceiveLimited(r, tx) \/ Receive(r, tx)
        PROVE  UNCHANGED gateway
    BY <2>3 DEF ReceiveLimited, Receive
  <2>4. ASSUME NEW r \in Requests, CompileStep(r)
        PROVE  GatewayNext \/ UNCHANGED gateway
    BY <2>4, RequestUsesGateway
  <2>5. ASSUME NEW c \in Callers, NEW operation \in Operations,
               BroadcasterCalls(c, operation)
        PROVE  GatewayNext
    BY <2>5 DEF BroadcasterCalls, GatewayNext
  <2>6. ASSUME NEW c \in Callers, BroadcasterHears(c) PROVE GatewayNext
    BY <2>6 DEF BroadcasterHears, GatewayNext
  <2> QED
    BY <2>1, <2>2, <2>3, <2>4, <2>5, <2>6 DEF Next
<1> QED
  BY <1>1, <1>2, PTL DEF Spec, GatewaySpec

\* Whatever the requests and the broadcaster do at a time, a call gives up only
\* after it asked every endpoint, each once (failover.rs 90-94).
THEOREM GivesUpOnlyAfterAllSafe == Spec => []GivesUpOnlyAfterAll
BY CompileImplementsGateway, GivesUpSafe, PTL

\* ... returns a verdict as it is and asks nobody after it (failover.rs 14-20).
THEOREM VerdictEndsTheSearchSafe == Spec => []VerdictEndsTheSearch
BY CompileImplementsGateway, VerdictSafe, PTL

\* ... and reports an error only if no endpoint declined (failover.rs 197-201).
THEOREM DeclineOutranksSafe == Spec => []DeclineOutranks
BY CompileImplementsGateway, DeclineSafe, PTL


-----------------------------------------------------------------------------
(* The inductive invariant                                                 *)

\* The tests that depend on the configuration, for one that is given.
SponsoredBy(c, tx) == ResolvePayer(tx, c.signer # "none") = "sponsor"

Stateless(c, tx) ==
    /\ c.allowlist # None => Bytes(tx.sender) \in c.allowlist
    /\ c.ceiling # None => MaxCost(tx) <= c.ceiling

Valid(c, tx) ==
    /\ tx.seq # None
    /\ ValidateStructure(tx)
    /\ CheckDeclaredIntent(tx, ResolvePayer(tx, c.signer # "none"))

\* What has been said to a request when the signer is asked, and when the nodes
\* are.
Approval(c) == IF c.webhook THEN <<<<"webhook", "approved">>>> ELSE << >>

Prelude(c, tx) ==
    IF SponsoredBy(c, tx) THEN Append(Approval(c), <<"signer", "signed">>) ELSE << >>

\* What the nodes say of a transaction that goes on, and against one.
Passing == {"ahead", "declined", "unsupported", "none", "succeeded", "unrecognized"}

NodeVerdicts == {"rpc_error", "behind", "violation", "errored", "reverted"}

NodeWords == Passing \cup NodeVerdicts \cup {"transport"}

\* The request is for the sponsor, whose guards agree.
ForSponsor(c, q) == SponsoredBy(c, q.sent) /\ Stateless(c, q.sent)

\* Its transaction is as the nodes see it.
Presentable(c, q) ==
    IF SponsoredBy(c, q.sent)
    THEN /\ Stateless(c, q.sent)
         /\ Placeholder(q.sent) # 0
         /\ q.tx = Filled(q.sent)
         /\ q.hash = ComputeSigHash(q.sent)
    ELSE q.tx = q.sent

\* Where a request that waits for somebody has got to.
AtWebhook(c, q) ==
    /\ q.phase = "decide" /\ ForSponsor(c, q) /\ c.webhook
    /\ q.tx = q.sent /\ q.said = << >>

AtSigner(c, q) ==
    /\ q.phase = "sign" /\ ForSponsor(c, q)
    /\ q.tx = q.sent /\ q.said = Approval(c)

AtNodes(c, q) ==
    /\ q.phase \in {"nonce", "simulate"} /\ Presentable(c, q)
    /\ q.said = Prelude(c, q.sent)
    /\ q.phase = "nonce" => q.unread # << >>

AtStore(c, q) ==
    /\ q.phase = "reserve" /\ ForSponsor(c, q) /\ Presentable(c, q) /\ c.store # {}
    /\ \E n \in Passing : q.said = Append(Prelude(c, q.sent), <<"node", n>>)

Waiting(c, q) ==
    /\ q.answer = "none" /\ Valid(c, q.sent)
    /\ AtWebhook(c, q) \/ AtSigner(c, q) \/ AtNodes(c, q) \/ AtStore(c, q)

\* By whom a request was ended; `res' is what its last call of the gateway
\* returned.
ByNobody(q) == q.said = << >> /\ q.answer \in {"bad_request", "too_many_requests"}

ByWebhook(c, q) ==
    /\ SponsoredBy(c, q.sent)
    /\ \E reply \in WebhookReplies \ {"approved"} :
          /\ q.said = <<<<"webhook", reply>>>>
          /\ q.answer = Status(HttpVerdict(reply))

BySigner(c, q) ==
    /\ ForSponsor(c, q)
    /\ \E reply \in SignerReplies(c.signer) :
          /\ q.said = Append(Approval(c), <<"signer", reply>>)
          /\ IF reply = "signed" THEN q.answer = "bad_request" /\ Placeholder(q.sent) = 0
             ELSE q.answer = Status(HttpVerdict(reply))

\* What the last word of the nodes comes to.
NodeAnswer(c, q, res, n) ==
    \/ q.answer = "accepted" /\ n \in Passing /\ ~(SponsoredBy(c, q.sent) /\ c.store # {})
    \/ q.answer = "bad_request" /\ n \in NodeVerdicts
    \/ q.answer = "bad_request" /\ n = "unsupported" /\ q.unread # << >>
    \/ q.answer = "unavailable" /\ n = "transport" /\ res = "transport"

ByNodes(c, q, res) ==
    /\ Valid(c, q.sent) /\ Presentable(c, q)
    /\ \E n \in NodeWords :
          /\ q.said = Append(Prelude(c, q.sent), <<"node", n>>)
          /\ NodeAnswer(c, q, res, n)

ByStore(c, q) ==
    /\ Valid(c, q.sent) /\ ForSponsor(c, q) /\ Presentable(c, q)
    /\ \E n \in Passing, reply \in StoreReplies :
          /\ q.said = Append(Append(Prelude(c, q.sent), <<"node", n>>), <<"store", reply>>)
          /\ q.answer = ReserveStatus(reply)

Finished(c, q, res) ==
    /\ q.phase = "answered"
    /\ ByNobody(q) \/ ByWebhook(c, q) \/ BySigner(c, q) \/ ByNodes(c, q, res) \/ ByStore(c, q)

IsRequest(q) ==
    q = [phase |-> q.phase, sent |-> q.sent, tx |-> q.tx, hash |-> q.hash,
         unread |-> q.unread, future |-> q.future, said |-> q.said, answer |-> q.answer]

\* A request that was received is waiting or finished.
Progress(c, q, res) == q.sent \in Submissions /\ (Waiting(c, q) \/ Finished(c, q, res))

\* The call of the gateway that belongs to a phase; a node reads a nonce or
\* not, but does not decline to.
CallOK(phase, o, h) ==
    \/ o = "none"
    \/ o = "read" /\ phase = "nonce" /\ "declined" \notin OutcomesHeard(h)
    \/ o = "simulate" /\ phase = "simulate"

RequestInv(r) ==
    /\ IsRequest(request[r])
    /\ CallOK(request[r].phase, op[r], heard[r])
    /\ request[r] = Idle \/ (up /\ Progress(config, request[r], result[r]))

CInv ==
    /\ config \in Configs /\ up \in BOOLEAN
    /\ request = [r \in Requests |-> request[r]]
    /\ \A r \in Requests : RequestInv(r)

-----------------------------------------------------------------------------
(* What the steps do to the fields of a request                            *)

\* A request made of eight values, and one of them replaced.
Made(phase, sent, tx, hash, unread, future, said, answer) ==
    [phase |-> phase, sent |-> sent, tx |-> tx, hash |-> hash,
     unread |-> unread, future |-> future, said |-> said, answer |-> answer]

LEMMA MadeFields ==
    ASSUME NEW phase, NEW sent, NEW tx, NEW hash, NEW unread, NEW future, NEW said, NEW answer,
           NEW q, q = Made(phase, sent, tx, hash, unread, future, said, answer)
    PROVE  /\ IsRequest(q) /\ q.phase = phase /\ q.sent = sent /\ q.tx = tx /\ q.hash = hash
           /\ q.unread = unread /\ q.future = future /\ q.said = said /\ q.answer = answer
  BY DEF Made, IsRequest

LEMMA SetPhase ==
    ASSUME NEW q, IsRequest(q), NEW v
    PROVE  [q EXCEPT !.phase = v]
             = Made(v, q.sent, q.tx, q.hash, q.unread, q.future, q.said, q.answer)
  BY DEF Made, IsRequest

LEMMA SetSent ==
    ASSUME NEW q, IsRequest(q), NEW v
    PROVE  [q EXCEPT !.sent = v]
             = Made(q.phase, v, q.tx, q.hash, q.unread, q.future, q.said, q.answer)
  BY DEF Made, IsRequest

LEMMA SetTx ==
    ASSUME NEW q, IsRequest(q), NEW v
    PROVE  [q EXCEPT !.tx = v]
             = Made(q.phase, q.sent, v, q.hash, q.unread, q.future, q.said, q.answer)
  BY DEF Made, IsRequest

LEMMA SetHash ==
    ASSUME NEW q, IsRequest(q), NEW v
    PROVE  [q EXCEPT !.hash = v]
             = Made(q.phase, q.sent, q.tx, v, q.unread, q.future, q.said, q.answer)
  BY DEF Made, IsRequest

LEMMA SetUnread ==
    ASSUME NEW q, IsRequest(q), NEW v
    PROVE  [q EXCEPT !.unread = v]
             = Made(q.phase, q.sent, q.tx, q.hash, v, q.future, q.said, q.answer)
  BY DEF Made, IsRequest

LEMMA SetFuture ==
    ASSUME NEW q, IsRequest(q), NEW v
    PROVE  [q EXCEPT !.future = v]
             = Made(q.phase, q.sent, q.tx, q.hash, q.unread, v, q.said, q.answer)
  BY DEF Made, IsRequest

LEMMA SetSaid ==
    ASSUME NEW q, IsRequest(q), NEW v
    PROVE  [q EXCEPT !.said = v]
             = Made(q.phase, q.sent, q.tx, q.hash, q.unread, q.future, v, q.answer)
  BY DEF Made, IsRequest

LEMMA SetAnswer ==
    ASSUME NEW q, IsRequest(q), NEW v
    PROVE  [q EXCEPT !.answer = v]
             = Made(q.phase, q.sent, q.tx, q.hash, q.unread, q.future, q.said, v)
  BY DEF Made, IsRequest

LEMMA IdleFields ==
    /\ IsRequest(Idle) /\ Idle.phase = "idle" /\ Idle.said = << >> /\ Idle.answer = "none"
<1> DEFINE empty == << >>
           no == FALSE
<1>1. Idle = Made("idle", None, None, None, empty, no, empty, "none")
  BY DEF Idle, Made
<1> HIDE DEF empty, no
<1>2. /\ IsRequest(Idle) /\ Idle.phase = "idle" /\ Idle.said = empty /\ Idle.answer = "none"
  BY <1>1, MadeFields
<1> QED
  BY <1>2 DEF empty

LEMMA ReceivedFields ==
    ASSUME NEW tx
    PROVE  /\ IsRequest(Received(tx)) /\ Received(tx).sent = tx /\ Received(tx).tx = tx
           /\ Received(tx).said = << >> /\ Received(tx).answer = "none"
<1> DEFINE p == [Idle EXCEPT !.sent = tx]
<1>1. p = Made(Idle.phase, tx, Idle.tx, Idle.hash, Idle.unread, Idle.future, Idle.said, Idle.answer)
  BY IdleFields, SetSent
<1>2. Received(tx) = [p EXCEPT !.tx = tx]
  BY DEF Received
<1> HIDE DEF p
<1>3. /\ IsRequest(p) /\ p.phase = Idle.phase /\ p.sent = tx /\ p.tx = Idle.tx /\ p.hash = Idle.hash
      /\ p.unread = Idle.unread /\ p.future = Idle.future /\ p.said = Idle.said /\ p.answer = Idle.answer
  BY <1>1, MadeFields
<1>4. Received(tx)
        = Made(Idle.phase, tx, tx, Idle.hash, Idle.unread, Idle.future, Idle.said, Idle.answer)
  BY <1>2, <1>3, SetTx
<1>5. /\ IsRequest(Received(tx)) /\ Received(tx).sent = tx /\ Received(tx).tx = tx
      /\ Received(tx).said = Idle.said /\ Received(tx).answer = Idle.answer
  BY <1>4, MadeFields
<1> QED
  BY <1>5, IdleFields

\* Goto, Heard, Ended and StartSimulation keep the transaction as it came and
\* as it stands.
Carries(p, q) == IsRequest(p) /\ p.sent = q.sent /\ p.tx = q.tx /\ p.hash = q.hash

LEMMA GotoFields ==
    ASSUME NEW q, IsRequest(q), NEW phase
    PROVE  /\ Carries(Goto(q, phase), q) /\ Goto(q, phase).phase = phase
           /\ Goto(q, phase).said = q.said /\ Goto(q, phase).answer = q.answer
           /\ Goto(q, phase).unread = q.unread
<1>1. Goto(q, phase) = Made(phase, q.sent, q.tx, q.hash, q.unread, q.future, q.said, q.answer)
  BY SetPhase DEF Goto
<1> QED
  BY <1>1, MadeFields DEF Carries

LEMMA HeardFields ==
    ASSUME NEW q, IsRequest(q), NEW party, NEW said
    PROVE  /\ Carries(Heard(q, party, said), q) /\ Heard(q, party, said).phase = q.phase
           /\ Heard(q, party, said).said = Append(q.said, <<party, said>>)
           /\ Heard(q, party, said).answer = q.answer
           /\ Heard(q, party, said).unread = q.unread
<1> DEFINE all == Append(q.said, <<party, said>>)
<1>1. Heard(q, party, said) = [q EXCEPT !.said = all]
  BY DEF Heard
<1> HIDE DEF all
<1>2. Heard(q, party, said)
        = Made(q.phase, q.sent, q.tx, q.hash, q.unread, q.future, all, q.answer)
  BY <1>1, SetSaid
<1>3. /\ Carries(Heard(q, party, said), q) /\ Heard(q, party, said).phase = q.phase
      /\ Heard(q, party, said).said = all
      /\ Heard(q, party, said).answer = q.answer
      /\ Heard(q, party, said).unread = q.unread
  BY <1>2, MadeFields DEF Carries
<1> QED
  BY <1>3 DEF all

LEMMA EndedFields ==
    ASSUME NEW q, IsRequest(q), NEW answer
    PROVE  /\ Carries(Ended(q, answer), q) /\ Ended(q, answer).phase = "answered"
           /\ Ended(q, answer).said = q.said /\ Ended(q, answer).answer = answer
           /\ Ended(q, answer).unread = q.unread
<1> DEFINE p == [q EXCEPT !.phase = "answered"]
<1>1. p = Made("answered", q.sent, q.tx, q.hash, q.unread, q.future, q.said, q.answer)
  BY SetPhase
<1>2. Ended(q, answer) = [p EXCEPT !.answer = answer]
  BY DEF Ended
<1> HIDE DEF p
<1>3. /\ IsRequest(p) /\ p.phase = "answered" /\ p.sent = q.sent /\ p.tx = q.tx /\ p.hash = q.hash
      /\ p.unread = q.unread /\ p.future = q.future /\ p.said = q.said /\ p.answer = q.answer
  BY <1>1, MadeFields
<1>4. Ended(q, answer)
        = Made("answered", q.sent, q.tx, q.hash, q.unread, q.future, q.said, answer)
  BY <1>2, <1>3, SetAnswer
<1> QED
  BY <1>4, MadeFields DEF Carries

LEMMA StartFields ==
    ASSUME NEW q, IsRequest(q)
    PROVE  /\ Carries(StartSimulation(q), q) /\ StartSimulation(q).phase = "nonce"
           /\ StartSimulation(q).said = q.said /\ StartSimulation(q).answer = q.answer
           /\ StartSimulation(q).unread # << >>
<1> DEFINE keys == EffectiveNonceKeys(q.tx)
           p == [q EXCEPT !.phase = "nonce"]
<1>0. keys # << >>
  BY DEF EffectiveNonceKeys
<1>1. p = Made("nonce", q.sent, q.tx, q.hash, q.unread, q.future, q.said, q.answer)
  BY SetPhase
<1>2. StartSimulation(q) = [p EXCEPT !.unread = keys]
  BY DEF StartSimulation
<1> HIDE DEF p, keys
<1>3. /\ IsRequest(p) /\ p.phase = "nonce" /\ p.sent = q.sent /\ p.tx = q.tx /\ p.hash = q.hash
      /\ p.unread = q.unread /\ p.future = q.future /\ p.said = q.said /\ p.answer = q.answer
  BY <1>1, MadeFields
<1>4. StartSimulation(q)
        = Made("nonce", q.sent, q.tx, q.hash, keys, q.future, q.said, q.answer)
  BY <1>2, <1>3, SetUnread
<1>5. /\ Carries(StartSimulation(q), q) /\ StartSimulation(q).phase = "nonce"
      /\ StartSimulation(q).said = q.said /\ StartSimulation(q).answer = q.answer
      /\ StartSimulation(q).unread = keys
  BY <1>4, MadeFields DEF Carries
<1> QED
  BY <1>0, <1>5

LEMMA FilledFields ==
    ASSUME NEW q, IsRequest(q), NEW f, f = FillSponsorSignature(q)
    PROVE  /\ IsRequest(f) /\ f.sent = q.sent /\ f.tx = Filled(q.tx)
           /\ f.hash = ComputeSigHash(q.tx) /\ f.said = q.said /\ f.answer = q.answer
<1> DEFINE tx == Filled(q.tx)
           hash == ComputeSigHash(q.tx)
           p == [q EXCEPT !.tx = tx]
<1>1. p = Made(q.phase, q.sent, tx, q.hash, q.unread, q.future, q.said, q.answer)
  BY SetTx
<1>2. f = [p EXCEPT !.hash = hash]
  BY DEF FillSponsorSignature
<1> HIDE DEF p, tx, hash
<1>3. /\ IsRequest(p) /\ p.phase = q.phase /\ p.sent = q.sent /\ p.tx = tx /\ p.hash = q.hash
      /\ p.unread = q.unread /\ p.future = q.future /\ p.said = q.said /\ p.answer = q.answer
  BY <1>1, MadeFields
<1>4. f
        = Made(q.phase, q.sent, tx, hash, q.unread, q.future, q.said, q.answer)
  BY <1>2, <1>3, SetHash
<1>5. /\ IsRequest(f) /\ f.sent = q.sent /\ f.tx = tx
      /\ f.hash = hash /\ f.said = q.said /\ f.answer = q.answer
  BY <1>4, MadeFields
<1> QED
  BY <1>5 DEF tx, hash

\* The tests are those of the configuration the engine runs with.
LEMMA ByConfig ==
    /\ \A tx : Sponsored(tx) <=> SponsoredBy(config, tx)
    /\ \A tx : CheckStateless(tx) <=> Stateless(config, tx)
    /\ \A tx : LocallyValid(tx) <=> Valid(config, tx)
  BY DEF Sponsored, SponsoredBy, Sponsoring, CheckStateless, Stateless, LocallyValid, Valid


-----------------------------------------------------------------------------
(* What the handlers make of a request                                     *)

\* Carries(p, q) passes on what is said of the transaction.
LEMMA CarriedOn ==
    ASSUME NEW c, NEW q, NEW p, Carries(p, q)
    PROVE  /\ IsRequest(p)
           /\ q.sent \in Submissions => p.sent \in Submissions
           /\ Valid(c, q.sent) => Valid(c, p.sent)
           /\ ForSponsor(c, q) => ForSponsor(c, p)
           /\ Presentable(c, q) => Presentable(c, p)
           /\ Prelude(c, p.sent) = Prelude(c, q.sent)
           /\ SponsoredBy(c, p.sent) <=> SponsoredBy(c, q.sent)
  BY DEF Carries, ForSponsor, Presentable

\* handle_transaction ends a request at once, or compile_and_validate starts.
LEMMA ReceiveFits ==
    ASSUME NEW tx \in Submissions, NEW p, NEW res,
           \/ p = Ended(Received(tx), "too_many_requests")
           \/ p = CASE ~LocallyValid(tx) -> Ended(Received(tx), "bad_request")
                    [] LocallyValid(tx) /\ Sponsored(tx) -> StartSponsorship(Received(tx))
                    [] OTHER -> StartSimulation(Received(tx))
    PROVE  IsRequest(p) /\ Progress(config, p, res)
<1> DEFINE q == Received(tx)
           c == config
<1>1. IsRequest(q) /\ q.sent = tx /\ q.tx = tx /\ q.said = << >> /\ q.answer = "none"
  BY ReceivedFields
<1> HIDE DEF q
<1>2. ASSUME NEW a \in {"bad_request", "too_many_requests"}, p = Ended(q, a)
      PROVE  IsRequest(p) /\ Progress(config, p, res)
  <2>1. Carries(p, q) /\ p.phase = "answered" /\ p.said = << >> /\ p.answer = a
    BY <1>1, <1>2, EndedFields
  <2>2. Finished(c, p, res)
    BY <2>1 DEF Finished, ByNobody
  <2> QED
    BY <1>1, <2>1, <2>2 DEF Carries, Progress
<1>3. ASSUME Valid(c, tx), SponsoredBy(c, tx), p = StartSponsorship(q)
      PROVE  IsRequest(p) /\ Progress(config, p, res)
  <2>1. CASE ~Stateless(c, tx)
    <3>1. p = Ended(q, "bad_request")
      BY <1>1, <1>3, <2>1, ByConfig DEF StartSponsorship
    <3> QED
      BY <1>2, <3>1
  <2>2. CASE Stateless(c, tx)
    <3>1. p = Goto(q, IF c.webhook THEN "decide" ELSE "sign")
      BY <1>1, <1>3, <2>2, ByConfig DEF StartSponsorship
    <3>2. /\ Carries(p, q) /\ p.phase = IF c.webhook THEN "decide" ELSE "sign"
          /\ p.said = << >> /\ p.answer = "none"
      BY <1>1, <3>1, GotoFields
    <3>3. AtWebhook(c, p) \/ AtSigner(c, p)
      BY <1>1, <1>3, <2>2, <3>2 DEF Carries, AtWebhook, AtSigner, ForSponsor, Approval
    <3> QED
      BY <1>1, <1>3, <3>2, <3>3 DEF Carries, Progress, Waiting
  <2> QED
    BY <2>1, <2>2
<1>4. ASSUME Valid(c, tx), ~SponsoredBy(c, tx), p = StartSimulation(q)
      PROVE  IsRequest(p) /\ Progress(config, p, res)
  <2>1. /\ Carries(p, q) /\ p.phase = "nonce" /\ p.said = << >> /\ p.answer = "none"
        /\ p.unread # << >>
    BY <1>1, <1>4, StartFields
  <2>2. AtNodes(c, p)
    BY <1>1, <1>4, <2>1 DEF Carries, AtNodes, Presentable, Prelude
  <2> QED
    BY <1>1, <1>4, <2>1, <2>2 DEF Carries, Progress, Waiting
<1> QED
  BY <1>2, <1>3, <1>4, ByConfig DEF q

\* Where a waiting request is.
LEMMA WaitingPhase ==
    ASSUME NEW c, NEW q, NEW res, q.phase \notin {"idle", "answered"}, Progress(c, q, res)
    PROVE  /\ q.sent \in Submissions /\ q.answer = "none" /\ Valid(c, q.sent)
           /\ q.phase = "decide" => AtWebhook(c, q)
           /\ q.phase = "sign" => AtSigner(c, q)
           /\ q.phase \in {"nonce", "simulate"} => AtNodes(c, q)
           /\ q.phase = "reserve" => AtStore(c, q)
  BY DEF Progress, Finished, Waiting, AtWebhook, AtSigner, AtNodes, AtStore

LEMMA DecideFits ==
    ASSUME NEW c, NEW q, NEW res, NEW reply \in WebhookReplies, IsRequest(q),
           q.phase = "decide", Progress(c, q, res), NEW p, p = AfterDecision(q, reply)
    PROVE  IsRequest(p) /\ Progress(c, p, res)
<1>1. q.sent \in Submissions /\ q.answer = "none" /\ Valid(c, q.sent) /\ AtWebhook(c, q)
  BY WaitingPhase
<1> DEFINE h == Heard(q, "webhook", reply)
<1>2. Carries(h, q) /\ h.said = Append(q.said, <<"webhook", reply>>) /\ h.answer = "none"
  BY <1>1, HeardFields
<1>3. Append(<< >>, <<"webhook", reply>>) = <<<<"webhook", reply>>>>
  OBVIOUS
<1>4. h.said = <<<<"webhook", reply>>>>
  BY <1>1, <1>2, <1>3 DEF AtWebhook
<1>5. IsRequest(h)
  BY <1>2 DEF Carries
<1>6. CASE reply = "approved"
  <2>1. p = Goto(h, "sign")
    BY <1>6 DEF AfterDecision
  <2> HIDE DEF h
  <2>2. Carries(p, h) /\ p.phase = "sign" /\ p.said = h.said /\ p.answer = "none"
    BY <1>2, <1>5, <2>1, GotoFields
  <2>3. AtSigner(c, p)
    BY <1>1, <1>2, <1>4, <1>6, <2>2 DEF Carries, AtWebhook, AtSigner, ForSponsor, Approval
  <2> QED
    BY <1>1, <1>2, <2>2, <2>3 DEF Carries, Progress, Waiting
<1>7. CASE reply # "approved"
  <2>1. p = Ended(h, Status(HttpVerdict(reply)))
    BY <1>7 DEF AfterDecision
  <2> HIDE DEF h
  <2>2. /\ Carries(p, h) /\ p.phase = "answered" /\ p.said = h.said
        /\ p.answer = Status(HttpVerdict(reply))
    BY <1>5, <2>1, EndedFields
  <2>3. ByWebhook(c, p)
    BY <1>1, <1>2, <1>4, <1>7, <2>2 DEF Carries, AtWebhook, ByWebhook, ForSponsor
  <2> QED
    BY <1>1, <1>2, <2>2, <2>3 DEF Carries, Progress, Finished
<1> QED
  BY <1>6, <1>7


LEMMA SignFits ==
    ASSUME NEW c, NEW q, NEW res, NEW reply \in SignerReplies(c.signer), IsRequest(q),
           q.phase = "sign", Progress(c, q, res),
           NEW p, p = AfterSigning(Heard(q, "signer", reply), reply)
    PROVE  IsRequest(p) /\ Progress(c, p, res)
<1>1. q.sent \in Submissions /\ q.answer = "none" /\ Valid(c, q.sent) /\ AtSigner(c, q)
  BY WaitingPhase
<1> DEFINE h == Heard(q, "signer", reply)
<1>2. Carries(h, q) /\ h.said = Append(q.said, <<"signer", reply>>) /\ h.answer = "none"
  BY <1>1, HeardFields
<1>3. /\ IsRequest(h) /\ h.sent = q.sent /\ h.tx = q.sent
      /\ h.said = Append(Approval(c), <<"signer", reply>>)
  BY <1>1, <1>2 DEF Carries, AtSigner
<1>4. ASSUME NEW a, p = Ended(h, a),
             IF reply = "signed" THEN a = "bad_request" /\ Placeholder(q.sent) = 0
             ELSE a = Status(HttpVerdict(reply))
      PROVE  IsRequest(p) /\ Progress(c, p, res)
  <2> HIDE DEF h
  <2>1. Carries(p, h) /\ p.phase = "answered" /\ p.said = h.said /\ p.answer = a
    BY <1>3, <1>4, EndedFields
  <2>2. BySigner(c, p)
    BY <1>1, <1>3, <1>4, <2>1 DEF Carries, AtSigner, BySigner, ForSponsor
  <2> QED
    BY <1>1, <1>3, <2>1, <2>2 DEF Carries, Progress, Finished
<1>5. CASE reply = "signed" /\ Placeholder(q.sent) # 0
  <2> DEFINE f == FillSponsorSignature(h)
  <2>1. p = StartSimulation(f)
    BY <1>3, <1>5 DEF AfterSigning
  <2>2. /\ IsRequest(f) /\ f.sent = h.sent /\ f.tx = Filled(h.tx)
        /\ f.hash = ComputeSigHash(h.tx) /\ f.said = h.said /\ f.answer = h.answer
    BY <1>3, FilledFields
  <2> HIDE DEF f, h
  <2>3. /\ Carries(p, f) /\ p.phase = "nonce" /\ p.said = f.said /\ p.answer = f.answer
        /\ p.unread # << >>
    BY <2>1, <2>2, StartFields
  <2>4. /\ p.sent = q.sent /\ p.tx = Filled(q.sent) /\ p.hash = ComputeSigHash(q.sent)
        /\ p.said = Append(Approval(c), <<"signer", "signed">>) /\ p.answer = "none"
    BY <1>2, <1>3, <1>5, <2>2, <2>3 DEF Carries
  <2>5. AtNodes(c, p)
    BY <1>1, <1>5, <2>3, <2>4, Zenon DEF AtNodes, AtSigner, ForSponsor, Presentable, Prelude
  <2> QED
    BY <1>1, <2>3, <2>4, <2>5 DEF Carries, Progress, Waiting
<1>6. CASE reply = "signed" /\ Placeholder(q.sent) = 0
  <2>1. p = Ended(h, "bad_request")
    BY <1>3, <1>6 DEF AfterSigning
  <2> QED
    BY <1>4, <1>6, <2>1
<1>7. CASE reply # "signed"
  <2>1. p = Ended(h, Status(HttpVerdict(reply)))
    BY <1>7 DEF AfterSigning
  <2> QED
    BY <1>4, <1>7, <2>1
<1> QED
  BY <1>5, <1>6, <1>7

\* The nodes have had their say, and nothing against the transaction.
LEMMA PassedFits ==
    ASSUME NEW q, IsRequest(q), q.sent \in Submissions, q.answer = "none",
           Valid(config, q.sent), Presentable(config, q), NEW n \in Passing,
           q.said = Append(Prelude(config, q.sent), <<"node", n>>),
           NEW p, p = AfterSimulation(q), NEW res
    PROVE  IsRequest(p) /\ Progress(config, p, res)
<1> DEFINE c == config
<1>1. CASE SponsoredBy(c, q.sent) /\ c.store # {}
  <2>1. p = Goto(q, "reserve")
    BY <1>1, ByConfig DEF AfterSimulation
  <2>2. Carries(p, q) /\ p.phase = "reserve" /\ p.said = q.said /\ p.answer = "none"
    BY <2>1, GotoFields
  <2>3. ForSponsor(c, q)
    BY <1>1 DEF ForSponsor, Presentable
  <2>4. /\ ForSponsor(c, p) /\ Presentable(c, p)
        /\ p.said = Append(Prelude(c, p.sent), <<"node", n>>)
    BY <2>2, <2>3, CarriedOn, Zenon
  <2>5. AtStore(c, p)
    BY <1>1, <2>2, <2>4 DEF AtStore
  <2> QED
    BY <2>2, <2>5 DEF Carries, Progress, Waiting
<1>2. CASE ~(SponsoredBy(c, q.sent) /\ c.store # {})
  <2>1. p = Ended(q, "accepted")
    BY <1>2, ByConfig DEF AfterSimulation
  <2>2. Carries(p, q) /\ p.phase = "answered" /\ p.said = q.said /\ p.answer = "accepted"
    BY <2>1, EndedFields
  <2>3. NodeAnswer(c, p, res, n)
    BY <1>2, <2>2 DEF Carries, NodeAnswer
  <2>4. n \in NodeWords
    BY DEF NodeWords
  <2>5. ByNodes(c, p, res)
    BY <2>2, <2>3, <2>4, CarriedOn, Zenon DEF ByNodes
  <2> QED
    BY <2>2, <2>5 DEF Carries, Progress, Finished
<1> QED
  BY <1>1, <1>2

\* They have something against it, or do not answer.
LEMMA StoppedFits ==
    ASSUME NEW c, NEW q, IsRequest(q), q.sent \in Submissions, Valid(c, q.sent),
           Presentable(c, q), q.said = Prelude(c, q.sent), NEW n \in NodeWords, NEW a, NEW res,
           \/ a = "bad_request" /\ n \in NodeVerdicts
           \/ a = "bad_request" /\ n = "unsupported" /\ q.unread # << >>
           \/ a = "unavailable" /\ n = "transport" /\ res = "transport",
           NEW p, p = Ended(Heard(q, "node", n), a)
    PROVE  IsRequest(p) /\ Progress(c, p, res)
<1> DEFINE h == Heard(q, "node", n)
<1>1. Carries(h, q) /\ h.said = Append(q.said, <<"node", n>>) /\ h.unread = q.unread
  BY HeardFields
<1>2. IsRequest(h) /\ p = Ended(h, a)
  BY <1>1 DEF Carries
<1> HIDE DEF h
<1>3. /\ Carries(p, h) /\ p.phase = "answered" /\ p.said = h.said /\ p.answer = a
      /\ p.unread = h.unread
  BY <1>2, EndedFields
<1>4. Carries(p, q)
  BY <1>1, <1>3 DEF Carries
<1>5. NodeAnswer(c, p, res, n)
  BY <1>1, <1>3 DEF NodeAnswer
<1>6. p.said = Append(Prelude(c, q.sent), <<"node", n>>)
  BY <1>1, <1>3
<1>7. ByNodes(c, p, res)
  BY <1>4, <1>5, <1>6, CarriedOn, Zenon DEF ByNodes
<1> QED
  BY <1>3, <1>4, <1>7 DEF Carries, Progress, Finished

\* A request goes on with what the nodes said.
LEMMA HeardPasses ==
    ASSUME NEW q, IsRequest(q), q.sent \in Submissions, q.answer = "none",
           Valid(config, q.sent), Presentable(config, q), q.said = Prelude(config, q.sent),
           NEW n \in Passing, NEW p, p = AfterSimulation(Heard(q, "node", n)), NEW res
    PROVE  IsRequest(p) /\ Progress(config, p, res)
<1> DEFINE h == Heard(q, "node", n)
<1>1. Carries(h, q) /\ h.said = Append(q.said, <<"node", n>>) /\ h.answer = "none"
  BY HeardFields
<1>2. p = AfterSimulation(h)
  OBVIOUS
<1> HIDE DEF h
<1>3. /\ IsRequest(h) /\ h.sent \in Submissions /\ Valid(config, h.sent)
      /\ Presentable(config, h) /\ h.said = Append(Prelude(config, h.sent), <<"node", n>>)
  BY <1>1, CarriedOn, Zenon
<1> QED
  BY <1>1, <1>2, <1>3, PassedFits


\* classify_gateway_error.
LEMMA GatewayStatusOf ==
    /\ GatewayStatus("transport") = "unavailable"
    /\ \A outcome : outcome \notin {"transport", "unavailable"}
                      => GatewayStatus(outcome) = "bad_request"
  BY DEF GatewayStatus, Status

\* The nonce reads of simulate.
LEMMA ReadFits ==
    ASSUME NEW q, IsRequest(q), NEW before, Progress(config, q, before), q.phase = "nonce",
           NEW outcome \in {"ok", "transport", "unsupported", "rpc_error"},
           NEW against \in {"behind", "at", "ahead"},
           NEW p, p = AfterRead(q, outcome, against)
    PROVE  IsRequest(p) /\ Progress(config, p, outcome)
<1>1. /\ q.sent \in Submissions /\ q.answer = "none" /\ Valid(config, q.sent)
      /\ AtNodes(config, q)
  BY WaitingPhase
<1>2. Presentable(config, q) /\ q.said = Prelude(config, q.sent) /\ q.unread # << >>
  BY <1>1 DEF AtNodes
<1>3. CASE outcome # "ok"
  <2>1. p = Ended(Heard(q, "node", outcome), GatewayStatus(outcome))
    BY <1>3 DEF AfterRead
  <2>2. \/ GatewayStatus(outcome) = "bad_request" /\ outcome \in NodeVerdicts
        \/ GatewayStatus(outcome) = "bad_request" /\ outcome = "unsupported"
        \/ GatewayStatus(outcome) = "unavailable" /\ outcome = "transport"
    BY <1>3, GatewayStatusOf DEF NodeVerdicts
  <2>3. outcome \in NodeWords
    BY <1>3 DEF NodeWords, NodeVerdicts, Passing
  <2> QED
    BY <1>1, <1>2, <2>1, <2>2, <2>3, StoppedFits
<1>4. CASE outcome = "ok" /\ against = "behind"
  <2>1. p = Ended(Heard(q, "node", "behind"), "bad_request")
    BY <1>4 DEF AfterRead
  <2>2. "behind" \in NodeWords /\ "behind" \in NodeVerdicts
    BY DEF NodeWords, NodeVerdicts
  <2> QED
    BY <1>1, <1>2, <2>1, <2>2, StoppedFits
<1>5. CASE outcome = "ok" /\ against # "behind"
  <2> DEFINE rest == Tail(q.unread)
             ahead == q.future \/ against = "ahead"
             m == [q EXCEPT !.unread = rest]
             n == [q EXCEPT !.unread = Tail(@), !.future = @ \/ against = "ahead"]
  <2>1. m = Made(q.phase, q.sent, q.tx, q.hash, rest, q.future, q.said, q.answer)
    BY SetUnread, Zenon
  <2>2. n = [m EXCEPT !.future = ahead]
    OBVIOUS
  <2>3. p = IF n.unread # << >> THEN n
            ELSE IF n.future THEN AfterSimulation(Heard(n, "node", "ahead"))
            ELSE Goto(n, "simulate")
    BY <1>5 DEF AfterRead
  <2> HIDE DEF rest, ahead, m, n
  <2>4. /\ IsRequest(m) /\ m.phase = q.phase /\ m.sent = q.sent /\ m.tx = q.tx
        /\ m.hash = q.hash /\ m.unread = rest /\ m.said = q.said /\ m.answer = q.answer
    BY <2>1, MadeFields
  <2>5. n = Made(m.phase, m.sent, m.tx, m.hash, m.unread, ahead, m.said, m.answer)
    BY <2>2, <2>4, SetFuture
  <2>6. /\ IsRequest(n) /\ n.phase = q.phase /\ n.sent = q.sent /\ n.tx = q.tx
        /\ n.hash = q.hash /\ n.said = q.said /\ n.answer = q.answer
    BY <2>4, <2>5, MadeFields
  <2>7. Carries(n, q)
    BY <2>6 DEF Carries
  <2>8. /\ n.sent \in Submissions /\ n.answer = "none" /\ Valid(config, n.sent)
        /\ Presentable(config, n) /\ n.said = Prelude(config, n.sent)
    BY <1>1, <1>2, <2>6, <2>7, CarriedOn, Zenon
  <2>9. CASE n.unread # << >>
    <3>1. p = n /\ AtNodes(config, n)
      BY <2>3, <2>6, <2>8, <2>9 DEF AtNodes
    <3> QED
      BY <2>6, <2>8, <3>1 DEF Progress, Waiting
  <2>10. CASE n.unread = << >> /\ n.future
    <3>1. p = AfterSimulation(Heard(n, "node", "ahead")) /\ "ahead" \in Passing
      BY <2>3, <2>10 DEF Passing
    <3> QED
      BY <2>6, <2>8, <3>1, HeardPasses
  <2>11. CASE n.unread = << >> /\ ~n.future
    <3>1. p = Goto(n, "simulate")
      BY <2>3, <2>11
    <3>2. Carries(p, n) /\ p.phase = "simulate" /\ p.said = n.said /\ p.answer = "none"
      BY <2>6, <2>8, <3>1, GotoFields
    <3>3. AtNodes(config, p)
      BY <2>8, <3>2, CarriedOn DEF AtNodes
    <3> QED
      BY <2>8, <3>2, <3>3, CarriedOn DEF Progress, Waiting
  <2> QED
    BY <2>9, <2>10, <2>11
<1> QED
  BY <1>3, <1>4, <1>5

\* The simulation itself.
LEMMA SimulateFits ==
    ASSUME NEW q, IsRequest(q), NEW before, Progress(config, q, before), q.phase = "simulate",
           NEW outcome \in Outcomes, NEW reply, NEW execution \in Executions,
           NEW p, p = AfterSimulate(q, outcome, reply, execution)
    PROVE  IsRequest(p) /\ Progress(config, p, outcome)
<1>1. /\ q.sent \in Submissions /\ q.answer = "none" /\ Valid(config, q.sent)
      /\ AtNodes(config, q)
  BY WaitingPhase
<1>2. Presentable(config, q) /\ q.said = Prelude(config, q.sent)
  BY <1>1 DEF AtNodes
<1>3. CASE outcome \in Skipped
  <2>1. p = AfterSimulation(Heard(q, "node", outcome)) /\ outcome \in Passing
    BY <1>3 DEF AfterSimulate, Skipped, Passing
  <2> QED
    BY <1>1, <1>2, <2>1, HeardPasses
<1>4. CASE outcome \notin Skipped \cup {"ok"}
  <2>1. p = Ended(Heard(q, "node", outcome), GatewayStatus(outcome))
    BY <1>4 DEF AfterSimulate
  <2>2. outcome \in {"transport", "rpc_error"}
    BY <1>4 DEF Skipped, Outcomes
  <2>3. \/ GatewayStatus(outcome) = "bad_request" /\ outcome \in NodeVerdicts
        \/ GatewayStatus(outcome) = "unavailable" /\ outcome = "transport"
    BY <2>2, GatewayStatusOf DEF NodeVerdicts
  <2>4. outcome \in NodeWords
    BY <2>2 DEF NodeWords, NodeVerdicts
  <2> QED
    BY <1>1, <1>2, <2>1, <2>3, <2>4, StoppedFits
<1>5. CASE outcome = "ok" /\ reply = "violation"
  <2>1. p = Ended(Heard(q, "node", "violation"), "bad_request")
    BY <1>5 DEF AfterSimulate, Skipped
  <2>2. "violation" \in NodeWords /\ "violation" \in NodeVerdicts
    BY DEF NodeWords, NodeVerdicts
  <2> QED
    BY <1>1, <1>2, <2>1, <2>2, StoppedFits
<1>6. CASE outcome = "ok" /\ reply # "violation"
  <2>1. CASE execution \in {"errored", "reverted"}
    <3>1. p = Ended(Heard(q, "node", execution), "bad_request")
      BY <1>6, <2>1 DEF AfterSimulate, Skipped
    <3>2. execution \in NodeWords /\ execution \in NodeVerdicts
      BY <2>1 DEF NodeWords, NodeVerdicts
    <3> QED
      BY <1>1, <1>2, <3>1, <3>2, StoppedFits
  <2>2. CASE execution \notin {"errored", "reverted"}
    <3>1. p = AfterSimulation(Heard(q, "node", execution))
      BY <1>6, <2>2 DEF AfterSimulate, Skipped
    <3>2. execution \in Passing
      BY <2>2 DEF Executions, Passing
    <3> QED
      BY <1>1, <1>2, <3>1, <3>2, HeardPasses
  <2> QED
    BY <2>1, <2>2
<1> QED
  BY <1>3, <1>4, <1>5, <1>6

LEMMA ReserveFits ==
    ASSUME NEW c, NEW q, NEW res, NEW reply \in StoreReplies, IsRequest(q),
           q.phase = "reserve", Progress(c, q, res),
           NEW p, p = Ended(Heard(q, "store", reply), ReserveStatus(reply))
    PROVE  IsRequest(p) /\ Progress(c, p, res)
<1>1. q.sent \in Submissions /\ q.answer = "none" /\ Valid(c, q.sent) /\ AtStore(c, q)
  BY WaitingPhase
<1>2. PICK n \in Passing : q.said = Append(Prelude(c, q.sent), <<"node", n>>)
  BY <1>1 DEF AtStore
<1> DEFINE h == Heard(q, "store", reply)
<1>3. Carries(h, q) /\ h.said = Append(q.said, <<"store", reply>>)
  BY HeardFields
<1>4. IsRequest(h) /\ p = Ended(h, ReserveStatus(reply))
  BY <1>3 DEF Carries
<1> HIDE DEF h
<1>5. /\ Carries(p, h) /\ p.phase = "answered" /\ p.said = h.said
      /\ p.answer = ReserveStatus(reply)
  BY <1>4, EndedFields
<1>6. Carries(p, q)
  BY <1>3, <1>5 DEF Carries
<1>7. p.said = Append(Append(Prelude(c, p.sent), <<"node", n>>), <<"store", reply>>)
  <2>1. p.sent = q.sent
    BY <1>6 DEF Carries
  <2>2. p.said = Append(q.said, <<"store", reply>>)
    BY <1>3, <1>5
  <2> QED
    BY <1>2, <2>1, <2>2, Zenon
<1>8. Valid(c, p.sent) /\ ForSponsor(c, p) /\ Presentable(c, p)
  BY <1>1, <1>6, CarriedOn DEF AtStore
<1>9. \E m \in Passing, said \in StoreReplies :
         /\ p.said = Append(Append(Prelude(c, p.sent), <<"node", m>>), <<"store", said>>)
         /\ p.answer = ReserveStatus(said)
  BY <1>5, <1>7, Zenon
<1>10. ByStore(c, p)
  BY <1>8, <1>9, Zenon DEF ByStore
<1> QED
  BY <1>1, <1>5, <1>6, <1>10 DEF Carries, Progress, Finished


-----------------------------------------------------------------------------
(* What a call of the gateway leaves behind                                *)

LEMMA CallEffect ==
    ASSUME GatewayTypeOK, NEW c \in Callers, NEW o, Call(c, o)
    PROVE  /\ op'[c] = o /\ OutcomesHeard(heard'[c]) = {}
           /\ \A d \in Callers \ {c} :
                 op'[d] = op[d] /\ heard'[d] = heard[d] /\ result'[d] = result[d]
<1>1. /\ op'[c] = o /\ heard'[c] = << >>
      /\ \A d \in Callers \ {c} :
            op'[d] = op[d] /\ heard'[d] = heard[d] /\ result'[d] = result[d]
  BY DEF GatewayTypeOK, Call
<1>2. OutcomesHeard(<< >>) = {}
  BY DEF OutcomesHeard
<1> QED
  BY <1>1, <1>2

\* The call goes on, or returns an outcome: a decline only if it heard one.
LEMMA AnswerEffect ==
    ASSUME GatewayInv, NEW c \in Callers, NEW reply, Answer(c, reply)
    PROVE  /\ op[c] # "none"
           /\ OutcomesHeard(heard'[c]) = OutcomesHeard(heard[c]) \cup {Classify(reply)}
           /\ \/ op'[c] = op[c]
              \/ /\ op'[c] = "none" /\ result'[c] \in Outcomes
                 /\ result'[c] \in OutcomesHeard(heard'[c])
           /\ \A d \in Callers \ {c} :
                 op'[d] = op[d] /\ heard'[d] = heard[d] /\ result'[d] = result[d]
<1> DEFINE e       == Head(order[c])
           outcome == Classify(reply)
           h       == Append(heard[c], <<e, outcome>>)
           n       == Len(heard[c])
<1>1. GatewayTypeOK /\ CallInv(c) /\ op[c] # "none"
  BY DEF GatewayInv, Answer
<1>2. order[c] \in Seq(Endpoints) /\ heard[c] \in Seq(Endpoints \X Outcomes) /\ n \in Nat
  BY <1>1, SeqLen DEF GatewayTypeOK
<1>3. order[c] # << >>
  <2>1. Unanswered(c)
    BY <1>1 DEF CallInv, Returned
  <2> QED
    BY <1>1, <1>2, <2>1, SeqEmpty DEF Unanswered
<1>4. e \in Endpoints /\ outcome \in Outcomes
  BY <1>2, <1>3, SeqTail, ClassifyType
<1>5. /\ h \in Seq(Endpoints \X Outcomes) /\ Len(h) = n + 1
      /\ \A i \in 1..n : h[i] = heard[c][i]
      /\ h[n + 1] = <<e, outcome>>
  BY <1>2, <1>4, SeqAppend
<1>6. /\ heard'[c] = h
      /\ \/ op'[c] = op[c]
         \/ op'[c] = "none" /\ result'[c] = IF NonAnswer(outcome) THEN Exhausted(h) ELSE outcome
      /\ \A d \in Callers \ {c} :
            op'[d] = op[d] /\ heard'[d] = heard[d] /\ result'[d] = result[d]
  BY <1>1 DEF Answer, GatewayTypeOK
<1> HIDE DEF e, outcome, h, n
<1>7. DOMAIN h = 1..(n + 1) /\ DOMAIN heard[c] = 1..n
  BY <1>2, <1>5, SeqLen DEF n
<1>8. h[n + 1][2] = outcome
  BY <1>5
<1>9. OutcomesHeard(h) = OutcomesHeard(heard[c]) \cup {outcome}
  <2>1. \A i \in 1..(n + 1) : i = n + 1 \/ i \in 1..n
    BY <1>2
  <2>2. n + 1 \in 1..(n + 1) /\ \A i \in 1..n : i \in 1..(n + 1)
    BY <1>2
  <2>3. OutcomesHeard(h) \subseteq OutcomesHeard(heard[c]) \cup {outcome}
    BY <1>5, <1>7, <1>8, <2>1 DEF OutcomesHeard
  <2>4. outcome \in OutcomesHeard(h)
    BY <1>7, <1>8, <2>2 DEF OutcomesHeard
  <2>5. OutcomesHeard(heard[c]) \subseteq OutcomesHeard(h)
    BY <1>5, <1>7, <2>2 DEF OutcomesHeard
  <2> QED
    BY <2>3, <2>4, <2>5
<1>10. Exhausted(h) \in OutcomesHeard(h) /\ Exhausted(h) \in Outcomes
  BY <1>4, <1>5, <1>8, <1>9 DEF Exhausted, Outcomes
<1> QED
  BY <1>1, <1>4, <1>6, <1>9, <1>10 DEF outcome

\* A node reads a nonce or does not; it has no reading to decline.
LEMMA ReadClassified ==
    ASSUME NEW reply \in Replies("read")
    PROVE  Classify(reply) \in {"ok", "transport", "unsupported", "rpc_error"}
  BY DEF Replies, Classify


-----------------------------------------------------------------------------
(* The invariant                                                           *)

LEMMA CInvInit == Init => CInv
<1> SUFFICES ASSUME Init PROVE CInv
  OBVIOUS
<1>1. config \in Configs /\ up = FALSE /\ request = [r \in Requests |-> Idle]
  BY DEF Init
<1>2. \A r \in Requests : op[r] = "none"
  BY RequestsAssumption DEF Init, GatewayInit
<1>3. \A r \in Requests : RequestInv(r)
  BY <1>1, <1>2, IdleFields DEF RequestInv, CallOK
<1> QED
  BY <1>1, <1>3, Zenon DEF CInv

\* The calls of the requests other than r are as they were.
OthersCalls(r) ==
    \A s \in Requests \ {r} : op'[s] = op[s] /\ heard'[s] = heard[s] /\ result'[s] = result[s]

\* One request moves, with its own call.
LEMMA RequestMoves ==
    ASSUME CInv, NEW r \in Requests, UNCHANGED <<config, up>>, up, NEW p, Update(r, p),
           IsRequest(p), CallOK(p.phase, op'[r], heard'[r]), Progress(config, p, result'[r]),
           OthersCalls(r)
    PROVE  CInv'
<1>1. /\ request' = [request EXCEPT ![r] = p]
      /\ request = [s \in Requests |-> request[s]]
  BY DEF Update, CInv
<1>2. /\ request' = [s \in Requests |-> request'[s]]
      /\ request'[r] = p /\ \A s \in Requests \ {r} : request'[s] = request[s]
  BY <1>1
<1>3. RequestInv(r)'
  BY <1>2 DEF RequestInv
<1>4. ASSUME NEW s \in Requests \ {r}
      PROVE  RequestInv(s)'
  <2>1. RequestInv(s)
    BY DEF CInv
  <2> QED
    BY <1>2, <2>1 DEF RequestInv, OthersCalls
<1> QED
  BY <1>2, <1>3, <1>4 DEF CInv

\* The gateway is not involved, and the request has no call under way.
LEMMA RequestMovesAlone ==
    ASSUME CInv, NEW r \in Requests, request[r].phase \notin {"nonce", "simulate"},
           UNCHANGED <<config, up, gateway>>, up, NEW p, Update(r, p),
           IsRequest(p), Progress(config, p, result[r])
    PROVE  CInv'
<1>1. op'[r] = "none" /\ OthersCalls(r) /\ result' = result
  BY DEF CInv, RequestInv, CallOK, OthersCalls, gateway
<1> QED
  BY <1>1, RequestMoves DEF CallOK

\* No request moves, nor a call of one.
LEMMA RequestsStay ==
    ASSUME CInv, UNCHANGED <<config, up, request>>,
           \A s \in Requests : op'[s] = op[s] /\ heard'[s] = heard[s] /\ result'[s] = result[s]
    PROVE  CInv'
<1>1. ASSUME NEW s \in Requests
      PROVE  RequestInv(s)'
  BY DEF CInv, RequestInv
<1> QED
  BY <1>1 DEF CInv

LEMMA UnderWay ==
    ASSUME CInv, NEW r \in Requests, request[r].phase # "idle"
    PROVE  up /\ IsRequest(request[r]) /\ Progress(config, request[r], result[r])
  BY IdleFields DEF CInv, RequestInv

LEMMA BootKeeps ==
    ASSUME CInv, NEW reply, NEW redis \in BOOLEAN, Boot(reply, redis)
    PROVE  CInv'
<1>1. ~up /\ UNCHANGED <<config, request, gateway>>
  BY DEF Boot
<1>2. up' \in BOOLEAN
  BY DEF Boot, ProbeOk, PolicyBuilt
<1>3. ASSUME NEW r \in Requests
      PROVE  RequestInv(r)'
  <2>1. request[r] = Idle /\ IsRequest(request[r]) /\ CallOK(request[r].phase, op[r], heard[r])
    BY <1>1 DEF CInv, RequestInv
  <2>2. UNCHANGED <<request, op, heard>>
    BY <1>1 DEF gateway
  <2> QED
    BY <2>1, <2>2 DEF RequestInv, Idle
<1> QED
  BY <1>1, <1>2, <1>3 DEF CInv

\* Those steps of a request in which no node is asked.
LEMMA AloneKeeps ==
    ASSUME CInv, NEW r \in Requests,
           \/ \E tx \in Submissions : ReceiveLimited(r, tx) \/ Receive(r, tx)
           \/ \E reply \in WebhookReplies : Decide(r, reply)
           \/ \E reply \in SignerReplies(config.signer) : Sign(r, reply)
           \/ \E reply \in StoreReplies : Reserve(r, reply)
    PROVE  CInv'
<1> DEFINE q == request[r]
<1>1. ASSUME NEW tx \in Submissions, ReceiveLimited(r, tx) \/ Receive(r, tx)
      PROVE  CInv'
  <2>1. up /\ UNCHANGED <<config, up, gateway>> /\ q.phase \notin {"nonce", "simulate"}
    BY <1>1, IdleFields DEF ReceiveLimited, Receive
  <2>2. PICK p : /\ Update(r, p)
                 /\ \/ p = Ended(Received(tx), "too_many_requests")
                    \/ p = CASE ~LocallyValid(tx) -> Ended(Received(tx), "bad_request")
                             [] LocallyValid(tx) /\ Sponsored(tx) -> StartSponsorship(Received(tx))
                             [] OTHER -> StartSimulation(Received(tx))
    BY <1>1 DEF ReceiveLimited, Receive
  <2>3. IsRequest(p) /\ Progress(config, p, result[r])
    BY <2>2, ReceiveFits
  <2> QED
    BY <2>1, <2>2, <2>3, RequestMovesAlone
<1>2. ASSUME NEW reply \in WebhookReplies, Decide(r, reply)
      PROVE  CInv'
  <2> DEFINE p == AfterDecision(q, reply)
  <2>1. q.phase = "decide" /\ Update(r, p) /\ UNCHANGED <<config, up, gateway>>
    BY <1>2 DEF Decide
  <2>2. up /\ IsRequest(q) /\ Progress(config, q, result[r])
    BY <2>1, UnderWay
  <2>3. IsRequest(p) /\ Progress(config, p, result[r])
    BY <2>1, <2>2, DecideFits
  <2> HIDE DEF p
  <2> QED
    BY <2>1, <2>2, <2>3, RequestMovesAlone
<1>3. ASSUME NEW reply \in SignerReplies(config.signer), Sign(r, reply)
      PROVE  CInv'
  <2> DEFINE p == AfterSigning(Heard(q, "signer", reply), reply)
  <2>1. q.phase = "sign" /\ Update(r, p) /\ UNCHANGED <<config, up, gateway>>
    BY <1>3 DEF Sign
  <2>2. up /\ IsRequest(q) /\ Progress(config, q, result[r])
    BY <2>1, UnderWay, ZenonT(30)
  <2>3. IsRequest(p) /\ Progress(config, p, result[r])
    BY <2>1, <2>2, SignFits, ZenonT(30)
  <2> HIDE DEF p
  <2> QED
    BY <2>1, <2>2, <2>3, RequestMovesAlone, ZenonT(30)
<1>4. ASSUME NEW reply \in StoreReplies, Reserve(r, reply)
      PROVE  CInv'
  <2> DEFINE p == Ended(Heard(q, "store", reply), ReserveStatus(reply))
  <2>1. q.phase = "reserve" /\ Update(r, p) /\ UNCHANGED <<config, up, gateway>>
    BY <1>4, ZenonT(30) DEF Reserve
  <2>2. up /\ IsRequest(q) /\ Progress(config, q, result[r])
    BY <2>1, UnderWay
  <2>3. IsRequest(p) /\ Progress(config, p, result[r])
    BY <2>1, <2>2, ReserveFits, Zenon
  <2> HIDE DEF p
  <2> QED
    BY <2>1, <2>2, <2>3, RequestMovesAlone, ZenonT(30)
<1> QED
  BY <1>1, <1>2, <1>3, <1>4


\* What a call returns does not matter to a request that waits.
LEMMA StillWaiting ==
    ASSUME NEW c, NEW q, NEW res, q.phase # "answered", Progress(c, q, res), NEW after
    PROVE  Progress(c, q, after)
  BY DEF Progress, Finished

\* A request asks the nodes.
LEMMA AskKeeps ==
    ASSUME CInv, GatewayInv, NEW r \in Requests, NEW phase, NEW operation,
           <<phase, operation>> \in {<<"nonce", "read">>, <<"simulate", "simulate">>},
           AskNode(r, phase, operation)
    PROVE  CInv'
<1> DEFINE q == request[r]
<1>1. /\ q.phase = phase /\ Call(r, operation) /\ UNCHANGED <<config, up, request>>
      /\ \/ phase = "nonce" /\ operation = "read"
         \/ phase = "simulate" /\ operation = "simulate"
  BY DEF AskNode, compiler
<1>2. r \in Callers /\ Requests \subseteq Callers /\ GatewayTypeOK
  BY RequestsAssumption DEF GatewayInv
<1>3. /\ op'[r] = operation /\ OutcomesHeard(heard'[r]) = {} /\ OthersCalls(r)
  BY <1>1, <1>2, CallEffect DEF OthersCalls
<1>4. up /\ IsRequest(q) /\ Progress(config, q, result[r])
  BY <1>1, UnderWay
<1>5. Progress(config, q, result'[r])
  BY <1>1, <1>4, StillWaiting
<1>6. CallOK(q.phase, op'[r], heard'[r])
  BY <1>1, <1>3 DEF CallOK
<1>7. Update(r, q)
  BY <1>1 DEF CInv, Update
<1> QED
  BY <1>1, <1>3, <1>4, <1>5, <1>6, <1>7, RequestMoves

\* A node answers a request: its call goes on, or ends and the request with it
\* moves as AfterRead or AfterSimulate say.
LEMMA ReadKeeps ==
    ASSUME CInv, GatewayInv, NEW r \in Requests, NEW reply \in Replies("read"),
           NEW against \in {"behind", "at", "ahead"}, NodeReads(r, reply, against)
    PROVE  CInv'
<1> DEFINE q == request[r]
           p == AfterRead(q, result'[r], against)
<1>1. /\ op[r] = "read" /\ Answer(r, reply) /\ UNCHANGED <<config, up>>
      /\ Update(r, IF op'[r] # "none" THEN q ELSE p)
  BY DEF NodeReads
<1>2. r \in Callers /\ Requests \subseteq Callers
  BY RequestsAssumption
<1>3. q.phase = "nonce" /\ "declined" \notin OutcomesHeard(heard[r])
  BY <1>1 DEF CInv, RequestInv, CallOK
<1>4. up /\ IsRequest(q) /\ Progress(config, q, result[r])
  BY <1>3, UnderWay
<1>5. /\ \/ op'[r] = "read"
         \/ op'[r] = "none" /\ result'[r] \in Outcomes
              /\ result'[r] \in OutcomesHeard(heard'[r])
      /\ OutcomesHeard(heard'[r]) = OutcomesHeard(heard[r]) \cup {Classify(reply)}
      /\ OthersCalls(r)
  BY <1>1, <1>2, AnswerEffect DEF OthersCalls
<1>6. "declined" \notin OutcomesHeard(heard'[r])
  BY <1>3, <1>5, ReadClassified
<1>7. CASE op'[r] = "read"
  <2>1. Update(r, q)
    BY <1>1, <1>7
  <2>2. CallOK(q.phase, op'[r], heard'[r])
    BY <1>3, <1>6, <1>7 DEF CallOK
  <2>3. Progress(config, q, result'[r])
    BY <1>3, <1>4, StillWaiting
  <2> QED
    BY <1>1, <1>4, <1>5, <2>1, <2>2, <2>3, RequestMoves, Zenon
<1>8. CASE op'[r] = "none" /\ result'[r] \in Outcomes /\ result'[r] # "declined"
  <2>1. Update(r, p)
    BY <1>1, <1>8
  <2>2. result'[r] \in {"ok", "transport", "unsupported", "rpc_error"}
    BY <1>8 DEF Outcomes
  <2>3. IsRequest(p) /\ Progress(config, p, result'[r])
    BY <1>3, <1>4, <2>2, ReadFits
  <2>4. CallOK(p.phase, op'[r], heard'[r])
    BY <1>8 DEF CallOK
  <2> HIDE DEF p
  <2> QED
    BY <1>1, <1>4, <1>5, <2>1, <2>3, <2>4, RequestMoves, ZenonT(30)
<1> QED
  BY <1>5, <1>6, <1>7, <1>8

LEMMA SimulateKeeps ==
    ASSUME CInv, GatewayInv, NEW r \in Requests, NEW reply \in Replies("simulate"),
           NEW execution \in Executions, NodeSimulates(r, reply, execution)
    PROVE  CInv'
<1> DEFINE q == request[r]
           p == AfterSimulate(q, result'[r], reply, execution)
<1>1. /\ op[r] = "simulate" /\ Answer(r, reply) /\ UNCHANGED <<config, up>>
      /\ Update(r, IF op'[r] # "none" THEN q ELSE p)
  BY DEF NodeSimulates
<1>2. r \in Callers /\ Requests \subseteq Callers
  BY RequestsAssumption
<1>3. q.phase = "simulate"
  BY <1>1 DEF CInv, RequestInv, CallOK
<1>4. up /\ IsRequest(q) /\ Progress(config, q, result[r])
  BY <1>3, UnderWay
<1>5. /\ op'[r] = "simulate" \/ (op'[r] = "none" /\ result'[r] \in Outcomes)
      /\ OthersCalls(r)
  BY <1>1, <1>2, AnswerEffect DEF OthersCalls
<1>6. CASE op'[r] = "simulate"
  <2>1. Update(r, q)
    BY <1>1, <1>6
  <2>2. CallOK(q.phase, op'[r], heard'[r])
    BY <1>3, <1>6 DEF CallOK
  <2>3. Progress(config, q, result'[r])
    BY <1>3, <1>4, StillWaiting
  <2> QED
    BY <1>1, <1>4, <1>5, <2>1, <2>2, <2>3, RequestMoves
<1>7. CASE op'[r] = "none" /\ result'[r] \in Outcomes
  <2>1. Update(r, p)
    BY <1>1, <1>7
  <2>2. IsRequest(p) /\ Progress(config, p, result'[r])
    BY <1>3, <1>4, <1>7, SimulateFits, Zenon
  <2>3. CallOK(p.phase, op'[r], heard'[r])
    BY <1>7 DEF CallOK
  <2> HIDE DEF p
  <2> QED
    BY <1>1, <1>4, <1>5, <2>1, <2>2, <2>3, RequestMoves, ZenonT(30)
<1> QED
  BY <1>5, <1>6, <1>7

\* The broadcaster's calls are not those of a request.
LEMMA BroadcasterKeeps ==
    ASSUME CInv, GatewayInv, NEW c \in Callers \ Requests,
           \/ \E operation \in Operations : BroadcasterCalls(c, operation)
           \/ BroadcasterHears(c)
    PROVE  CInv'
<1>1. c \in Callers /\ Requests \subseteq Callers \ {c} /\ GatewayTypeOK
  BY RequestsAssumption DEF GatewayInv
<1>2. UNCHANGED <<config, up, request>>
  BY DEF BroadcasterCalls, BroadcasterHears, compiler
<1>3. \A d \in Callers \ {c} : op'[d] = op[d] /\ heard'[d] = heard[d] /\ result'[d] = result[d]
  <2>1. CASE \E operation \in Operations : Call(c, operation)
    BY <1>1, <2>1, CallEffect
  <2>2. CASE \E reply \in Replies(op[c]) : Answer(c, reply)
    BY <1>1, <2>2, AnswerEffect
  <2> QED
    BY <2>1, <2>2 DEF BroadcasterCalls, BroadcasterHears, Answered
<1> QED
  BY <1>1, <1>2, <1>3, RequestsStay

LEMMA CInvStep == CInv /\ GatewayInv /\ [Next]_vars => CInv'
<1> SUFFICES ASSUME CInv, GatewayInv, [Next]_vars PROVE CInv'
  OBVIOUS
<1>1. CASE UNCHANGED vars
  BY <1>1, RequestsStay DEF vars, compiler, gateway
<1>2. CASE \E reply \in SignerReplies(config.signer), redis \in BOOLEAN : Boot(reply, redis)
  BY <1>2, BootKeeps
<1>3. CASE \E r \in Requests, tx \in Submissions : ReceiveLimited(r, tx) \/ Receive(r, tx)
  BY <1>3, AloneKeeps
<1>4. ASSUME NEW r \in Requests, CompileStep(r)
      PROVE  CInv'
  BY <1>4, AloneKeeps, AskKeeps, ReadKeeps, SimulateKeeps DEF CompileStep, EngineStep, ReplyStep
<1>5. CASE \/ \E c \in Callers \ Requests, operation \in Operations :
                  BroadcasterCalls(c, operation)
           \/ \E c \in Callers \ Requests : BroadcasterHears(c)
  BY <1>5, BroadcasterKeeps
<1> QED
  BY <1>1, <1>2, <1>3, <1>4, <1>5 DEF Next

\* Every request of a run has got where it is in the order of the pipeline: by
\* CInv, what was said to it so far and its transaction as it stands follow
\* from whom it waits for or who ended it.  For any set of requests, any
\* configurations and transactions, and any list of endpoints.
THEOREM CompileInvariant == Spec => [](CInv /\ GatewayInv)
<1>1. Spec => []GatewayInv
  BY CompileImplementsGateway, GatewayInvariant, PTL
<1>2. Init => CInv
  BY CInvInit
<1>3. CInv /\ GatewayInv /\ [Next]_vars => CInv'
  BY CInvStep
<1> QED
  BY <1>1, <1>2, <1>3, PTL DEF Spec

=============================================================================
