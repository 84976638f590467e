-------------------------- MODULE QueueCoreProofs --------------------------
(***************************************************************************)
(* The lease protocol of Queue, continued from QueueProofs: every step     *)
(* keeps the invariant (push, the replacing queue_job, poll, the guarded   *)
(* EXEC of a completion, the pruning of the histories, and what a task, a  *)
(* crash and an expired lease do), the safety properties that follow from  *)
(* it, and the refinement of JobLifecycle.  They assume that no watch is   *)
(* dropped between a WATCH and its EXEC, which the last section proves for *)
(* workers with one permit.                                                *)
(***************************************************************************)
EXTENDS QueueProofs

\* Zenon first, which is quick on the many leaves without arithmetic.
USE ZenonT(8), SMTT(30)

-----------------------------------------------------------------------------
(* Each step keeps the invariant                                           *)

\* The part of CoreInv that is left after TypeStep and GuardedStep.
Rest ==
    /\ Apart
    /\ Known
    /\ LeaseExclusive
    /\ ReplacementNotLost

\* A push takes an id that is nowhere.
LEMMA PushCore ==
    ASSUME CoreInv, NEW j \in Jobs, NEW d \in Data, NEW wait \in BOOLEAN,
           NEW position \in Positions, Push(j, d, wait, position)
    PROVE  Rest'
<1>1. TypeOK /\ Apart /\ Known /\ LeaseExclusive /\ ReplacementNotLost
  BY DEF CoreInv
<1>2. j \notin created
  BY <1>1 DEF Push, Known
<1>3. /\ Range(Append(pending, j)) = Range(pending) \cup {j}
      /\ IsInjective(Append(pending, j))
  <2>1. pending \in Seq(Jobs) /\ j \notin Range(pending) /\ IsInjective(pending)
    BY <1>1, <1>2 DEF TypeOK, Known, Apart
  <2> QED
    BY <2>1, AppendRange, PushInjective, ZenonT(30)
<1>4. /\ Range(pending') \cup delayed' = Range(pending) \cup delayed \cup {j}
      /\ Range(pending') \subseteq Range(pending) \cup {j}
      /\ delayed' \subseteq delayed \cup {j}
      /\ Range(pending') \cap delayed' = {}
      /\ IsInjective(pending')
  BY <1>1, <1>2, <1>3 DEF Push, Known, Apart
<1>5. UNCHANGED <<active, success, failed, cancels, leases, task>>
  BY DEF Push
<1>6. Apart'
  BY <1>1, <1>2, <1>4, <1>5 DEF Apart, Known
<1>7. Known'
  <2>1. /\ created' = created \cup {j}
        /\ dedupe' = dedupe \cup {j}
        /\ finished' = finished \ {j}
        /\ result' = result \ {j}
        /\ deferred' \cup retrying' \cup front' \subseteq deferred \cup retrying \cup front \cup {j}
    BY DEF Push, Reenter
  <2>2. /\ \A i \in Jobs : data'[i] = IF i = j THEN d ELSE data[i]
        /\ \A i \in Jobs : token'[i] = IF i = j THEN None ELSE token[i]
        /\ \A i \in Jobs : attempts'[i] = IF i = j THEN 0 ELSE attempts[i]
    BY <1>1 DEF Push, TypeOK
  <2>3. d # None
    BY NoneIsNothing
  <2>4. created' = (Range(pending) \cup delayed \cup active
                      \cup Range(success) \cup Range(failed))'
    BY <1>1, <1>4, <1>5, <2>1 DEF Known
  <2>5. finished' = (Range(success) \cup Range(failed))' /\ result' = Range(success)'
    BY <1>1, <1>2, <1>5, <2>1 DEF Known
  <2>6. /\ dedupe' = created'
        /\ cancels' = {}
        /\ deferred' \cup retrying' \cup front' \subseteq created'
    BY <1>1, <1>5, <2>1 DEF Known
  <2>7. \A i \in Jobs : data'[i] # None <=> i \in created'
    BY <1>1, <2>1, <2>2, <2>3 DEF Known
  <2>8. \A i \in Jobs : token'[i] # None <=> i \in active'
    BY <1>1, <1>2, <1>5, <2>2 DEF Known
  <2>9. \A i \in Jobs : attempts'[i] # 0 => i \in created'
    BY <1>1, <2>1, <2>2 DEF Known
  <2> QED
    BY <2>4, <2>5, <2>6, <2>7, <2>8, <2>9 DEF Known
<1>8. \A l \in leases : l[1] \in active /\ l[1] # j /\ l[1] \in Jobs
  BY <1>1, <1>2 DEF LeaseExclusive, Known, TypeOK
<1>9. LeaseExclusive'
  <2>1. \A i \in Jobs : i # j => token'[i] = token[i]
    BY <1>1 DEF Push, TypeOK
  <2> QED
    BY <1>1, <1>5, <1>8, <2>1 DEF LeaseExclusive
<1>10. ReplacementNotLost'
  <2>1. \A i \in Jobs : i # j => data'[i] = data[i]
    BY <1>1 DEF Push, TypeOK
  <2> QED
    BY <1>1, <1>5, <1>8, <2>1 DEF ReplacementNotLost
<1> QED
  BY <1>6, <1>7, <1>9, <1>10 DEF Rest

\* A replacement is refused for an active job, so no lease holder has the old
\* payload.
LEMMA ReplaceCore ==
    ASSUME CoreInv, NEW j \in Jobs, NEW d \in Data, TryReplacePendingData(j, d)
    PROVE  Rest'
<1>1. TypeOK /\ Apart /\ Known /\ LeaseExclusive /\ ReplacementNotLost
  BY DEF CoreInv
<1>2. /\ UNCHANGED <<pending, delayed, active, success, failed, dedupe, cancels,
                     created, finished, deferred, retrying, front, attempts,
                     token, result, leases, task>>
      /\ \A i \in Jobs : data'[i] = IF i = j THEN d ELSE data[i]
      /\ data[j] # None /\ j \notin active
  BY <1>1 DEF TryReplacePendingData, Replaceable, meta, TypeOK
<1>3. d # None
  BY NoneIsNothing
<1>4. Known'
  BY <1>1, <1>2, <1>3, Zenon DEF Known
<1>5. Apart' /\ LeaseExclusive'
  BY <1>1, <1>2, Zenon DEF Apart, LeaseExclusive
<1>6. ReplacementNotLost'
  <2>1. \A l \in leases : l[1] \in Jobs /\ l[1] # j
    BY <1>1, <1>2 DEF LeaseExclusive, TypeOK
  <2> QED
    BY <1>1, <1>2, <2>1, ZenonT(30) DEF ReplacementNotLost
<1> QED
  BY <1>4, <1>5, <1>6 DEF Rest

\* A step that leaves the store alone and takes away leases at most.
LEMMA StoreKept ==
    ASSUME CoreInv, UNCHANGED store, leases' \subseteq leases,
           \A l \in LeaseKeys : task'[l] # IdleTask =>
                                  task[l] # IdleTask /\ task'[l].data = task[l].data
    PROVE  Rest'
<1>1. TypeOK /\ Apart /\ Known /\ LeaseExclusive /\ ReplacementNotLost
  BY DEF CoreInv
<1>2. UNCHANGED <<pending, delayed, active, success, failed, dedupe, cancels, data,
                  created, finished, deferred, retrying, front, attempts, token,
                  result>>
  BY DEF store, meta
<1>3. Apart' /\ LeaseExclusive'
  BY <1>1, <1>2 DEF Apart, LeaseExclusive
<1>4. Known'
  BY <1>1, <1>2 DEF Known
<1>5. ReplacementNotLost'
  <2>1. \A l \in leases' : l \in LeaseKeys /\ l \in leases
    BY <1>1 DEF TypeOK
  <2>2. IdleTask' = IdleTask
    BY DEF IdleTask, Task
  <2> QED
    BY <1>1, <1>2, <2>1, <2>2, Zenon DEF ReplacementNotLost
<1> QED
  BY <1>3, <1>4, <1>5 DEF Rest

\* What a poll borrows is no longer, or not yet, leased to anyone.
LEMMA BorrowedIsFree ==
    ASSUME CoreInv, NEW due \in SUBSET delayed, NEW ran \in SUBSET Jobs,
           ran \subseteq due \cup TimedOut \cup Range(pending)
    PROVE  /\ \A l \in leases : l[1] \in active \ TimedOut
           /\ ran \cap (active \ TimedOut) = {}
           /\ ran \subseteq created
           /\ ran \cap (Range(success) \cup Range(failed)) = {}
           /\ \A l \in leases : l[1] \notin ran
<1>1. TypeOK /\ Apart /\ Known /\ LeaseExclusive
  BY DEF CoreInv
<1>2. ASSUME NEW l \in leases PROVE l[1] \in active \ TimedOut
  <2>1. l \in LeaseKeys /\ l[1] \in active /\ token[l[1]] = l[2]
    BY <1>1 DEF TypeOK, LeaseExclusive
  <2>2. <<l[1], token[l[1]]>> = l
    BY <2>1 DEF LeaseKeys
  <2> QED
    BY <2>1, <2>2 DEF TimedOut
<1>3. ran \cap (active \ TimedOut) = {}
  BY <1>1 DEF Apart
<1>4. ran \subseteq created /\ ran \cap (Range(success) \cup Range(failed)) = {}
  BY <1>1, Zenon DEF Apart, Known, TimedOut
<1> QED
  BY <1>2, <1>3, <1>4

\* The leases a poll creates are new, and the tasks it spawns have the stored
\* payload.
LEMMA NewLeases ==
    ASSUME CoreInv, NEW w \in Workers, NEW ids, NEW ran \in SUBSET Jobs,
           NEW new \in [ran -> Tokens], Took(w, ids, ran, new)
    PROVE  /\ \A l \in leases' \ leases : \E j \in ran : l = <<j, new[j]>>
           /\ \A j \in ran : /\ <<j, new[j]>> \in LeaseKeys
                             /\ <<j, new[j]>> \in leases' \ leases
                             /\ token'[j] = new[j]
                             /\ task[<<j, new[j]>>] = IdleTask
                             /\ task'[<<j, new[j]>>].data = data[j]
           /\ \A l \in LeaseKeys : l \notin leases' \ leases => task'[l] = task[l]
           /\ leases \subseteq leases'
<1>1. \A j \in ran : /\ <<j, new[j]>> \in LeaseKeys
                     /\ <<j, new[j]>> \notin leases
                     /\ task[<<j, new[j]>>] = IdleTask
  BY DEF Took, FreshTokens, LeaseKeys
<1>2. \A j \in Jobs : NewTask(w, j).data = data[j]
  BY DEF NewTask, Task
<1>3. \A j \in ran : token'[j] = new[j]
  BY DEF Took
<1>4. leases' = leases \cup {<<j, new[j]>> : j \in ran}
  BY DEF Took
<1>5. \A l \in LeaseKeys :
        task'[l] = IF l \in {<<j, new[j]>> : j \in ran} THEN NewTask(w, l[1]) ELSE task[l]
  BY DEF Took
<1>6. \A j \in ran : task'[<<j, new[j]>>] = NewTask(w, j)
  BY <1>1, <1>5
<1> QED
  BY <1>1, <1>2, <1>3, <1>4, <1>5, <1>6

LEMMA PollCore ==
    ASSUME CoreInv, NEW w \in Workers, PopBatchJobs(w)
    PROVE  Rest'
<1>1. TypeOK /\ Apart /\ Known /\ LeaseExclusive /\ ReplacementNotLost
  BY DEF CoreInv
<1>2. PICK due \in SUBSET delayed, ran \in SUBSET Jobs :
        \E new \in [ran -> Tokens] : Polled(w, due, ran, new)
  BY PollEffect
<1>3. PICK new \in [ran -> Tokens] : Polled(w, due, ran, new)
  BY <1>2
<1> DEFINE ids == due \cup TimedOut \cup Range(pending)
<1>4. Took(w, ids, ran, new)
  BY <1>3 DEF Polled
<1>5. /\ ran \subseteq ids
      /\ Range(pending') = ids \ ran
      /\ IsInjective(pending')
      /\ active' = (active \ TimedOut) \cup ran
      /\ deferred' = deferred \ ran
      /\ retrying' = retrying \ ran
      /\ \A j \in Jobs : attempts'[j] # 0 => attempts[j] # 0 \/ j \in TimedOut \cup ran
      /\ token' = [j \in Jobs |-> IF j \in ran THEN new[j]
                                 ELSE IF j \in TimedOut THEN None
                                 ELSE token[j]]
  BY <1>4 DEF Took
<1>6. /\ delayed' = delayed \ due
      /\ front' = front \ due
      /\ UNCHANGED <<success, failed, dedupe, cancels, data, created, finished,
                     result, watched, dirty>>
  BY <1>3 DEF Polled
<1>7. /\ \A l \in leases : l[1] \in active \ TimedOut
      /\ ran \cap (active \ TimedOut) = {}
      /\ ran \subseteq created
      /\ ran \cap (Range(success) \cup Range(failed)) = {}
      /\ \A l \in leases : l[1] \notin ran
  BY <1>5, BorrowedIsFree, ZenonT(30)
<1>8. /\ \A l \in leases' \ leases : \E j \in ran : l = <<j, new[j]>>
      /\ \A j \in ran : /\ <<j, new[j]>> \in LeaseKeys
                        /\ <<j, new[j]>> \in leases' \ leases
                        /\ token'[j] = new[j]
                        /\ task[<<j, new[j]>>] = IdleTask
                        /\ task'[<<j, new[j]>>].data = data[j]
      /\ \A l \in LeaseKeys : l \notin leases' \ leases => task'[l] = task[l]
      /\ leases \subseteq leases'
  BY <1>4, NewLeases
<1>9. TimedOut \subseteq active
  BY DEF TimedOut
<1>10. Apart'
  BY <1>1, <1>5, <1>6, <1>7, <1>9 DEF Apart
<1>11. Known'
  <2>1. created' = (Range(pending) \cup delayed \cup active
                      \cup Range(success) \cup Range(failed))'
    BY <1>1, <1>5, <1>6, <1>9 DEF Known
  <2>2. \A j \in Jobs : token'[j] # None <=> j \in active'
    <3>1. \A j \in ran : new[j] # None
      BY NoneIsNothing
    <3> QED
      BY <1>1, <1>5, <3>1 DEF Known
  <2>3. \A j \in Jobs : attempts'[j] # 0 => j \in created'
    BY <1>1, <1>5, <1>6, <1>7, <1>9, Zenon DEF Known
  <2>4. deferred' \cup retrying' \cup front' \subseteq created'
    BY <1>1, <1>5, <1>6 DEF Known
  <2> QED
    BY <1>1, <1>6, <2>1, <2>2, <2>3, <2>4 DEF Known
<1>12. LeaseExclusive'
  <2>1. ASSUME NEW l \in leases' PROVE l[1] \in active' /\ token'[l[1]] = l[2]
    <3>1. CASE l \in leases
      <4>1. l[1] \in Jobs /\ token[l[1]] = l[2]
        BY <1>1, <3>1 DEF TypeOK, LeaseExclusive
      <4> QED
        BY <1>5, <1>7, <3>1, <4>1, Zenon
    <3>2. CASE l \notin leases
      <4>1. PICK j \in ran : l = <<j, new[j]>>
        BY <1>8, <3>2
      <4> QED
        BY <1>5, <1>8, <4>1
    <3> QED
      BY <3>1, <3>2
  <2> QED
    BY <2>1 DEF LeaseExclusive
<1>13. ReplacementNotLost'
  <2>1. ASSUME NEW l \in leases', task'[l] # IdleTask PROVE task'[l].data = data[l[1]]
    <3>1. CASE l \in leases
      BY <1>1, <1>8, <2>1, <3>1 DEF ReplacementNotLost, TypeOK
    <3>2. CASE l \notin leases
      <4>1. PICK j \in ran : l = <<j, new[j]>>
        BY <1>8, <3>2
      <4> QED
        BY <1>8, <4>1
    <3> QED
      BY <3>1, <3>2
  <2> QED
    BY <1>6, <2>1, Zenon DEF ReplacementNotLost, IdleTask
<1> QED
  BY <1>10, <1>11, <1>12, <1>13 DEF Rest

\* EXEC goes through only while the lease is live: had it run out, the
\* connection would know.
LEMMA ExecHoldsLease ==
    ASSUME CoreInv, NEW l \in LeaseKeys, NEW kind, Exec(l, kind)
    PROVE  /\ l \in leases
           /\ l[1] \in active
           /\ token[l[1]] = l[2]
           /\ \A m \in leases : m[1] = l[1] => m = l
<1>1. TypeOK /\ Guarded /\ LeaseExclusive
  BY DEF CoreInv
<1>2. l \in leases
  BY <1>1 DEF Exec, Guarded
<1>3. \A m \in leases : m[1] \in active /\ token[m[1]] = m[2] /\ m = <<m[1], m[2]>>
  BY <1>1 DEF TypeOK, LeaseExclusive, LeaseKeys
<1> QED
  BY <1>2, <1>3

\* What the four outcomes have in common.
LEMMA ExecCore ==
    ASSUME CoreInv, NEW l \in LeaseKeys, NEW kind, Exec(l, kind), data' = data
    PROVE  LeaseExclusive' /\ ReplacementNotLost'
<1>1. TypeOK /\ LeaseExclusive /\ ReplacementNotLost
  BY DEF CoreInv
<1>2. /\ Goto(l, AfterCommit(l))
      /\ leases' = leases \ {l}
      /\ active' = active \ {l[1]}
      /\ \A j \in Jobs : token'[j] = IF j = l[1] THEN None ELSE token[j]
  BY <1>1 DEF Exec, TypeOK
<1>5. \A m \in leases' : m \in leases /\ m[1] # l[1] /\ m \in LeaseKeys /\ m[1] \in Jobs
  BY <1>1, <1>2, ExecHoldsLease DEF TypeOK, LeaseKeys
<1>6. LeaseExclusive'
  BY <1>1, <1>2, <1>5 DEF LeaseExclusive
<1>7. ReplacementNotLost'
  <2>1. \A m \in leases' : task'[m] = task[m]
    BY <1>1, <1>2, <1>5, GotoFacts
  <2> QED
    BY <1>1, <1>5, <2>1 DEF ReplacementNotLost, IdleTask
<1> QED
  BY <1>6, <1>7

\* A completion takes the job out of the active hash and puts it in one other
\* place.
LEMMA CommitCore ==
    ASSUME SafeOptions, CoreInv, NEW l \in LeaseKeys, Committed(l)
    PROVE  Apart' /\ Known'
<1> DEFINE j == l[1]
<1>1. TypeOK /\ Apart /\ Known
  BY DEF CoreInv
<1>2. j \in Jobs
  BY DEF LeaseKeys
<1>3. ASSUME NEW kind, Exec(l, kind)
      PROVE  /\ j \in active
             /\ active' = active \ {j}
             /\ \A i \in Jobs : token'[i] = IF i = j THEN None ELSE token[i]
  BY <1>1, <1>3, ExecHoldsLease, ZenonT(30) DEF Exec, TypeOK
<1>4. ASSUME j \in active
      PROVE  j \notin Range(pending) \cup delayed \cup Range(success) \cup Range(failed)
  BY <1>1, <1>4 DEF Apart
<1>5. /\ pending \in Seq(Jobs) /\ success \in Seq(Jobs) /\ failed \in Seq(Jobs)
      /\ IsInjective(pending) /\ IsInjective(success) /\ IsInjective(failed)
  BY <1>1 DEF TypeOK, Apart
<1>6. /\ Range(<<j>> \o success) = Range(success) \cup {j}
      /\ Range(<<j>> \o failed) = Range(failed) \cup {j}
      /\ Range(<<j>> \o pending) = Range(pending) \cup {j}
      /\ Range(Append(pending, j)) = Range(pending) \cup {j}
  BY <1>2, <1>5, ConsRange, AppendRange
<1>7. ASSUME j \in active
      PROVE  /\ IsInjective(<<j>> \o success)
             /\ IsInjective(<<j>> \o failed)
             /\ IsInjective(<<j>> \o pending)
             /\ IsInjective(Append(pending, j))
  <2>1. j \notin Range(success) /\ j \notin Range(failed) /\ j \notin Range(pending)
    BY <1>4, <1>7
  <2> QED
    BY <1>2, <1>5, <2>1, PushInjective
<1> HIDE DEF j
<1>8. CASE CommitSuccess(l)
  <2>1. /\ j \in active
        /\ active' = active \ {j}
        /\ \A i \in Jobs : token'[i] = IF i = j THEN None ELSE token[i]
        /\ success' = <<j>> \o success
        /\ finished' = finished \cup {j}
        /\ result' = result \cup {j}
        /\ dedupe' = dedupe
        /\ UNCHANGED <<pending, delayed, failed, cancels, data, created, deferred,
                       retrying, front, attempts>>
    BY <1>3, <1>8, Options DEF CommitSuccess, j
  <2>2. Range(success') = Range(success) \cup {j} /\ IsInjective(success')
    BY <1>6, <1>7, <2>1
  <2>3. Apart'
    BY <1>1, <1>4, <2>1, <2>2 DEF Apart
  <2>4. Known'
    BY <1>1, <2>1, <2>2, ZenonT(30) DEF Known
  <2> QED
    BY <2>3, <2>4
<1>9. CASE CommitFail(l)
  <2>1. /\ j \in active
        /\ active' = active \ {j}
        /\ \A i \in Jobs : token'[i] = IF i = j THEN None ELSE token[i]
        /\ failed' = <<j>> \o failed
        /\ finished' = finished \cup {j}
        /\ dedupe' = dedupe
        /\ UNCHANGED <<pending, delayed, success, cancels, data, created, deferred,
                       retrying, front, attempts, result>>
    BY <1>3, <1>9, Options, Zenon DEF CommitFail, j
  <2>2. Range(failed') = Range(failed) \cup {j} /\ IsInjective(failed')
    BY <1>6, <1>7, <2>1, Zenon
  <2>3. Apart'
    BY <1>1, <1>4, <2>1, <2>2 DEF Apart
  <2>4. Known'
    BY <1>1, <2>1, <2>2, ZenonT(30) DEF Known
  <2> QED
    BY <2>3, <2>4
<1>10. CASE CommitNack(l)
  <2>1. /\ j \in active
        /\ active' = active \ {j}
        /\ \A i \in Jobs : token'[i] = IF i = j THEN None ELSE token[i]
        /\ UNCHANGED <<success, failed, dedupe, cancels, data, created, finished,
                       deferred, attempts, result>>
    BY <1>3, <1>10, Zenon DEF CommitNack
  <2>2. /\ retrying' \cup front' \subseteq retrying \cup front \cup {j}
        /\ \/ delayed' = delayed \cup {j} /\ pending' = pending
           \/ delayed' = delayed /\ pending' \in {<<j>> \o pending, Append(pending, j)}
    BY <1>10 DEF CommitNack, Reenter, j
  <2>3. /\ Range(pending') \cup delayed' = Range(pending) \cup delayed \cup {j}
        /\ Range(pending') \subseteq Range(pending) \cup {j}
        /\ delayed' \subseteq delayed \cup {j}
        /\ Range(pending') \cap delayed' = {}
        /\ IsInjective(pending')
    <3>1. Range(pending) \cap delayed = {} /\ j \notin Range(pending) \cup delayed
      BY <1>1, <1>4, <2>1, Zenon DEF Apart
    <3>2. CASE delayed' = delayed \cup {j} /\ pending' = pending
      BY <1>5, <3>1, <3>2
    <3>3. ASSUME delayed' = delayed, pending' \in {<<j>> \o pending, Append(pending, j)}
          PROVE  Range(pending') = Range(pending) \cup {j} /\ IsInjective(pending')
      BY <1>6, <1>7, <2>1, <3>3, ZenonT(30)
    <3> QED
      BY <2>2, <3>1, <3>2, <3>3
  <2>4. Apart'
    BY <1>1, <1>4, <2>1, <2>3 DEF Apart
  <2>5. Known'
    BY <1>1, <2>1, <2>2, <2>3, ZenonT(30) DEF Known
  <2> QED
    BY <2>4, <2>5
<1>11. CASE CommitDefer(l)
  <2>1. /\ j \in active
        /\ active' = active \ {j}
        /\ \A i \in Jobs : token'[i] = IF i = j THEN None ELSE token[i]
        /\ delayed' = delayed \cup {j}
        /\ deferred' \cup front' \subseteq deferred \cup front \cup {j}
        /\ UNCHANGED <<pending, success, failed, dedupe, cancels, data, created,
                       finished, retrying, result>>
    BY <1>3, <1>11 DEF CommitDefer, Reenter, j
  <2>2. \A i \in Jobs : i # j => attempts'[i] = attempts[i]
    BY <1>1, <1>11 DEF CommitDefer, TypeOK, j
  <2>3. Apart'
    BY <1>1, <1>4, <2>1, ZenonT(30) DEF Apart
  <2>4. Known'
    BY <1>1, <2>1, <2>2, ZenonT(30) DEF Known
  <2> QED
    BY <2>3, <2>4
<1> QED
  BY <1>8, <1>9, <1>10, <1>11 DEF Committed

\* Pruning forgets ids of one history, which are nowhere else.
LEMMA ForgetCore ==
    ASSUME CoreInv, NEW gone, gone \subseteq finished, Forget(gone), NEW l \in LeaseKeys,
           Goto(l, "idle"),
           Range(success') \cup Range(failed') = finished \ gone,
           Range(success') \subseteq Range(success),
           Range(failed') \subseteq Range(failed),
           IsInjective(success'), IsInjective(failed'), result' = Range(success')
    PROVE  Rest'
<1>1. TypeOK /\ Apart /\ Known /\ LeaseExclusive /\ ReplacementNotLost
  BY ZenonT(30) DEF CoreInv
<1>2. /\ dedupe' = dedupe \ gone
      /\ created' = created \ gone
      /\ finished' = finished \ gone
      /\ deferred' = deferred \ gone
      /\ retrying' = retrying \ gone
      /\ front' = front \ gone
      /\ \A j \in Jobs : data'[j] = IF j \in gone THEN None ELSE data[j]
      /\ \A j \in Jobs : token'[j] = IF j \in gone THEN None ELSE token[j]
      /\ \A j \in Jobs : attempts'[j] = IF j \in gone THEN 0 ELSE attempts[j]
      /\ UNCHANGED <<pending, delayed, active, cancels, leases, watched, dirty>>
  BY Zenon DEF Forget, watch
<1>3. gone \cap (Range(pending) \cup delayed \cup active) = {}
  BY <1>1, ZenonT(30) DEF Apart, Known
<1>4. Apart'
  BY <1>1, <1>2, ZenonT(30) DEF Apart
<1>5. Known'
  <2>1. created' = (Range(pending) \cup delayed \cup active
                      \cup Range(success) \cup Range(failed))'
    BY <1>1, <1>2, <1>3, ZenonT(30) DEF Known
  <2>2. \A j \in Jobs : data'[j] # None <=> j \in created'
    BY <1>1, <1>2, ZenonT(30) DEF Known
  <2>3. \A j \in Jobs : token'[j] # None <=> j \in active'
    BY <1>1, <1>2, <1>3, ZenonT(30) DEF Known
  <2>4. \A j \in Jobs : attempts'[j] # 0 => j \in created'
    BY <1>1, <1>2, ZenonT(30) DEF Known
  <2>5. deferred' \cup retrying' \cup front' \subseteq created'
    BY <1>1, <1>2, Zenon DEF Known
  <2> QED
    BY <1>1, <1>2, <2>1, <2>2, <2>3, <2>4, <2>5, ZenonT(30) DEF Known
<1>6. \A m \in leases : m[1] \in Jobs /\ m[1] \notin gone /\ m \in LeaseKeys
  BY <1>1, <1>3 DEF LeaseExclusive, TypeOK
<1>7. LeaseExclusive'
  BY <1>1, <1>2, <1>6, ZenonT(30) DEF LeaseExclusive
<1>8. /\ task'[l] = IdleTask
      /\ \A m \in LeaseKeys : m # l => task'[m] = task[m]
  BY <1>1, GotoFacts, Zenon
<1>9. ReplacementNotLost'
  <2>1. IdleTask' = IdleTask
    BY ZenonT(30) DEF IdleTask, Task
  <2> QED
    BY <1>1, <1>2, <1>6, <1>8, <2>1, ZenonT(30) DEF ReplacementNotLost
<1> QED
  BY <1>4, <1>5, <1>7, <1>9, ZenonT(30) DEF Rest

LEMMA PruneCore ==
    ASSUME SafeOptions, CoreInv, NEW l \in LeaseKeys,
           PostSuccessCompletion(l) \/ PostFailCompletion(l)
    PROVE  Rest'
<1>1. TypeOK /\ Apart /\ Known
  BY DEF CoreInv
<1>2. /\ success \in Seq(Jobs) /\ IsInjective(success)
      /\ failed \in Seq(Jobs) /\ IsInjective(failed)
      /\ Range(success) \cap Range(failed) = {}
      /\ (Range(success) \cup Range(failed)) \cap (active \cup Range(pending)) = {}
      /\ finished = Range(success) \cup Range(failed)
      /\ result = Range(success)
  BY <1>1 DEF TypeOK, Apart, Known
<1>3. CASE PostSuccessCompletion(l)
  <2> DEFINE gone == Surplus(success, MaxSuccess)
  <2>1. /\ IsInjective(Trim(success, MaxSuccess))
        /\ Range(Trim(success, MaxSuccess)) = Range(success) \ gone
        /\ gone \subseteq Range(success)
    BY <1>2, Options, TrimInjective
  <2>2. Prunable(gone) = gone
    BY <1>2, <2>1 DEF Prunable
  <2>3. /\ Forget(gone)
        /\ Goto(l, "idle")
        /\ success' = Trim(success, MaxSuccess)
        /\ failed' = failed
        /\ result' = result \ gone
    BY <1>3, <2>2 DEF PostSuccessCompletion
  <2> HIDE DEF gone
  <2>4. /\ gone \subseteq finished
        /\ Range(success') \cup Range(failed') = finished \ gone
        /\ Range(success') \subseteq Range(success)
        /\ Range(failed') \subseteq Range(failed)
        /\ IsInjective(success') /\ IsInjective(failed')
        /\ result' = Range(success')
    BY <1>2, <2>1, <2>3
  <2> QED
    BY <2>3, <2>4, ForgetCore, Zenon
<1>4. CASE PostFailCompletion(l)
  <2> DEFINE gone == Surplus(failed, MaxFailed)
  <2>1. /\ IsInjective(Trim(failed, MaxFailed))
        /\ Range(Trim(failed, MaxFailed)) = Range(failed) \ gone
        /\ gone \subseteq Range(failed)
    BY <1>2, Options, TrimInjective
  <2>2. Prunable(gone) = gone
    BY <1>2, <2>1 DEF Prunable
  <2>3. /\ Forget(gone)
        /\ Goto(l, "idle")
        /\ failed' = Trim(failed, MaxFailed)
        /\ success' = success
        /\ result' = result
    BY <1>4, <2>2 DEF PostFailCompletion
  <2> HIDE DEF gone
  <2>4. /\ gone \subseteq finished
        /\ Range(success') \cup Range(failed') = finished \ gone
        /\ Range(success') \subseteq Range(success)
        /\ Range(failed') \subseteq Range(failed)
        /\ IsInjective(success') /\ IsInjective(failed')
        /\ result' = Range(success')
    BY <1>2, <2>1, <2>3, Zenon
  <2> QED
    BY <2>3, <2>4, ForgetCore, Zenon
<1> QED
  BY <1>3, <1>4

-----------------------------------------------------------------------------
(* The steps of a task                                                     *)

\* A task that goes on, or ends, without touching the store.
LEMMA TaskMoves ==
    ASSUME CoreInv, NEW l \in LeaseKeys, task[l].phase # "idle", NEW phase,
           Goto(l, phase), UNCHANGED <<store, leases>>
    PROVE  Rest'
<1>1. /\ \A m \in LeaseKeys : m # l => task'[m] = task[m]
      /\ phase = "idle" => task'[l] = IdleTask
      /\ phase # "idle" => task'[l].data = task[l].data
  BY GotoFacts DEF CoreInv
<1>2. task[l] # IdleTask
  BY IdleFields
<1>3. \A m \in LeaseKeys : task'[m] # IdleTask =>
                             task[m] # IdleTask /\ task'[m].data = task[m].data
  BY <1>1, <1>2
<1>4. UNCHANGED store /\ leases' \subseteq leases
  BY DEF store, meta
<1> QED
  BY <1>3, <1>4, StoreKept

LEMMA HandlerCore ==
    ASSUME CoreInv, NEW l \in LeaseKeys, NEW outcome \in Outcomes,
           HandlerReturns(l, outcome)
    PROVE  Rest'
<1>1. /\ task[l].phase = "running"
      /\ task'[l] = Task("done", task[l].worker, task[l].data, outcome)
      /\ \A m \in LeaseKeys : m # l => task'[m] = task[m]
      /\ UNCHANGED <<store, leases>>
  BY DEF HandlerReturns, CoreInv, TypeOK
<1>2. task[l] # IdleTask /\ task'[l].data = task[l].data
  BY <1>1, IdleFields DEF Task
<1>3. \A m \in LeaseKeys : task'[m] # IdleTask =>
                             task[m] # IdleTask /\ task'[m].data = task[m].data
  BY <1>1, <1>2
<1>4. UNCHANGED store /\ leases' \subseteq leases
  BY <1>1
<1> QED
  BY <1>3, <1>4, StoreKept

\* The steps of a task between its run and its EXEC, and those that end it.
LEMMA WaitCore ==
    ASSUME CoreInv, NEW l \in LeaseKeys,
           WatchLease(l) \/ LeaseGone(l) \/ ExecAborted(l) \/ ExecLost(l) \/ TaskDies(l)
    PROVE  Rest'
<1>1. /\ task[l].phase # "idle"
      /\ \E phase : Goto(l, phase)
      /\ UNCHANGED <<store, leases>>
  BY ZenonT(30) DEF WatchLease, LeaseGone, ExecAborted, ExecLost, TaskDies
<1> QED
  BY <1>1, TaskMoves

LEMMA ExpireCore ==
    ASSUME CoreInv, NEW l \in LeaseKeys, Expire(l)
    PROVE  Rest'
<1>1. UNCHANGED store /\ leases' \subseteq leases /\ UNCHANGED task
  BY DEF Expire
<1>2. \A m \in LeaseKeys : task'[m] # IdleTask =>
                             task[m] # IdleTask /\ task'[m].data = task[m].data
  BY <1>1
<1> QED
  BY <1>1, <1>2, StoreKept

\* A process that dies takes its tasks with it.
LEMMA CrashCore ==
    ASSUME CoreInv, NEW w \in Workers, Crash(w)
    PROVE  Rest'
<1>1. /\ \A l \in LeaseKeys : task'[l] = IF task[l].worker = w THEN IdleTask ELSE task[l]
      /\ UNCHANGED store /\ leases' \subseteq leases
  BY DEF Crash
<1>2. \A l \in LeaseKeys : task'[l] # IdleTask =>
                             task[l] # IdleTask /\ task'[l].data = task[l].data
  BY <1>1
<1> QED
  BY <1>1, <1>2, StoreKept

LEMMA CoreStep ==
    ASSUME SafeOptions, CoreInv, [CoreNext]_vars, [KeepsWatches]_vars
    PROVE  CoreInv'
<1>1. TypeOK' /\ TaskShape' /\ Guarded'
  <2>1. TypeOK /\ TaskShape /\ Guarded /\ [Next]_vars
    BY DEF CoreInv, Next, CancelNext
  <2> QED
    BY <2>1, TypeStep, GuardedStep
<1> SUFFICES Rest'
  BY <1>1 DEF CoreInv, Rest
<1>2. ASSUME UNCHANGED <<store, leases, task>>
      PROVE  Rest'
  BY <1>2, StoreKept
<1>3. ASSUME NEW j \in Jobs, ClientStep(j)
      PROVE  Rest'
  BY <1>3, PushCore, ReplaceCore, Zenon DEF ClientStep
<1>4. ASSUME NEW w \in Workers, WorkerStep(w)
      PROVE  Rest'
  <2>1. CASE PopBatchJobs(w)
    BY <2>1, PollCore
  <2>2. CASE Crash(w)
    BY <2>2, CrashCore
  <2>3. CASE Shutdown(w) \/ WorkReturns(w)
    BY <1>2, <2>3 DEF Shutdown, WorkReturns
  <2> QED
    BY <1>4, <2>1, <2>2, <2>3 DEF WorkerStep
<1>5. ASSUME NEW l \in LeaseKeys, TaskStep(l)
      PROVE  Rest'
  <2>1. ASSUME NEW outcome \in Outcomes, HandlerReturns(l, outcome)
        PROVE  Rest'
    BY <2>1, HandlerCore
  <2>2. CASE WatchLease(l) \/ LeaseGone(l) \/ ExecAborted(l) \/ ExecLost(l) \/ TaskDies(l)
    BY <2>2, WaitCore
  <2>3. CASE Committed(l)
    <3>1. \E kind : Exec(l, kind) /\ data' = data
      BY <2>3 DEF Committed, CommitSuccess, CommitFail, CommitNack, CommitDefer
    <3> QED
      BY <2>3, <3>1, CommitCore, ExecCore DEF Rest
  <2>4. CASE PostSuccessCompletion(l) \/ PostFailCompletion(l)
    BY <2>4, PruneCore
  <2>5. CASE Expire(l)
    BY <2>5, ExpireCore
  <2> QED
    BY <1>5, <2>1, <2>2, <2>3, <2>4, <2>5 DEF TaskStep, CompletionStep
<1>6. CASE UNCHANGED vars
  BY <1>2, <1>6 DEF vars
<1> QED
  BY <1>3, <1>4, <1>5, <1>6 DEF CoreNext

LEMMA CoreInit ==
    ASSUME Init
    PROVE  CoreInv
<1>1. TypeOK
  BY IdleTaskType, SeqEmpty DEF Init, TypeOK
<1>2. Range(<< >>) = {} /\ IsInjective(<< >>)
  BY DEF Range, IsInjective
<1>3. Apart /\ Known
  BY <1>2 DEF Init, Apart, Known
<1>5. TaskShape /\ Guarded
  BY IdleFields DEF Init, TaskShape, Guarded
<1>6. LeaseExclusive /\ ReplacementNotLost
  BY DEF Init, LeaseExclusive, ReplacementNotLost
<1> QED
  BY <1>1, <1>3, <1>5, <1>6 DEF CoreInv

-----------------------------------------------------------------------------
(* The theorems                                                            *)

\* The inductive invariant, for any number of permits: it holds as long as no
\* watch is dropped before its EXEC.
THEOREM CoreInvariant ==
    ASSUME SafeOptions
    PROVE  CoreSpec /\ WatchesAreKept => []CoreInv
<1>1. Init => CoreInv
  BY CoreInit
<1>2. CoreInv /\ [CoreNext]_vars /\ [KeepsWatches]_vars => CoreInv'
  BY CoreStep
<1> QED
  BY <1>1, <1>2, PTL DEF CoreSpec, WatchesAreKept

\* As long as no watch is dropped, and whatever the interleaving of pushes,
\* polls, completions, expiries and crashes, a job is in one place: in the
\* pending list once, or in one of the delayed set, the active hash and the two
\* histories.
THEOREM JobsAreInOnePlace ==
    ASSUME SafeOptions
    PROVE  CoreSpec /\ WatchesAreKept => []OnePlace
<1>1. CoreInv => OnePlace
  <2> SUFFICES ASSUME CoreInv PROVE OnePlace
    OBVIOUS
  <2> DEFINE places == <<Range(pending), delayed, active, Range(success), Range(failed)>>
  <2>1. Apart
    BY DEF CoreInv
  <2>2. DOMAIN places = {1, 2, 3, 4, 5}
    OBVIOUS
  <2>3. \A a, b \in {1, 2, 3, 4, 5} : a # b => places[a] \cap places[b] = {}
    <3>1. /\ places[1] = Range(pending)
          /\ places[2] = delayed
          /\ places[3] = active
          /\ places[4] = Range(success)
          /\ places[5] = Range(failed)
      OBVIOUS
    <3> HIDE DEF places
    <3> QED
      BY <2>1, <3>1 DEF Apart
  <2>4. \A a, b \in DOMAIN places : a # b => places[a] \cap places[b] = {}
    <3> HIDE DEF places
    <3> QED
      BY <2>2, <2>3
  <2> QED
    BY <2>1, <2>4 DEF OnePlace, Apart
<1> QED
  BY <1>1, CoreInvariant, PTL

\* As long as no watch is dropped, a live lease is the one the meta hash of an
\* active job records: however often a job was reclaimed, no two live leases
\* are of it.
THEOREM LeasesAreExclusive ==
    ASSUME SafeOptions
    PROVE  CoreSpec /\ WatchesAreKept => []LeaseExclusive
<1>1. CoreInv => LeaseExclusive
  BY DEF CoreInv
<1> QED
  BY <1>1, CoreInvariant, PTL

\* As long as no watch is dropped, the holder of a live lease works with the
\* payload that is stored: an accepted replacement is never overtaken by a
\* borrowed copy.
THEOREM ReplacementsAreNotLost ==
    ASSUME SafeOptions
    PROVE  CoreSpec /\ WatchesAreKept => []ReplacementNotLost
<1>1. CoreInv => ReplacementNotLost
  BY DEF CoreInv
<1> QED
  BY <1>1, CoreInvariant, PTL

\* As long as no watch is dropped, what get_job_state derives from the meta and
\* result hashes agrees with the list, set or hash that holds the job.
THEOREM StatesAgree ==
    ASSUME SafeOptions
    PROVE  CoreSpec /\ WatchesAreKept => []StateAgreesWithPlace
<1>1. CoreInv => StateAgreesWithPlace
  <2> SUFFICES ASSUME CoreInv, NEW j \in Jobs
               PROVE  CASE JobState(j) = "unknown"   -> ~Queued(j) /\ j \notin dedupe
                        [] JobState(j) = "active"    -> j \in active
                        [] JobState(j) = "succeeded" -> j \in Range(success)
                        [] JobState(j) = "failed"    -> j \in Range(failed)
                        [] OTHER -> j \in Range(pending) \cup delayed
    BY DEF StateAgreesWithPlace
  <2>1. Apart /\ Known
    BY DEF CoreInv
  <2>2. CASE j \notin created
    <3>1. JobState(j) = "unknown"
      BY <2>1, <2>2 DEF JobState, Known
    <3> QED
      BY <2>1, <2>2, <3>1 DEF Known, Queued
  <2>3. CASE j \in Range(success)
    <3>1. JobState(j) = "succeeded"
      BY <2>1, <2>3 DEF JobState, Known
    <3> QED
      BY <2>3, <3>1
  <2>4. CASE j \in Range(failed)
    <3>1. JobState(j) = "failed"
      BY <2>1, <2>4 DEF JobState, Known, Apart
    <3> QED
      BY <2>4, <3>1
  <2>5. CASE j \in active
    <3>1. JobState(j) = "active"
      BY <2>1, <2>5 DEF JobState, Known, Apart
    <3> QED
      BY <2>5, <3>1
  <2>6. CASE j \in Range(pending) \cup delayed
    <3>1. JobState(j) \in {"deferred", "retrying", "pending"}
      BY <2>1, <2>6 DEF JobState, Known, Apart
    <3> QED
      BY <2>6, <3>1
  <2> QED
    BY <2>1, <2>2, <2>3, <2>4, <2>5, <2>6 DEF Known
<1> QED
  BY <1>1, CoreInvariant, PTL

-----------------------------------------------------------------------------
(* An action property                                                      *)

\* A task begins only in a poll, which borrows from the pending list, the
\* delayed set and the jobs whose lease is gone: as long as no watch is dropped,
\* never a job that finished.
THEOREM FinishedJobsNeverRun ==
    ASSUME SafeOptions
    PROVE  CoreSpec /\ WatchesAreKept => FinishedNeverRuns
<1>1. ASSUME CoreInv, [CoreNext]_vars, NEW l \in LeaseKeys,
             task[l] = IdleTask, task'[l] # IdleTask
      PROVE  l[1] \notin finished
  <2>1. task # task'
    BY <1>1
  <2>2. ~ \E j \in Jobs : ClientStep(j)
    BY <2>1 DEF ClientStep, Push, TryReplacePendingData
  <2>3. ASSUME NEW m \in LeaseKeys, TaskStep(m)
        PROVE  FALSE
    <3>1. task[m].phase # "idle" /\ m # l => task'[l] = task[l]
      <4>1. task \in [LeaseKeys -> Tasks]
        BY <1>1 DEF CoreInv, TypeOK
      <4>2. (\E phase : Goto(m, phase)) \/ (\E outcome : HandlerReturns(m, outcome))
        BY <2>1, <2>3, ZenonT(30) DEF TaskStep, CompletionStep, WatchLease, LeaseGone, ExecAborted,
             ExecLost, TaskDies, Expire, Committed, CommitSuccess, CommitFail, CommitNack,
             CommitDefer, Exec, PostSuccessCompletion, PostFailCompletion
      <4> QED
        BY <4>1, <4>2 DEF Goto, HandlerReturns
    <3>2. task[m].phase # "idle"
      BY <2>1, <2>3, Zenon DEF TaskStep, CompletionStep, HandlerReturns, WatchLease, LeaseGone,
           ExecAborted, ExecLost, TaskDies, Expire, Committed, CommitSuccess, CommitFail,
           CommitNack, CommitDefer, Exec, PostSuccessCompletion, PostFailCompletion
    <3> QED
      BY <1>1, <3>1, <3>2 DEF IdleTask, Task
  <2>4. PICK w \in Workers : WorkerStep(w)
    BY <1>1, <2>1, <2>2, <2>3 DEF CoreNext, vars
  <2>5. PopBatchJobs(w)
    BY <1>1, <2>4, Zenon DEF WorkerStep, Crash, Shutdown, WorkReturns
  <2>6. PICK due \in SUBSET delayed, ran \in SUBSET Jobs :
          \E new \in [ran -> Tokens] : Polled(w, due, ran, new)
    BY <1>1, <2>5, PollEffect
  <2>7. PICK new \in [ran -> Tokens] : Polled(w, due, ran, new)
    BY <2>6
  <2>8. Took(w, due \cup TimedOut \cup Range(pending), ran, new)
    BY <2>7 DEF Polled
  <2>9. PICK j \in ran : l = <<j, new[j]>>
    BY <1>1, <2>8, NewLeases
  <2>10. ran \subseteq due \cup TimedOut \cup Range(pending)
    BY <2>8 DEF Took
  <2>11. ran \cap (Range(success) \cup Range(failed)) = {}
    BY <1>1, <2>10, BorrowedIsFree
  <2> QED
    BY <1>1, <2>9, <2>11 DEF CoreInv, Known
<1>2. CoreInv /\ [CoreNext]_vars =>
        [\A l \in LeaseKeys :
           task[l] = IdleTask /\ task'[l] # IdleTask => l[1] \notin finished]_vars
  BY <1>1
<1> QED
  BY <1>2, CoreInvariant, PTL DEF CoreSpec, FinishedNeverRuns

-----------------------------------------------------------------------------
(* The refinement of JobLifecycle                                          *)

\* The job as JobLifecycle sees it: what a live lease holds is what is stored.
HeldIsStored ==
    \A j \in Jobs :
        /\ AbstractHeld(j) = IF AbstractState(j) = "leased" THEN data[j] ELSE None
        /\ AbstractState(j) = "absent" => data[j] = None
        /\ AbstractState(j) # "absent" => data[j] \in Data

LEMMA HeldStored == CoreInv => HeldIsStored
<1> SUFFICES ASSUME CoreInv, NEW j \in Jobs
             PROVE  /\ AbstractHeld(j) = IF AbstractState(j) = "leased" THEN data[j] ELSE None
                    /\ AbstractState(j) = "absent" => data[j] = None
                    /\ AbstractState(j) # "absent" => data[j] \in Data
  BY DEF HeldIsStored
<1>1. TypeOK /\ Known /\ ReplacementNotLost
  BY DEF CoreInv
<1>2. AbstractState(j) = "leased" => <<j, token[j]>> \in leases
  BY DEF AbstractState
<1>3. AbstractState(j) = "absent" <=> j \notin created
  BY DEF AbstractState
<1> QED
  BY <1>1, <1>2, <1>3 DEF AbstractHeld, ReplacementNotLost, Known, TypeOK

\* The states a step may take a job to, with what it does to the payload.
Moved(j) ==
    \/ AbstractState(j)' = AbstractState(j) /\ data'[j] = data[j]
    \/ /\ AbstractState(j) \in {"absent", "waiting"}
       /\ AbstractState(j)' = "waiting"
       /\ data'[j] \in Data
    \/ /\ AbstractState(j) = "waiting"
       /\ AbstractState(j)' = "leased"
       /\ data'[j] = data[j]
    \/ /\ AbstractState(j) = "leased"
       /\ AbstractState(j)' \in {"waiting", "succeeded", "failed"}
       /\ data'[j] = data[j]
    \/ /\ AbstractState(j) \in {"succeeded", "failed"}
       /\ AbstractState(j)' = "absent"
       /\ data'[j] = None

\* A leased job is active under the lease it records, and not finished.
LEMMA LeasedIsActive ==
    ASSUME CoreInv, NEW j \in Jobs
    PROVE  /\ <<j, token[j]>> \in leases => j \in active
           /\ j \in active => j \in created \ finished
<1>1. Apart /\ Known /\ LeaseExclusive
  BY DEF CoreInv
<1> QED
  BY <1>1 DEF Apart, Known, LeaseExclusive

LEMMA ClientMoves ==
    ASSUME CoreInv, NEW i \in Jobs, ClientStep(i), NEW j \in Jobs
    PROVE  Moved(j)
<1>1. TypeOK /\ Known
  BY DEF CoreInv
<1>2. ASSUME NEW d \in Data, NEW wait \in BOOLEAN, NEW position \in Positions,
             Push(i, d, wait, position)
      PROVE  Moved(j)
  <2>1. /\ i \notin created
        /\ created' = created \cup {i}
        /\ finished' = finished \ {i}
        /\ result' = result \ {i}
        /\ \A k \in Jobs : data'[k] = IF k = i THEN d ELSE data[k]
        /\ \A k \in Jobs : token'[k] = IF k = i THEN None ELSE token[k]
        /\ active' = active /\ leases' = leases
    BY <1>1, <1>2 DEF Push, Known, TypeOK
  <2>2. i \notin active
    BY <1>1, <2>1 DEF Known
  <2> QED
    BY <2>1, <2>2 DEF Moved, AbstractState
<1>3. ASSUME NEW d \in Data, TryReplacePendingData(i, d)
      PROVE  Moved(j)
  <2>1. /\ i \notin active /\ i \notin finished
        /\ data[i] # None
        /\ \A k \in Jobs : data'[k] = IF k = i THEN d ELSE data[k]
        /\ UNCHANGED <<created, finished, result, active, token, leases>>
    BY <1>1, <1>3 DEF TryReplacePendingData, Replaceable, TypeOK, meta
  <2>2. i \in created
    BY <1>1, <2>1, Zenon DEF Known
  <2> QED
    BY <2>1, <2>2 DEF Moved, AbstractState
<1> QED
  BY <1>2, <1>3 DEF ClientStep

\* A poll borrows jobs that wait, and a job whose lease is gone already did.
LEMMA PollMoves ==
    ASSUME CoreInv, NEW w \in Workers, PopBatchJobs(w), NEW j \in Jobs
    PROVE  Moved(j)
<1>1. PICK due \in SUBSET delayed, ran \in SUBSET Jobs :
        \E new \in [ran -> Tokens] : Polled(w, due, ran, new)
  BY PollEffect
<1>2. PICK new \in [ran -> Tokens] : Polled(w, due, ran, new)
  BY <1>1
<1>3. /\ Took(w, due \cup TimedOut \cup Range(pending), ran, new)
      /\ UNCHANGED <<created, finished, result, data>>
  BY <1>2 DEF Polled
<1>4. /\ ran \subseteq due \cup TimedOut \cup Range(pending)
      /\ active' = (active \ TimedOut) \cup ran
      /\ token'[j] = IF j \in ran THEN new[j] ELSE IF j \in TimedOut THEN None ELSE token[j]
  BY <1>3 DEF Took
<1>5. /\ ran \subseteq created /\ ran \cap (Range(success) \cup Range(failed)) = {}
      /\ \A l \in leases : l[1] \notin ran
  BY <1>4, BorrowedIsFree, Zenon
<1>6. \A i \in ran : <<i, new[i]>> \in leases' \ leases
  BY <1>3, NewLeases
<1>7. leases \subseteq leases'
  BY <1>3, NewLeases
<1>8. CASE j \in ran
  <2>1. AbstractState(j) = "waiting"
    <3>1. j \in created \ finished
      BY <1>5, <1>8 DEF CoreInv, Known
    <3>2. <<j, token[j]>> \notin leases
      BY <1>5, <1>8
    <3> QED
      BY <3>1, <3>2 DEF AbstractState
  <2>2. AbstractState(j)' = "leased"
    <3>1. j \in created' \ finished'
      BY <1>3, <1>5, <1>8 DEF CoreInv, Known
    <3>2. j \in active' /\ <<j, token'[j]>> \in leases'
      BY <1>4, <1>6, <1>8
    <3> QED
      BY <3>1, <3>2 DEF AbstractState
  <2> QED
    BY <1>3, <2>1, <2>2 DEF Moved
<1>9. CASE j \notin ran
  <2>1. j \in active' /\ <<j, token'[j]>> \in leases'
          <=> j \in active /\ <<j, token[j]>> \in leases
    BY <1>4, <1>7, <1>9 DEF TimedOut
  <2> QED
    BY <1>3, <2>1 DEF Moved, AbstractState
<1> QED
  BY <1>8, <1>9

\* EXEC settles the job of its own live lease, or puts it back.
LEMMA CommitMoves ==
    ASSUME CoreInv, NEW l \in LeaseKeys, Committed(l), NEW j \in Jobs
    PROVE  Moved(j)
<1>1. TypeOK /\ Apart /\ Known
  BY DEF CoreInv
<1>2. PICK kind : Exec(l, kind)
  BY ZenonT(30) DEF Committed, CommitSuccess, CommitFail, CommitNack, CommitDefer
<1>3. l \in leases /\ l[1] \in active /\ token[l[1]] = l[2] /\ l = <<l[1], l[2]>>
  BY <1>2, ExecHoldsLease DEF LeaseKeys
<1>4. /\ leases' = leases \ {l}
      /\ active' = active \ {l[1]}
      /\ \A k \in Jobs : k # l[1] => token'[k] = token[k]
  BY <1>1, <1>2 DEF Exec, TypeOK
<1>5. /\ data' = data /\ created' = created
      /\ finished' \in {finished, finished \cup {l[1]}}
      /\ result' \in {result, result \cup {l[1]}}
      /\ result' # result => finished' = finished \cup {l[1]}
  BY Zenon DEF Committed, CommitSuccess, CommitFail, CommitNack, CommitDefer
<1>6. l[1] \in created \ finished /\ l[1] \in Jobs
  BY <1>3, LeasedIsActive DEF LeaseKeys
<1>7. CASE j = l[1]
  <2>1. AbstractState(j) = "leased"
    BY <1>3, <1>6, <1>7 DEF AbstractState
  <2>2. AbstractState(j)' \in {"waiting", "succeeded", "failed"}
    BY <1>4, <1>5, <1>6, <1>7 DEF AbstractState
  <2> QED
    BY <1>5, <2>1, <2>2 DEF Moved
<1>8. CASE j # l[1]
  <2>1. j \in active' /\ <<j, token'[j]>> \in leases'
          <=> j \in active /\ <<j, token[j]>> \in leases
    BY <1>3, <1>4, <1>8
  <2> QED
    BY <1>5, <1>8, <2>1 DEF Moved, AbstractState
<1> QED
  BY <1>7, <1>8

\* The pruning scripts forget finished jobs.
LEMMA PruneMoves ==
    ASSUME SafeOptions, CoreInv, NEW l \in LeaseKeys,
           PostSuccessCompletion(l) \/ PostFailCompletion(l), NEW j \in Jobs
    PROVE  Moved(j)
<1>1. TypeOK /\ Apart /\ Known
  BY DEF CoreInv
<1>2. \A s \in Seq(Jobs) : \A max \in Nat : Surplus(s, max) \subseteq Range(s)
  BY SeqLen DEF Surplus, Range
<1>3. PICK gone : /\ gone \subseteq finished
                  /\ Forget(gone)
                  /\ result' \ gone = result \ gone
  <2>1. CASE PostSuccessCompletion(l)
    <3>1. Prunable(Surplus(success, MaxSuccess)) \subseteq finished
      BY <1>1, <1>2, Options DEF Prunable, Known, TypeOK
    <3> QED
      BY <2>1, <3>1, Zenon DEF PostSuccessCompletion
  <2>2. CASE PostFailCompletion(l)
    <3>1. Prunable(Surplus(failed, MaxFailed)) \subseteq finished
      BY <1>1, <1>2, Options DEF Prunable, Known, TypeOK
    <3> QED
      BY <2>2, <3>1, Zenon DEF PostFailCompletion
  <2> QED
    BY <2>1, <2>2
<1>4. /\ created' = created \ gone
      /\ finished' = finished \ gone
      /\ active' = active /\ leases' = leases
      /\ data'[j] = IF j \in gone THEN None ELSE data[j]
      /\ token'[j] = IF j \in gone THEN None ELSE token[j]
  BY <1>3, ZenonT(30) DEF Forget
<1>5. finished \subseteq created
  BY <1>1, ZenonT(30) DEF Known
<1> QED
  BY <1>3, <1>4, <1>5 DEF Moved, AbstractState

\* A lease that runs out gives its job back.
LEMMA ExpireMoves ==
    ASSUME CoreInv, NEW l \in LeaseKeys, Expire(l), NEW j \in Jobs
    PROVE  Moved(j)
<1>1. leases' = leases \ {l} /\ UNCHANGED <<created, finished, result, active, token, data>>
  BY Zenon DEF Expire, store, meta
<1> QED
  BY <1>1 DEF Moved, AbstractState

LEMMA QuietMoves ==
    ASSUME UNCHANGED <<store, leases>>, NEW j \in Jobs
    PROVE  Moved(j)
<1>1. UNCHANGED <<created, finished, result, active, token, data, leases>>
  BY DEF store, meta
<1> QED
  BY <1>1 DEF Moved, AbstractState

\* Every step takes every job where JobLifecycle lets it go.
LEMMA EveryStepMoves ==
    ASSUME SafeOptions, CoreInv, [CoreNext]_vars, NEW j \in Jobs
    PROVE  Moved(j)
<1>1. CASE UNCHANGED vars
  <2>1. UNCHANGED <<store, leases>>
    BY <1>1 DEF vars
  <2> QED
    BY <2>1, QuietMoves
<1>2. ASSUME NEW w \in Workers, WorkerStep(w)
      PROVE  Moved(j)
  <2>1. CASE PopBatchJobs(w)
    BY <2>1, PollMoves
  <2>2. CASE Crash(w) \/ Shutdown(w) \/ WorkReturns(w)
    BY <2>2, QuietMoves DEF Crash, Shutdown, WorkReturns
  <2> QED
    BY <1>2, <2>1, <2>2 DEF WorkerStep
<1>3. ASSUME NEW l \in LeaseKeys, TaskStep(l)
      PROVE  Moved(j)
  <2>1. ASSUME NEW outcome, HandlerReturns(l, outcome)
        PROVE  Moved(j)
    BY <2>1, QuietMoves, ZenonT(30) DEF HandlerReturns
  <2>2. CASE WatchLease(l) \/ LeaseGone(l) \/ ExecAborted(l) \/ ExecLost(l) \/ TaskDies(l)
    BY <2>2, QuietMoves, Zenon DEF WatchLease, LeaseGone, ExecAborted, ExecLost, TaskDies
  <2> QED
    BY <1>3, <2>1, <2>2, CommitMoves, PruneMoves, ExpireMoves DEF TaskStep, CompletionStep
<1>4. CASE CoreNext
  BY <1>2, <1>3, <1>4, ClientMoves DEF CoreNext
<1> QED
  BY <1>1, <1>4

\* The mapped state makes a step of JobLifecycle.
LEMMA LifecycleStep ==
    ASSUME CoreInv, CoreInv', \A j \in Jobs : Moved(j)
    PROVE  Lifecycle!Next
<1> DEFINE view(j) == [state |-> AbstractState(j), payload |-> data[j],
                       held |-> AbstractHeld(j)]
           jobs == [j \in Jobs |-> view(j)]
<1>1. ASSUME NEW j \in Jobs
      PROVE  /\ AbstractHeld(j) = IF AbstractState(j) = "leased" THEN data[j] ELSE None
             /\ AbstractState(j) # "absent" => data[j] \in Data
  BY <1>1, HeldStored DEF HeldIsStored
<1>2. ASSUME NEW j \in Jobs
      PROVE  /\ AbstractHeld(j)' = IF AbstractState(j)' = "leased" THEN data'[j] ELSE None
             /\ AbstractState(j)' = "absent" => data'[j] = None
             /\ AbstractState(j)' # "absent" => data'[j] \in Data
             /\ AbstractState(j)' \in Lifecycle!States
  <2>1. AbstractState(j)' \in Lifecycle!States
    BY DEF AbstractState, Lifecycle!States
  <2>2. HeldIsStored'
    BY HeldStored, PTL
  <2> QED
    BY <1>2, <2>1, <2>2 DEF HeldIsStored
<1>3. ASSUME NEW j \in Jobs
      PROVE  /\ view(j)' \in Lifecycle!AllJobs
             /\ view(j)' \in {view(j)} \cup Lifecycle!Steps(view(j))
  <2>1. view(j)' \in Lifecycle!AllJobs
    BY <1>2, <1>3 DEF Lifecycle!AllJobs
  <2>2. Moved(j)
    BY <1>3
  <2> DEFINE job(s, d, h) == [state |-> s, payload |-> d, held |-> h]
             lease(s, d) == IF s = "leased" THEN d ELSE None
             s0 == AbstractState(j)
             s1 == AbstractState(j)'
  <2>3. /\ view(j) = job(s0, data[j], lease(s0, data[j]))
        /\ view(j)' = job(s1, data'[j], lease(s1, data'[j]))
    BY <1>1, <1>2, <1>3
  <2>4. ASSUME NEW s, NEW d, NEW h
        PROVE  /\ s \in {"absent", "waiting"} =>
                     \A e \in Data : job("waiting", e, None) \in Lifecycle!Steps(job(s, d, h))
               /\ s = "waiting" => job("leased", d, d) \in Lifecycle!Steps(job(s, d, h))
               /\ s = "leased" => job("waiting", d, None) \in Lifecycle!Steps(job(s, d, h))
               /\ s = "leased" /\ h = d =>
                     /\ job("succeeded", d, None) \in Lifecycle!Steps(job(s, d, h))
                     /\ job("failed", d, None) \in Lifecycle!Steps(job(s, d, h))
               /\ s \in {"succeeded", "failed"} =>
                     job("absent", None, None) \in Lifecycle!Steps(job(s, d, h))
    BY ZenonT(30) DEF Lifecycle!Steps, Lifecycle!Accepted, Lifecycle!Replaced, Lifecycle!Borrowed,
           Lifecycle!GivenBack, Lifecycle!Settled, Lifecycle!Forgotten, Lifecycle!Job,
           Lifecycle!NoJob, Lifecycle!Terminal
  <2> HIDE DEF job, view
  <2>5. CASE s1 = s0 /\ data'[j] = data[j]
    <3>1. view(j)' = view(j)
      <4> HIDE DEF lease, s0, s1
      <4> QED
        BY <2>3, <2>5, Zenon
    <3> QED
      BY <2>1, <3>1
  <2>6. CASE s0 \in {"absent", "waiting"} /\ s1 = "waiting" /\ data'[j] \in Data
    BY <2>1, <2>3, <2>4, <2>6
  <2>7. CASE s0 = "waiting" /\ s1 = "leased" /\ data'[j] = data[j]
    BY <2>1, <2>3, <2>4, <2>7
  <2>8. CASE s0 = "leased" /\ s1 \in {"waiting", "succeeded", "failed"} /\ data'[j] = data[j]
    BY <2>1, <2>3, <2>4, <2>8
  <2>9. CASE s0 \in {"succeeded", "failed"} /\ s1 = "absent" /\ data'[j] = None
    BY <2>1, <2>3, <2>4, <2>9
  <2> QED
    BY <2>2, <2>5, <2>6, <2>7, <2>8, <2>9, ZenonT(30) DEF Moved
<1>4. jobs' \in [Jobs -> Lifecycle!AllJobs]
  BY <1>3, ZenonT(30)
<1>5. \A j \in Jobs : jobs'[j] \in {jobs[j]} \cup Lifecycle!Steps(jobs[j])
  BY <1>3, Zenon
<1> QED
  BY <1>4, <1>5, Zenon DEF Lifecycle!Next

\* As long as no watch is dropped, the queue implements JobLifecycle: through
\* polls, expiring leases, late completions, crashes and pruning, a job is lent
\* on one lease at a time and settled once, by the holder of that lease, for the
\* payload that is stored.
THEOREM QueueImplementsLifecycle ==
    ASSUME SafeOptions
    PROVE  CoreSpec /\ WatchesAreKept => ImplementsLifecycle
<1>1. Init => Lifecycle!Init
  BY DEF Init, Lifecycle!Init, Lifecycle!NoJob, Lifecycle!Job, AbstractState, AbstractHeld
<1>2. CoreInv /\ CoreInv' /\ [CoreNext]_vars => Lifecycle!Next
  BY EveryStepMoves, LifecycleStep
<1> QED
  BY <1>1, <1>2, CoreInvariant, PTL DEF CoreSpec, ImplementsLifecycle, Lifecycle!Spec

-----------------------------------------------------------------------------
(* One permit                                                              *)

\* A worker has one task at a time.
OneTask ==
    \A l, m \in LeaseKeys :
        task[l].worker # None /\ task[l].worker = task[m].worker => l = m

\* A worker with one permit asks for a job only when it has no task.
LEMMA OnePermit ==
    ASSUME LocalConcurrency = 1, Unreadable = {}, NEW w \in Workers
    PROVE  /\ Permits(w) \in Int
           /\ Permits(w) >= 1 =>
                Permits(w) = 1 /\ \A l \in LeaseKeys : task[l].worker # w
<1> DEFINE held == {l \in LeaseKeys : task[l].worker = w /\ task[l].data \notin Unreadable}
<1>1. IsFiniteSet(held)
  <2>1. IsFiniteSet(LeaseKeys)
    BY ConstantsAssumption, FS_Product DEF LeaseKeys
  <2>2. held \subseteq LeaseKeys
    OBVIOUS
  <2> QED
    BY <2>1, <2>2, FS_Subset
<1>2. Cardinality(held) \in Nat /\ (Cardinality(held) = 0 => held = {})
  BY <1>1, FS_CardinalityType, FS_EmptySet
<1>3. Permits(w) = 1 - Cardinality(held)
  BY DEF Permits
<1>4. held = {} => \A l \in LeaseKeys : task[l].worker # w
  OBVIOUS
<1> HIDE DEF held
<1> QED
  BY <1>2, <1>3, <1>4

\* Then it gets one.
LEMMA PollTakesOne ==
    ASSUME LocalConcurrency = 1, Unreadable = {}, TypeOK, NEW w \in Workers, PopBatchJobs(w)
    PROVE  \/ \A l \in LeaseKeys : task'[l] = task[l]
           \/ /\ \A l \in LeaseKeys : task[l].worker # w
              /\ \E new \in LeaseKeys : \A l \in LeaseKeys : l # new => task'[l] = task[l]
<1>1. PICK batch \in (IF AlwaysPoll THEN 0 ELSE 1)..Permits(w), due \in SUBSET delayed :
        \E first \in Orders(due \cap front), last \in Orders(due \ front),
           back \in Orders(TimedOut) :
             TakeBatch(w, Requeued(first, back, last), batch)
  BY Zenon DEF PopBatchJobs
<1>2. PICK first \in Orders(due \cap front), last \in Orders(due \ front),
           back \in Orders(TimedOut) :
             TakeBatch(w, Requeued(first, back, last), batch)
  BY <1>1
<1> DEFINE queued == Requeued(first, back, last)
           k      == IF batch <= Len(queued) THEN batch ELSE Len(queued)
           popped == SubSeq(queued, 1, k)
<1>3. queued \in Seq(Jobs) /\ TakeBatch(w, queued, batch)
  BY <1>2, RequeuedFacts
<1> HIDE DEF queued
<1>4. PICK nw \in [Borrowed(popped) -> Tokens] :
        task' = [l \in LeaseKeys |->
                   IF l \in {<<popped[i], nw[i]>> : i \in Borrowed(popped)}
                   THEN NewTask(w, l[1]) ELSE task[l]]
  BY <1>3, Zenon DEF TakeBatch
<1>5. batch \in Nat /\ batch <= Permits(w)
  BY <1>1
<1>6. Len(queued) \in Nat
  BY <1>3, SeqLen
<1>7. k \in 0..Len(queued) /\ k <= batch
  BY <1>5, <1>6
<1> HIDE DEF k
<1>8. DOMAIN popped = 1..k
  BY <1>3, <1>7, CutRange
<1> HIDE DEF popped
<1>9. CASE k = 0
  <2>1. Borrowed(popped) = {}
    BY <1>8, <1>9 DEF Borrowed
  <2>2. ASSUME NEW l \in LeaseKeys
        PROVE  task'[l] = task[l]
    <3>1. l \notin {<<popped[i], nw[i]>> : i \in Borrowed(popped)}
      BY <2>1
    <3> QED
      BY <1>4, <3>1, Zenon
  <2> QED
    BY <2>2
<1>10. CASE k # 0
  <2>1. Permits(w) >= 1
    BY <1>5, <1>6, <1>7, <1>10, OnePermit
  <2>2. Permits(w) = 1 /\ \A l \in LeaseKeys : task[l].worker # w
    BY <2>1, OnePermit
  <2>3. DOMAIN popped = {1}
    BY <1>5, <1>6, <1>7, <1>8, <1>10, <2>2
  <2>4. Borrowed(popped) \subseteq {1}
    BY <2>3 DEF Borrowed
  <2>5. \A l \in LeaseKeys : l # <<popped[1], nw[1]>> => task'[l] = task[l]
    BY <1>4, <2>4
  <2>6. CASE <<popped[1], nw[1]>> \in LeaseKeys
    BY <2>2, <2>5, <2>6
  <2>7. CASE <<popped[1], nw[1]>> \notin LeaseKeys
    BY <2>5, <2>7
  <2> QED
    BY <2>6, <2>7
<1> QED
  BY <1>9, <1>10

\* The other steps hand no task to a worker, and a step that drops the watches
\* of a connection belongs to the only task of its worker.
LEMMA OneTaskQuiet ==
    ASSUME TypeOK, TaskShape, OneTask, NEW l \in LeaseKeys,
           \/ UNCHANGED <<task, watch>>
           \/ \E w \in Workers : Crash(w)
           \/ \E m \in LeaseKeys : TaskStep(m)
    PROVE  /\ task'[l].worker \in {task[l].worker, None}
           /\ task[l].phase = "watching" /\ task'[l].phase = "watching"
                => watched[task[l].worker] \subseteq watched'[task[l].worker]
<1> DEFINE Goal == /\ task'[l].worker \in {task[l].worker, None}
                   /\ task[l].phase = "watching" /\ task'[l].phase = "watching"
                        => watched[task[l].worker] \subseteq watched'[task[l].worker]
<1>1. task[l].phase = "watching" => task[l].worker \in Workers
  BY IdleFields DEF TaskShape
<1>2. ASSUME task'[l] = task[l], UNCHANGED watched
      PROVE  Goal
  BY <1>2
<1>3. ASSUME task'[l] = task[l], NEW v, Unwatch(v), v # task[l].worker
      PROVE  Goal
  <2>1. task[l].worker \in Workers => watched'[task[l].worker] = watched[task[l].worker]
    BY <1>3 DEF Unwatch, TypeOK
  <2> QED
    BY <1>1, <1>3, <2>1
<1>4. ASSUME NEW w \in Workers, Crash(w)
      PROVE  Goal
  <2>1. /\ task'[l] = IF task[l].worker = w THEN IdleTask ELSE task[l]
        /\ Unwatch(w)
    BY <1>4 DEF Crash
  <2>2. CASE task[l].worker = w
    BY <2>1, <2>2, IdleFields
  <2>3. CASE task[l].worker # w
    BY <1>3, <2>1, <2>3
  <2> QED
    BY <2>2, <2>3
<1>5. ASSUME NEW m \in LeaseKeys, TaskStep(m)
      PROVE  Goal
  <2>1. ASSUME NEW phase \in Phases \ {"watching"}, Goto(m, phase), task[m].phase # "idle",
               Unwatch(task[m].worker) \/ UNCHANGED watched
        PROVE  Goal
    <3>1. /\ l # m => task'[l] = task[l]
          /\ task'[m].phase = phase
          /\ phase = "idle" => task'[m] = IdleTask
          /\ phase # "idle" => task'[m].worker = task[m].worker
      BY <2>1, GotoFacts
    <3>2. CASE l = m
      BY <2>1, <3>1, <3>2, IdleFields
    <3>3. CASE l # m
      <4>1. task[m].worker \in Workers
        BY <2>1, IdleFields DEF TaskShape
      <4>2. task[m].worker # task[l].worker
        BY <3>3, <4>1, NoneIsNothing DEF OneTask
      <4> QED
        BY <1>2, <1>3, <2>1, <3>1, <3>3, <4>2
    <3> QED
      BY <3>2, <3>3
  <2>2. ASSUME NEW outcome, HandlerReturns(m, outcome)
        PROVE  Goal
    <3>1. /\ task' = [task EXCEPT ![m] = Task("done", task[m].worker, task[m].data, outcome)]
          /\ UNCHANGED watch
      BY <2>2 DEF HandlerReturns
    <3>2. CASE l # m
      BY <1>2, <3>1, <3>2 DEF TypeOK, watch
    <3>3. CASE l = m
      <4>1. task'[l] = Task("done", task[l].worker, task[l].data, outcome)
        BY <3>1, <3>3 DEF TypeOK
      <4>2. task'[l].phase = "done" /\ task'[l].worker = task[l].worker
        BY <4>1 DEF Task
      <4> QED
        BY <4>2
    <3> QED
      BY <3>2, <3>3
  <2>3. CASE WatchLease(m)
    <3>1. /\ l # m => task'[l] = task[l]
          /\ task'[m].worker = task[m].worker
      BY <2>3, GotoFacts DEF WatchLease
    <3>2. watched' = [watched EXCEPT ![task[m].worker] = @ \cup {m}]
      BY <2>3 DEF WatchLease
    <3>3. task[l].worker \in Workers => watched[task[l].worker] \subseteq watched'[task[l].worker]
      BY <3>2 DEF TypeOK
    <3> QED
      BY <1>1, <3>1, <3>3
  <2>4. ASSUME NEW kind, Exec(m, kind)
        PROVE  Goal
    <3>1. /\ Goto(m, AfterCommit(m)) /\ Unwatch(task[m].worker)
          /\ task[m].phase # "idle"
      BY <2>4 DEF Exec
    <3> QED
      BY <2>1, <3>1, PhaseNames
  <2>5. CASE LeaseGone(m) \/ ExecLost(m) \/ ExecAborted(m)
    <3>1. /\ \E phase \in {"idle", "done", AfterCommit(m)} : Goto(m, phase)
          /\ Unwatch(task[m].worker)
          /\ task[m].phase # "idle"
      BY <2>5, Zenon DEF LeaseGone, ExecLost, ExecAborted
    <3> QED
      BY <2>1, <3>1, PhaseNames
  <2>6. CASE TaskDies(m) \/ PostSuccessCompletion(m) \/ PostFailCompletion(m)
    <3>1. Goto(m, "idle") /\ UNCHANGED watched /\ task[m].phase # "idle"
      BY <2>6, Zenon DEF TaskDies, PostSuccessCompletion, PostFailCompletion, Forget, watch
    <3> QED
      BY <2>1, <3>1, PhaseNames
  <2>7. CASE Expire(m)
    BY <1>2, <2>7 DEF Expire
  <2> QED
    BY <1>5, <2>2, <2>3, <2>4, <2>5, <2>6, <2>7, Zenon
       DEF TaskStep, CompletionStep, Committed, CommitSuccess, CommitFail, CommitNack,
           CommitDefer
<1>6. CASE UNCHANGED <<task, watch>>
  BY <1>2, <1>6 DEF watch
<1> QED
  BY <1>4, <1>5, <1>6

LEMMA OneTaskStep ==
    ASSUME LocalConcurrency = 1, Unreadable = {}, TypeOK, TaskShape, OneTask, [CoreNext]_vars
    PROVE  OneTask' /\ KeepsWatches
<1>1. ASSUME \A l \in LeaseKeys : task'[l].worker \in {task[l].worker, None}
      PROVE  OneTask'
  BY <1>1 DEF OneTask
<1>2. ASSUME \/ UNCHANGED <<task, watch>>
             \/ \E w \in Workers : Crash(w)
             \/ \E m \in LeaseKeys : TaskStep(m)
      PROVE  OneTask' /\ KeepsWatches
  <2>1. ASSUME NEW l \in LeaseKeys
        PROVE  /\ task'[l].worker \in {task[l].worker, None}
               /\ task[l].phase = "watching" /\ task'[l].phase = "watching"
                    => watched[task[l].worker] \subseteq watched'[task[l].worker]
    BY <1>2, OneTaskQuiet
  <2> QED
    BY <1>1, <2>1 DEF KeepsWatches
<1>3. ASSUME NEW w \in Workers, PopBatchJobs(w)
      PROVE  OneTask' /\ KeepsWatches
  <2>1. /\ UNCHANGED watch
        /\ \A l \in LeaseKeys :
             \/ task'[l] = task[l]
             \/ task[l] = IdleTask /\ task'[l] = NewTask(w, l[1])
    BY <1>3, PollTasks
  <2>2. KeepsWatches
    BY <2>1, IdleFields DEF KeepsWatches, watch
  <2>3. ASSUME NEW l \in LeaseKeys
        PROVE  task'[l] = task[l] \/ task'[l].worker = w
    <3>1. NewTask(w, l[1]).worker = w
      BY DEF NewTask, Task
    <3> QED
      BY <2>1, <3>1
  <2>4. CASE \A l \in LeaseKeys : task'[l] = task[l]
    BY <2>2, <2>4 DEF OneTask
  <2>5. CASE /\ \A l \in LeaseKeys : task[l].worker # w
             /\ \E new \in LeaseKeys : \A l \in LeaseKeys : l # new => task'[l] = task[l]
    <3>1. PICK new \in LeaseKeys : \A l \in LeaseKeys : l # new => task'[l] = task[l]
      BY <2>5
    <3>2. task'[new] = task[new] \/ task'[new].worker = w
      BY <2>3
    <3>3. ASSUME NEW l \in LeaseKeys, NEW m \in LeaseKeys,
                 task'[l].worker # None, task'[l].worker = task'[m].worker
          PROVE  l = m
      <4>1. CASE task'[new] = task[new]
        <5>1. task'[l] = task[l] /\ task'[m] = task[m]
          BY <3>1, <4>1
        <5> QED
          BY <3>3, <5>1 DEF OneTask
      <4>2. CASE task'[new].worker = w
        <5>1. CASE l = new
          BY <2>5, <3>1, <3>3, <4>2, <5>1
        <5>2. CASE m = new
          BY <2>5, <3>1, <3>3, <4>2, <5>2
        <5>3. CASE l # new /\ m # new
          BY <3>1, <3>3, <5>3 DEF OneTask
        <5> QED
          BY <5>1, <5>2, <5>3
      <4> QED
        BY <3>2, <4>1, <4>2
    <3> QED
      BY <2>2, <3>3 DEF OneTask
  <2> QED
    BY <1>3, <2>4, <2>5, PollTakesOne
<1>4. ASSUME NEW j \in Jobs, ClientStep(j)
      PROVE  UNCHANGED <<task, watch>>
  BY <1>4, Zenon DEF ClientStep, Push, TryReplacePendingData, RemoveFromDedupeSet, watch
<1>5. CASE UNCHANGED vars
  BY <1>2, <1>5 DEF vars
<1>6. ASSUME NEW w \in Workers, Shutdown(w) \/ WorkReturns(w)
      PROVE  UNCHANGED <<task, watch>>
  BY <1>6 DEF Shutdown, WorkReturns
<1> QED
  BY <1>2, <1>3, <1>4, <1>5, <1>6 DEF CoreNext, WorkerStep

\* The hypothesis of the theorems above, for workers with one permit whose
\* payloads all parse (the poll takes as many jobs as permits are free, and a
\* payload that does not parse is dropped without one, queue/src/lib.rs): a
\* connection carries one completion at a time, so no other can drop what that
\* one watches.
THEOREM OnePermitKeepsWatches ==
    ASSUME LocalConcurrency = 1, Unreadable = {}
    PROVE  CoreSpec => WatchesAreKept
<1> DEFINE Inv == TypeOK /\ TaskShape /\ OneTask
<1>1. Init => Inv
  BY IdleTaskType, SeqEmpty, IdleFields DEF Init, TypeOK, TaskShape, OneTask
<1>2. ASSUME TypeOK, TaskShape, [Next]_vars
      PROVE  TaskShape'
  <2>1. ASSUME NEW l \in LeaseKeys
        PROVE  \/ task'[l] = IdleTask
               \/ task'[l].worker \in Workers /\ task'[l].phase # "idle"
    <3>1. TaskEffect(l)
      BY <1>2, StepTasks
    <3>2. task[l].phase # "idle" => task[l].worker \in Workers
      BY <1>2, IdleFields DEF TaskShape
    <3> QED
      BY <3>1, <3>2 DEF TaskEffect
  <2> QED
    BY <2>1 DEF TaskShape, LeaseKeys, IdleTask
<1>3. [CoreNext]_vars => [Next]_vars
  BY DEF Next, CancelNext
<1>4. Inv /\ [CoreNext]_vars => Inv' /\ [KeepsWatches]_vars
  BY <1>2, <1>3, OneTaskStep, TypeStep
<1> QED
  BY <1>1, <1>4, PTL DEF CoreSpec, WatchesAreKept

=============================================================================
