---------------------------- MODULE JobLifecycle ----------------------------
(***************************************************************************)
(* What the queue promises about a job: it waits, is borrowed under a      *)
(* lease by one handler at a time, is given back, and is settled once, by  *)
(* the holder of the lease, with a result for the payload it was given.    *)
(*                                                                         *)
(* Queue implements this specification as long as nothing is cancelled,    *)
(* ids are not reused, and no two tasks share a connection; Broadcaster    *)
(* is built on it.                                                         *)
(***************************************************************************)
CONSTANTS
    Jobs,       \* job ids
    Data,       \* payloads
    None        \* no payload

VARIABLE job    \* where each job is, its payload, and the lease holder's copy

States == {"absent", "waiting", "leased", "succeeded", "failed"}

Terminal == {"succeeded", "failed"}

Job(state, payload, held) == [state |-> state, payload |-> payload, held |-> held]

AllJobs == [state : States, payload : Data \cup {None}, held : Data \cup {None}]

NoJob == Job("absent", None, None)

Init == job = [j \in Jobs |-> NoJob]

\* What may become of a job in state x, by what happens to it:

\* a push of an id the queue does not know;
Accepted(x) ==
    IF x.state = "absent" THEN {Job("waiting", d, None) : d \in Data} ELSE {}

\* a payload replaced, which is possible only while no one holds the job;
Replaced(x) ==
    IF x.state = "waiting" THEN {Job("waiting", d, None) : d \in Data} ELSE {}

\* a handler given the stored payload and a lease;
Borrowed(x) ==
    IF x.state = "waiting" THEN {Job("leased", x.payload, x.payload)} ELSE {}

\* the end of the lease without a result: it expires, or the handler nacks or
\* defers;
GivenBack(x) ==
    IF x.state = "leased" THEN {Job("waiting", x.payload, None)} ELSE {}

\* the holder's result recorded, for the payload that is stored;
Settled(x) ==
    IF x.state = "leased" /\ x.held = x.payload
    THEN {Job(s, x.payload, None) : s \in Terminal} ELSE {}

\* a settled job pruned.
Forgotten(x) == IF x.state \in Terminal THEN {NoJob} ELSE {}

Steps(x) ==
    Accepted(x) \cup Replaced(x) \cup Borrowed(x) \cup GivenBack(x)
      \cup Settled(x) \cup Forgotten(x)

\* One poll may borrow several jobs, one pruning script forget several.
Next ==
    /\ job' \in [Jobs -> AllJobs]
    /\ \A j \in Jobs : job'[j] \in {job[j]} \cup Steps(job[j])

Spec == Init /\ [][Next]_job

=============================================================================
