----------------------------- MODULE ReleaseJobs -----------------------------
(***************************************************************************)
(* Release jobs: a demo or showcase order of a release that a request      *)
(* leaves to the threads of the executor.  Job rows, job events and        *)
(* idempotency keys are tables; every access to one of them is a step, a   *)
(* transaction of its own, and may raise.                                  *)
(*                                                                         *)
(* The two job types differ in the endpoint they call and in the events    *)
(* they write in between; such events, and the answers of requests, are    *)
(* left out.  Requests with the same key have the same body.  Runs, which  *)
(* share the executor, are RunQueue's.                                     *)
(***************************************************************************)
EXTENDS Naturals, Sequences, FiniteSets

CONSTANTS
    Jobs,        \* job ids; an id is used once
    Keys,        \* values of the header Idempotency-Key
    Clients,     \* requests that may be served at a time
    Workers,     \* threads of the executor
    MaxCrashes,  \* bound on the crashes of the process
    MaxFaults,   \* bound on the store accesses that raise
    MaxEvents,   \* bound on the events of a job that is still asked to cancel
    None

ASSUME JobAssumption ==
    /\ None \notin Jobs /\ None \notin Keys
    /\ IsFiniteSet(Workers) /\ Workers # {}
    /\ MaxCrashes \in Nat /\ MaxFaults \in Nat /\ MaxEvents \in Nat

VARIABLES
    status,     \* status[j]: of the row in release_jobs, "none" before it
    asked,      \* history: jobs whose release endpoint was called
    key,        \* key[j]: idempotency key the job was created with, or None
    events,     \* events[j]: types in release_job_events, without "job_"
    replay,     \* replay[k]: the job the idempotency record of k names, or None
    tasks,      \* drain tasks the executor has not started
    at,         \* at[w]: what worker w does next
    job,        \* job[w]: the job it has claimed, or None
    result,     \* result[w]: how that job is about to end
    client,     \* client[c]: what request c does next
    about,      \* about[c]: the job it is about, or None
    recovered,  \* interrupted jobs, failed, whose event is not written
    up,         \* "down", "recovered", "up"
    crashes, faults

rows == <<status, asked, key, events, replay>>
threads == <<at, job, result>>
requests == <<client, about>>
process == <<recovered, up, crashes, faults>>
vars == <<rows, tasks, threads, requests, process>>

Contract == INSTANCE JobContract WITH status <- status, asked <- asked

Events == {"queued", "started", "cancel_requested"} \cup Contract!Ended

TypeOK ==
    /\ status \in [Jobs -> Contract!Statuses]
    /\ asked \subseteq Jobs
    /\ key \in [Jobs -> Keys \cup {None}]
    /\ events \in [Jobs -> Seq(Events)]
    /\ replay \in [Keys -> Jobs \cup {None}]
    /\ tasks \in Nat
    /\ at \in [Workers -> {"idle", "claim", "start", "check", "execute", "mark",
                           "log", "rescue", "rescued"}]
    /\ job \in [Workers -> Jobs \cup {None}]
    /\ result \in [Workers -> Contract!Ended]
    /\ client \in [Clients -> {"idle", "insert", "queued", "remember", "kick",
                               "cancel", "cancelled", "request"}]
    /\ about \in [Clients -> Jobs \cup Keys \cup {None}]
    /\ recovered \subseteq Jobs
    /\ up \in {"down", "recovered", "up"}
    /\ crashes \in 0 .. MaxCrashes /\ faults \in 0 .. MaxFaults

Init ==
    /\ status = [j \in Jobs |-> "none"]
    /\ asked = {}
    /\ key = [j \in Jobs |-> None]
    /\ events = [j \in Jobs |-> <<>>]
    /\ replay = [k \in Keys |-> None]
    /\ tasks = 0
    /\ at = [w \in Workers |-> "idle"]
    /\ job = [w \in Workers |-> None]
    /\ result = [w \in Workers |-> "failed"]
    /\ client = [c \in Clients |-> "idle"]
    /\ about = [c \in Clients |-> None]
    /\ recovered = {}
    /\ up = "up"
    /\ crashes = 0 /\ faults = 0

-----------------------------------------------------------------------------
\* append_release_job_event
Log(j, e) == events' = [events EXCEPT ![j] = Append(@, e)]

Logged(j) == {events[j][i] : i \in DOMAIN events[j]}

Set(j, s) == status' = [status EXCEPT ![j] = s]

\* Request c goes on, or is answered.
Pass(c, step) ==
    /\ client' = [client EXCEPT ![c] = step]
    /\ about' = IF step = "idle" THEN [about EXCEPT ![c] = None] ELSE about

(* Creating a job: replay or insert, log, remember the key, kick.          *)

\* A key with a record answers with its job: nothing changes.
Create(c) ==
    /\ client[c] = "idle" /\ up = "up"
    /\ client' = [client EXCEPT ![c] = "insert"]
    /\ \E k \in Keys \cup {None} :
         /\ k # None => replay[k] = None
         /\ about' = [about EXCEPT ![c] = k]
    /\ UNCHANGED <<rows, tasks, threads, process>>

Insert(c) ==
    /\ client[c] = "insert"
    /\ \E j \in Jobs :
         /\ status[j] = "none"
         /\ Set(j, "queued")
         /\ key' = [key EXCEPT ![j] = about[c]]
         /\ about' = [about EXCEPT ![c] = j]
    /\ client' = [client EXCEPT ![c] = "queued"]
    /\ UNCHANGED <<asked, events, replay, tasks, threads, process>>

LogQueued(c) ==
    /\ client[c] = "queued"
    /\ Log(about[c], "queued")
    /\ Pass(c, "remember")
    /\ UNCHANGED <<status, asked, key, replay, tasks, threads, process>>

\* INSERT OR IGNORE: the first record of a key stays.
Remember(c) ==
    /\ client[c] = "remember"
    /\ LET k == key[about[c]] IN
       replay' = IF k # None /\ replay[k] = None
                 THEN [replay EXCEPT ![k] = about[c]] ELSE replay
    /\ Pass(c, "kick")
    /\ UNCHANGED <<status, asked, key, events, tasks, threads, process>>

\* _kick_release_jobs
Kick(c) ==
    /\ client[c] = "kick"
    /\ tasks' = tasks + Cardinality(Workers)
    /\ Pass(c, "idle")
    /\ UNCHANGED <<rows, threads, process>>

-----------------------------------------------------------------------------
(* Cancelling a job: what is done depends on the status read first.        *)

Cancel(c) ==
    /\ client[c] = "idle" /\ up = "up"
    /\ \E j \in Jobs :
         /\ Len(events[j]) < MaxEvents
         /\ \/ status[j] = "queued" /\ client' = [client EXCEPT ![c] = "cancel"]
            \/ status[j] = "running" /\ client' = [client EXCEPT ![c] = "request"]
         /\ about' = [about EXCEPT ![c] = j]
    /\ UNCHANGED <<rows, tasks, threads, process>>

\* cancel_release_job: nothing, if the job was claimed in between.
CancelQueued(c) ==
    /\ client[c] = "cancel"
    /\ IF status[about[c]] = "queued" THEN Set(about[c], "cancelled")
       ELSE UNCHANGED status
    /\ Pass(c, "cancelled")
    /\ UNCHANGED <<asked, key, events, replay, tasks, threads, process>>

\* The event is written whatever the update did.
LogCancelled(c) ==
    /\ client[c] = "cancelled"
    /\ Log(about[c], "cancelled")
    /\ Pass(c, "idle")
    /\ UNCHANGED <<status, asked, key, replay, tasks, threads, process>>

LogRequest(c) ==
    /\ client[c] = "request"
    /\ Log(about[c], "cancel_requested")
    /\ Pass(c, "idle")
    /\ UNCHANGED <<status, asked, key, replay, tasks, threads, process>>

\* The store raises: the request is answered with an error.
FailRequest(c) ==
    /\ client[c] \notin {"idle", "insert", "kick"} /\ faults < MaxFaults
    /\ faults' = faults + 1
    /\ Pass(c, "idle")
    /\ UNCHANGED <<rows, tasks, threads, recovered, up, crashes>>

-----------------------------------------------------------------------------
(* _drain_release_jobs and the job it runs.                                *)

Goto(w, step) ==
    /\ at' = [at EXCEPT ![w] = step]
    /\ UNCHANGED <<job, result>>

EndAs(w, s) ==
    /\ at' = [at EXCEPT ![w] = "mark"]
    /\ result' = [result EXCEPT ![w] = s]
    /\ UNCHANGED job

\* The exception handler fails the job.
Rescuing(w) ==
    /\ at' = [at EXCEPT ![w] = "rescue"]
    /\ result' = [result EXCEPT ![w] = "failed"]
    /\ UNCHANGED job

\* The worker has no job any more.
Drop(w, step) ==
    /\ at' = [at EXCEPT ![w] = step]
    /\ job' = [job EXCEPT ![w] = None]
    /\ result' = [result EXCEPT ![w] = "failed"]

Start(w) ==
    /\ at[w] = "idle" /\ tasks > 0
    /\ tasks' = tasks - 1
    /\ Goto(w, "claim")
    /\ UNCHANGED <<rows, requests, process>>

\* claim_next_release_job
Claim(w) ==
    /\ at[w] = "claim"
    /\ \/ \E j \in Jobs :
            /\ status[j] = "queued" /\ Set(j, "running")
            /\ at' = [at EXCEPT ![w] = "start"]
            /\ job' = [job EXCEPT ![w] = j]
            /\ UNCHANGED result
       \/ /\ \A j \in Jobs : status[j] # "queued"
          /\ Goto(w, "idle") /\ UNCHANGED status
    /\ UNCHANGED <<asked, key, events, replay, tasks, requests, process>>

LogStarted(w) ==
    /\ at[w] = "start"
    /\ Log(job[w], "started")
    /\ Goto(w, "check")
    /\ UNCHANGED <<status, asked, key, replay, tasks, requests, process>>

\* Mutant: the ledger is not looked at.
CheckNothing(w) ==
    /\ at[w] = "check"
    /\ Goto(w, "execute")
    /\ UNCHANGED <<rows, tasks, requests, process>>

\* _release_job_cancel_requested
Check(w) ==
    /\ at[w] = "check"
    /\ IF "cancel_requested" \in Logged(job[w]) THEN EndAs(w, "cancelled")
       ELSE Goto(w, "execute")
    /\ UNCHANGED <<rows, tasks, requests, process>>

\* The endpoint is called; it places the order, refuses, or raises.
Execute(w) ==
    /\ at[w] = "execute"
    /\ asked' = asked \cup {job[w]}
    /\ \/ \E s \in {"succeeded", "failed"} : EndAs(w, s)
       \/ Rescuing(w)
    /\ UNCHANGED <<status, key, events, replay, tasks, requests, process>>

\* Mutant: the event is written before the row.
MarkAfterLog(w) ==
    /\ at[w] = "mark"
    /\ Log(job[w], result[w])
    /\ Goto(w, "log")
    /\ UNCHANGED <<status, asked, key, replay, tasks, requests, process>>

\* mark_release_job_status asks nothing of the row.
Mark(w) ==
    /\ at[w] = "mark"
    /\ Set(job[w], result[w])
    /\ Goto(w, "log")
    /\ UNCHANGED <<asked, key, events, replay, tasks, requests, process>>

LogResult(w) ==
    /\ at[w] = "log"
    /\ Log(job[w], result[w])
    /\ Drop(w, "claim")
    /\ UNCHANGED <<status, asked, key, replay, tasks, requests, process>>

\* An exception while a job runs fails the job; one in that handler, or while
\* claiming, ends the drain task.
FailWork(w) ==
    /\ at[w] # "idle" /\ faults < MaxFaults
    /\ faults' = faults + 1
    /\ IF at[w] \in {"claim", "rescue", "rescued"} THEN Drop(w, "idle")
       ELSE Rescuing(w)
    /\ UNCHANGED <<rows, tasks, requests, recovered, up, crashes>>

Rescue(w) ==
    /\ at[w] = "rescue"
    /\ Set(job[w], "failed")
    /\ Goto(w, "rescued")
    /\ UNCHANGED <<asked, key, events, replay, tasks, requests, process>>

LogRescued(w) ==
    /\ at[w] = "rescued"
    /\ Log(job[w], "failed")
    /\ Drop(w, "claim")
    /\ UNCHANGED <<status, asked, key, replay, tasks, requests, process>>

-----------------------------------------------------------------------------
(* The process.                                                            *)

Crash ==
    /\ up # "down" /\ crashes < MaxCrashes
    /\ crashes' = crashes + 1
    /\ up' = "down"
    /\ tasks' = 0
    /\ at' = [w \in Workers |-> "idle"]
    /\ job' = [w \in Workers |-> None]
    /\ client' = [c \in Clients |-> "idle"]
    /\ about' = [c \in Clients |-> None]
    /\ result' = [w \in Workers |-> "failed"]
    /\ recovered' = {}
    /\ UNCHANGED <<rows, faults>>

\* Mutant: interrupted jobs are queued again, as runs are.
RecoverByRequeue ==
    /\ up = "down"
    /\ status' = [j \in Jobs |-> IF status[j] = "running" THEN "queued"
                                 ELSE status[j]]
    /\ up' = "recovered"
    /\ UNCHANGED <<asked, key, events, replay, tasks, threads, requests,
                   recovered, crashes, faults>>

\* recover_interrupted_release_jobs
Recover ==
    /\ up = "down"
    /\ recovered' = {j \in Jobs : status[j] = "running"}
    /\ status' = [j \in Jobs |-> IF status[j] = "running" THEN "failed"
                                 ELSE status[j]]
    /\ up' = "recovered"
    /\ UNCHANGED <<asked, key, events, replay, tasks, threads, requests,
                   crashes, faults>>

LogRecovered ==
    /\ up = "recovered"
    /\ \E j \in recovered : Log(j, "failed") /\ recovered' = recovered \ {j}
    /\ UNCHANGED <<status, asked, key, replay, tasks, threads, requests,
                   up, crashes, faults>>

\* Mutant: only a job that was interrupted is a reason to kick.
KickAtStartIfFailed ==
    /\ up = "recovered" /\ recovered = {}
    /\ tasks' = IF \E j \in Jobs : status[j] = "failed"
                THEN Cardinality(Workers) ELSE tasks
    /\ up' = "up"
    /\ UNCHANGED <<rows, threads, requests, recovered, crashes, faults>>

KickAtStart ==
    /\ up = "recovered" /\ recovered = {}
    /\ tasks' = tasks + Cardinality(Workers)
    /\ up' = "up"
    /\ UNCHANGED <<rows, threads, requests, recovered, crashes, faults>>

Serve(c) ==
    \/ Insert(c) \/ LogQueued(c) \/ Remember(c) \/ Kick(c)
    \/ CancelQueued(c) \/ LogCancelled(c) \/ LogRequest(c)

Drain(w) ==
    \/ Start(w) \/ Claim(w) \/ LogStarted(w) \/ Check(w) \/ Execute(w)
    \/ Mark(w) \/ LogResult(w) \/ Rescue(w) \/ LogRescued(w)

Boot == Recover \/ LogRecovered \/ KickAtStart

Next ==
    \/ \E c \in Clients : Create(c) \/ Cancel(c) \/ Serve(c) \/ FailRequest(c)
    \/ \E w \in Workers : Drain(w) \/ FailWork(w)
    \/ Crash \/ Boot

Spec == Init /\ [][Next]_vars

\* Threads are scheduled, requests that are being served go on, and a stopped
\* service is started again.  No request has to come.
Fairness ==
    /\ \A w \in Workers : WF_vars(Drain(w))
    /\ \A c \in Clients : WF_vars(Serve(c))
    /\ WF_vars(Boot)

FairSpec == Spec /\ Fairness

-----------------------------------------------------------------------------
(***************************************************************************)
(* Properties.                                                             *)
(***************************************************************************)

\* The contract of a job, implemented by rows and threads that crash, race
\* and raise: an order is asked for once, not after the job was cancelled, and
\* no job comes back after it ended.
ContractSpec == Contract!Spec

\* No request to cancel precedes the start of the job in its ledger.
Honoured(j) ==
    \A m, n \in DOMAIN events[j] :
        events[j][m] = "cancel_requested" /\ events[j][n] = "started" => n < m

\* A request to cancel that is in the event ledger before the job is started
\* is honoured: the order of that job is not asked for.
CancelRequestsAreHonoured == \A j \in asked : Honoured(j)

\* Row and ledger agree on how a job ended by itself: its row is written
\* first, and nobody writes the row of a job that is not his.
EventsFollowRows ==
    \A j \in Jobs : \A e \in {"succeeded", "failed"} :
        e \in Logged(j) => status[j] = e

\* A job is never stuck while the store works: one that is queued ends, also
\* if the process stops before anyone was told to run it.
JobsEnd ==
    \A j \in Jobs : status[j] = "queued" /\ faults = 0
        ~> status[j] \in Contract!Ended \/ faults > 0

\* Why they hold, as an inductive invariant.  First the rows: only the worker
\* that claimed a job writes its row until it lets the job go.
Holding == {"start", "check", "execute", "mark", "log", "rescue", "rescued"}

Holds(w) ==
    LET j == job[w] IN
    /\ at[w] \in {"start", "check", "execute"} =>
         status[j] = "running" /\ j \notin asked
    /\ at[w] = "mark" =>
         /\ status[j] = "running"
         /\ result[w] = "cancelled" => j \notin asked
         /\ result[w] = "succeeded" => j \in asked
    /\ at[w] = "log" => status[j] = result[w]
    /\ at[w] = "rescue" => status[j] \in {"running"} \cup Contract!Ended
    /\ at[w] = "rescued" => status[j] = "failed"

RowInv ==
    /\ \A w \in Workers : (at[w] \in Holding <=> job[w] # None) /\ Holds(w)
    /\ \A v, w \in Workers : job[v] = job[w] /\ job[v] # None => v = w
    /\ up # "up" => /\ tasks = 0
                    /\ \A w \in Workers : at[w] = "idle"
                    /\ \A c \in Clients : client[c] = "idle"
    /\ \A j \in asked : status[j] \notin {"none", "queued"}
    /\ \A j \in recovered : status[j] = "failed"
    /\ \A c \in Clients :
         /\ client[c] \notin {"idle", "insert"} => about[c] \in Jobs
         /\ client[c] = "insert" => about[c] \in Keys \cup {None}

\* Then the events: how a job ended by itself is written by who lets it go,
\* and that it started before it is executed.
EventInv ==
    /\ \A j \in Jobs : \A e \in {"succeeded", "failed"} : e \in Logged(j) =>
         status[j] = e /\ \A w \in Workers : job[w] # j
    /\ \A j \in Jobs : "started" \in Logged(j) =>
         /\ status[j] \notin {"none", "queued"}
         /\ \A w \in Workers : at[w] = "start" => job[w] # j
    /\ \A w \in Workers : at[w] = "execute" => Honoured(job[w])
    /\ \A j \in asked : Honoured(j)

IInv == TypeOK /\ RowInv /\ EventInv

=============================================================================
