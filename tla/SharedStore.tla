----------------------------- MODULE SharedStore -----------------------------
(***************************************************************************)
(* The Postgres store, statement by statement, under any number of service *)
(* processes: the rows of runs and release jobs, the event ledgers of      *)
(* jobs, start and stop of a service, and the cleanup of old runs.         *)
(*                                                                         *)
(* Transactions are READ COMMITTED: each statement sees what is committed  *)
(* when it begins.  A statement is a step; one that only reads, or whose   *)
(* row nobody else can change before the transaction ends, is part of the  *)
(* step after or before it.  When threads are told to drain is RunQueue's  *)
(* and ReleaseJobs' matter: here an idle one may claim at any time.        *)
(***************************************************************************)
EXTENDS Naturals, Sequences, FiniteSets

CONSTANTS
    Services,   \* processes on one database
    Workers,    \* threads of the executor of each
    Clients,    \* requests each serves at a time
    Jobs,       \* ids of release jobs; an id is used once
    Runs,       \* ids of runs; likewise
    MaxStops,   \* bound on the services that stop
    MaxEvents,  \* bound on the events of a job that is asked to cancel
    None        \* no row, no session

Boot == "boot"  \* the thread that starts a service
Sessions == Services \X (Workers \cup Clients \cup {Boot})

ASSUME SessionAssumption ==
    /\ Boot \notin Workers \cup Clients /\ Workers \cap Clients = {}
    /\ None \notin Sessions \cup Jobs \cup Runs

ASSUME BoundAssumption == MaxStops \in Nat /\ MaxEvents \in Nat

VARIABLES
    up,          \* up[x]: how far service x has come
    op,          \* op[s]: the transaction of session s, and what follows it
    job,         \* job[j]: status of the row, "none" before it
    lock,        \* lock[j]: session whose transaction holds the row, or None
    events,      \* events[j]: rows of release_job_events, by sequence
    recovered,   \* recovered[x]: interrupted jobs x has still to log
    run,         \* run[r]: state of the row, "none" before, "pruned" after it
    asked,       \* history: how often the order of a job was asked for
    again,       \* history: runs queued again while somebody executed them
    stops

jobs == <<job, lock, events, recovered, asked>>
runs == <<run, again>>
vars == <<up, op, jobs, runs, stops>>

Finished == {"succeeded", "failed", "cancelled"}
\* The verdicts of a run are one here.
Ended == {"completed", "error"}
Names == {"queued", "started", "cancel_requested"} \cup Finished

Idle == [at |-> "idle", on |-> None, seen |-> <<>>, say |-> "queued",
         next |-> "idle"]

Init ==
    /\ up = [x \in Services |-> "down"]
    /\ op = [s \in Sessions |-> Idle]
    /\ job = [j \in Jobs |-> "none"]
    /\ lock = [j \in Jobs |-> None]
    /\ events = [j \in Jobs |-> <<>>]
    /\ recovered = [x \in Services |-> {}]
    /\ run = [r \in Runs |-> "none"]
    /\ asked = [j \in Jobs |-> 0]
    /\ again = {}
    /\ stops = 0

-----------------------------------------------------------------------------
(* Sessions.                                                               *)

At(s, step) == op[s].at = step
On(s) == op[s].on

Goto(s, step, row) == op' = [op EXCEPT ![s].at = step, ![s].on = row]

Return(s) == op' = [op EXCEPT ![s] = Idle]

\* Write event e of job j, then go on with next.
Tell(s, j, e, next) ==
    op' = [op EXCEPT ![s] = [at |-> "read", on |-> j, seen |-> <<>>,
                             say |-> e, next |-> next]]

\* A thread of the executor or a request that has nothing to do.
FreeWorker(s) == s[2] \in Workers /\ At(s, "idle") /\ up[s[1]] # "down"
FreeClient(s) == s[2] \in Clients /\ At(s, "idle") /\ up[s[1]] = "up"

-----------------------------------------------------------------------------
(* append_release_job_event: the tail is read FOR UPDATE, the event        *)
(* inserted after it.  Two sessions may read one tail: the lock on it      *)
(* makes one wait, but what it gets is the tail it found, and an empty     *)
(* ledger has no row to lock.  The primary key then refuses one of the     *)
(* two; which one is left open.                                            *)

ReadTail(s) ==
    /\ At(s, "read")
    /\ op' = [op EXCEPT ![s].at = "insert", ![s].seen = events[On(s)]]
    /\ UNCHANGED <<up, jobs, runs, stops>>

Last(ledger) ==
    IF ledger = <<>> THEN "genesis" ELSE ledger[Len(ledger)].event

\* The event names its predecessor by what was read.
Entry(s) == [event |-> op[s].say, previous |-> Last(op[s].seen)]

\* Mutant: a sequence that is taken is taken over.
InsertOrReplace(s) ==
    /\ At(s, "insert")
    /\ LET n == Len(op[s].seen) + 1 IN
       events' = [events EXCEPT ![On(s)] =
                    IF n > Len(@) THEN Append(@, Entry(s))
                    ELSE [@ EXCEPT ![n] = Entry(s)]]
    /\ IF op[s].next = "idle" \/ op[s].next = "rescued" THEN Return(s)
       ELSE Goto(s, op[s].next, On(s))
    /\ UNCHANGED <<up, job, lock, recovered, runs, asked, stops>>

InsertEvent(s) ==
    /\ At(s, "insert")
    /\ Len(events[On(s)]) = Len(op[s].seen)
    /\ events' = [events EXCEPT ![On(s)] = Append(@, Entry(s))]
    /\ IF op[s].next = "idle" \/ op[s].next = "rescued" THEN Return(s)
       ELSE Goto(s, op[s].next, On(s))
    /\ UNCHANGED <<up, job, lock, recovered, runs, asked, stops>>

\* UniqueViolation: a request is answered with an error; a job is failed,
\* unless it was being failed; a service does not start.
EventRefused(s) ==
    /\ At(s, "insert")
    /\ Len(events[On(s)]) > Len(op[s].seen)
    /\ IF s[2] \in Workers /\ op[s].next # "rescued"
       THEN Goto(s, "rescue", On(s)) ELSE Return(s)
    /\ IF s[2] = Boot
       THEN /\ up' = [up EXCEPT ![s[1]] = "down"]
            /\ recovered' = [recovered EXCEPT ![s[1]] = {}]
       ELSE UNCHANGED <<up, recovered>>
    /\ UNCHANGED <<job, lock, events, runs, asked, stops>>

-----------------------------------------------------------------------------
(* Release jobs.                                                           *)

SubmitJob(s) ==
    /\ FreeClient(s)
    /\ \E j \in Jobs :
         /\ job[j] = "none"
         /\ job' = [job EXCEPT ![j] = "queued"]
         /\ Tell(s, j, "queued", "idle")
    /\ UNCHANGED <<up, lock, events, recovered, runs, asked, stops>>

\* Mutant: the row is not locked.
LockNextJobNot(s) ==
    /\ FreeWorker(s)
    /\ \E j \in Jobs :
         /\ job[j] = "queued"
         /\ Goto(s, "locked", j)
    /\ UNCHANGED <<up, jobs, runs, stops>>

\* claim_next_release_job: SELECT ... FOR UPDATE SKIP LOCKED, then the UPDATE
\* and the end of the transaction.
LockNextJob(s) ==
    /\ FreeWorker(s)
    /\ \E j \in Jobs :
         /\ job[j] = "queued" /\ lock[j] = None
         /\ lock' = [lock EXCEPT ![j] = s]
         /\ Goto(s, "locked", j)
    /\ UNCHANGED <<up, job, events, recovered, runs, asked, stops>>

\* The work item is returned whatever the UPDATE found.
ClaimJob(s) ==
    /\ At(s, "locked")
    /\ job' = [job EXCEPT ![On(s)] = IF @ = "queued" THEN "running" ELSE @]
    /\ lock' = [lock EXCEPT ![On(s)] = None]
    /\ Tell(s, On(s), "started", "ask")
    /\ UNCHANGED <<up, events, recovered, runs, asked, stops>>

Logged(j) == {events[j][i].event : i \in DOMAIN events[j]}

\* The order is asked for, unless somebody asked to cancel the job.
AskOrder(s) ==
    /\ At(s, "ask")
    /\ IF "cancel_requested" \in Logged(On(s))
       THEN /\ op' = [op EXCEPT ![s].at = "mark", ![s].say = "cancelled"]
            /\ UNCHANGED asked
       ELSE /\ asked' = [asked EXCEPT ![On(s)] = @ + 1]
            /\ \E e \in {"succeeded", "failed"} :
                 op' = [op EXCEPT ![s].at = "mark", ![s].say = e]
    /\ UNCHANGED <<up, job, lock, events, recovered, runs, stops>>

\* mark_release_job_status asks nothing of the row.
MarkJob(s) ==
    /\ At(s, "mark")
    /\ job' = [job EXCEPT ![On(s)] = op[s].say]
    /\ Tell(s, On(s), op[s].say, "idle")
    /\ UNCHANGED <<up, lock, events, recovered, runs, asked, stops>>

\* The exception handler of the job.
RescueJob(s) ==
    /\ At(s, "rescue")
    /\ job' = [job EXCEPT ![On(s)] = "failed"]
    /\ Tell(s, On(s), "failed", "rescued")
    /\ UNCHANGED <<up, lock, events, recovered, runs, asked, stops>>

\* The endpoint reads the row; what it then does depends on what it read.
AskToCancel(s) ==
    /\ FreeClient(s)
    /\ \E j \in Jobs :
         /\ Len(events[j]) < MaxEvents
         /\ \/ job[j] = "queued" /\ Goto(s, "cancel", j)
            \/ job[j] = "running" /\ Tell(s, j, "cancel_requested", "idle")
    /\ UNCHANGED <<up, jobs, runs, stops>>

\* cancel_release_job waits for a transaction that holds the row.
CancelJob(s) ==
    /\ At(s, "cancel") /\ lock[On(s)] = None
    /\ job' = [job EXCEPT ![On(s)] = IF @ = "queued" THEN "cancelled" ELSE @]
    /\ Tell(s, On(s), "cancelled", "idle")
    /\ UNCHANGED <<up, lock, events, recovered, runs, asked, stops>>

-----------------------------------------------------------------------------
(* Runs.                                                                   *)

SubmitRun(s) ==
    /\ FreeClient(s)
    /\ \E r \in Runs :
         run[r] = "none" /\ run' = [run EXCEPT ![r] = "queued"]
    /\ UNCHANGED <<up, op, jobs, again, stops>>

\* Mutant: a run that is executed may be claimed as well.
ClaimUnfinishedRun(s) ==
    /\ FreeWorker(s)
    /\ \E r \in Runs :
         /\ run[r] \in {"queued", "running"}
         /\ run' = [run EXCEPT ![r] = "running"]
         /\ Goto(s, "execute", r)
    /\ UNCHANGED <<up, jobs, again, stops>>

\* claim_next_run: SELECT ... FOR UPDATE SKIP LOCKED and UPDATE in one
\* statement.
ClaimRun(s) ==
    /\ FreeWorker(s)
    /\ \E r \in Runs :
         /\ run[r] = "queued"
         /\ run' = [run EXCEPT ![r] = "running"]
         /\ Goto(s, "execute", r)
    /\ UNCHANGED <<up, jobs, again, stops>>

\* mark_completed, mark_error: nothing, if the row is gone.
FinishRun(s) ==
    /\ At(s, "execute")
    /\ \E v \in Ended :
         run' = [run EXCEPT ![On(s)] = IF @ = "pruned" THEN @ ELSE v]
    /\ Return(s)
    /\ UNCHANGED <<up, jobs, again, stops>>

\* prune_runs_before: the ended rows that are old enough, then their deletion
\* by id.  The cleanup is a process of its own: it needs no service.
SelectOldRuns(s) ==
    /\ s[2] \in Clients /\ At(s, "idle")
    /\ \E old \in SUBSET {r \in Runs : run[r] \in Ended} :
         old # {} /\ Goto(s, "delete", old)
    /\ UNCHANGED <<up, jobs, runs, stops>>

DeleteRuns(s) ==
    /\ At(s, "delete")
    /\ run' = [r \in Runs |-> IF r \in On(s) THEN "pruned" ELSE run[r]]
    /\ Return(s)
    /\ UNCHANGED <<up, jobs, again, stops>>

-----------------------------------------------------------------------------
(* Services.                                                               *)

Executing(r) == {s \in Sessions : At(s, "execute") /\ On(s) = r}

\* Mutant: failed runs get another chance.
StartWithRetries(x) ==
    /\ up[x] = "down"
    /\ run' = [r \in Runs |-> IF run[r] \in {"running", "error"} THEN "queued"
                              ELSE run[r]]
    /\ again' = again \cup {r \in Runs : run[r] = "running"
                                         /\ Executing(r) # {}}
    /\ up' = [up EXCEPT ![x] = "recover"]
    /\ UNCHANGED <<op, jobs, stops>>

\* requeue_interrupted_runs, of whatever service they are.
Start(x) ==
    /\ up[x] = "down"
    /\ run' = [r \in Runs |-> IF run[r] = "running" THEN "queued" ELSE run[r]]
    /\ again' = again \cup {r \in Runs : run[r] = "running"
                                         /\ Executing(r) # {}}
    /\ up' = [up EXCEPT ![x] = "recover"]
    /\ UNCHANGED <<op, jobs, stops>>

\* recover_interrupted_release_jobs: the running jobs, ...
SelectInterrupted(x) ==
    /\ up[x] = "recover"
    /\ recovered' = [recovered EXCEPT ![x] = {j \in Jobs : job[j] = "running"}]
    /\ up' = [up EXCEPT ![x] = "fail"]
    /\ UNCHANGED <<op, job, lock, events, runs, asked, stops>>

\* ... failed if they still are.
FailInterrupted(x) ==
    /\ up[x] = "fail"
    /\ job' = [j \in Jobs |-> IF j \in recovered[x] /\ job[j] = "running"
                              THEN "failed" ELSE job[j]]
    /\ up' = [up EXCEPT ![x] = "log"]
    /\ UNCHANGED <<op, lock, events, recovered, runs, asked, stops>>

\* All that were selected get their event.
LogInterrupted(x) ==
    /\ up[x] = "log" /\ At(<<x, Boot>>, "idle")
    /\ \E j \in recovered[x] :
         /\ recovered' = [recovered EXCEPT ![x] = @ \ {j}]
         /\ Tell(<<x, Boot>>, j, "failed", "idle")
    /\ UNCHANGED <<up, job, lock, events, runs, asked, stops>>

Open(x) ==
    /\ up[x] = "log" /\ At(<<x, Boot>>, "idle") /\ recovered[x] = {}
    /\ up' = [up EXCEPT ![x] = "up"]
    /\ UNCHANGED <<op, jobs, runs, stops>>

\* Transactions that are open are rolled back.
Stop(x) ==
    /\ up[x] # "down" /\ stops < MaxStops
    /\ stops' = stops + 1
    /\ up' = [up EXCEPT ![x] = "down"]
    /\ op' = [s \in Sessions |-> IF s[1] = x THEN Idle ELSE op[s]]
    /\ lock' = [j \in Jobs |-> IF lock[j] # None /\ lock[j][1] = x THEN None
                               ELSE lock[j]]
    /\ recovered' = [recovered EXCEPT ![x] = {}]
    /\ UNCHANGED <<job, events, runs, asked>>

Next ==
    \/ \E s \in Sessions :
         \/ ReadTail(s) \/ InsertEvent(s) \/ EventRefused(s)
         \/ SubmitJob(s) \/ LockNextJob(s) \/ ClaimJob(s) \/ AskOrder(s)
         \/ MarkJob(s) \/ RescueJob(s) \/ AskToCancel(s) \/ CancelJob(s)
         \/ SubmitRun(s) \/ ClaimRun(s) \/ FinishRun(s)
         \/ SelectOldRuns(s) \/ DeleteRuns(s)
    \/ \E x \in Services :
         \/ Start(x) \/ SelectInterrupted(x) \/ FailInterrupted(x)
         \/ LogInterrupted(x) \/ Open(x) \/ Stop(x)

Spec == Init /\ [][Next]_vars

-----------------------------------------------------------------------------
(* The inductive invariant.                                                *)

Entries == [event : Names, previous : Names \cup {"genesis"}]

\* Steps of a transaction on a job; the others are about runs.
JobSteps == {"read", "insert", "locked", "ask", "mark", "rescue", "cancel"}

Transactions ==
    [at : JobSteps \cup {"idle", "execute", "delete"},
     on : Jobs \cup Runs \cup (SUBSET Runs) \cup {None},
     seen : Seq(Entries),
     say : Names,
     next : {"idle", "ask", "rescued"}]

TypeOK ==
    /\ up \in [Services -> {"down", "recover", "fail", "log", "up"}]
    /\ op \in [Sessions -> Transactions]
    /\ \A s \in Sessions :
         /\ op[s].at \in JobSteps => On(s) \in Jobs
         /\ At(s, "mark") => op[s].say \in Finished
    /\ job \in [Jobs -> {"none", "queued", "running"} \cup Finished]
    /\ lock \in [Jobs -> Sessions \cup {None}]
    /\ events \in [Jobs -> Seq(Entries)]
    /\ recovered \in [Services -> SUBSET Jobs]
    /\ asked \in [Jobs -> Nat]

\* Who is between the claim of a job and the request for its order, and who
\* has claimed it at all.
WillAsk(s) ==
    \/ At(s, "ask")
    \/ op[s].at \in {"read", "insert"} /\ op[s].next = "ask"

HasClaimed(s) ==
    \/ op[s].at \in {"ask", "mark", "rescue"}
    \/ s[2] \in Workers /\ op[s].at \in {"read", "insert"}

\* The lock of a claim keeps the row as it was selected; a claimed job is
\* never queued again; one session, at most, will ask for its order.
ClaimInv ==
    /\ \A s \in Sessions :
         /\ At(s, "locked") => lock[On(s)] = s /\ job[On(s)] = "queued"
         /\ HasClaimed(s) => job[On(s)] \notin {"none", "queued"}
         /\ op[s].at \in {"ask", "mark", "rescue", "locked"} => s[2] \in Workers
         /\ At(s, "cancel") => s[2] \notin Workers
         /\ At(s, "idle") => op[s].next # "ask"
         /\ op[s].at \in JobSteps /\ op[s].next = "ask" => s[2] \in Workers
         /\ WillAsk(s) => asked[On(s)] = 0
    /\ \A s, t \in Sessions :
         WillAsk(s) /\ WillAsk(t) /\ On(s) = On(t) => s = t
    /\ \A j \in Jobs : job[j] \in {"none", "queued"} => asked[j] = 0

\* A tail that was read is part of the ledger.
TailInv ==
    \A s \in Sessions : At(s, "insert") =>
        /\ Len(op[s].seen) <= Len(events[On(s)])
        /\ \A n \in 1..Len(op[s].seen) : events[On(s)][n] = op[s].seen[n]

-----------------------------------------------------------------------------
\* However many services start, stop and drain one table, the order of a job
\* is asked for once: jobs are never queued again.
JobsRunOnce == \A j \in Jobs : asked[j] <= 1

\* Every event ledger is one chain, whoever appends to it: reading it never
\* fails.
LedgersAreChains ==
    \A j \in Jobs : \A n \in DOMAIN events[j] :
        events[j][n].previous =
            IF n = 1 THEN "genesis" ELSE events[j][n - 1].event

\* A run has one executor, unless a service started while it was executed.
RunsAreExclusive ==
    \A r \in Runs \ again : Cardinality(Executing(r)) <= 1

\* The cleanup deletes by the ids it read, and what it deletes has ended all
\* the same: no run leaves its end, also where several services execute it.
OnlyEndedRunsArePruned ==
    [][\A r \in Runs : run'[r] = "pruned" => run[r] \in Ended \cup {"pruned"}]_vars

=============================================================================
