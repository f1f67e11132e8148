------------------------------ MODULE RunQueue ------------------------------
(***************************************************************************)
(* The run queue of RedlineService: rows of the table runs, the threads of *)
(* the executor that drain it, the requests that fill it, and the restart  *)
(* of the process that serves both.                                        *)
(*                                                                         *)
(* created_at has a resolution of one second, so the order in which queued *)
(* rows are claimed is left open.  The engine is deterministic: a run has  *)
(* one outcome, "error" standing for every exception it ends in.           *)
(***************************************************************************)
EXTENDS Naturals, FiniteSets

CONSTANTS
    Runs,        \* run ids; an id is used once
    Workers,     \* threads of the executor
    Clients,     \* requests that may be served at a time
    MaxActive,   \* max_active_runs
    MaxCrashes,  \* bound on the crashes of the process
    None

Verdicts == {"pass", "amber", "fail", "error"}
CONSTANT Outcomes  \* the verdicts the runs may have

ASSUME OutcomeAssumption == Outcomes \subseteq Verdicts
ASSUME WorkerAssumption ==
    /\ None \notin Runs
    /\ IsFiniteSet(Workers) /\ Workers # {}
    /\ MaxCrashes \in Nat
\* max_active_runs = 0 is no quota at all and not modelled.
ASSUME QuotaAssumption == MaxActive \in Nat \ {0} /\ IsFiniteSet(Clients)

VARIABLES
    run,      \* run[r]: state of the row, "none" before, "pruned" after it
    outcome,  \* outcome[r]: what the engine makes of the run
    issued,   \* runs whose receipt is in the issuance ledger of their directory
    tasks,    \* drain tasks the executor has not started
    job,      \* job[w]: the run worker w has claimed, or None
    at,       \* at[w]: what worker w does next
    client,   \* client[c]: what request c does next
    up,       \* "down", "start": requeued, to be kicked; "up"
    crashes

vars == <<run, outcome, issued, tasks, job, at, client, up, crashes>>

RowStates == {"none", "queued", "running", "pruned"} \cup Verdicts

TypeOK ==
    /\ run \in [Runs -> RowStates]
    /\ outcome \in [Runs -> Verdicts]
    /\ issued \subseteq Runs
    /\ tasks \in Nat
    /\ job \in [Workers -> Runs \cup {None}]
    /\ at \in [Workers -> {"idle", "claim", "execute"} \cup Verdicts]
    /\ client \in [Clients -> {"idle", "insert", "kick"}]
    /\ up \in {"down", "start", "up"}
    /\ crashes \in 0 .. MaxCrashes

Init ==
    /\ run = [r \in Runs |-> "none"]
    /\ outcome \in [Runs -> Outcomes]
    /\ issued = {}
    /\ tasks = 0
    /\ job = [w \in Workers |-> None]
    /\ at = [w \in Workers |-> "idle"]
    /\ client = [c \in Clients |-> "idle"]
    /\ up = "up"
    /\ crashes = 0

-----------------------------------------------------------------------------
(* A request: count, insert, kick.                                         *)

Active == {r \in Runs : run[r] \in {"queued", "running"}}

\* Mutant: the quota is compared one off.
RequestOneMore(c) ==
    /\ client[c] = "idle" /\ up = "up"
    /\ Cardinality(Active) <= MaxActive
    /\ client' = [client EXCEPT ![c] = "insert"]
    /\ UNCHANGED <<run, outcome, issued, tasks, job, at, up, crashes>>

\* _assert_run_quota; a request over the quota is refused.
Request(c) ==
    /\ client[c] = "idle" /\ up = "up"
    /\ Cardinality(Active) < MaxActive
    /\ client' = [client EXCEPT ![c] = "insert"]
    /\ UNCHANGED <<run, outcome, issued, tasks, job, at, up, crashes>>

Insert(c) ==
    /\ client[c] = "insert"
    /\ \E r \in Runs : run[r] = "none" /\ run' = [run EXCEPT ![r] = "queued"]
    /\ client' = [client EXCEPT ![c] = "kick"]
    /\ UNCHANGED <<outcome, issued, tasks, job, at, up, crashes>>

\* Mutant: the queue is kicked for the first of several active runs only.
KickForFirst(c) ==
    /\ client[c] = "kick"
    /\ tasks' = IF Cardinality(Active) > 1 THEN tasks
                ELSE tasks + Cardinality(Workers)
    /\ client' = [client EXCEPT ![c] = "idle"]
    /\ UNCHANGED <<run, outcome, issued, job, at, up, crashes>>

\* kick_queue: a drain task for every worker.
Kick(c) ==
    /\ client[c] = "kick"
    /\ tasks' = tasks + Cardinality(Workers)
    /\ client' = [client EXCEPT ![c] = "idle"]
    /\ UNCHANGED <<run, outcome, issued, job, at, up, crashes>>

-----------------------------------------------------------------------------
(* _drain_queue: claim and execute until nothing is queued.                *)

Start(w) ==
    /\ at[w] = "idle" /\ tasks > 0
    /\ tasks' = tasks - 1
    /\ at' = [at EXCEPT ![w] = "claim"]
    /\ UNCHANGED <<run, outcome, issued, job, client, up, crashes>>

\* Mutant: the row is read and left as it is.
ClaimUnmarked(w) ==
    /\ at[w] = "claim"
    /\ \E r \in Runs :
         /\ run[r] = "queued" /\ run' = run
         /\ job' = [job EXCEPT ![w] = r]
         /\ at' = [at EXCEPT ![w] = "execute"]
    /\ UNCHANGED <<outcome, issued, tasks, client, up, crashes>>

\* claim_next_run, one transaction.
Claim(w) ==
    /\ at[w] = "claim"
    /\ \/ \E r \in Runs :
            /\ run[r] = "queued"
            /\ run' = [run EXCEPT ![r] = "running"]
            /\ job' = [job EXCEPT ![w] = r]
            /\ at' = [at EXCEPT ![w] = "execute"]
       \/ /\ \A r \in Runs : run[r] # "queued"
          /\ at' = [at EXCEPT ![w] = "idle"]
          /\ UNCHANGED <<run, job>>
    /\ UNCHANGED <<outcome, issued, tasks, client, up, crashes>>

\* Mutant: the receipt is not in the ledger when the verdict is known.
ExecuteUnissued(w) ==
    /\ at[w] = "execute"
    /\ at' = [at EXCEPT ![w] = outcome[job[w]]]
    /\ UNCHANGED <<run, outcome, issued, tasks, job, client, up, crashes>>

\* run_redline up to the last artifact.  A receipt of the same package,
\* candidate, suite and spec in the ledger of the directory is a conflict.
Execute(w) ==
    /\ at[w] = "execute"
    /\ LET r == job[w]
           result == IF r \in issued THEN "error" ELSE outcome[r]
       IN  /\ at' = [at EXCEPT ![w] = result]
           /\ issued' = IF result = "error" THEN issued ELSE issued \cup {r}
    /\ UNCHANGED <<run, outcome, tasks, job, client, up, crashes>>

\* mark_completed or mark_error, whatever the row says by now; then the next.
Mark(w) ==
    /\ at[w] \in Verdicts
    /\ run' = [run EXCEPT ![job[w]] = at[w]]
    /\ job' = [job EXCEPT ![w] = None]
    /\ at' = [at EXCEPT ![w] = "claim"]
    /\ UNCHANGED <<outcome, issued, tasks, client, up, crashes>>

-----------------------------------------------------------------------------
(* The process.                                                            *)

Crash ==
    /\ up # "down" /\ crashes < MaxCrashes
    /\ crashes' = crashes + 1
    /\ up' = "down"
    /\ tasks' = 0
    /\ job' = [w \in Workers |-> None]
    /\ at' = [w \in Workers |-> "idle"]
    /\ client' = [c \in Clients |-> "idle"]
    /\ UNCHANGED <<run, outcome, issued>>

\* Mutant: whatever did not pass is run again.
RequeueUnpassed ==
    /\ up = "down"
    /\ run' = [r \in Runs |-> IF run[r] \in {"running", "error", "fail"}
                              THEN "queued" ELSE run[r]]
    /\ up' = "start"
    /\ UNCHANGED <<outcome, issued, tasks, job, at, client, crashes>>

\* Mutant: nothing is requeued.
RequeueNothing ==
    /\ up = "down"
    /\ up' = "up"
    /\ UNCHANGED <<run, outcome, issued, tasks, job, at, client, crashes>>

\* requeue_interrupted_runs, at the start; workers are kicked only when it
\* changed a row.
Requeue ==
    /\ up = "down"
    /\ run' = [r \in Runs |-> IF run[r] = "running" THEN "queued" ELSE run[r]]
    /\ up' = IF \E r \in Runs : run[r] = "running" THEN "start" ELSE "up"
    /\ UNCHANGED <<outcome, issued, tasks, job, at, client, crashes>>

KickAtStart ==
    /\ up = "start"
    /\ up' = "up"
    /\ tasks' = tasks + Cardinality(Workers)
    /\ UNCHANGED <<run, outcome, issued, job, at, client, crashes>>

\* cleanup_expired_runs, a process of its own: delete a finished run, row and
\* directory.
Prune(r) ==
    /\ run[r] \in Verdicts
    /\ run' = [run EXCEPT ![r] = "pruned"]
    /\ issued' = issued \ {r}
    /\ UNCHANGED <<outcome, tasks, job, at, client, up, crashes>>

Serve(c) == Request(c) \/ Insert(c) \/ Kick(c)
Drain(w) == Start(w) \/ Claim(w) \/ Execute(w) \/ Mark(w)
Boot == Requeue \/ KickAtStart

Next ==
    \/ \E c \in Clients : Serve(c)
    \/ \E w \in Workers : Drain(w)
    \/ Crash \/ Boot
    \/ \E r \in Runs : Prune(r)

Spec == Init /\ [][Next]_vars

\* Threads are scheduled, a request that inserted its row gets to its kick,
\* and a stopped service is started again.  No request has to come.
Fairness ==
    /\ \A w \in Workers : WF_vars(Drain(w))
    /\ \A c \in Clients : WF_vars(Kick(c))
    /\ WF_vars(Boot)

FairSpec == Spec /\ Fairness

-----------------------------------------------------------------------------
(***************************************************************************)
(* Properties.                                                             *)
(***************************************************************************)

\* While the service runs, a row says running exactly when one worker, and
\* only one, has claimed it: no run is executed twice at a time, none is
\* orphaned by a restart.
RunningIsOwned ==
    /\ \A v, w \in Workers : job[v] = job[w] /\ job[v] # None => v = w
    /\ up # "down" =>
         \A r \in Runs : run[r] = "running" <=> \E w \in Workers : job[w] = r

\* A verdict in the row is the engine's, and the receipt behind it is in the
\* ledger of the run's directory until both are pruned.
VerdictIsBacked ==
    \A r \in Runs : run[r] \in {"pass", "amber", "fail"} =>
        run[r] = outcome[r] /\ r \in issued

\* A finished run stays finished, with its verdict, through restarts.
VerdictIsFinal ==
    [][\A r \in Runs : run[r] \in Verdicts => run'[r] \in {run[r], "pruned"}]_vars

\* Requests race between the count and the insert, but no further over the
\* quota than there are requests served at a time.
QuotaOvershoot == Cardinality(Active) < MaxActive + Cardinality(Clients)

\* As long as the process has not stopped, a queued run is executed: none is
\* missed by drain tasks that end while its row is being inserted.
AwaitedRunsFinish ==
    \A r \in Runs : run[r] = "queued" /\ crashes = 0
        ~> run[r] \in Verdicts \cup {"pruned"} \/ crashes > 0

\* A run that was being executed when the process stopped is executed again.
InterruptedRunsFinish ==
    \A r \in Runs : run[r] = "running" ~> run[r] \in Verdicts \cup {"pruned"}

\* Why RunningIsOwned and VerdictIsBacked hold, as an inductive invariant.
IInv ==
    /\ TypeOK
    /\ \A v, w \in Workers : job[v] = job[w] /\ job[v] # None => v = w
    /\ \A w \in Workers :
         /\ at[w] \in {"execute"} \cup Verdicts <=> job[w] # None
         /\ job[w] # None => run[job[w]] = "running"
         /\ at[w] \in {"pass", "amber", "fail"} =>
              at[w] = outcome[job[w]] /\ job[w] \in issued
    /\ up = "down" => \A w \in Workers : at[w] = "idle"
    /\ up # "up" => tasks = 0 /\ \A c \in Clients : client[c] = "idle"
    /\ up # "down" =>
         \A r \in Runs : run[r] = "running" => \E w \in Workers : job[w] = r
    /\ VerdictIsBacked

=============================================================================
