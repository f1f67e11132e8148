-------------------------- MODULE ReleaseJobsProofs --------------------------
(***************************************************************************)
(* Theorems about ReleaseJobs: its invariant, and that it implements the   *)
(* contract of a job.                                                      *)
(***************************************************************************)
EXTENDS ReleaseJobs, FiniteSetTheorems, TLAPS

LEMMA WorkersCounted == Cardinality(Workers) \in Nat
BY JobAssumption, FS_CardinalityType

LEMMA EndedAreStatuses == Contract!Ended \subseteq Contract!Statuses \cap Events
BY DEF Contract!Ended, Contract!Statuses, Events

-----------------------------------------------------------------------------
(* Appending to the ledger of a job.                                       *)

LEMMA LogKeepsType ==
    ASSUME TypeOK, NEW j \in Jobs, NEW e \in Events, Log(j, e)
    PROVE  events' \in [Jobs -> Seq(Events)]
BY DEF TypeOK, Log

LEMMA LogAdds ==
    ASSUME TypeOK, NEW j \in Jobs, NEW e \in Events, Log(j, e)
    PROVE  /\ Logged(j)' = Logged(j) \cup {e}
           /\ \A i \in Jobs \ {j} : Logged(i)' = Logged(i)
<1>1. /\ events'[j] = Append(events[j], e) /\ events[j] \in Seq(Events)
      /\ \A i \in Jobs \ {j} : events'[i] = events[i]
    BY DEF Log, TypeOK
<1>2. /\ DOMAIN events'[j] = DOMAIN events[j] \cup {Len(events[j]) + 1}
      /\ Len(events[j]) + 1 \notin DOMAIN events[j]
      /\ events'[j][Len(events[j]) + 1] = e
      /\ \A i \in DOMAIN events[j] : events'[j][i] = events[j][i]
    BY <1>1
<1>3. Logged(j)' = Logged(j) \cup {e}
    BY <1>2 DEF Logged
<1> QED
    BY <1>1, <1>3 DEF Logged

\* An appended event comes last, so only a late start can be dishonest.
LEMMA LogHonours ==
    ASSUME TypeOK, NEW j \in Jobs, NEW e \in Events, Log(j, e),
           NEW i \in Jobs, Honoured(i),
           i = j /\ e = "started" => "cancel_requested" \notin Logged(j)
    PROVE  Honoured(i)'
<1>1. CASE i # j
    BY <1>1 DEF Log, TypeOK, Honoured
<1>2. CASE i = j
    <2>1. /\ events'[j] = Append(events[j], e) /\ events[j] \in Seq(Events)
        BY DEF Log, TypeOK
    <2> DEFINE last == Len(events[j]) + 1
    <2>2. /\ DOMAIN events'[j] = DOMAIN events[j] \cup {last}
          /\ events'[j][last] = e
          /\ \A k \in DOMAIN events[j] :
               events'[j][k] = events[j][k] /\ k \in Nat /\ k < last
        BY <2>1
    <2> HIDE DEF last
    <2>3. ASSUME NEW m \in DOMAIN events'[j], NEW n \in DOMAIN events'[j],
                 events'[j][m] = "cancel_requested", events'[j][n] = "started"
          PROVE  n < m
        <3>1. CASE n = last
            <4>1. e = "started"
                BY <2>2, <2>3, <3>1
            <4>2. m \in DOMAIN events[j]
                BY <2>2, <2>3, <4>1
            <4> QED
                BY <1>2, <2>2, <2>3, <4>1, <4>2 DEF Logged
        <3>2. CASE n # last
            BY <1>2, <2>2, <2>3, <3>2 DEF Honoured
        <3> QED
            BY <3>1, <3>2
    <2> QED
        BY <1>2, <2>3 DEF Honoured
<1> QED
    BY <1>1, <1>2


-----------------------------------------------------------------------------
(* The invariant.                                                          *)

\* A worker past the claim has a job, a request past the insert is about one.
LEMMA Subjects ==
    ASSUME TypeOK, RowInv
    PROVE  /\ \A w \in Workers : at[w] \in Holding => job[w] \in Jobs
           /\ \A c \in Clients : client[c] \notin {"idle", "insert"} =>
                about[c] \in Jobs
BY JobAssumption DEF TypeOK, RowInv

LEMMA TypeStep ==
    ASSUME TypeOK, RowInv, [Next]_vars
    PROVE  TypeOK'
<1> USE DEF rows, threads, requests, process
<1>1. CASE UNCHANGED vars
    BY <1>1 DEF vars, TypeOK
<1>2. ASSUME NEW c \in Clients,
             \/ Create(c) \/ Cancel(c) \/ Insert(c) \/ Remember(c) \/ Kick(c)
             \/ CancelQueued(c) \/ FailRequest(c)
      PROVE  TypeOK'
    <2>1. CASE Create(c)
        BY <2>1 DEF Create, TypeOK
    <2>2. CASE Cancel(c)
        <3>1. PICK j \in Jobs, s \in {"cancel", "request"} :
                 /\ client' = [client EXCEPT ![c] = s]
                 /\ about' = [about EXCEPT ![c] = j]
            BY <2>2 DEF Cancel
        <3>2. /\ client' \in [Clients ->
                                 {"idle", "insert", "queued", "remember", "kick",
                                  "cancel", "cancelled", "request"}]
              /\ about' \in [Clients -> Jobs \cup Keys \cup {None}]
            BY <3>1 DEF TypeOK
        <3>3. UNCHANGED <<rows, tasks, threads, process>>
            BY <2>2 DEF Cancel
        <3> QED
            BY <3>2, <3>3 DEF TypeOK
    <2>3. CASE Insert(c)
        <3>1. about[c] \in Keys \cup {None}
            BY <2>3 DEF Insert, RowInv
        <3> QED
            BY <2>3, <3>1 DEF Insert, Set, TypeOK, Contract!Statuses
    <2>4. CASE Remember(c)
        BY <2>4, Subjects DEF Remember, Pass, TypeOK
    <2>5. CASE Kick(c)
        BY <2>5, WorkersCounted DEF Kick, Pass, TypeOK
    <2>6. CASE CancelQueued(c)
        BY <2>6 DEF CancelQueued, Pass, Set, TypeOK, Contract!Statuses, Contract!Ended
    <2>7. CASE FailRequest(c)
        BY <2>7, JobAssumption DEF FailRequest, Pass, TypeOK
    <2> QED
        BY <1>2, <2>1, <2>2, <2>3, <2>4, <2>5, <2>6, <2>7
<1>3. ASSUME NEW c \in Clients, LogQueued(c) \/ LogCancelled(c) \/ LogRequest(c)
      PROVE  TypeOK'
    <2>1. about[c] \in Jobs
        BY <1>3, Subjects DEF LogQueued, LogCancelled, LogRequest
    <2>2. events' \in [Jobs -> Seq(Events)]
        BY <1>3, <2>1, LogKeepsType
           DEF LogQueued, LogCancelled, LogRequest, Events, Contract!Ended
    <2> QED
        BY <1>3, <2>2 DEF LogQueued, LogCancelled, LogRequest, Pass, TypeOK
<1>4. ASSUME NEW w \in Workers,
             \/ Start(w) \/ Claim(w) \/ Check(w) \/ Execute(w) \/ Mark(w)
             \/ Rescue(w) \/ FailWork(w)
      PROVE  TypeOK'
    <2> USE DEF Goto, Drop, EndAs, Rescuing, Contract!Ended, Contract!Statuses
    <2>1. CASE Start(w)
        BY <2>1 DEF Start, TypeOK
    <2>2. CASE Claim(w)
        <3>1. CASE \A j \in Jobs : status[j] # "queued"
            BY <2>2, <3>1 DEF Claim, TypeOK
        <3>2. CASE \E j \in Jobs : status[j] = "queued"
            <4>1. PICK j \in Jobs :
                    /\ status' = [status EXCEPT ![j] = "running"]
                    /\ at' = [at EXCEPT ![w] = "start"]
                    /\ job' = [job EXCEPT ![w] = j]
                    /\ UNCHANGED result
                BY <2>2, <3>2 DEF Claim, Set
            <4> QED
                BY <2>2, <4>1 DEF Claim, TypeOK
        <3> QED
            BY <3>1, <3>2
    <2>3. CASE Check(w)
        BY <2>3 DEF Check, TypeOK
    <2>4. CASE Execute(w)
        <3>1. job[w] \in Jobs
            BY <2>4, Subjects DEF Execute, Holding
        <3>2. PICK s \in {"mark", "rescue"}, r \in Contract!Ended :
                /\ at' = [at EXCEPT ![w] = s]
                /\ result' = [result EXCEPT ![w] = r]
                /\ UNCHANGED job
            BY <2>4 DEF Execute
        <3>3. asked' \subseteq Jobs
            BY <2>4, <3>1 DEF Execute, TypeOK
        <3> QED
            BY <2>4, <3>2, <3>3 DEF Execute, TypeOK
    <2>5. CASE Mark(w)
        BY <2>5 DEF Mark, Set, TypeOK
    <2>6. CASE Rescue(w)
        BY <2>6 DEF Rescue, Set, TypeOK
    <2>7. CASE FailWork(w)
        <3>1. faults' \in 0 .. MaxFaults
            BY <2>7, JobAssumption DEF FailWork, TypeOK
        <3>2. CASE at[w] \in {"claim", "rescue", "rescued"}
            BY <2>7, <3>1, <3>2 DEF FailWork, TypeOK
        <3>3. CASE at[w] \notin {"claim", "rescue", "rescued"}
            BY <2>7, <3>1, <3>3 DEF FailWork, TypeOK
        <3> QED
            BY <3>2, <3>3
    <2> QED
        BY <1>4, <2>1, <2>2, <2>3, <2>4, <2>5, <2>6, <2>7
<1>5. ASSUME NEW w \in Workers, LogStarted(w) \/ LogResult(w) \/ LogRescued(w)
      PROVE  TypeOK'
    <2>1. job[w] \in Jobs
        BY <1>5, Subjects DEF LogStarted, LogResult, LogRescued, Holding
    <2>2. result[w] \in Events
        BY EndedAreStatuses DEF TypeOK
    <2>3. events' \in [Jobs -> Seq(Events)]
        BY <1>5, <2>1, <2>2, LogKeepsType
           DEF LogStarted, LogResult, LogRescued, Events, Contract!Ended
    <2> QED
        BY <1>5, <2>3
           DEF LogStarted, LogResult, LogRescued, Goto, Drop, TypeOK, Contract!Ended
<1>6. CASE Crash
    BY <1>6, JobAssumption DEF Crash, TypeOK, Contract!Ended
<1>7. CASE Recover
    BY <1>7 DEF Recover, TypeOK, Contract!Statuses, Contract!Ended
<1>8. CASE LogRecovered
    <2>1. PICK j \in recovered : Log(j, "failed") /\ recovered' = recovered \ {j}
        BY <1>8 DEF LogRecovered
    <2>2. events' \in [Jobs -> Seq(Events)]
        BY <2>1, LogKeepsType DEF TypeOK, Events, Contract!Ended
    <2> QED
        BY <1>8, <2>1, <2>2 DEF LogRecovered, TypeOK
<1>9. CASE KickAtStart
    BY <1>9, WorkersCounted DEF KickAtStart, TypeOK
<1> QED
    BY <1>1, <1>2, <1>3, <1>4, <1>5, <1>6, <1>7, <1>8, <1>9
       DEF Next, Serve, Drain, Boot

\* What a worker knows of its job stays true while nobody writes its row.
LEMMA HoldsKept ==
    ASSUME TypeOK, RowInv, NEW w \in Workers,
           at'[w] = at[w], job'[w] = job[w], result'[w] = result[w],
           job[w] \in Jobs => /\ status'[job[w]] = status[job[w]]
                              /\ job[w] \in asked' <=> job[w] \in asked
    PROVE  (at'[w] \in Holding <=> job'[w] # None) /\ Holds(w)'
<1>1. CASE job[w] \in Jobs
    BY <1>1 DEF RowInv, Holds, Holding
<1>2. CASE job[w] = None
    BY <1>2 DEF RowInv, Holds, Holding
<1> QED
    BY <1>1, <1>2 DEF TypeOK

\* A step of worker v that writes no row but that of its job.
LEMMA RowOfWorker ==
    ASSUME TypeOK, RowInv, NEW v \in Workers,
           \A w \in Workers \ {v} :
             at'[w] = at[w] /\ job'[w] = job[w] /\ result'[w] = result[w],
           \A j \in Jobs \ {job[v]} :
             status'[j] = status[j] /\ (j \in asked' <=> j \in asked),
           job'[v] \in {job[v], None},
           (at'[v] \in Holding <=> job'[v] # None) /\ Holds(v)',
           job[v] \in asked' => status'[job[v]] \notin {"none", "queued"},
           job[v] \in recovered => status'[job[v]] = "failed",
           asked' \subseteq Jobs, recovered \subseteq Jobs,
           up = "up", UNCHANGED <<client, about, up, recovered>>
    PROVE  RowInv'
<1>1. ASSUME NEW w \in Workers
      PROVE  (at'[w] \in Holding <=> job'[w] # None) /\ Holds(w)'
    <2>1. CASE w = v
        BY <2>1
    <2>2. CASE w # v
        <3>1. job[w] \in Jobs => job[w] # job[v]
            BY <2>2, JobAssumption DEF RowInv
        <3> QED
            BY <2>2, <3>1, HoldsKept
    <2> QED
        BY <2>1, <2>2
<1>2. \A u, w \in Workers : job'[u] = job'[w] /\ job'[u] # None => u = w
    BY DEF RowInv
<1>3. \A j \in asked' : status'[j] \notin {"none", "queued"}
    BY DEF RowInv
<1>4. \A j \in recovered' : status'[j] = "failed"
    BY DEF RowInv
<1> QED
    BY <1>1, <1>2, <1>3, <1>4 DEF RowInv

\* A step of a request: it writes a row that no worker holds, or none.
LEMMA RowOfRequest ==
    ASSUME TypeOK, RowInv, UNCHANGED <<threads, asked, up, recovered>>,
           \A j \in Jobs :
             status'[j] = status[j] \/ status[j] \in {"none", "queued"},
           up' = "up",
           \A c \in Clients :
             /\ client'[c] \notin {"idle", "insert"} => about'[c] \in Jobs
             /\ client'[c] = "insert" => about'[c] \in Keys \cup {None}
    PROVE  RowInv'
<1>1. ASSUME NEW w \in Workers
      PROVE  (at'[w] \in Holding <=> job'[w] # None) /\ Holds(w)'
    <2>1. CASE job[w] \in Jobs
        <3>1. status[job[w]] \notin {"none", "queued"}
            <4>1. at[w] \in Holding /\ Holds(w)
                BY <2>1, JobAssumption DEF RowInv
            <4>2. result[w] \in Contract!Ended
                BY DEF TypeOK
            <4> QED
                BY <4>1, <4>2 DEF Holds, Holding, Contract!Ended
        <3> QED
            BY <2>1, <3>1, HoldsKept DEF threads
    <2>2. CASE job[w] \notin Jobs
        BY <2>2, HoldsKept DEF threads
    <2> QED
        BY <2>1, <2>2
<1> QED
    BY <1>1 DEF RowInv, TypeOK, threads

LEMMA RowStep ==
    ASSUME TypeOK, RowInv, TypeOK', [Next]_vars
    PROVE  RowInv'
<1> USE DEF rows, threads, requests, process
<1>1. CASE UNCHANGED vars
    BY <1>1 DEF vars, RowInv, Holds
<1>2. ASSUME NEW c \in Clients,
             Create(c) \/ Cancel(c) \/ Serve(c) \/ FailRequest(c)
      PROVE  RowInv'
    <2>1. /\ UNCHANGED <<threads, asked, up, recovered>> /\ up' = "up"
          /\ \A j \in Jobs :
               status'[j] = status[j] \/ status[j] \in {"none", "queued"}
        BY <1>2 DEF Create, Cancel, Serve, FailRequest, Insert, LogQueued,
                    Remember, Kick, CancelQueued, LogCancelled, LogRequest,
                    Set, TypeOK, RowInv
    <2>2. ASSUME NEW d \in Clients
          PROVE  /\ client'[d] \notin {"idle", "insert"} => about'[d] \in Jobs
                 /\ client'[d] = "insert" => about'[d] \in Keys \cup {None}
        <3>1. /\ client[d] \notin {"idle", "insert"} => about[d] \in Jobs
              /\ client[d] = "insert" => about[d] \in Keys \cup {None}
            BY DEF RowInv
        <3>2. CASE Create(c)
            BY <3>1, <3>2 DEF Create, TypeOK
        <3>3. CASE Insert(c)
            BY <3>1, <3>3 DEF Insert, TypeOK
        <3>4. CASE Cancel(c)
            BY <3>1, <3>4 DEF Cancel, TypeOK
        <3>5. ASSUME NEW step \in {"idle", "remember", "kick", "cancelled"},
                     Pass(c, step), step = "idle" \/ client[c] \notin {"idle", "insert"}
              PROVE  /\ client'[d] \notin {"idle", "insert"} => about'[d] \in Jobs
                     /\ client'[d] = "insert" => about'[d] \in Keys \cup {None}
            BY <3>1, <3>5 DEF Pass, TypeOK
        <3>6. CASE LogQueued(c) \/ Remember(c) \/ Kick(c)
            BY <3>5, <3>6 DEF LogQueued, Remember, Kick
        <3>7. CASE CancelQueued(c) \/ LogCancelled(c) \/ LogRequest(c) \/ FailRequest(c)
            BY <3>5, <3>7 DEF CancelQueued, LogCancelled, LogRequest, FailRequest
        <3> QED
            BY <1>2, <3>2, <3>3, <3>4, <3>6, <3>7 DEF Serve
    <2> QED
        BY <2>1, <2>2, RowOfRequest

<1>3. ASSUME NEW v \in Workers, Drain(v) \/ FailWork(v)
      PROVE  RowInv'
    <2>0. /\ asked \subseteq Jobs /\ recovered \subseteq Jobs /\ asked' \subseteq Jobs
          /\ at \in [Workers -> {"idle", "claim"} \cup Holding]
          /\ job \in [Workers -> Jobs \cup {None}]
          /\ result \in [Workers -> Contract!Ended]
          /\ status \in [Jobs -> Contract!Statuses]
        BY DEF TypeOK, Holding
    <2>1. up = "up" /\ UNCHANGED <<client, about, up, recovered>>
        BY <1>3 DEF Drain, Start, Claim, LogStarted, Check, Execute, Mark,
                    LogResult, Rescue, LogRescued, FailWork, RowInv
    <2>2. CASE Claim(v)
        <3>1. CASE \A j \in Jobs : status[j] # "queued"
            <4>1. /\ UNCHANGED <<status, asked, job, result>>
                  /\ at' = [at EXCEPT ![v] = "idle"]
                BY <2>2, <3>1 DEF Claim, Goto
            <4> QED
                BY <2>0, <2>1, <2>2, <4>1, RowOfWorker
                   DEF Claim, RowInv, Holds, Holding
        <3>2. CASE \E j \in Jobs : status[j] = "queued"
            <4>1. PICK j \in Jobs :
                    /\ status[j] = "queued"
                    /\ status' = [status EXCEPT ![j] = "running"]
                    /\ at' = [at EXCEPT ![v] = "start"]
                    /\ job' = [job EXCEPT ![v] = j]
                    /\ UNCHANGED <<result, asked>>
                BY <2>2, <3>2 DEF Claim, Set
            <4>2. j \notin asked /\ j \notin recovered
                BY <4>1 DEF RowInv
            <4>3. \A w \in Workers : job[w] # j
                BY <2>0, <4>1, JobAssumption
                   DEF RowInv, Holds, Holding, Contract!Ended
            <4>4. ASSUME NEW w \in Workers
                  PROVE  (at'[w] \in Holding <=> job'[w] # None) /\ Holds(w)'
                <5>1. CASE w = v
                    BY <2>0, <4>1, <4>2, <5>1, JobAssumption DEF Holds, Holding
                <5>2. CASE w # v
                    BY <2>0, <4>1, <4>3, <5>2, HoldsKept
                <5> QED
                    BY <5>1, <5>2
            <4> QED
                BY <2>0, <2>1, <4>1, <4>2, <4>3, <4>4 DEF RowInv
        <3> QED
            BY <3>1, <3>2
    <2>3. CASE ~ Claim(v)
        <3> USE DEF Goto, Drop, EndAs, Rescuing
        <3>1. /\ \A w \in Workers \ {v} :
                   at'[w] = at[w] /\ job'[w] = job[w] /\ result'[w] = result[w]
              /\ job'[v] \in {job[v], None}
            BY <1>3, <2>0, <2>3
               DEF Drain, Start, LogStarted, Check, Execute, Mark, LogResult,
                   Rescue, LogRescued, FailWork
        <3>2. \A j \in Jobs \ {job[v]} :
                status'[j] = status[j] /\ (j \in asked' <=> j \in asked)
            BY <1>3, <2>0, <2>3
               DEF Drain, Start, LogStarted, Check, Execute, Mark, LogResult,
                   Rescue, LogRescued, FailWork, Set
        <3>3. /\ (at'[v] \in Holding <=> job'[v] # None) /\ Holds(v)'
              /\ job[v] \in asked' => status'[job[v]] \notin {"none", "queued"}
              /\ job[v] \in recovered => status'[job[v]] = "failed"
            <4> USE <2>0, JobAssumption DEF Holds, Holding, Contract!Ended
            <4>1. /\ (at[v] \in Holding <=> job[v] # None) /\ Holds(v)
                  /\ job[v] \in asked => status[job[v]] \notin {"none", "queued"}
                  /\ job[v] \in recovered => status[job[v]] = "failed"
                BY DEF RowInv
            <4>2. CASE Start(v)
                BY <4>1, <4>2 DEF Start
            <4>3. CASE LogStarted(v)
                BY <4>1, <4>3 DEF LogStarted
            <4>4. CASE Check(v)
                BY <4>1, <4>4 DEF Check
            <4>5. CASE Execute(v)
                BY <4>1, <4>5 DEF Execute
            <4>6. CASE Mark(v)
                BY <4>1, <4>6 DEF Mark, Set
            <4>7. CASE LogResult(v)
                BY <4>1, <4>7 DEF LogResult
            <4>8. CASE Rescue(v)
                BY <4>1, <4>8 DEF Rescue, Set
            <4>9. CASE LogRescued(v)
                BY <4>1, <4>9 DEF LogRescued
            <4>10. CASE FailWork(v)
                BY <4>1, <4>10 DEF FailWork
            <4> QED
                BY <1>3, <2>3, <4>2, <4>3, <4>4, <4>5, <4>6, <4>7, <4>8, <4>9, <4>10
                   DEF Drain
        <3> HIDE DEF Goto, Drop, EndAs, Rescuing
        <3> QED
            BY <2>0, <2>1, <3>1, <3>2, <3>3, RowOfWorker
    <2> QED
        BY <2>2, <2>3
<1>4. CASE Crash
    BY <1>4 DEF Crash, RowInv, Holds, Holding, TypeOK
<1>5. CASE Recover
    BY <1>5 DEF Recover, RowInv, Holds, Holding, TypeOK
<1>6. CASE LogRecovered
    <2>1. recovered' \subseteq recovered
        BY <1>6 DEF LogRecovered
    <2>2. UNCHANGED <<status, asked, tasks, threads, requests, up>>
        BY <1>6 DEF LogRecovered
    <2> QED
        BY <2>1, <2>2 DEF RowInv, Holds
<1>7. CASE KickAtStart
    BY <1>7 DEF KickAtStart, RowInv, Holds
<1> QED
    BY <1>1, <1>2, <1>3, <1>4, <1>5, <1>6, <1>7 DEF Next, Boot


-----------------------------------------------------------------------------
(* The events.                                                             *)

\* A step that writes no event: it writes the row of a job that is waiting,
\* interrupted, or in the hands of a worker.
LEMMA QuietStep ==
    ASSUME TypeOK, EventInv, UNCHANGED events, asked' \subseteq Jobs,
           \A j \in Jobs :
             \/ status'[j] = status[j]
             \/ status[j] \in {"none", "queued"}
             \/ /\ status[j] = "running" \/ \E w \in Workers : job[w] = j
                /\ status'[j] \notin {"none", "queued"},
           \A w \in Workers : \/ job'[w] \in {job[w], None}
                              \/ job'[w] \in Jobs /\ status[job'[w]] = "queued",
           \A w \in Workers : at'[w] = "start" =>
             \/ at[w] = "start" /\ job'[w] = job[w]
             \/ job'[w] \in Jobs /\ status[job'[w]] = "queued",
           \A w \in Workers : at'[w] = "execute" =>
             \/ at[w] = "execute" /\ job'[w] = job[w]
             \/ Honoured(job'[w]),
           \A j \in asked' \ asked : Honoured(j)
    PROVE  EventInv'
<1>1. /\ \A j \in Jobs : Logged(j)' = Logged(j)
      /\ \A w \in Workers : Honoured(job'[w]) => Honoured(job[w])'
      /\ \A j \in Jobs : Honoured(j) => Honoured(j)'
    BY DEF Logged, Honoured
<1>2. ASSUME NEW j \in Jobs, NEW e \in {"succeeded", "failed"}, e \in Logged(j)'
      PROVE  status'[j] = e /\ \A w \in Workers : job'[w] # j
    <2>1. status[j] = e /\ \A w \in Workers : job[w] # j
        BY <1>1, <1>2 DEF EventInv
    <2> QED
        BY <2>1, JobAssumption
<1>3. ASSUME NEW j \in Jobs, "started" \in Logged(j)'
      PROVE  /\ status'[j] \notin {"none", "queued"}
             /\ \A w \in Workers : at'[w] = "start" => job'[w] # j
    <2>1. /\ status[j] \notin {"none", "queued"}
          /\ \A w \in Workers : at[w] = "start" => job[w] # j
        BY <1>1, <1>3 DEF EventInv
    <2> QED
        BY <2>1
<1>4. \A w \in Workers : at'[w] = "execute" => Honoured(job[w])'
    BY <1>1 DEF EventInv
<1>5. \A j \in asked' : Honoured(j)'
    BY <1>1 DEF EventInv
<1> QED
    BY <1>2, <1>3, <1>4, <1>5 DEF EventInv

\* A step that writes an event.
LEMMA LoggingStep ==
    ASSUME TypeOK, RowInv, EventInv, NEW j \in Jobs, NEW e \in Events, Log(j, e),
           UNCHANGED <<status, asked>>,
           \A w \in Workers : job'[w] \in {job[w], None},
           \A w \in Workers : at'[w] \in {"start", "execute"} =>
             at'[w] = at[w] /\ job'[w] = job[w],
           e \in {"succeeded", "failed"} =>
             status[j] = e /\ \A w \in Workers : job'[w] # j,
           e = "started" =>
             /\ status[j] \notin {"none", "queued"} /\ j \notin asked
             /\ \A w \in Workers : at'[w] \in {"start", "execute"} => job'[w] # j
    PROVE  EventInv'
<1>1. /\ Logged(j)' = Logged(j) \cup {e}
      /\ \A i \in Jobs \ {j} : Logged(i)' = Logged(i)
    BY LogAdds
<1>2. ASSUME NEW i \in Jobs, Honoured(i), i # j \/ e # "started"
      PROVE  Honoured(i)'
    BY <1>2, LogHonours
<1>3. ASSUME NEW i \in Jobs, NEW f \in {"succeeded", "failed"}, f \in Logged(i)'
      PROVE  status'[i] = f /\ \A w \in Workers : job'[w] # i
    <2>1. CASE f \in Logged(i)
        BY <2>1, JobAssumption DEF EventInv
    <2>2. CASE f \notin Logged(i)
        BY <1>1, <1>3, <2>2
    <2> QED
        BY <2>1, <2>2
<1>4. ASSUME NEW i \in Jobs, "started" \in Logged(i)'
      PROVE  /\ status'[i] \notin {"none", "queued"}
             /\ \A w \in Workers : at'[w] = "start" => job'[w] # i
    <2>1. CASE "started" \in Logged(i)
        BY <2>1 DEF EventInv
    <2>2. CASE "started" \notin Logged(i)
        BY <1>1, <1>4, <2>2
    <2> QED
        BY <2>1, <2>2
<1>5. ASSUME NEW w \in Workers, at'[w] = "execute"
      PROVE  Honoured(job[w])'
    <2>1. at[w] = "execute" /\ job'[w] = job[w]
        BY <1>5
    <2>2. job[w] \in Jobs /\ Honoured(job[w])
        BY <2>1, Subjects DEF EventInv, Holding
    <2>3. job[w] # j \/ e # "started"
        BY <1>5, <2>1
    <2>4. PICK i \in Jobs : i = job[w]
        BY <2>2
    <2> QED
        BY <1>2, <2>1, <2>2, <2>3, <2>4 DEF Honoured
<1>6. \A i \in asked' : Honoured(i)'
    BY <1>2 DEF EventInv, TypeOK
<1> QED
    BY <1>3, <1>4, <1>5, <1>6 DEF EventInv

LEMMA EventStep ==
    ASSUME TypeOK, RowInv, EventInv, TypeOK', [Next]_vars
    PROVE  EventInv'
<1> USE DEF rows, threads, requests, process
<1>0. /\ asked \subseteq Jobs /\ asked' \subseteq Jobs
      /\ at \in [Workers -> {"idle", "claim"} \cup Holding]
      /\ job \in [Workers -> Jobs \cup {None}]
      /\ status \in [Jobs -> Contract!Statuses]
      /\ result \in [Workers -> Contract!Ended]
    BY DEF TypeOK, Holding
<1>1. CASE UNCHANGED vars
    BY <1>0, <1>1, QuietStep DEF vars
<1>2. ASSUME NEW c \in Clients,
             \/ Create(c) \/ Cancel(c) \/ Insert(c) \/ Remember(c) \/ Kick(c)
             \/ CancelQueued(c) \/ FailRequest(c)
      PROVE  EventInv'
    <2>1. /\ UNCHANGED <<events, asked, at, job>>
          /\ \A j \in Jobs :
               status'[j] = status[j] \/ status[j] \in {"none", "queued"}
        BY <1>2, <1>0 DEF Create, Cancel, FailRequest, Insert, Remember, Kick,
                    CancelQueued, Set
    <2> QED
        BY <1>0, <2>1, QuietStep
<1>3. ASSUME NEW c \in Clients, LogQueued(c) \/ LogCancelled(c) \/ LogRequest(c)
      PROVE  EventInv'
    <2>1. about[c] \in Jobs
        BY <1>3, Subjects DEF LogQueued, LogCancelled, LogRequest
    <2>2. PICK e \in {"queued", "cancelled", "cancel_requested"} : Log(about[c], e)
        BY <1>3 DEF LogQueued, LogCancelled, LogRequest
    <2>3. e \in Events
        BY DEF Events, Contract!Ended
    <2>4. UNCHANGED <<status, asked, at, job>>
        BY <1>3 DEF LogQueued, LogCancelled, LogRequest
    <2> QED
        BY <2>1, <2>2, <2>3, <2>4, LoggingStep
<1>4. ASSUME NEW v \in Workers,
             \/ Start(v) \/ Claim(v) \/ Check(v) \/ Execute(v) \/ Mark(v)
             \/ Rescue(v) \/ FailWork(v)
      PROVE  EventInv'
    <2> USE DEF Goto, Drop, EndAs, Rescuing
    <2>1. CASE Start(v)
        BY <1>0, <2>1, QuietStep DEF Start
    <2>2. CASE Claim(v)
        <3>1. CASE \A j \in Jobs : status[j] # "queued"
            BY <1>0, <2>2, <3>1, QuietStep DEF Claim
        <3>2. CASE \E j \in Jobs : status[j] = "queued"
            <4>1. PICK j \in Jobs :
                    /\ status[j] = "queued"
                    /\ status' = [status EXCEPT ![j] = "running"]
                    /\ at' = [at EXCEPT ![v] = "start"]
                    /\ job' = [job EXCEPT ![v] = j]
                    /\ UNCHANGED <<events, asked>>
                BY <2>2, <3>2 DEF Claim, Set
            <4> QED
                BY <1>0, <4>1, QuietStep
        <3> QED
            BY <3>1, <3>2
    <2>3. CASE Check(v)
        <3>1. CASE "cancel_requested" \in Logged(job[v])
            BY <1>0, <2>3, <3>1, QuietStep DEF Check
        <3>2. CASE "cancel_requested" \notin Logged(job[v])
            <4>1. Honoured(job[v])
                BY <3>2 DEF Honoured, Logged
            <4> QED
                BY <1>0, <2>3, <3>2, <4>1, QuietStep DEF Check
        <3> QED
            BY <3>1, <3>2
    <2>4. CASE Execute(v)
        <3>1. Honoured(job[v])
            BY <2>4 DEF Execute, EventInv
        <3> QED
            BY <1>0, <2>4, <3>1, QuietStep DEF Execute
    <2>5. CASE Mark(v)
        BY <1>0, <2>5, QuietStep DEF Mark, Set, Contract!Ended
    <2>6. CASE Rescue(v)
        BY <1>0, <2>6, QuietStep DEF Rescue, Set
    <2>7. CASE FailWork(v)
        BY <1>0, <2>7, QuietStep DEF FailWork
    <2> QED
        BY <1>4, <2>1, <2>2, <2>3, <2>4, <2>5, <2>6, <2>7
<1>5. ASSUME NEW v \in Workers, LogStarted(v) \/ LogResult(v) \/ LogRescued(v)
      PROVE  EventInv'
    <2> USE DEF Goto, Drop
    <2>1. /\ job[v] \in Jobs /\ Holds(v)
          /\ \A w \in Workers \ {v} : job[w] # job[v]
          /\ UNCHANGED <<status, asked>>
        BY <1>5, <1>0, Subjects, JobAssumption
           DEF LogStarted, LogResult, LogRescued, RowInv, Holding
    <2>2. CASE LogStarted(v)
        <3>1. "started" \in Events
            BY DEF Events
        <3> QED
            BY <1>0, <2>1, <2>2, <3>1, LoggingStep DEF LogStarted, Holds
    <2>3. CASE LogResult(v) \/ LogRescued(v)
        <3>1. PICK e \in Contract!Ended :
                Log(job[v], e) /\ status[job[v]] = e
            BY <1>0, <2>1, <2>3 DEF LogResult, LogRescued, Holds, Contract!Ended
        <3>2. e \in Events /\ e # "started"
            BY DEF Events, Contract!Ended
        <3>3. /\ at' = [at EXCEPT ![v] = "claim"]
              /\ job' = [job EXCEPT ![v] = None]
            BY <2>3 DEF LogResult, LogRescued
        <3> QED
            BY <1>0, <2>1, <3>1, <3>2, <3>3, JobAssumption, LoggingStep
    <2> QED
        BY <1>5, <2>2, <2>3
<1>6. CASE Crash
    BY <1>0, <1>6, QuietStep DEF Crash
<1>7. CASE Recover
    BY <1>0, <1>7, QuietStep DEF Recover
<1>8. CASE LogRecovered
    <2>1. PICK j \in recovered : Log(j, "failed")
        BY <1>8 DEF LogRecovered
    <2>2. /\ j \in Jobs /\ status[j] = "failed"
          /\ \A w \in Workers : job[w] # j
          /\ UNCHANGED <<status, asked, at, job>>
        <3>1. j \in Jobs /\ status[j] = "failed"
            BY DEF RowInv, TypeOK
        <3>2. \A w \in Workers : job[w] = None
            BY <1>8 DEF LogRecovered, RowInv, Holding
        <3>3. UNCHANGED <<status, asked, at, job>>
            BY <1>8 DEF LogRecovered
        <3> QED
            BY <3>1, <3>2, <3>3, JobAssumption
    <2>3. "failed" \in Events
        BY DEF Events, Contract!Ended
    <2> QED
        BY <2>1, <2>2, <2>3, LoggingStep
<1>9. CASE KickAtStart
    BY <1>0, <1>9, QuietStep DEF KickAtStart
<1> QED
    BY <1>1, <1>2, <1>3, <1>4, <1>5, <1>6, <1>7, <1>8, <1>9
       DEF Next, Serve, Drain, Boot

-----------------------------------------------------------------------------
\* Every reachable state satisfies the inductive invariant of release jobs.
THEOREM Inductive == Spec => []IInv
<1>1. Init => IInv
    BY JobAssumption
       DEF Init, IInv, TypeOK, RowInv, EventInv, Holds, Holding, Logged,
           Honoured, Contract!Statuses, Contract!Ended
<1>2. IInv /\ [Next]_vars => IInv'
    BY TypeStep, RowStep, EventStep DEF IInv
<1> QED
    BY <1>1, <1>2, PTL DEF Spec

\* A request to cancel that precedes the start of a job keeps its order from
\* being asked for.
THEOREM Honest == Spec => []CancelRequestsAreHonoured
<1>1. IInv => CancelRequestsAreHonoured
    BY DEF IInv, EventInv, CancelRequestsAreHonoured
<1> QED
    BY <1>1, Inductive, PTL

\* A ledger that says how a job ended by itself says what its row says.
THEOREM Agreement == Spec => []EventsFollowRows
<1>1. IInv => EventsFollowRows
    BY DEF IInv, EventInv, EventsFollowRows
<1> QED
    BY <1>1, Inductive, PTL


-----------------------------------------------------------------------------
(* The contract.                                                           *)

\* One job turns failed.
LEMMA OneFails ==
    ASSUME TypeOK, NEW j \in Jobs, status[j] \in {"running", "succeeded", "cancelled"},
           status' = [status EXCEPT ![j] = "failed"], UNCHANGED asked
    PROVE  Contract!Next
<1>1. Contract!Fail({j})
    BY DEF Contract!Fail, TypeOK
<1> QED
    BY <1>1 DEF Contract!Next

\* A step of a worker is a step of its job, or none.
LEMMA WorkerImplements ==
    ASSUME TypeOK, RowInv, NEW w \in Workers, Drain(w) \/ FailWork(w)
    PROVE  Contract!Next \/ UNCHANGED <<status, asked>>
<1> USE DEF rows, threads, requests, process
<1>1. at[w] \in Holding => job[w] \in Jobs /\ Holds(w)
    BY Subjects DEF RowInv
<1>2. CASE Claim(w)
    BY <1>2 DEF Claim, Set, Contract!Next, Contract!Begin, Contract!Turn
<1>3. CASE Execute(w)
    BY <1>1, <1>3 DEF Execute, Holds, Holding, Contract!Next, Contract!Ask
<1>4. CASE Mark(w)
    <2>1. /\ job[w] \in Jobs /\ status[job[w]] = "running"
          /\ status' = [status EXCEPT ![job[w]] = result[w]] /\ UNCHANGED asked
          /\ result[w] = "cancelled" => job[w] \notin asked
          /\ result[w] = "succeeded" => job[w] \in asked
        BY <1>1, <1>4 DEF Mark, Set, Holds, Holding
    <2>2. CASE result[w] = "succeeded"
        BY <2>1, <2>2 DEF Contract!Next, Contract!Succeed, Contract!Turn
    <2>3. CASE result[w] = "cancelled"
        BY <2>1, <2>3 DEF Contract!Next, Contract!Stop, Contract!Turn
    <2>4. CASE result[w] = "failed"
        BY <2>1, <2>4, OneFails
    <2> QED
        BY <2>2, <2>3, <2>4 DEF TypeOK, Contract!Ended
<1>5. CASE Rescue(w)
    <2>1. /\ job[w] \in Jobs /\ status[job[w]] \in {"running"} \cup Contract!Ended
          /\ status' = [status EXCEPT ![job[w]] = "failed"] /\ UNCHANGED asked
        BY <1>1, <1>5 DEF Rescue, Set, Holds, Holding
    <2>2. CASE status[job[w]] = "failed"
        BY <2>1, <2>2 DEF TypeOK
    <2>3. CASE status[job[w]] # "failed"
        BY <2>1, <2>3, OneFails DEF Contract!Ended
    <2> QED
        BY <2>2, <2>3
<1>6. CASE \/ Start(w) \/ LogStarted(w) \/ Check(w) \/ LogResult(w)
           \/ LogRescued(w) \/ FailWork(w)
    BY <1>6 DEF Start, LogStarted, Check, LogResult, LogRescued, FailWork
<1> QED
    BY <1>2, <1>3, <1>4, <1>5, <1>6 DEF Drain

\* Whatever crashes, races and raises, a job keeps its contract: its order is
\* asked for once, not after it ended, and it never comes back.
THEOREM Implements == Spec => ContractSpec
<1> USE DEF rows, threads, requests, process
<1>1. Init => Contract!Init
    BY DEF Init, Contract!Init
<1>2. IInv /\ [Next]_vars => [Contract!Next]_<<status, asked>>
    <2> SUFFICES ASSUME IInv, [Next]_vars
                 PROVE  Contract!Next \/ UNCHANGED <<status, asked>>
        OBVIOUS
    <2>1. CASE UNCHANGED vars
        BY <2>1 DEF vars
    <2>2. ASSUME NEW c \in Clients, Insert(c)
          PROVE  Contract!Next
        BY <2>2 DEF Insert, Set, Contract!Next, Contract!Submit, Contract!Turn
    <2>3. ASSUME NEW c \in Clients, CancelQueued(c)
          PROVE  Contract!Next \/ UNCHANGED <<status, asked>>
        <3>1. about[c] \in Jobs
            BY <2>3, Subjects DEF IInv, CancelQueued
        <3> QED
            BY <2>3, <3>1
               DEF CancelQueued, Set, Contract!Next, Contract!Withdraw, Contract!Turn
    <2>4. ASSUME NEW c \in Clients,
                 \/ Create(c) \/ LogQueued(c) \/ Remember(c) \/ Kick(c) \/ Cancel(c)
                 \/ LogCancelled(c) \/ LogRequest(c) \/ FailRequest(c)
          PROVE  UNCHANGED <<status, asked>>
        BY <2>4 DEF Create, LogQueued, Remember, Kick, Cancel, LogCancelled,
                    LogRequest, FailRequest
    <2>5. ASSUME NEW w \in Workers, Drain(w) \/ FailWork(w)
          PROVE  Contract!Next \/ UNCHANGED <<status, asked>>
        BY <2>5, WorkerImplements DEF IInv
    <2>6. CASE Recover
        <3>1. Contract!Fail({j \in Jobs : status[j] = "running"})
            BY <2>6 DEF Recover, Contract!Fail
        <3>2. {j \in Jobs : status[j] = "running"} \in SUBSET Jobs
            OBVIOUS
        <3> QED
            BY <3>1, <3>2 DEF Contract!Next
    <2>7. CASE Crash \/ LogRecovered \/ KickAtStart
        BY <2>7 DEF Crash, LogRecovered, KickAtStart
    <2> QED
        BY <2>1, <2>2, <2>3, <2>4, <2>5, <2>6, <2>7 DEF Next, Serve, Boot
<1> QED
    BY <1>1, <1>2, Inductive, PTL DEF Spec, ContractSpec, Contract!Spec

=============================================================================
