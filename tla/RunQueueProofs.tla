--------------------------- MODULE RunQueueProofs ---------------------------
(***************************************************************************)
(* For any number of runs, workers, requests and crashes: a running row    *)
(* has one worker, and a verdict has its receipt.                          *)
(***************************************************************************)
EXTENDS RunQueue, FiniteSetTheorems, TLAPS

LEMMA WorkersCounted == Cardinality(Workers) \in Nat
BY FS_CardinalityType, WorkerAssumption

\* No action of the queue, the process or the clean-up breaks the invariant.
LEMMA Step ==
    ASSUME IInv, [Next]_vars
    PROVE  IInv'
<1> USE DEF IInv, TypeOK, VerdictIsBacked, Verdicts, RowStates
<1>1. CASE UNCHANGED vars
    BY <1>1 DEF vars
<1>2. ASSUME NEW c \in Clients, Request(c) PROVE IInv'
    BY <1>2 DEF Request
<1>3. ASSUME NEW c \in Clients, Insert(c) PROVE IInv'
    BY <1>3 DEF Insert
<1>4. ASSUME NEW c \in Clients, Kick(c) PROVE IInv'
    BY <1>4, WorkersCounted DEF Kick
<1>5. ASSUME NEW w \in Workers, Start(w) PROVE IInv'
    BY <1>5 DEF Start
<1>6. ASSUME NEW w \in Workers, Claim(w) PROVE IInv'
    <2>1. CASE at' = [at EXCEPT ![w] = "idle"] /\ UNCHANGED <<run, job>>
        BY <1>6, <2>1 DEF Claim
    <2>2. CASE \E r \in Runs : /\ run[r] = "queued"
                               /\ run' = [run EXCEPT ![r] = "running"]
                               /\ job' = [job EXCEPT ![w] = r]
                               /\ at' = [at EXCEPT ![w] = "execute"]
        <3>1. PICK r \in Runs : /\ run[r] = "queued"
                                /\ run' = [run EXCEPT ![r] = "running"]
                                /\ job' = [job EXCEPT ![w] = r]
                                /\ at' = [at EXCEPT ![w] = "execute"]
            BY <2>2
        <3>2. job[w] = None /\ \A v \in Workers : job[v] # r
            <4>1. at[w] = "claim"
                BY <1>6 DEF Claim
            <4>2. r # None
                BY WorkerAssumption
            <4> QED
                BY <3>1, <4>1, <4>2
        <3>3. UNCHANGED <<outcome, issued, tasks, client, up, crashes>>
            BY <1>6 DEF Claim
        <3>4. TypeOK'
            BY <3>1, <3>3
        <3>5. /\ \A u, v \in Workers : job'[u] = job'[v] /\ job'[u] # None => u = v
              /\ \A v \in Workers :
                   /\ at'[v] \in {"execute"} \cup Verdicts <=> job'[v] # None
                   /\ job'[v] # None => run'[job'[v]] = "running"
                   /\ at'[v] \in {"pass", "amber", "fail"} =>
                        at'[v] = outcome'[job'[v]] /\ job'[v] \in issued'
            BY <3>1, <3>2, <3>3, WorkerAssumption
        <3>6. up # "down"
            BY <1>6 DEF Claim
        <3>7. ASSUME NEW q \in Runs, run'[q] = "running"
              PROVE  \E v \in Workers : job'[v] = q
            <4>1. CASE q = r
                BY <3>1, <4>1
            <4>2. CASE q # r
                <5>1. PICK v \in Workers : job[v] = q
                    BY <3>1, <3>6, <3>7, <4>2
                <5>2. v # w
                    BY <3>2, <5>1, WorkerAssumption
                <5> QED
                    BY <3>1, <5>1, <5>2
            <4> QED
                BY <4>1, <4>2
        <3>8. VerdictIsBacked'
            BY <3>1, <3>3
        <3> QED
            BY <3>3, <3>4, <3>5, <3>6, <3>7, <3>8
    <2> QED
        BY <1>6, <2>1, <2>2 DEF Claim
<1>7. ASSUME NEW w \in Workers, Execute(w) PROVE IInv'
    BY <1>7 DEF Execute
<1>8. ASSUME NEW w \in Workers, Mark(w) PROVE IInv'
    BY <1>8, WorkerAssumption DEF Mark
<1>9. CASE Crash
    BY <1>9, WorkerAssumption DEF Crash
<1>10. CASE Requeue
    BY <1>10 DEF Requeue
<1>11. CASE KickAtStart
    BY <1>11, WorkersCounted DEF KickAtStart
<1>12. ASSUME NEW r \in Runs, Prune(r) PROVE IInv'
    BY <1>12 DEF Prune
<1> QED
    BY <1>1, <1>2, <1>3, <1>4, <1>5, <1>6, <1>7, <1>8, <1>9, <1>10, <1>11,
       <1>12 DEF Next, Serve, Drain, Boot

\* The invariant that ties rows, workers and receipts together.
THEOREM Inductive == Spec => []IInv
<1>1. Init => IInv
    <2> SUFFICES ASSUME Init PROVE IInv
        OBVIOUS
    <2>1. TypeOK
        <3>1. outcome \in [Runs -> Verdicts]
            BY OutcomeAssumption DEF Init
        <3>2. crashes \in 0 .. MaxCrashes
            BY WorkerAssumption DEF Init
        <3> QED
            BY <3>1, <3>2 DEF Init, TypeOK, RowStates
    <2>2. /\ \A w \in Workers : at[w] = "idle" /\ job[w] = None
          /\ \A r \in Runs : run[r] = "none"
          /\ up = "up"
        BY DEF Init
    <2> QED
        BY <2>1, <2>2 DEF IInv, VerdictIsBacked, Verdicts
<1>2. IInv /\ [Next]_vars => IInv'
    BY Step
<1> QED
    BY <1>1, <1>2, PTL DEF Spec

\* At any time a run is executed by at most one worker, and while the service
\* is up a running row has one.
THEOREM RunsAreOwned == Spec => []RunningIsOwned
<1>1. ASSUME IInv PROVE RunningIsOwned
    <2>1. ASSUME NEW r \in Runs, NEW w \in Workers, job[w] = r
          PROVE  run[r] = "running"
        BY <1>1, <2>1, WorkerAssumption DEF IInv
    <2> QED
        BY <1>1, <2>1 DEF IInv, RunningIsOwned
<1> QED
    BY <1>1, Inductive, PTL

\* A pass, amber or fail in a row is what the engine found and has its receipt.
THEOREM VerdictsAreBacked == Spec => []VerdictIsBacked
<1>1. IInv => VerdictIsBacked
    BY DEF IInv
<1> QED
    BY <1>1, Inductive, PTL

\* Finished runs stay finished: only the clean-up touches them again.
THEOREM VerdictsAreFinal == Spec => VerdictIsFinal
<1>1. ASSUME IInv, [Next]_vars, NEW r \in Runs, run[r] \in Verdicts
      PROVE  run'[r] \in {run[r], "pruned"}
  <2> USE DEF Verdicts
  <2>1. ASSUME NEW c \in Clients, Serve(c) PROVE run'[r] = run[r]
    BY <1>1, <2>1 DEF Serve, Request, Insert, Kick, IInv, TypeOK
  <2>2. ASSUME NEW w \in Workers, Drain(w) PROVE run'[r] = run[r]
    <3>1. CASE Mark(w)
        <4>1. run[job[w]] = "running"
            BY <1>1, <3>1 DEF Mark, IInv
        <4>2. run \in [Runs -> RowStates] /\ run[r] # "running"
            BY <1>1 DEF IInv, TypeOK
        <4>3. run' = [run EXCEPT ![job[w]] = at[w]]
            BY <3>1 DEF Mark
        <4> QED
            BY <4>1, <4>2, <4>3
    <3>2. CASE Claim(w)
        <4>1. \/ run' = run
              \/ \E q \in Runs : run[q] = "queued"
                                  /\ run' = [run EXCEPT ![q] = "running"]
            BY <3>2 DEF Claim
        <4>2. run \in [Runs -> RowStates] /\ run[r] # "queued"
            BY <1>1 DEF IInv, TypeOK
        <4> QED
            BY <4>1, <4>2
    <3> QED
        BY <2>2, <3>1, <3>2 DEF Drain, Start, Execute
  <2>3. ASSUME Boot \/ Crash PROVE run'[r] = run[r]
    BY <1>1, <2>3 DEF Boot, Requeue, KickAtStart, Crash, IInv, TypeOK
  <2>4. ASSUME NEW q \in Runs, Prune(q) PROVE run'[r] \in {run[r], "pruned"}
    BY <2>4 DEF Prune, IInv, TypeOK
  <2>5. CASE UNCHANGED vars
    BY <2>5 DEF vars
  <2> QED
    BY <1>1, <2>1, <2>2, <2>3, <2>4, <2>5 DEF Next
<1>2. IInv /\ [Next]_vars
        => [\A r \in Runs : run[r] \in Verdicts => run'[r] \in {run[r], "pruned"}]_vars
    BY <1>1
<1> QED
    BY <1>2, Inductive, PTL DEF Spec, VerdictIsFinal


-----------------------------------------------------------------------------
(* The quota.                                                              *)

\* Requests that have counted and not inserted yet.
Inserting == {c \in Clients : client[c] = "insert"}

\* A request that counts finds room for one more; what others have counted
\* before it is at most one run each.
QuotaInv ==
    /\ IsFiniteSet(Active)
    /\ Cardinality(Active) + Cardinality(Inserting)
         < MaxActive + Cardinality(Clients)

LEMMA InsertingCounted ==
    /\ IsFiniteSet(Inserting) /\ Cardinality(Inserting) \in Nat
    /\ Cardinality(Inserting) <= Cardinality(Clients)
    /\ Cardinality(Clients) \in Nat
BY FS_Subset, FS_CardinalityType, QuotaAssumption DEF Inserting

\* Whatever activates nothing and counts nothing.
LEMMA QuotaKept ==
    ASSUME QuotaInv, Active' \subseteq Active, Inserting' \subseteq Inserting
    PROVE  QuotaInv'
<1>1. /\ IsFiniteSet(Active')
      /\ Cardinality(Active') <= Cardinality(Active)
  BY FS_Subset DEF QuotaInv
<1>2. Cardinality(Inserting') <= Cardinality(Inserting)
  BY FS_Subset, InsertingCounted
<1>3. /\ Cardinality(Active) \in Nat /\ Cardinality(Active') \in Nat
      /\ Cardinality(Inserting) \in Nat /\ Cardinality(Inserting') \in Nat
  BY <1>1, FS_CardinalityType, FS_Subset, InsertingCounted DEF QuotaInv
<1> QED
  BY <1>1, <1>2, <1>3, InsertingCounted, QuotaAssumption DEF QuotaInv

LEMMA QuotaRequest ==
    ASSUME IInv, QuotaInv, NEW c \in Clients, Request(c) PROVE QuotaInv'
<1>1. Active' = Active BY DEF Request, Active
<1>2. Inserting' \subseteq Clients BY DEF Inserting
<1>3. IsFiniteSet(Inserting') /\ Cardinality(Inserting') \in Nat
  BY <1>2, FS_Subset, FS_CardinalityType, QuotaAssumption
<1>4. Cardinality(Inserting') <= Cardinality(Clients)
  BY <1>2, FS_Subset, QuotaAssumption
<1>5. Cardinality(Active) \in Nat BY FS_CardinalityType DEF QuotaInv
<1>6. Cardinality(Active) < MaxActive BY DEF Request
<1> QED
  BY <1>1, <1>3, <1>4, <1>5, <1>6, InsertingCounted, QuotaAssumption
  DEF QuotaInv

\* The insert spends what its request had counted.
LEMMA QuotaInsert ==
    ASSUME IInv, QuotaInv, NEW c \in Clients, Insert(c) PROVE QuotaInv'
<1>1. PICK r \in Runs : run[r] = "none" /\ run' = [run EXCEPT ![r] = "queued"]
  BY DEF Insert
<1>2. Active' = Active \cup {r} /\ r \notin Active
  BY <1>1 DEF Active, IInv, TypeOK
<1>3. client[c] = "insert" /\ client' = [client EXCEPT ![c] = "kick"]
  BY DEF Insert
<1>4. Inserting' = Inserting \ {c} /\ c \in Inserting
  BY <1>3 DEF Inserting, IInv, TypeOK
<1>5. /\ IsFiniteSet(Active')
      /\ Cardinality(Active') = Cardinality(Active) + 1
  BY <1>2, FS_AddElement DEF QuotaInv
<1>6. Cardinality(Inserting') = Cardinality(Inserting) - 1
  BY <1>4, FS_RemoveElement, InsertingCounted
<1>7. Cardinality(Active) \in Nat BY FS_CardinalityType DEF QuotaInv
<1> QED
  BY <1>5, <1>6, <1>7, InsertingCounted, QuotaAssumption DEF QuotaInv

LEMMA QuotaStep ==
    ASSUME IInv, QuotaInv, [Next]_vars PROVE QuotaInv'
<1>1. ASSUME NEW c \in Clients, Kick(c) PROVE QuotaInv'
  <2>1. Active' = Active /\ Inserting' \subseteq Inserting
    BY <1>1 DEF Kick, Active, Inserting, IInv, TypeOK
  <2> QED BY <2>1, QuotaKept
<1>2. ASSUME NEW w \in Workers, Drain(w) PROVE QuotaInv'
  <2>1. Inserting' = Inserting
    BY <1>2 DEF Drain, Start, Claim, Execute, Mark, Inserting
  <2>2. CASE Start(w) \/ Execute(w) \/ Claim(w)
    <3>1. Active' \subseteq Active
      BY <2>2 DEF Start, Claim, Execute, Active, IInv, TypeOK
    <3> QED BY <2>1, <3>1, QuotaKept
  <2>3. CASE Mark(w)
    <3>1. run' = [run EXCEPT ![job[w]] = at[w]] /\ at[w] \in Verdicts
      BY <2>3 DEF Mark
    <3>2. Active' \subseteq Active
      BY <3>1 DEF Active, IInv, TypeOK, Verdicts
    <3> QED BY <2>1, <3>2, QuotaKept
  <2> QED BY <1>2, <2>2, <2>3 DEF Drain
<1>3. CASE Crash \/ Boot \/ UNCHANGED vars
  <2>1. Active' \subseteq Active
    BY <1>3 DEF Crash, Boot, Requeue, KickAtStart, vars, Active
  <2>2. Inserting' \subseteq Inserting
    BY <1>3 DEF Crash, Boot, Requeue, KickAtStart, vars, Inserting
  <2> QED BY <2>1, <2>2, QuotaKept
<1>4. ASSUME NEW r \in Runs, Prune(r) PROVE QuotaInv'
  <2>1. Active' \subseteq Active /\ Inserting' = Inserting
    BY <1>4 DEF Prune, Active, Inserting, IInv, TypeOK
  <2> QED BY <2>1, QuotaKept
<1> QED
  BY <1>1, <1>2, <1>3, <1>4, QuotaRequest, QuotaInsert DEF Next, Serve

\* However many requests count before others insert: the queue is over its
\* quota by less than one run for each of them (QuotaOvershoot).
THEOREM QuotaIsBounded == Spec => []QuotaOvershoot
<1>1. Init => QuotaInv
  <2> SUFFICES ASSUME Init PROVE QuotaInv OBVIOUS
  <2>1. Active = {} /\ Inserting = {} BY DEF Init, Active, Inserting
  <2>2. IsFiniteSet({}) /\ Cardinality({}) = 0 BY FS_EmptySet
  <2> QED BY <2>1, <2>2, InsertingCounted, QuotaAssumption DEF QuotaInv
<1>2. IInv /\ QuotaInv /\ [Next]_vars => QuotaInv'
  BY QuotaStep
<1>3. QuotaInv => QuotaOvershoot
  <2> SUFFICES ASSUME QuotaInv PROVE QuotaOvershoot OBVIOUS
  <2>1. Cardinality(Active) \in Nat BY FS_CardinalityType DEF QuotaInv
  <2> QED
    BY <2>1, InsertingCounted, QuotaAssumption DEF QuotaInv, QuotaOvershoot
<1> QED
  BY <1>1, <1>2, <1>3, Inductive, PTL DEF Spec

=============================================================================
