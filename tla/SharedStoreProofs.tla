-------------------------- MODULE SharedStoreProofs --------------------------
(***************************************************************************)
(* Proofs about the Postgres store, for any number of services, threads,   *)
(* requests, jobs and runs, any number of stops, and ledgers of any length.*)
(***************************************************************************)
EXTENDS SharedStore, FiniteSetTheorems, TLAPS

\* What TypeOK asks of a transaction on a job.
JobSession(o) ==
    /\ o.at \in JobSteps => o.on \in Jobs
    /\ o.at = "mark" => o.say \in Finished

LEMMA SessionsAreTyped ==
    ASSUME TypeOK PROVE \A s \in Sessions : JobSession(op[s])
BY DEF TypeOK, JobSession, On, At

LEMMA IdleIsTyped ==
    ASSUME SessionAssumption
    PROVE  Idle \in Transactions /\ JobSession(Idle)
<1>1. <<>> \in Seq(Entries) OBVIOUS
<1>2. Idle \in Transactions BY <1>1 DEF Idle, Transactions, Names
<1>3. Idle.at = "idle" BY DEF Idle
<1> QED BY <1>2, <1>3 DEF JobSteps, JobSession

\* An entry takes up what its session read.
LEMMA EntryIsTyped ==
    ASSUME TypeOK, NEW s \in Sessions
    PROVE  Entry(s) \in Entries
<1>1. op[s].say \in Names /\ op[s].seen \in Seq(Entries)
  BY DEF TypeOK, Transactions
<1>2. Last(op[s].seen) \in Names \cup {"genesis"}
  <2>1. CASE op[s].seen = <<>> BY <2>1 DEF Last
  <2>2. CASE op[s].seen # <<>>
    <3>1. op[s].seen[Len(op[s].seen)] \in Entries BY <1>1, <2>2
    <3> QED BY <2>2, <3>1 DEF Last, Entries
  <2> QED BY <2>1, <2>2
<1> QED BY <1>1, <1>2 DEF Entry, Entries

\* What a transaction may become.
LEMMA MovesAreTyped ==
    ASSUME TypeOK, NEW s \in Sessions,
           NEW step \in (JobSteps \ {"mark"}) \cup {"idle", "execute", "delete"},
           NEW row \in Jobs \cup Runs \cup (SUBSET Runs) \cup {None}
    PROVE  /\ op[s].at \in JobSteps => op[s].on \in Jobs
           /\ Goto(s, step, row) /\ (step \in JobSteps => row \in Jobs) =>
                /\ op' \in [Sessions -> Transactions]
                /\ \A t \in Sessions : JobSession(op'[t])
           /\ \A e \in Names, next \in {"idle", "ask", "rescued"} :
                row \in Jobs /\ Tell(s, row, e, next) =>
                /\ op' \in [Sessions -> Transactions]
                /\ \A t \in Sessions : JobSession(op'[t])
<1>1. op[s].at \in JobSteps => op[s].on \in Jobs BY DEF TypeOK, On, At
<1>2. op[s] \in Transactions BY DEF TypeOK
<1>3. ASSUME Goto(s, step, row), step \in JobSteps => row \in Jobs
      PROVE  /\ op' \in [Sessions -> Transactions]
             /\ \A t \in Sessions : JobSession(op'[t])
  <2>1. [op[s] EXCEPT !.at = step, !.on = row] \in Transactions
    BY <1>2 DEF Transactions
  <2>2. op' = [op EXCEPT ![s] = [op[s] EXCEPT !.at = step, !.on = row]]
    BY <1>3 DEF Goto, TypeOK, Transactions
  <2>3. op'[s].at = step /\ op'[s].on = row
    BY <2>2, <1>2 DEF TypeOK, Transactions
  <2>4. JobSession(op'[s]) BY <2>3, <1>3 DEF JobSession
  <2> QED BY <2>1, <2>2, <2>4, SessionsAreTyped DEF TypeOK
<1>4. ASSUME NEW e \in Names, NEW next \in {"idle", "ask", "rescued"},
             row \in Jobs, Tell(s, row, e, next)
      PROVE  /\ op' \in [Sessions -> Transactions]
             /\ \A t \in Sessions : JobSession(op'[t])
  <2> DEFINE new == [at |-> "read", on |-> row, seen |-> <<>>, say |-> e,
                     next |-> next]
  <2>1. <<>> \in Seq(Entries) OBVIOUS
  <2>2. new \in Transactions BY <1>4, <2>1 DEF Transactions, JobSteps
  <2>3. op' = [op EXCEPT ![s] = new] BY <1>4 DEF Tell
  <2>4. JobSession(new) BY <1>4 DEF JobSession
  <2> HIDE DEF new
  <2> QED BY <2>2, <2>3, <2>4, SessionsAreTyped DEF TypeOK
<1> QED BY <1>1, <1>3, <1>4

LEMMA ReturnIsTyped ==
    ASSUME SessionAssumption, TypeOK, NEW s \in Sessions, Return(s)
    PROVE  /\ op' \in [Sessions -> Transactions]
           /\ \A t \in Sessions : JobSession(op'[t])
BY IdleIsTyped, SessionsAreTyped DEF Return, TypeOK

-----------------------------------------------------------------------------
(* Types.                                                                  *)

LEMMA TypeInit ==
    ASSUME SessionAssumption, Init PROVE TypeOK
<1>1. Idle.at = "idle" /\ "idle" \notin JobSteps BY DEF Idle, JobSteps
<1>2. <<>> \in Seq(Entries) OBVIOUS
<1> QED BY <1>1, <1>2, IdleIsTyped DEF Init, TypeOK, At

LEMMA TypeSession ==
    ASSUME SessionAssumption, TypeOK, NEW s \in Sessions,
           \/ ReadTail(s) \/ InsertEvent(s) \/ EventRefused(s)
           \/ SubmitJob(s) \/ LockNextJob(s) \/ ClaimJob(s) \/ AskOrder(s)
           \/ MarkJob(s) \/ RescueJob(s) \/ AskToCancel(s) \/ CancelJob(s)
           \/ SubmitRun(s) \/ ClaimRun(s) \/ FinishRun(s)
           \/ SelectOldRuns(s) \/ DeleteRuns(s)
    PROVE  TypeOK'
<1> DEFINE Typed ==
             /\ op' \in [Sessions -> Transactions]
             /\ \A t \in Sessions : JobSession(op'[t])
<1> USE DEF jobs, runs
<1>0. s[1] \in Services BY DEF Sessions
<1>r. op[s] \in Transactions /\ op[s].say \in Names BY DEF TypeOK, Transactions
<1>n. Finished \subseteq Names /\ {"queued", "started", "cancel_requested"} \subseteq Names
  BY DEF Names
<1>f. Finished = {"succeeded", "failed", "cancelled"} BY DEF Finished
<1>j. JobSteps = {"read", "insert", "locked", "ask", "mark", "rescue", "cancel"}
  BY DEF JobSteps
<1> HIDE DEF Typed
<1>t. ASSUME Typed, UNCHANGED <<up, lock, events, recovered, asked>>,
             job' \in [Jobs -> {"none", "queued", "running"} \cup Finished]
      PROVE  TypeOK'
  BY <1>t DEF TypeOK, On, At, Typed, JobSession
<1>1. CASE ReadTail(s)
  <2>1. On(s) \in Jobs /\ events[On(s)] \in Seq(Entries)
    BY <1>1, <1>j DEF ReadTail, At, TypeOK
  <2>2. [op[s] EXCEPT !.at = "insert", !.seen = events[On(s)]] \in Transactions
    BY <2>1, <1>r, <1>j DEF Transactions
  <2>3. op' = [op EXCEPT ![s] = [op[s] EXCEPT !.at = "insert",
                                              !.seen = events[On(s)]]]
    BY <1>1 DEF ReadTail, TypeOK, Transactions
  <2>4. JobSession(op'[s])
    BY <2>1, <2>3, <1>r DEF TypeOK, Transactions, On, JobSession
  <2>5. Typed BY <2>2, <2>3, <2>4, SessionsAreTyped DEF Typed, TypeOK
  <2> QED BY <1>1, <1>t, <2>5 DEF ReadTail, TypeOK
<1>2. CASE InsertEvent(s)
  <2>1. On(s) \in Jobs BY <1>2, <1>j DEF InsertEvent, At, TypeOK
  <2>2. op[s].next \in {"idle", "ask", "rescued"} BY <1>r DEF Transactions
  <2>3. Typed
    BY <1>2, <2>1, <2>2, <1>j, ReturnIsTyped, MovesAreTyped
    DEF InsertEvent, Typed
  <2>4. events' \in [Jobs -> Seq(Entries)]
    <3>1. events[On(s)] \in Seq(Entries) BY <2>1 DEF TypeOK
    <3>2. Append(events[On(s)], Entry(s)) \in Seq(Entries)
      BY <3>1, EntryIsTyped
    <3>3. events' = [events EXCEPT ![On(s)] = Append(events[On(s)], Entry(s))]
      BY <1>2, <2>1 DEF InsertEvent, TypeOK
    <3> QED BY <3>2, <3>3 DEF TypeOK
  <2> QED BY <1>2, <2>3, <2>4 DEF InsertEvent, TypeOK, On, At, Typed, JobSession
<1>3. CASE EventRefused(s)
  <2>1. On(s) \in Jobs BY <1>3, <1>j DEF EventRefused, At, TypeOK
  <2>2. Typed
    BY <1>3, <2>1, <1>j, ReturnIsTyped, MovesAreTyped DEF EventRefused, Typed
  <2>3. /\ up' \in [Services -> {"down", "recover", "fail", "log", "up"}]
        /\ recovered' \in [Services -> SUBSET Jobs]
    BY <1>3, <1>0 DEF EventRefused, TypeOK
  <2> QED BY <1>3, <2>2, <2>3 DEF EventRefused, TypeOK, On, At, Typed, JobSession
<1>4. CASE SubmitJob(s)
  <2>1. PICK j \in Jobs : /\ job' = [job EXCEPT ![j] = "queued"]
                          /\ Tell(s, j, "queued", "idle")
    BY <1>4 DEF SubmitJob
  <2>2. Typed BY <2>1, <1>j, <1>n, MovesAreTyped DEF Typed
  <2>3. job' \in [Jobs -> {"none", "queued", "running"} \cup Finished]
    BY <2>1 DEF TypeOK
  <2> QED BY <1>4, <1>t, <2>2, <2>3 DEF SubmitJob
<1>5. CASE LockNextJob(s)
  <2>1. PICK j \in Jobs : /\ lock' = [lock EXCEPT ![j] = s]
                          /\ Goto(s, "locked", j)
    BY <1>5 DEF LockNextJob
  <2>2. Typed BY <2>1, <1>j, MovesAreTyped DEF Typed
  <2>3. lock' \in [Jobs -> Sessions \cup {None}] BY <2>1 DEF TypeOK
  <2> QED BY <1>5, <2>2, <2>3 DEF LockNextJob, TypeOK, On, At, Typed, JobSession
<1>6. CASE ClaimJob(s)
  <2>1. On(s) \in Jobs BY <1>6, <1>j DEF ClaimJob, At, TypeOK
  <2>2. Typed BY <1>6, <2>1, <1>j, <1>n, MovesAreTyped DEF Typed, ClaimJob
  <2>3. /\ job' \in [Jobs -> {"none", "queued", "running"} \cup Finished]
        /\ lock' \in [Jobs -> Sessions \cup {None}]
    BY <1>6, <2>1 DEF ClaimJob, TypeOK
  <2> QED BY <1>6, <2>2, <2>3 DEF ClaimJob, TypeOK, On, At, Typed, JobSession
<1>7. CASE AskOrder(s)
  <2>1. On(s) \in Jobs BY <1>7, <1>j DEF AskOrder, At, TypeOK
  <2>2. PICK e \in {"succeeded", "failed", "cancelled"} :
             op' = [op EXCEPT ![s].at = "mark", ![s].say = e]
    BY <1>7 DEF AskOrder
  <2>3. [op[s] EXCEPT !.at = "mark", !.say = e] \in Transactions
    BY <2>2, <1>r, <1>j, <1>n, <1>f DEF Transactions
  <2>4. op' = [op EXCEPT ![s] = [op[s] EXCEPT !.at = "mark", !.say = e]]
    BY <2>2 DEF TypeOK, Transactions
  <2>5. JobSession(op'[s])
    BY <2>1, <2>2, <2>4, <1>r, <1>f DEF TypeOK, Transactions, On, JobSession
  <2>6. Typed BY <2>3, <2>4, <2>5, SessionsAreTyped DEF Typed, TypeOK
  <2>7. asked' \in [Jobs -> Nat]
    <3>1. CASE "cancel_requested" \in Logged(On(s))
      BY <1>7, <3>1 DEF AskOrder, TypeOK
    <3>2. CASE "cancel_requested" \notin Logged(On(s))
      <4>1. asked' = [asked EXCEPT ![On(s)] = asked[On(s)] + 1]
        BY <1>7, <3>2, <2>1 DEF AskOrder, TypeOK
      <4> QED BY <4>1, <2>1 DEF TypeOK
    <3> QED BY <3>1, <3>2
  <2> QED BY <1>7, <2>6, <2>7 DEF AskOrder, TypeOK, On, At, Typed, JobSession
<1>8. CASE MarkJob(s)
  <2>1. On(s) \in Jobs BY <1>8, <1>j DEF MarkJob, At, TypeOK
  <2>2. Typed BY <1>8, <2>1, <1>r, <1>j, <1>n, MovesAreTyped DEF Typed, MarkJob
  <2>3. job' \in [Jobs -> {"none", "queued", "running"} \cup Finished]
    BY <1>8, <2>1 DEF MarkJob, TypeOK, At
  <2> QED BY <1>8, <1>t, <2>2, <2>3 DEF MarkJob
<1>9. CASE RescueJob(s)
  <2>1. On(s) \in Jobs BY <1>9, <1>j DEF RescueJob, At, TypeOK
  <2>2. Typed
    BY <1>9, <2>1, <1>j, <1>n, <1>f, MovesAreTyped DEF Typed, RescueJob
  <2>3. job' \in [Jobs -> {"none", "queued", "running"} \cup Finished]
    BY <1>9, <2>1, <1>f DEF RescueJob, TypeOK
  <2> QED BY <1>9, <1>t, <2>2, <2>3 DEF RescueJob
<1>10. CASE AskToCancel(s)
  <2>1. PICK j \in Jobs : \/ Goto(s, "cancel", j)
                          \/ Tell(s, j, "cancel_requested", "idle")
    BY <1>10 DEF AskToCancel
  <2>2. Typed BY <2>1, <1>j, <1>n, MovesAreTyped DEF Typed
  <2> QED BY <1>10, <2>2, <1>t DEF AskToCancel, TypeOK
<1>11. CASE CancelJob(s)
  <2>1. On(s) \in Jobs BY <1>11, <1>j DEF CancelJob, At, TypeOK
  <2>2. Typed
    BY <1>11, <2>1, <1>j, <1>n, <1>f, MovesAreTyped DEF Typed, CancelJob
  <2>3. job' \in [Jobs -> {"none", "queued", "running"} \cup Finished]
    BY <1>11, <2>1, <1>f DEF CancelJob, TypeOK
  <2> QED BY <1>11, <1>t, <2>2, <2>3 DEF CancelJob
<1>12. CASE SubmitRun(s)
  BY <1>12 DEF SubmitRun, TypeOK, On, At
<1>13. CASE ClaimRun(s)
  <2>1. PICK r \in Runs : Goto(s, "execute", r) BY <1>13 DEF ClaimRun
  <2>2. Typed BY <2>1, <1>j, MovesAreTyped DEF Typed
  <2> QED BY <1>13, <2>2, <1>t DEF ClaimRun, TypeOK
<1>14. CASE FinishRun(s)
  <2>1. Typed BY <1>14, ReturnIsTyped DEF FinishRun, Typed
  <2> QED BY <1>14, <2>1, <1>t DEF FinishRun, TypeOK
<1>15. CASE SelectOldRuns(s)
  <2>1. PICK old \in SUBSET Runs : Goto(s, "delete", old)
    BY <1>15 DEF SelectOldRuns
  <2>2. Typed BY <2>1, <1>j, MovesAreTyped DEF Typed
  <2> QED BY <1>15, <2>2, <1>t DEF SelectOldRuns, TypeOK
<1>16. CASE DeleteRuns(s)
  <2>1. Typed BY <1>16, ReturnIsTyped DEF DeleteRuns, Typed
  <2> QED BY <1>16, <2>1, <1>t DEF DeleteRuns, TypeOK
<1> QED
  BY <1>1, <1>2, <1>3, <1>4, <1>5, <1>6, <1>7, <1>8, <1>9, <1>10, <1>11,
     <1>12, <1>13, <1>14, <1>15, <1>16

LEMMA TypeService ==
    ASSUME SessionAssumption, TypeOK, NEW x \in Services,
           \/ Start(x) \/ SelectInterrupted(x) \/ FailInterrupted(x)
           \/ LogInterrupted(x) \/ Open(x) \/ Stop(x)
    PROVE  TypeOK'
<1> USE DEF jobs, runs
<1>0. <<x, Boot>> \in Sessions BY DEF Sessions
<1>1. CASE Start(x)
  BY <1>1 DEF Start, TypeOK, On, At
<1>2. CASE SelectInterrupted(x)
  BY <1>2 DEF SelectInterrupted, TypeOK, On, At
<1>3. CASE FailInterrupted(x)
  BY <1>3 DEF FailInterrupted, TypeOK, On, At, Finished
<1>4. CASE LogInterrupted(x)
  <2>1. PICK j \in recovered[x] :
             /\ recovered' = [recovered EXCEPT ![x] = @ \ {j}]
             /\ Tell(<<x, Boot>>, j, "failed", "idle")
    BY <1>4 DEF LogInterrupted
  <2>2. j \in Jobs BY <2>1 DEF TypeOK
  <2>3. "failed" \in Names BY DEF Names, Finished
  <2>4. /\ op' \in [Sessions -> Transactions]
        /\ \A t \in Sessions : JobSession(op'[t])
    BY <1>0, <2>1, <2>2, <2>3, MovesAreTyped DEF JobSteps
  <2>5. recovered' \in [Services -> SUBSET Jobs] BY <2>1 DEF TypeOK
  <2> QED BY <1>4, <2>4, <2>5 DEF LogInterrupted, TypeOK, On, At, JobSession
<1>5. CASE Open(x)
  BY <1>5 DEF Open, TypeOK, On, At
<1>6. CASE Stop(x)
  BY <1>6, IdleIsTyped DEF Stop, TypeOK, On, At, JobSession
<1> QED BY <1>1, <1>2, <1>3, <1>4, <1>5, <1>6

\* Every variable keeps its type, and no session goes on without the job, run
\* or event it has in its hands.
THEOREM TypeCorrect ==
    ASSUME SessionAssumption PROVE Spec => []TypeOK
<1>1. TypeOK /\ [Next]_vars => TypeOK'
  <2> SUFFICES ASSUME TypeOK, [Next]_vars PROVE TypeOK' OBVIOUS
  <2>1. CASE UNCHANGED vars BY <2>1 DEF vars, jobs, runs, TypeOK, On, At
  <2>2. CASE Next BY <2>2, TypeSession, TypeService DEF Next
  <2> QED BY <2>1, <2>2
<1> QED BY <1>1, TypeInit, PTL DEF Spec

-----------------------------------------------------------------------------
(* How a transaction moves.                                                *)

LEMMA Moves ==
    ASSUME TypeOK, NEW s \in Sessions
    PROVE  /\ \A step, row : Goto(s, step, row) =>
                /\ \A t \in Sessions \ {s} : op'[t] = op[t]
                /\ op'[s].at = step /\ op'[s].on = row
                /\ op'[s].say = op[s].say /\ op'[s].next = op[s].next
           /\ \A j, e, next : Tell(s, j, e, next) =>
                /\ \A t \in Sessions \ {s} : op'[t] = op[t]
                /\ op'[s].at = "read" /\ op'[s].on = j
                /\ op'[s].say = e /\ op'[s].next = next
           /\ Return(s) =>
                /\ \A t \in Sessions \ {s} : op'[t] = op[t]
                /\ op'[s].at = "idle" /\ op'[s].next = "idle"
           /\ ReadTail(s) =>
                /\ \A t \in Sessions \ {s} : op'[t] = op[t]
                /\ op'[s].at = "insert" /\ op'[s].on = On(s)
                /\ op'[s].seen = events[On(s)]
                /\ op'[s].say = op[s].say /\ op'[s].next = op[s].next
           /\ AskOrder(s) =>
                /\ \A t \in Sessions \ {s} : op'[t] = op[t]
                /\ op'[s].at = "mark" /\ op'[s].on = On(s)
<1>r. op \in [Sessions -> Transactions] /\ op[s] \in Transactions BY DEF TypeOK
<1>1. \A step, row : Goto(s, step, row) =>
        /\ \A t \in Sessions \ {s} : op'[t] = op[t]
        /\ op'[s].at = step /\ op'[s].on = row
        /\ op'[s].say = op[s].say /\ op'[s].next = op[s].next
  BY <1>r DEF Goto, Transactions
<1>2. \A j, e, next : Tell(s, j, e, next) =>
        /\ \A t \in Sessions \ {s} : op'[t] = op[t]
        /\ op'[s].at = "read" /\ op'[s].on = j
        /\ op'[s].say = e /\ op'[s].next = next
  BY <1>r DEF Tell
<1>3. Return(s) => /\ \A t \in Sessions \ {s} : op'[t] = op[t]
                   /\ op'[s].at = "idle" /\ op'[s].next = "idle"
  BY <1>r DEF Return, Idle
<1>4. ReadTail(s) =>
        /\ \A t \in Sessions \ {s} : op'[t] = op[t]
        /\ op'[s].at = "insert" /\ op'[s].on = On(s)
        /\ op'[s].seen = events[On(s)]
        /\ op'[s].say = op[s].say /\ op'[s].next = op[s].next
  BY <1>r DEF ReadTail, Transactions, On
<1>5. AskOrder(s) =>
        /\ \A t \in Sessions \ {s} : op'[t] = op[t]
        /\ op'[s].at = "mark" /\ op'[s].on = On(s)
  BY <1>r DEF AskOrder, Transactions, On
<1> QED BY <1>1, <1>2, <1>3, <1>4, <1>5

-----------------------------------------------------------------------------
(* Ledgers.                                                                *)

\* Ledgers only grow, at their end.
Grow ==
    \A j \in Jobs :
        /\ Len(events'[j]) \in Nat /\ Len(events[j]) <= Len(events'[j])
        /\ \A n \in 1..Len(events[j]) : events'[j][n] = events[j][n]

LEMMA InsertGrows ==
    ASSUME TypeOK, NEW s \in Sessions, InsertEvent(s)
    PROVE  Grow
<1>1. On(s) \in Jobs BY DEF InsertEvent, TypeOK, JobSteps, At
<1>2. events' = [events EXCEPT ![On(s)] = Append(events[On(s)], Entry(s))]
  BY <1>1 DEF InsertEvent, TypeOK
<1>3. \A j \in Jobs : events[j] \in Seq(Entries) BY DEF TypeOK
<1>4. Entry(s) \in Entries BY EntryIsTyped
<1>5. SUFFICES ASSUME NEW j \in Jobs
               PROVE  /\ Len(events'[j]) \in Nat
                      /\ Len(events[j]) <= Len(events'[j])
                      /\ \A n \in 1..Len(events[j]) : events'[j][n] = events[j][n]
  BY DEF Grow
<1>6. CASE j = On(s)
  <2>1. events'[j] = Append(events[j], Entry(s)) BY <1>2, <1>6 DEF TypeOK
  <2> QED BY <2>1, <1>3, <1>4
<1>7. CASE j # On(s)
  <2>1. events'[j] = events[j] BY <1>2, <1>7 DEF TypeOK
  <2> QED BY <2>1, <1>3
<1> QED BY <1>6, <1>7

LEMMA SameGrows ==
    ASSUME TypeOK, events' = events PROVE Grow
BY DEF Grow, TypeOK

\* A tail stays part of a ledger that grows, and so does one just read.
LEMMA TailsStay ==
    ASSUME TypeOK, TailInv, Grow,
           \A t \in Sessions :
             \/ op'[t] = op[t]
             \/ op'[t].at # "insert"
             \/ op'[t].on \in Jobs /\ op'[t].seen = events[op'[t].on]
    PROVE  TailInv'
<1> SUFFICES ASSUME NEW t \in Sessions, op'[t].at = "insert"
             PROVE  /\ Len(op'[t].seen) <= Len(events'[op'[t].on])
                    /\ \A n \in 1..Len(op'[t].seen) :
                         events'[op'[t].on][n] = op'[t].seen[n]
  BY DEF TailInv, At, On
<1>1. CASE op'[t] = op[t]
  <2>1. op[t].on \in Jobs BY <1>1 DEF TypeOK, JobSteps, On, At
  <2>2. op[t].seen \in Seq(Entries) /\ events[op[t].on] \in Seq(Entries)
    BY <2>1 DEF TypeOK, Transactions
  <2>3. /\ Len(op[t].seen) <= Len(events[op[t].on])
        /\ \A n \in 1..Len(op[t].seen) : events[op[t].on][n] = op[t].seen[n]
    BY <1>1 DEF TailInv, At, On
  <2> QED BY <1>1, <2>1, <2>2, <2>3 DEF Grow
<1>2. CASE op'[t].on \in Jobs /\ op'[t].seen = events[op'[t].on]
  BY <1>2 DEF Grow
<1> QED BY <1>1, <1>2

\* The event that is inserted follows the one its session has read.
LEMMA InsertKeepsChains ==
    ASSUME TypeOK, TailInv, LedgersAreChains, NEW s \in Sessions, InsertEvent(s)
    PROVE  LedgersAreChains'
<1>1. On(s) \in Jobs BY DEF InsertEvent, TypeOK, JobSteps, At
<1> DEFINE old == events[On(s)]
<1>2. old \in Seq(Entries) /\ op[s].seen \in Seq(Entries)
  BY <1>1 DEF TypeOK, Transactions
<1>3. events' = [events EXCEPT ![On(s)] = Append(old, Entry(s))]
  BY <1>1 DEF InsertEvent, TypeOK
<1>4. Len(old) = Len(op[s].seen) BY DEF InsertEvent
<1>5. \A n \in 1..Len(old) : old[n] = op[s].seen[n]
  BY <1>4 DEF TailInv, InsertEvent
<1>6. Entry(s).previous = IF old = <<>> THEN "genesis" ELSE old[Len(old)].event
  BY <1>2, <1>4, <1>5 DEF Entry, Last
<1>7. SUFFICES ASSUME NEW j \in Jobs, NEW n \in DOMAIN events'[j]
               PROVE  events'[j][n].previous =
                        IF n = 1 THEN "genesis" ELSE events'[j][n - 1].event
  BY DEF LedgersAreChains
<1>8. CASE j # On(s) BY <1>3, <1>7, <1>8 DEF LedgersAreChains, TypeOK
<1>9. CASE j = On(s)
  <2>1. events'[j] = Append(old, Entry(s)) BY <1>3, <1>9 DEF TypeOK
  <2>e. Entry(s) \in Entries BY EntryIsTyped
  <2>2. n \in 1..(Len(old) + 1) BY <2>1, <2>e, <1>2, <1>7
  <2>3. CASE n = Len(old) + 1 BY <2>1, <2>3, <2>e, <1>2, <1>6
  <2>4. CASE n # Len(old) + 1
    <3>1. n \in DOMAIN events[j] BY <2>2, <2>4, <1>2, <1>9
    <3>2. events'[j][n] = events[j][n] BY <2>1, <2>2, <2>4, <2>e, <1>2, <1>9
    <3>3. n # 1 => events'[j][n - 1] = events[j][n - 1]
      BY <2>1, <2>2, <2>4, <2>e, <1>2, <1>9
    <3> QED BY <3>1, <3>2, <3>3 DEF LedgersAreChains
  <2> QED BY <2>3, <2>4
<1> QED BY <1>8, <1>9

LEMMA ChainStep ==
    ASSUME SessionAssumption, TypeOK, TailInv, LedgersAreChains, [Next]_vars
    PROVE  TailInv' /\ LedgersAreChains'
<1> USE DEF jobs, runs
<1>1. CASE UNCHANGED vars
  BY <1>1 DEF vars, TailInv, LedgersAreChains, At, On
<1>2. ASSUME NEW s \in Sessions, InsertEvent(s)
      PROVE  TailInv' /\ LedgersAreChains'
  <2>1. op[s].next \in {"idle", "ask", "rescued"} BY <1>2 DEF TypeOK, Transactions
  <2>2. \A t \in Sessions : op'[t] = op[t] \/ op'[t].at # "insert"
    BY <1>2, <2>1, Moves DEF InsertEvent
  <2> QED BY <1>2, <2>2, InsertGrows, TailsStay, InsertKeepsChains
<1>3. ASSUME events' = events,
             \A t \in Sessions :
               \/ op'[t] = op[t]
               \/ op'[t].at # "insert"
               \/ op'[t].on \in Jobs /\ op'[t].seen = events[op'[t].on]
      PROVE  TailInv' /\ LedgersAreChains'
  BY <1>3, SameGrows, TailsStay DEF LedgersAreChains
<1>4. ASSUME NEW s \in Sessions, ReadTail(s)
      PROVE  TailInv' /\ LedgersAreChains'
  <2>1. On(s) \in Jobs BY <1>4 DEF ReadTail, At, TypeOK, JobSteps
  <2>2. events' = events BY <1>4 DEF ReadTail
  <2>3. /\ \A t \in Sessions \ {s} : op'[t] = op[t]
        /\ op'[s].on = On(s) /\ op'[s].seen = events[On(s)]
    BY <1>4, Moves
  <2>4. \A t \in Sessions :
          \/ op'[t] = op[t]
          \/ op'[t].on \in Jobs /\ op'[t].seen = events[op'[t].on]
    <3> SUFFICES ASSUME NEW t \in Sessions
                 PROVE  \/ op'[t] = op[t]
                        \/ op'[t].on \in Jobs /\ op'[t].seen = events[op'[t].on]
      OBVIOUS
    <3>1. CASE t = s BY <2>1, <2>3, <3>1
    <3>2. CASE t # s BY <2>3, <3>2
    <3> QED BY <3>1, <3>2
  <2> QED BY <1>3, <2>2, <2>4
<1>5. ASSUME NEW s \in Sessions,
             \/ EventRefused(s) \/ SubmitJob(s) \/ LockNextJob(s) \/ ClaimJob(s)
             \/ AskOrder(s) \/ MarkJob(s) \/ RescueJob(s) \/ AskToCancel(s)
             \/ CancelJob(s)
      PROVE  TailInv' /\ LedgersAreChains'
  <2>1. events' = events
    BY <1>5 DEF EventRefused, SubmitJob, LockNextJob, ClaimJob, AskOrder,
                MarkJob, RescueJob, AskToCancel, CancelJob
  <2>2. \A t \in Sessions : op'[t] = op[t] \/ op'[t].at # "insert"
    BY <1>5, Moves
    DEF EventRefused, SubmitJob, LockNextJob, ClaimJob, MarkJob, RescueJob,
        AskToCancel, CancelJob
  <2> QED BY <1>3, <2>1, <2>2
<1>6. ASSUME NEW s \in Sessions,
             \/ SubmitRun(s) \/ ClaimRun(s) \/ FinishRun(s)
             \/ SelectOldRuns(s) \/ DeleteRuns(s)
      PROVE  TailInv' /\ LedgersAreChains'
  <2>1. events' = events
    BY <1>6 DEF SubmitRun, ClaimRun, FinishRun, SelectOldRuns, DeleteRuns
  <2>2. \A t \in Sessions : op'[t] = op[t] \/ op'[t].at # "insert"
    BY <1>6, Moves DEF SubmitRun, ClaimRun, FinishRun, SelectOldRuns, DeleteRuns
  <2> QED BY <1>3, <2>1, <2>2
<1>7. ASSUME NEW x \in Services,
             \/ Start(x) \/ SelectInterrupted(x) \/ FailInterrupted(x)
             \/ LogInterrupted(x) \/ Open(x) \/ Stop(x)
      PROVE  TailInv' /\ LedgersAreChains'
  <2>1. events' = events
    BY <1>7 DEF Start, SelectInterrupted, FailInterrupted, LogInterrupted,
                Open, Stop
  <2>2. <<x, Boot>> \in Sessions BY DEF Sessions
  <2>3. \A t \in Sessions : op'[t] = op[t] \/ op'[t].at # "insert"
    BY <1>7, <2>2, Moves DEF Start, SelectInterrupted, FailInterrupted,
                             LogInterrupted, Open, Stop, Idle
  <2> QED BY <1>3, <2>1, <2>3
<1> QED BY <1>1, <1>2, <1>4, <1>5, <1>6, <1>7 DEF Next

\* Whoever appends to it, in whatever order: the ledger of a job is one chain.
THEOREM LedgersStayChains ==
    ASSUME SessionAssumption PROVE Spec => []LedgersAreChains
<1>1. Init => TailInv /\ LedgersAreChains
  BY DEF Init, TailInv, LedgersAreChains, Idle, At
<1>2. TypeOK /\ TailInv /\ LedgersAreChains /\ [Next]_vars
        => TailInv' /\ LedgersAreChains'
  BY ChainStep
<1> QED BY <1>1, <1>2, TypeCorrect, PTL DEF Spec

-----------------------------------------------------------------------------
(* Claims.                                                                 *)

\* ClaimInv, of the session and of two, as facts about the next state.
Claims(s) ==
    /\ At(s, "locked") => lock[On(s)] = s /\ job[On(s)] = "queued"
    /\ HasClaimed(s) => job[On(s)] \notin {"none", "queued"}
    /\ op[s].at \in {"ask", "mark", "rescue", "locked"} => s[2] \in Workers
    /\ At(s, "cancel") => s[2] \notin Workers
    /\ At(s, "idle") => op[s].next # "ask"
    /\ op[s].at \in JobSteps /\ op[s].next = "ask" => s[2] \in Workers
    /\ WillAsk(s) => asked[On(s)] = 0

\* Who keeps its transaction keeps its claims, while rows only move on.
LEMMA ClaimsStay ==
    ASSUME TypeOK, ClaimInv, NEW t \in Sessions, op'[t] = op[t],
           op[t].at \in JobSteps => op[t].on \in Jobs,
           \A j \in Jobs :
             /\ job[j] \notin {"none", "queued"} => job'[j] \notin {"none", "queued"}
             /\ lock[j] = t /\ job[j] = "queued" => lock'[j] = t /\ job'[j] = "queued",
           WillAsk(t) => asked'[On(t)] = asked[On(t)]
    PROVE  Claims(t)'
<1>1. op[t].at \in JobSteps => op[t].on \in Jobs OBVIOUS
<1> QED
  BY <1>1 DEF ClaimInv, Claims, At, On, HasClaimed, WillAsk, JobSteps

LEMMA ClaimsAreClaimInv ==
    ASSUME \A s \in Sessions : Claims(s)',
           \A s, t \in Sessions :
             WillAsk(s)' /\ WillAsk(t)' /\ On(s)' = On(t)' => s = t,
           \A j \in Jobs : job'[j] \in {"none", "queued"} => asked'[j] = 0
    PROVE  ClaimInv'
BY DEF ClaimInv, Claims

LEMMA ClaimInit == ASSUME SessionAssumption, Init PROVE ClaimInv
BY DEF Init, ClaimInv, Idle, At, On, HasClaimed, WillAsk, JobSteps


\* Steps that leave the order of every job alone, and turn nobody into one
\* that will ask: what is left is what the session itself now claims.
LEMMA NobodyNewAsks ==
    ASSUME ClaimInv, asked' = asked,
           \A t \in Sessions : WillAsk(t)' => WillAsk(t) /\ On(t)' = On(t),
           \A j \in Jobs :
             job'[j] \in {"none", "queued"} => job[j] \in {"none", "queued"},
           \A t \in Sessions : Claims(t)'
    PROVE  ClaimInv'
<1>1. \A s, t \in Sessions :
        WillAsk(s)' /\ WillAsk(t)' /\ On(s)' = On(t)' => s = t
  BY DEF ClaimInv
<1>2. \A j \in Jobs : job'[j] \in {"none", "queued"} => asked'[j] = 0
  BY DEF ClaimInv
<1> QED BY <1>1, <1>2, ClaimsAreClaimInv

\* The events of a job: only what its session tells afterwards changes.
LEMMA ClaimEvents ==
    ASSUME SessionAssumption, TypeOK, ClaimInv, NEW s \in Sessions,
           ReadTail(s) \/ InsertEvent(s) \/ EventRefused(s)
    PROVE  ClaimInv'
<1> USE DEF jobs, runs
<1>1. job' = job /\ lock' = lock /\ asked' = asked
  BY DEF ReadTail, InsertEvent, EventRefused
<1>2. \A t \in Sessions \ {s} : op'[t] = op[t]
  BY Moves DEF ReadTail, InsertEvent, EventRefused
<1>3. On(s) \in Jobs /\ op[s].at \in {"read", "insert"}
      /\ op[s].next \in {"idle", "ask", "rescued"}
  BY DEF ReadTail, InsertEvent, EventRefused, At, TypeOK, JobSteps, Transactions
<1>4. \/ op'[s].at = "idle" /\ op'[s].next = "idle"
      \/ op'[s].at = "rescue" /\ op'[s].on = On(s) /\ s[2] \in Workers
         /\ op'[s].next = op[s].next
      \/ op'[s].at = "insert" /\ op'[s].on = On(s) /\ op'[s].next = op[s].next
      \/ op'[s].at = "ask" /\ op'[s].on = On(s) /\ op[s].next = "ask"
         /\ op'[s].next = op[s].next
  <2>1. CASE ReadTail(s) BY <2>1, Moves
  <2>2. CASE InsertEvent(s)
    <3>1. Return(s) \/ (op[s].next = "ask" /\ Goto(s, op[s].next, On(s)))
      BY <2>2, <1>3 DEF InsertEvent
    <3> QED BY <3>1, Moves
  <2>3. CASE EventRefused(s)
    <3>1. Return(s) \/ (s[2] \in Workers /\ Goto(s, "rescue", On(s)))
      BY <2>3 DEF EventRefused
    <3> QED BY <3>1, Moves
  <2> QED BY <2>1, <2>2, <2>3
<1>5. op[s].next = "ask" => s[2] \in Workers BY <1>3 DEF ClaimInv, JobSteps
<1>6. s[2] \in Workers => job[On(s)] \notin {"none", "queued"}
  <2>1. s[2] \in Workers => HasClaimed(s) BY <1>3 DEF HasClaimed
  <2> QED BY <2>1 DEF ClaimInv
<1>7. op[s].next = "ask" => asked[On(s)] = 0 BY <1>3 DEF ClaimInv, WillAsk
<1>8. Claims(s)'
  BY <1>1, <1>3, <1>4, <1>5, <1>6, <1>7
  DEF Claims, At, On, HasClaimed, WillAsk, JobSteps
<1>9. \A t \in Sessions \ {s} : Claims(t)'
  <2> SUFFICES ASSUME NEW t \in Sessions \ {s} PROVE Claims(t)' OBVIOUS
  <2>1. op[t].at \in JobSteps => op[t].on \in Jobs BY DEF TypeOK, On
  <2> QED BY <1>1, <1>2, <2>1, ClaimsStay
<1>10. WillAsk(s)' => WillAsk(s) /\ On(s)' = On(s)
  BY <1>3, <1>4 DEF WillAsk, At, On
<1>11. \A t \in Sessions : WillAsk(t)' => WillAsk(t) /\ On(t)' = On(t)
  BY <1>2, <1>10 DEF WillAsk, At, On
<1> QED BY <1>1, <1>8, <1>9, <1>11, NobodyNewAsks

\* What a session may do without having claimed a job, and will not ask.
LEMMA ClaimOutside ==
    ASSUME SessionAssumption, TypeOK, ClaimInv, NEW s \in Sessions,
           asked' = asked, lock' = lock,
           \A t \in Sessions \ {s} : op'[t] = op[t],
           \A j \in Jobs :
             /\ job'[j] = job[j] \/ lock[j] \notin Sessions \/ job[j] # "queued"
             /\ job[j] \notin {"none", "queued"} => job'[j] \notin {"none", "queued"}
             /\ job'[j] \in {"none", "queued"} => job[j] \in {"none", "queued"},
           Claims(s)', ~WillAsk(s)'
    PROVE  ClaimInv'
<1>1. \A t \in Sessions \ {s} : Claims(t)'
  <2> SUFFICES ASSUME NEW t \in Sessions \ {s} PROVE Claims(t)' OBVIOUS
  <2>1. op[t].at \in JobSteps => op[t].on \in Jobs BY DEF TypeOK, On
  <2>2. op'[t] = op[t] OBVIOUS
  <2>3. \A j \in Jobs : lock[j] = t /\ job[j] = "queued"
                          => lock'[j] = t /\ job'[j] = "queued"
    OBVIOUS
  <2> QED BY <2>1, <2>2, <2>3, ClaimsStay
<1>2. \A t \in Sessions : WillAsk(t)' => WillAsk(t) /\ On(t)' = On(t)
  BY DEF WillAsk, At, On
<1> QED BY <1>1, <1>2, NobodyNewAsks

\* A request changes the row of a job nobody has claimed, or none.
LEMMA ClaimRequests ==
    ASSUME SessionAssumption, TypeOK, ClaimInv, NEW s \in Sessions,
           SubmitJob(s) \/ AskToCancel(s) \/ CancelJob(s)
    PROVE  ClaimInv'
<1> USE DEF jobs, runs
<1>1. asked' = asked /\ lock' = lock
  BY DEF SubmitJob, AskToCancel, CancelJob
<1>2. s[2] \notin Workers
  <2>1. CASE CancelJob(s) BY <2>1 DEF CancelJob, ClaimInv
  <2>2. CASE SubmitJob(s) \/ AskToCancel(s)
    BY <2>2 DEF SubmitJob, AskToCancel, FreeClient, SessionAssumption
  <2> QED BY <2>1, <2>2
<1>3. /\ \A t \in Sessions \ {s} : op'[t] = op[t]
      /\ \/ op'[s].at = "cancel" /\ op'[s].next # "ask"
         \/ op'[s].at = "read" /\ op'[s].next # "ask"
  <2>1. CASE SubmitJob(s) BY <2>1, Moves DEF SubmitJob
  <2>2. CASE CancelJob(s) BY <2>2, Moves DEF CancelJob
  <2>3. CASE AskToCancel(s)
    <3>1. op[s].next # "ask" BY <2>3 DEF AskToCancel, FreeClient, ClaimInv
    <3> QED BY <2>3, <3>1, Moves DEF AskToCancel
  <2> QED BY <2>1, <2>2, <2>3
<1>4. Claims(s)' /\ ~WillAsk(s)'
  BY <1>2, <1>3 DEF Claims, At, On, HasClaimed, WillAsk, JobSteps
<1>5. \A j \in Jobs :
        /\ job'[j] = job[j] \/ lock[j] \notin Sessions \/ job[j] # "queued"
        /\ job[j] \notin {"none", "queued"} => job'[j] \notin {"none", "queued"}
        /\ job'[j] \in {"none", "queued"} => job[j] \in {"none", "queued"}
  <2>1. CASE SubmitJob(s)
    <3>1. PICK j \in Jobs : job[j] = "none" /\ job' = [job EXCEPT ![j] = "queued"]
      BY <2>1 DEF SubmitJob
    <3> QED BY <3>1 DEF TypeOK
  <2>2. CASE CancelJob(s)
    <3>1. On(s) \in Jobs /\ lock[On(s)] = None
      BY <2>2 DEF CancelJob, TypeOK, At, JobSteps
    <3> QED BY <2>2, <3>1 DEF CancelJob, TypeOK, SessionAssumption
  <2>3. CASE AskToCancel(s) BY <2>3 DEF AskToCancel
  <2> QED BY <2>1, <2>2, <2>3
<1> QED BY <1>1, <1>3, <1>4, <1>5, ClaimOutside

\* A job that is over is not claimed again, nor a run any job.
LEMMA ClaimEnds ==
    ASSUME SessionAssumption, TypeOK, ClaimInv, NEW s \in Sessions,
           MarkJob(s) \/ RescueJob(s)
    PROVE  ClaimInv'
<1> USE DEF jobs, runs
<1>1. asked' = asked /\ lock' = lock BY DEF MarkJob, RescueJob
<1>2. /\ On(s) \in Jobs
      /\ op[s].at \in {"mark", "rescue"}
      /\ job[On(s)] \notin {"none", "queued"}
  BY DEF MarkJob, RescueJob, TypeOK, At, JobSteps, ClaimInv, HasClaimed
<1>3. PICK e \in Finished : /\ job' = [job EXCEPT ![On(s)] = e]
                            /\ Tell(s, On(s), e, "idle")
                               \/ Tell(s, On(s), e, "rescued")
  <2>1. CASE MarkJob(s) BY <2>1 DEF MarkJob, TypeOK
  <2>2. CASE RescueJob(s) BY <2>2 DEF RescueJob, Finished
  <2> QED BY <2>1, <2>2
<1>4. /\ \A t \in Sessions \ {s} : op'[t] = op[t]
      /\ op'[s].at = "read" /\ op'[s].on = On(s) /\ op'[s].next # "ask"
  BY <1>3, Moves
<1>5. job'[On(s)] \notin {"none", "queued"} BY <1>2, <1>3 DEF TypeOK, Finished
<1>6. Claims(s)' /\ ~WillAsk(s)'
  BY <1>4, <1>5 DEF Claims, At, On, HasClaimed, WillAsk, JobSteps
<1>7. \A j \in Jobs :
        /\ job'[j] = job[j] \/ lock[j] \notin Sessions \/ job[j] # "queued"
        /\ job[j] \notin {"none", "queued"} => job'[j] \notin {"none", "queued"}
        /\ job'[j] \in {"none", "queued"} => job[j] \in {"none", "queued"}
  BY <1>2, <1>3, <1>5 DEF TypeOK
<1> QED BY <1>1, <1>4, <1>6, <1>7, ClaimOutside

LEMMA ClaimRuns ==
    ASSUME SessionAssumption, TypeOK, ClaimInv, NEW s \in Sessions,
           \/ SubmitRun(s) \/ ClaimRun(s) \/ FinishRun(s)
           \/ SelectOldRuns(s) \/ DeleteRuns(s)
    PROVE  ClaimInv'
<1> USE DEF jobs, runs
<1>1. asked' = asked /\ lock' = lock /\ job' = job
  BY DEF SubmitRun, ClaimRun, FinishRun, SelectOldRuns, DeleteRuns
<1>2. /\ \A t \in Sessions \ {s} : op'[t] = op[t]
      /\ \/ op'[s] = op[s]
         \/ op'[s].at \in {"execute", "delete"}
         \/ op'[s].at = "idle" /\ op'[s].next = "idle"
  BY Moves DEF SubmitRun, ClaimRun, FinishRun, SelectOldRuns, DeleteRuns
<1>3. CASE op'[s] = op[s]
  <2>1. \A t \in Sessions : op'[t] = op[t] BY <1>2, <1>3
  <2>2. \A t \in Sessions : Claims(t)'
    BY <1>1, <2>1 DEF Claims, ClaimInv, At, On, HasClaimed, WillAsk
  <2>3. \A t \in Sessions : WillAsk(t)' => WillAsk(t) /\ On(t)' = On(t)
    BY <2>1 DEF WillAsk, At, On
  <2> QED BY <1>1, <2>2, <2>3, NobodyNewAsks
<1>4. CASE \/ op'[s].at \in {"execute", "delete"}
           \/ op'[s].at = "idle" /\ op'[s].next = "idle"
  <2>1. Claims(s)' /\ ~WillAsk(s)'
    BY <1>4 DEF Claims, At, On, HasClaimed, WillAsk, JobSteps
  <2> QED BY <1>1, <1>2, <2>1, ClaimOutside
<1> QED BY <1>2, <1>3, <1>4

\* The claim: the row is locked as long as it is queued and selected, so that
\* one session moves it on, and no order was asked for before.
LEMMA ClaimLock ==
    ASSUME SessionAssumption, TypeOK, ClaimInv, NEW s \in Sessions,
           LockNextJob(s)
    PROVE  ClaimInv'
<1> USE DEF jobs, runs
<1>1. asked' = asked /\ job' = job BY DEF LockNextJob
<1>2. s[2] \in Workers /\ op[s].at = "idle" /\ op[s].next # "ask"
  BY DEF LockNextJob, FreeWorker, At, ClaimInv
<1>3. PICK j \in Jobs : /\ job[j] = "queued" /\ lock[j] = None
                        /\ lock' = [lock EXCEPT ![j] = s]
                        /\ Goto(s, "locked", j)
  BY DEF LockNextJob
<1>4. /\ \A t \in Sessions \ {s} : op'[t] = op[t]
      /\ op'[s].at = "locked" /\ op'[s].on = j /\ op'[s].next # "ask"
  BY <1>2, <1>3, Moves
<1>5. lock'[j] = s BY <1>3 DEF TypeOK
<1>6. Claims(s)' /\ ~WillAsk(s)'
  BY <1>1, <1>2, <1>3, <1>4, <1>5
  DEF Claims, At, On, HasClaimed, WillAsk, JobSteps
<1>7. \A t \in Sessions \ {s} : Claims(t)'
  <2> SUFFICES ASSUME NEW t \in Sessions \ {s} PROVE Claims(t)' OBVIOUS
  <2>1. op[t].at \in JobSteps => op[t].on \in Jobs BY DEF TypeOK, On
  <2>2. \A k \in Jobs : lock[k] = t /\ job[k] = "queued"
                          => lock'[k] = t /\ job'[k] = "queued"
    BY <1>1, <1>3 DEF TypeOK, SessionAssumption
  <2> QED BY <1>1, <1>4, <2>1, <2>2, ClaimsStay
<1>8. \A t \in Sessions : WillAsk(t)' => WillAsk(t) /\ On(t)' = On(t)
  BY <1>4, <1>6 DEF WillAsk, At, On
<1> QED BY <1>1, <1>6, <1>7, <1>8, NobodyNewAsks

LEMMA ClaimClaim ==
    ASSUME SessionAssumption, TypeOK, ClaimInv, NEW s \in Sessions,
           ClaimJob(s)
    PROVE  ClaimInv'
<1> DEFINE j == On(s)
<1> USE DEF jobs, runs
<1>1. asked' = asked BY DEF ClaimJob
<1>2. /\ j \in Jobs /\ s[2] \in Workers
      /\ lock[j] = s /\ job[j] = "queued" /\ asked[j] = 0
  BY DEF ClaimJob, At, TypeOK, JobSteps, ClaimInv
<1>3. /\ job' = [job EXCEPT ![j] = "running"]
      /\ lock' = [lock EXCEPT ![j] = None]
  BY <1>2 DEF ClaimJob, TypeOK
<1>4. /\ \A t \in Sessions \ {s} : op'[t] = op[t]
      /\ op'[s].at = "read" /\ op'[s].on = j /\ op'[s].next = "ask"
  BY Moves DEF ClaimJob
<1>5. job'[j] = "running" BY <1>2, <1>3 DEF TypeOK
<1>6. \A t \in Sessions : ~(WillAsk(t) /\ On(t) = j)
  <2> SUFFICES ASSUME NEW t \in Sessions, WillAsk(t), On(t) = j PROVE FALSE
    OBVIOUS
  <2>1. HasClaimed(t)
    BY DEF WillAsk, HasClaimed, ClaimInv, At, JobSteps
  <2> QED BY <1>2, <2>1 DEF ClaimInv
<1>7. Claims(s)'
  BY <1>1, <1>2, <1>4, <1>5
  DEF Claims, At, On, HasClaimed, WillAsk, JobSteps
<1>8. \A t \in Sessions \ {s} : Claims(t)'
  <2> SUFFICES ASSUME NEW t \in Sessions \ {s} PROVE Claims(t)' OBVIOUS
  <2>1. op[t].at \in JobSteps => op[t].on \in Jobs BY DEF TypeOK, On
  <2>2. \A k \in Jobs :
          /\ job[k] \notin {"none", "queued"} => job'[k] \notin {"none", "queued"}
          /\ lock[k] = t /\ job[k] = "queued"
               => lock'[k] = t /\ job'[k] = "queued"
    BY <1>2, <1>3 DEF TypeOK
  <2> QED BY <1>1, <1>4, <2>1, <2>2, ClaimsStay
<1>9. \A t, u \in Sessions :
        WillAsk(t)' /\ WillAsk(u)' /\ On(t)' = On(u)' => t = u
  <2>1. \A t \in Sessions \ {s} : WillAsk(t)' => WillAsk(t) /\ On(t)' = On(t)
    BY <1>4 DEF WillAsk, At, On
  <2>2. On(s)' = j BY <1>4 DEF On
  <2> HIDE DEF j
  <2> QED BY <1>6, <2>1, <2>2 DEF ClaimInv
<1>10. \A k \in Jobs : job'[k] \in {"none", "queued"} => asked'[k] = 0
  BY <1>1, <1>2, <1>3 DEF TypeOK, ClaimInv
<1> QED BY <1>7, <1>8, <1>9, <1>10, ClaimsAreClaimInv

\* The order: who asks for it has not, nobody else will, and neither will it.
LEMMA ClaimAsk ==
    ASSUME SessionAssumption, TypeOK, ClaimInv, NEW s \in Sessions,
           AskOrder(s)
    PROVE  ClaimInv'
<1> DEFINE j == On(s)
<1> USE DEF jobs, runs
<1>1. job' = job /\ lock' = lock BY DEF AskOrder
<1>2. j \in Jobs /\ s[2] \in Workers /\ job[j] \notin {"none", "queued"}
      /\ WillAsk(s)
  BY DEF AskOrder, At, TypeOK, JobSteps, ClaimInv, HasClaimed, WillAsk
<1>3. \A k \in Jobs \ {j} : asked'[k] = asked[k] BY DEF AskOrder, TypeOK
<1>4. /\ \A t \in Sessions \ {s} : op'[t] = op[t]
      /\ op'[s].at = "mark" /\ op'[s].on = j
  BY Moves
<1>5. op'[s].next = op[s].next
  BY DEF AskOrder, TypeOK, Transactions
<1>6. Claims(s)' /\ ~WillAsk(s)'
  BY <1>1, <1>2, <1>4, <1>5
  DEF Claims, At, On, HasClaimed, WillAsk, JobSteps
<1>7. \A t \in Sessions \ {s} : WillAsk(t) => On(t) # j
  BY <1>2 DEF ClaimInv
<1>8. \A t \in Sessions \ {s} : Claims(t)'
  <2> SUFFICES ASSUME NEW t \in Sessions \ {s} PROVE Claims(t)' OBVIOUS
  <2>1. op[t].at \in JobSteps => op[t].on \in Jobs BY DEF TypeOK, On
  <2>2. WillAsk(t) => asked'[On(t)] = asked[On(t)]
    BY <1>3, <1>7, <2>1 DEF WillAsk, At, On, JobSteps
  <2>3. op'[t] = op[t] BY <1>4
  <2> QED BY <1>1, <2>1, <2>2, <2>3, ClaimsStay
<1>9. \A t, u \in Sessions :
        WillAsk(t)' /\ WillAsk(u)' /\ On(t)' = On(u)' => t = u
  <2>1. \A t \in Sessions : WillAsk(t)' => WillAsk(t) /\ On(t)' = On(t)
    BY <1>4, <1>6 DEF WillAsk, At, On
  <2> QED BY <2>1 DEF ClaimInv
<1>10. \A k \in Jobs : job'[k] \in {"none", "queued"} => asked'[k] = 0
  BY <1>1, <1>2, <1>3 DEF ClaimInv
<1> QED BY <1>6, <1>8, <1>9, <1>10, ClaimsAreClaimInv

\* A service that starts fails what is running; one that stops drops its
\* transactions with their locks.
LEMMA ClaimServices ==
    ASSUME SessionAssumption, TypeOK, ClaimInv, NEW x \in Services,
           \/ Start(x) \/ SelectInterrupted(x) \/ FailInterrupted(x)
           \/ LogInterrupted(x) \/ Open(x) \/ Stop(x)
    PROVE  ClaimInv'
<1> USE DEF jobs, runs
<1>1. CASE Start(x) \/ SelectInterrupted(x) \/ Open(x)
  <2>1. op' = op /\ job' = job /\ lock' = lock /\ asked' = asked
    BY <1>1 DEF Start, SelectInterrupted, Open
  <2> QED BY <2>1 DEF ClaimInv, At, On, HasClaimed, WillAsk
<1>2. CASE FailInterrupted(x)
  <2>1. op' = op /\ lock' = lock /\ asked' = asked BY <1>2 DEF FailInterrupted
  <2>2. \A j \in Jobs : job[j] # "running" => job'[j] = job[j]
    BY <1>2 DEF FailInterrupted, TypeOK
  <2>3. \A j \in Jobs : job[j] = "running" => job'[j] \in {"running", "failed"}
    BY <1>2 DEF FailInterrupted, TypeOK
  <2>4. \A t \in Sessions : Claims(t)'
    <3> SUFFICES ASSUME NEW t \in Sessions PROVE Claims(t)' OBVIOUS
    <3>1. op[t].at \in JobSteps => op[t].on \in Jobs BY DEF TypeOK, On
    <3>2. \A j \in Jobs :
            /\ job[j] \notin {"none", "queued"} => job'[j] \notin {"none", "queued"}
            /\ lock[j] = t /\ job[j] = "queued"
                 => lock'[j] = t /\ job'[j] = "queued"
      BY <2>1, <2>2, <2>3
    <3> QED BY <2>1, <3>1, <3>2, ClaimsStay
  <2>5. \A t \in Sessions : WillAsk(t)' => WillAsk(t) /\ On(t)' = On(t)
    BY <2>1 DEF WillAsk, At, On
  <2>6. \A j \in Jobs :
          job'[j] \in {"none", "queued"} => job[j] \in {"none", "queued"}
    BY <2>2, <2>3
  <2> QED BY <2>1, <2>4, <2>5, <2>6, NobodyNewAsks
<1>3. CASE LogInterrupted(x)
  <2> DEFINE s == <<x, Boot>>
  <2>1. s \in Sessions /\ s[2] = Boot BY DEF Sessions
  <2>2. PICK j \in recovered[x] : Tell(s, j, "failed", "idle")
    BY <1>3 DEF LogInterrupted
  <2>3. asked' = asked /\ lock' = lock /\ job' = job BY <1>3 DEF LogInterrupted
  <2> HIDE DEF s
  <2>4. /\ \A t \in Sessions \ {s} : op'[t] = op[t]
        /\ op'[s].at = "read" /\ op'[s].next = "idle"
    BY <2>1, <2>2, Moves
  <2>5. Claims(s)' /\ ~WillAsk(s)'
    BY <2>1, <2>4
    DEF Claims, At, On, HasClaimed, WillAsk, JobSteps, SessionAssumption
  <2> QED BY <2>1, <2>3, <2>4, <2>5, ClaimOutside
<1>4. CASE Stop(x)
  <2>1. job' = job /\ asked' = asked BY <1>4 DEF Stop
  <2>2. \A t \in Sessions : op'[t] = IF t[1] = x THEN Idle ELSE op[t]
    BY <1>4 DEF Stop
  <2>3. \A j \in Jobs : lock'[j] = IF lock[j] # None /\ lock[j][1] = x
                                  THEN None ELSE lock[j]
    BY <1>4 DEF Stop
  <2>4. \A t \in Sessions : Claims(t)'
    <3> SUFFICES ASSUME NEW t \in Sessions PROVE Claims(t)' OBVIOUS
    <3>1. CASE t[1] = x
      <4>1. op'[t].at = "idle" /\ op'[t].next = "idle" BY <2>2, <3>1 DEF Idle
      <4> QED BY <4>1 DEF Claims, At, On, HasClaimed, WillAsk, JobSteps
    <3>2. CASE t[1] # x
      <4>1. op[t].at \in JobSteps => op[t].on \in Jobs BY DEF TypeOK, On
      <4>2. \A j \in Jobs : lock[j] = t => lock'[j] = t BY <2>3, <3>2
      <4> QED BY <2>1, <2>2, <3>2, <4>1, <4>2, ClaimsStay
    <3> QED BY <3>1, <3>2
  <2>5. \A t \in Sessions : WillAsk(t)' => WillAsk(t) /\ On(t)' = On(t)
    BY <2>2 DEF WillAsk, At, On, Idle
  <2> QED BY <2>1, <2>4, <2>5, NobodyNewAsks
<1> QED BY <1>1, <1>2, <1>3, <1>4

LEMMA ClaimStep ==
    ASSUME SessionAssumption, TypeOK, ClaimInv, [Next]_vars
    PROVE  ClaimInv'
<1>1. CASE UNCHANGED vars
  BY <1>1 DEF vars, jobs, runs, ClaimInv, At, On, HasClaimed, WillAsk
<1>2. CASE Next
  BY <1>2, ClaimEvents, ClaimRequests, ClaimEnds, ClaimRuns, ClaimLock,
     ClaimClaim, ClaimAsk, ClaimServices DEF Next
<1> QED BY <1>1, <1>2

\* A job is asked for at most once: only who asked can have changed that.
LEMMA AskStep ==
    ASSUME TypeOK, ClaimInv, JobsRunOnce, [Next]_vars
    PROVE  JobsRunOnce'
<1> USE DEF jobs, runs
<1>1. CASE asked' = asked BY <1>1 DEF JobsRunOnce
<1>2. ASSUME NEW s \in Sessions, AskOrder(s) PROVE JobsRunOnce'
  <2>1. On(s) \in Jobs /\ asked[On(s)] = 0
    BY <1>2 DEF AskOrder, At, TypeOK, JobSteps, ClaimInv, WillAsk
  <2>2. \/ asked' = asked
        \/ asked' = [asked EXCEPT ![On(s)] = asked[On(s)] + 1]
    BY <1>2, <2>1 DEF AskOrder, TypeOK
  <2>3. CASE asked' = [asked EXCEPT ![On(s)] = asked[On(s)] + 1]
    <3>1. SUFFICES ASSUME NEW j \in Jobs PROVE asked'[j] <= 1
      BY DEF JobsRunOnce
    <3>2. CASE j = On(s)
      <4>1. asked'[j] = asked[j] + 1 BY <2>3, <3>2 DEF TypeOK
      <4> QED BY <4>1, <2>1, <3>2
    <3>3. CASE j # On(s) BY <2>3, <3>3 DEF TypeOK, JobsRunOnce
    <3> QED BY <3>2, <3>3
  <2> QED BY <1>1, <2>2, <2>3
<1>3. CASE UNCHANGED vars BY <1>1, <1>3 DEF vars
<1>4. CASE Next /\ \A s \in Sessions : ~AskOrder(s)
  <2>1. asked' = asked
    BY <1>4
    DEF Next, ReadTail, InsertEvent, EventRefused, SubmitJob, LockNextJob,
        ClaimJob, MarkJob, RescueJob, AskToCancel, CancelJob, SubmitRun,
        ClaimRun, FinishRun, SelectOldRuns, DeleteRuns, Start,
        SelectInterrupted, FailInterrupted, LogInterrupted, Open, Stop
  <2> QED BY <1>1, <2>1
<1> QED BY <1>2, <1>3, <1>4

\* However many services share the table: no job's order is asked for twice.
THEOREM NoJobRunsTwice ==
    ASSUME SessionAssumption PROVE Spec => []JobsRunOnce
<1>1. Init => JobsRunOnce BY DEF Init, JobsRunOnce
<1>2. Init => ClaimInv BY ClaimInit
<1>3. TypeOK /\ ClaimInv /\ JobsRunOnce /\ [Next]_vars
        => ClaimInv' /\ JobsRunOnce'
  BY ClaimStep, AskStep
<1> QED BY <1>1, <1>2, <1>3, TypeCorrect, PTL DEF Spec


-----------------------------------------------------------------------------
(* Runs.                                                                   *)

RunStates == {"none", "queued", "running", "pruned"} \cup Ended

\* What does not change once a run has ended.
Over == Ended \cup {"pruned"}

Executes(o, r) == o.at = "execute" /\ o.on = r

\* An executor has a run, a cleanup only runs that are over.
RunSession(o, state) ==
    /\ o.at = "execute" => o.on \in Runs
    /\ o.at = "delete" => /\ o.on \subseteq Runs
                          /\ \A r \in o.on : state[r] \in Over

\* A run that was not queued again under its executor is running as long as
\* it has one, which keeps others from claiming it.
RunInv ==
    /\ run \in [Runs -> RunStates]
    /\ \A s \in Sessions : RunSession(op[s], run)
    /\ \A r \in Runs \ again : \A s \in Sessions : Executes(op[s], r) =>
         /\ run[r] = "running"
         /\ \A t \in Sessions : Executes(op[t], r) => t = s

\* Steps after which nobody executes or deletes who did not before.
LEMMA NobodyNewExecutes ==
    ASSUME RunInv,
           run' \in [Runs -> RunStates], again \subseteq again',
           \A r \in Runs : run[r] \in Over => run'[r] \in Over,
           \A s \in Sessions : \/ op'[s] = op[s]
                               \/ op'[s].at \notin {"execute", "delete"},
           \A r \in Runs \ again' : \A s \in Sessions :
               Executes(op'[s], r) => run'[r] = run[r]
    PROVE  RunInv'
<1>1. ASSUME NEW s \in Sessions PROVE RunSession(op'[s], run')
  BY DEF RunInv, RunSession
<1>2. ASSUME NEW r \in Runs \ again', NEW s \in Sessions, Executes(op'[s], r)
      PROVE  /\ run'[r] = "running"
             /\ \A t \in Sessions : Executes(op'[t], r) => t = s
  <2>1. \A t \in Sessions : Executes(op'[t], r) => Executes(op[t], r)
    BY DEF Executes
  <2>2. r \in Runs \ again /\ run'[r] = run[r] BY <1>2
  <2> QED BY <1>2, <2>1, <2>2 DEF RunInv
<1> QED BY <1>1, <1>2 DEF RunInv

\* Everything that writes no run and claims none.
LEMMA RunElsewhere ==
    ASSUME TypeOK, RunInv, NEW s \in Sessions,
           \/ ReadTail(s) \/ InsertEvent(s) \/ EventRefused(s)
           \/ SubmitJob(s) \/ LockNextJob(s) \/ ClaimJob(s) \/ AskOrder(s)
           \/ MarkJob(s) \/ RescueJob(s) \/ AskToCancel(s) \/ CancelJob(s)
    PROVE  RunInv' /\ run' = run
<1> USE DEF jobs, runs
<1>1. run' = run /\ again' = again
  BY DEF ReadTail, InsertEvent, EventRefused, SubmitJob, LockNextJob, ClaimJob,
         AskOrder, MarkJob, RescueJob, AskToCancel, CancelJob
<1>2. op[s].next \in {"idle", "ask", "rescued"} BY DEF TypeOK, Transactions
<1>3. /\ \A t \in Sessions \ {s} : op'[t] = op[t]
      /\ op'[s].at \notin {"execute", "delete"}
  <2>1. CASE ReadTail(s) \/ AskOrder(s) BY <2>1, Moves
  <2>2. CASE InsertEvent(s) BY <1>2, <2>2, Moves DEF InsertEvent
  <2>3. CASE EventRefused(s) BY <2>3, Moves DEF EventRefused
  <2>4. CASE SubmitJob(s) \/ LockNextJob(s) \/ AskToCancel(s)
    BY <2>4, Moves DEF SubmitJob, LockNextJob, AskToCancel
  <2>5. CASE ClaimJob(s) \/ MarkJob(s) \/ RescueJob(s) \/ CancelJob(s)
    BY <2>5, Moves DEF ClaimJob, MarkJob, RescueJob, CancelJob
  <2> QED BY <2>1, <2>2, <2>3, <2>4, <2>5
<1>4. \A t \in Sessions : \/ op'[t] = op[t]
                          \/ op'[t].at \notin {"execute", "delete"}
  BY <1>3
<1>5. run' \in [Runs -> RunStates] BY <1>1 DEF RunInv
<1> QED BY <1>1, <1>4, <1>5, NobodyNewExecutes

LEMMA RunServices ==
    ASSUME TypeOK, RunInv, NEW x \in Services,
           \/ Start(x) \/ SelectInterrupted(x) \/ FailInterrupted(x)
           \/ LogInterrupted(x) \/ Open(x) \/ Stop(x)
    PROVE  /\ RunInv'
           /\ \A r \in Runs : run'[r] = "pruned" => run[r] = "pruned"
<1> USE DEF jobs, runs
<1>1. CASE Start(x)
  <2>1. op' = op /\ again \subseteq again' BY <1>1 DEF Start
  <2>2. \A r \in Runs : run'[r] = IF run[r] = "running" THEN "queued" ELSE run[r]
    BY <1>1 DEF Start
  <2>3. run' \in [Runs -> RunStates]
    BY <1>1 DEF Start, RunInv, RunStates
  <2>4. \A r \in Runs : run[r] \in Over => run'[r] \in Over
    BY <2>2 DEF Over, Ended
  <2>5. ASSUME NEW r \in Runs \ again', NEW s \in Sessions, Executes(op'[s], r)
        PROVE  run'[r] = run[r]
    <3>1. s \in Executing(r) BY <2>1, <2>5 DEF Executing, Executes, At, On
    <3>2. run[r] # "running" BY <1>1, <3>1 DEF Start
    <3> QED BY <2>2, <3>2
  <2>6. RunInv' BY <2>1, <2>3, <2>4, <2>5, NobodyNewExecutes
  <2> QED BY <2>2, <2>6
<1>2. CASE SelectInterrupted(x) \/ FailInterrupted(x) \/ Open(x)
  <2>1. op' = op /\ run' = run /\ again' = again
    BY <1>2 DEF SelectInterrupted, FailInterrupted, Open
  <2> QED BY <2>1 DEF RunInv
<1>3. CASE LogInterrupted(x)
  <2> DEFINE s == <<x, Boot>>
  <2>1. s \in Sessions BY DEF Sessions
  <2>2. PICK j \in recovered[x] : Tell(s, j, "failed", "idle")
    BY <1>3 DEF LogInterrupted
  <2>3. run' = run /\ again' = again BY <1>3 DEF LogInterrupted
  <2> HIDE DEF s
  <2>4. \A t \in Sessions : \/ op'[t] = op[t]
                            \/ op'[t].at \notin {"execute", "delete"}
    BY <2>1, <2>2, Moves
  <2>5. run' \in [Runs -> RunStates] BY <2>3 DEF RunInv
  <2> QED BY <2>3, <2>4, <2>5, NobodyNewExecutes
<1>4. CASE Stop(x)
  <2>1. run' = run /\ again' = again BY <1>4 DEF Stop
  <2>2. \A t \in Sessions : \/ op'[t] = op[t]
                            \/ op'[t].at \notin {"execute", "delete"}
    BY <1>4 DEF Stop, Idle
  <2>3. run' \in [Runs -> RunStates] BY <2>1 DEF RunInv
  <2> QED BY <2>1, <2>2, <2>3, NobodyNewExecutes
<1> QED BY <1>1, <1>2, <1>3, <1>4

LEMMA RunSubmit ==
    ASSUME TypeOK, RunInv, NEW s \in Sessions, SubmitRun(s)
    PROVE  /\ RunInv'
           /\ \A r \in Runs : run'[r] = "pruned" => run[r] = "pruned"
<1>1. PICK r \in Runs : run[r] = "none" /\ run' = [run EXCEPT ![r] = "queued"]
  BY DEF SubmitRun
<1>2. op' = op /\ again' = again BY DEF SubmitRun
<1>3. run' \in [Runs -> RunStates] BY <1>1 DEF RunInv, RunStates
<1>4. \A u \in Runs : run[u] \in Over => run'[u] \in Over
  BY <1>1 DEF RunInv, Over, Ended
<1>5. ASSUME NEW u \in Runs \ again', NEW t \in Sessions, Executes(op'[t], u)
      PROVE  run'[u] = run[u]
  <2>1. run[u] = "running" BY <1>2, <1>5 DEF RunInv
  <2> QED BY <1>1, <2>1 DEF RunInv
<1>6. RunInv' BY <1>2, <1>3, <1>4, <1>5, NobodyNewExecutes
<1> QED BY <1>1, <1>6 DEF RunInv

\* The claim: a queued run that was never queued again has no executor.
LEMMA RunClaim ==
    ASSUME TypeOK, RunInv, NEW s \in Sessions, ClaimRun(s)
    PROVE  /\ RunInv'
           /\ \A r \in Runs : run'[r] = "pruned" => run[r] = "pruned"
<1>1. PICK r \in Runs : /\ run[r] = "queued"
                        /\ run' = [run EXCEPT ![r] = "running"]
                        /\ Goto(s, "execute", r)
  BY DEF ClaimRun
<1>2. again' = again BY DEF ClaimRun
<1>3. /\ \A t \in Sessions \ {s} : op'[t] = op[t]
      /\ op'[s].at = "execute" /\ op'[s].on = r
  BY <1>1, Moves
<1>4. run' \in [Runs -> RunStates] /\ run'[r] = "running"
  BY <1>1 DEF RunInv, RunStates
<1>5. \A u \in Runs \ {r} : run'[u] = run[u] BY <1>1 DEF RunInv
<1>6. \A u \in Runs : run[u] \in Over => run'[u] \in Over
  BY <1>1, <1>5 DEF Over, Ended
<1>7. ASSUME NEW t \in Sessions PROVE RunSession(op'[t], run')
  <2>1. CASE t = s BY <1>3, <2>1 DEF RunSession
  <2>2. CASE t # s BY <1>3, <1>6, <2>2 DEF RunSession, RunInv
  <2> QED BY <2>1, <2>2
<1>8. ASSUME NEW u \in Runs \ again', NEW t \in Sessions, Executes(op'[t], u)
      PROVE  /\ run'[u] = "running"
             /\ \A w \in Sessions : Executes(op'[w], u) => w = t
  <2>1. CASE u = r
    <3>1. \A w \in Sessions : ~Executes(op[w], r)
      BY <1>1, <1>2, <1>8, <2>1 DEF RunInv
    <3>2. \A w \in Sessions : Executes(op'[w], u) => w = s
      BY <1>3, <2>1, <3>1
    <3> QED BY <1>4, <1>8, <2>1, <3>2
  <2>2. CASE u # r
    <3>1. \A w \in Sessions : Executes(op'[w], u) => Executes(op[w], u)
      BY <1>3, <2>2 DEF Executes
    <3> QED BY <1>2, <1>5, <1>8, <2>2, <3>1 DEF RunInv
  <2> QED BY <2>1, <2>2
<1>9. RunInv' BY <1>4, <1>7, <1>8 DEF RunInv
<1> QED BY <1>4, <1>5, <1>9

\* The end: the executor leaves, and nobody else was there.
LEMMA RunFinish ==
    ASSUME TypeOK, RunInv, NEW s \in Sessions, FinishRun(s)
    PROVE  /\ RunInv'
           /\ \A r \in Runs : run'[r] = "pruned" => run[r] = "pruned"
<1> DEFINE r == op[s].on
<1>1. r \in Runs /\ Executes(op[s], r)
  BY DEF FinishRun, At, RunInv, RunSession, Executes
<1>2. PICK v \in Ended :
        run' = [run EXCEPT ![r] = IF run[r] = "pruned" THEN "pruned" ELSE v]
  BY <1>1 DEF FinishRun, On, RunInv
<1>3. again' = again /\ Return(s) BY DEF FinishRun
<1>4. /\ \A t \in Sessions \ {s} : op'[t] = op[t]
      /\ op'[s].at = "idle"
  BY <1>3, Moves
<1> HIDE DEF r
<1>5. run' \in [Runs -> RunStates] BY <1>1, <1>2 DEF RunInv, RunStates
<1>6. /\ \A u \in Runs \ {r} : run'[u] = run[u]
      /\ run'[r] \in Over
  BY <1>1, <1>2 DEF RunInv, Over
<1>7. \A u \in Runs : run[u] \in Over => run'[u] \in Over BY <1>6
<1>8. ASSUME NEW u \in Runs \ again', NEW t \in Sessions, Executes(op'[t], u)
      PROVE  run'[u] = run[u]
  <2>1. t # s /\ Executes(op[t], u) BY <1>4, <1>8 DEF Executes
  <2>2. u # r BY <1>1, <1>3, <2>1 DEF RunInv
  <2> QED BY <1>6, <2>2
<1>9. \A t \in Sessions : \/ op'[t] = op[t]
                          \/ op'[t].at \notin {"execute", "delete"}
  BY <1>4
<1>10. RunInv' BY <1>3, <1>5, <1>7, <1>8, <1>9, NobodyNewExecutes
<1>11. run'[r] = "pruned" => run[r] = "pruned"
  BY <1>1, <1>2 DEF RunInv, Ended
<1> QED BY <1>6, <1>10, <1>11

LEMMA RunSelect ==
    ASSUME TypeOK, RunInv, NEW s \in Sessions, SelectOldRuns(s)
    PROVE  RunInv' /\ run' = run
<1>1. PICK old \in SUBSET {r \in Runs : run[r] \in Ended} : Goto(s, "delete", old)
  BY DEF SelectOldRuns
<1>2. run' = run /\ again' = again BY DEF SelectOldRuns, runs
<1>3. /\ \A t \in Sessions \ {s} : op'[t] = op[t]
      /\ op'[s].at = "delete" /\ op'[s].on = old
  BY <1>1, Moves
<1>4. ASSUME NEW t \in Sessions PROVE RunSession(op'[t], run')
  BY <1>1, <1>2, <1>3 DEF RunSession, RunInv, Over
<1>5. \A t \in Sessions, r \in Runs :
        Executes(op'[t], r) => Executes(op[t], r)
  BY <1>3 DEF Executes
<1> QED BY <1>2, <1>4, <1>5 DEF RunInv

\* The deletion, however long after the selection.
LEMMA RunDelete ==
    ASSUME TypeOK, RunInv, NEW s \in Sessions, DeleteRuns(s)
    PROVE  /\ RunInv'
           /\ \A r \in Runs : run'[r] = "pruned" => run[r] \in Over
<1>1. /\ op[s].on \subseteq Runs
      /\ \A r \in op[s].on : run[r] \in Over
  BY DEF DeleteRuns, At, RunInv, RunSession
<1>2. \A r \in Runs : run'[r] = IF r \in op[s].on THEN "pruned" ELSE run[r]
  BY DEF DeleteRuns, On
<1>3. again' = again /\ Return(s) BY DEF DeleteRuns
<1>4. \A t \in Sessions : \/ op'[t] = op[t]
                          \/ op'[t].at \notin {"execute", "delete"}
  BY <1>3, Moves
<1>5. run' \in [Runs -> RunStates]
  BY DEF DeleteRuns, On, RunInv, RunStates
<1>6. \A r \in Runs : run[r] \in Over => run'[r] \in Over
  BY <1>2 DEF Over
<1>7. ASSUME NEW r \in Runs \ again', NEW t \in Sessions, Executes(op'[t], r)
      PROVE  run'[r] = run[r]
  <2>1. Executes(op[t], r) BY <1>4, <1>7 DEF Executes
  <2>2. run[r] = "running" BY <1>3, <2>1 DEF RunInv
  <2> QED BY <1>1, <1>2, <2>2 DEF Over, Ended
<1>8. RunInv' BY <1>3, <1>4, <1>5, <1>6, <1>7, NobodyNewExecutes
<1>9. \A r \in Runs : run'[r] = "pruned" => run[r] \in Over
  BY <1>1, <1>2 DEF Over
<1> QED BY <1>8, <1>9

LEMMA RunStep ==
    ASSUME TypeOK, RunInv, [Next]_vars
    PROVE  /\ RunInv'
           /\ \A r \in Runs : run'[r] = "pruned" => run[r] \in Over
<1>1. CASE UNCHANGED vars
  BY <1>1 DEF vars, runs, RunInv, Over
<1>2. ASSUME NEW s \in Sessions,
             \/ ReadTail(s) \/ InsertEvent(s) \/ EventRefused(s)
             \/ SubmitJob(s) \/ LockNextJob(s) \/ ClaimJob(s) \/ AskOrder(s)
             \/ MarkJob(s) \/ RescueJob(s) \/ AskToCancel(s) \/ CancelJob(s)
             \/ SubmitRun(s) \/ ClaimRun(s) \/ FinishRun(s)
             \/ SelectOldRuns(s) \/ DeleteRuns(s)
      PROVE  /\ RunInv'
             /\ \A r \in Runs : run'[r] = "pruned" => run[r] \in Over
  BY <1>2, RunElsewhere, RunSubmit, RunClaim, RunFinish, RunSelect, RunDelete
  DEF Over
<1>3. ASSUME NEW x \in Services,
             \/ Start(x) \/ SelectInterrupted(x) \/ FailInterrupted(x)
             \/ LogInterrupted(x) \/ Open(x) \/ Stop(x)
      PROVE  /\ RunInv'
             /\ \A r \in Runs : run'[r] = "pruned" => run[r] \in Over
  BY <1>3, RunServices DEF Over
<1> QED BY <1>1, <1>2, <1>3 DEF Next

LEMMA RunInit ==
    ASSUME Init PROVE RunInv
BY DEF Init, Idle, RunInv, RunStates, RunSession, Executes

\* What has one element at most.
LEMMA AtMostOne ==
    ASSUME NEW S, \A s, t \in S : s = t
    PROVE  Cardinality(S) <= 1
<1>1. CASE S = {} BY <1>1, FS_EmptySet
<1>2. CASE S # {}
  <2>1. PICK s : S = {s} BY <1>2
  <2>2. Cardinality({s}) = 1 BY FS_Singleton
  <2> QED BY <2>1, <2>2
<1> QED BY <1>1, <1>2

\* However many services drain the table: nobody executes a run that another
\* thread executes, unless a service started meanwhile (RunsAreExclusive).
THEOREM RunsHaveOneExecutor ==
    ASSUME SessionAssumption PROVE Spec => []RunsAreExclusive
<1>1. TypeOK /\ RunInv /\ [Next]_vars => RunInv'
  BY RunStep
<1>2. RunInv => RunsAreExclusive
  <2> SUFFICES ASSUME RunInv, NEW r \in Runs \ again
               PROVE  Cardinality(Executing(r)) <= 1
    BY DEF RunsAreExclusive
  <2>1. \A s, t \in Executing(r) : s = t
    BY DEF RunInv, Executing, Executes, At, On
  <2> QED BY <2>1, AtMostOne
<1> QED BY <1>1, <1>2, RunInit, TypeCorrect, PTL DEF Spec

\* And the cleanup, which deletes by ids it read before, deletes no run that
\* has not ended: what has ended stays so (OnlyEndedRunsArePruned).
THEOREM CleanupSparesLiveRuns ==
    ASSUME SessionAssumption PROVE Spec => OnlyEndedRunsArePruned
<1>1. TypeOK /\ RunInv /\ [Next]_vars => RunInv'
  BY RunStep
<1>2. TypeOK /\ RunInv /\ [Next]_vars
        => [\A r \in Runs : run'[r] = "pruned"
              => run[r] \in Ended \cup {"pruned"}]_vars
  BY RunStep DEF Over
<1> QED
  BY <1>1, <1>2, RunInit, TypeCorrect, PTL DEF Spec, OnlyEndedRunsArePruned

=============================================================================
