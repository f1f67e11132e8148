----------------------- MODULE ReleaseLifecycleProofs -----------------------
(***************************************************************************)
(* Proofs about ReleaseLifecycle, for every set of runs, simulations,      *)
(* policies, nonces and threads.                                           *)
(***************************************************************************)
EXTENDS ReleaseLifecycle, TLAPS

-----------------------------------------------------------------------------
(* Type correctness.                                                       *)

LEMMA NewReleaseType == NewRelease \in Rows
BY DEF NewRelease, Rows, States, Terminal, BlockedStates

LEMMA SettledType ==
    ASSUME NEW u \in Rows
    PROVE  Settled(u) \in Rows
BY DEF Settled, Rows, States, Terminal, BlockedStates

LEMMA OrderedType ==
    ASSUME NEW r \in Rows, NEW order \in Orders \cup {None}
    PROVE  Ready(r, order) \in Rows /\ Refused(r) \in Rows
<1>1. {"release_ready", "blocked_exchange_error"} \subseteq States
  BY DEF States, Terminal, BlockedStates
<1>2. Ready(r, order) \in Rows
  BY <1>1 DEF Ready, Rows
<1>3. Refused(r) \in Rows
  BY <1>1 DEF Refused, Rows
<1> QED
  BY <1>2, <1>3

LEMMA FingerprintType ==
    ASSUME NEW r \in Rows
    PROVE  Fingerprint(r) \in Fingerprints
BY DEF Fingerprint, Fingerprints, Rows

\* A handler step moves one thread and gives it a row.
LEMMA GotoType ==
    ASSUME TypeOK, NEW t \in Threads, NEW step \in Steps, NEW r \in Rows,
           Goto(t, step, r)
    PROVE  /\ op' \in [Threads -> Steps]
           /\ held' \in [Threads -> Rows]
BY DEF TypeOK, Goto

LEMMA ReturnType ==
    ASSUME TypeOK, NEW t \in Threads, Return(t)
    PROVE  /\ op' \in [Threads -> Steps]
           /\ held' \in [Threads -> Rows]
BY GotoType, NewReleaseType DEF Return, Steps

LEMMA RequestType ==
    ASSUME TypeOK, NEW t \in Threads, NEW r \in Rows, NEW u \in Rows,
           Request(t, r, u)
    PROVE  /\ op' \in [Threads -> Steps]
           /\ held' \in [Threads -> Rows]
BY GotoType, ReturnType, SettledType DEF Request, Steps

LEMMA ServeType ==
    ASSUME TypeOK, NEW t \in Threads, NEW u \in Rows, Serve(t, u)
    PROVE  TypeOK'
<1>1. "commit" \in Steps
  BY DEF Steps
<1>2. op' \in [Threads -> Steps] /\ held' \in [Threads -> Rows]
  BY <1>1, GotoType, SettledType DEF Serve
<1> QED
  BY <1>2 DEF Serve, TypeOK

LEMMA PlaceCanonicalType ==
    ASSUME TypeOK, NEW run \in Runs, NEW ok \in BOOLEAN,
           NEW who \in Nonces \cup {None, "unapproved"},
           PlaceCanonical(run, who, ok)
    PROVE  /\ evidence' \in [Runs -> Orders \cup {None}]
           /\ placed' \in [Nonces \cup {None} -> Nat]
<1>1. CASE evidence' = evidence /\ placed' = placed
  BY <1>1 DEF TypeOK
<1>2. CASE /\ evidence' = [evidence EXCEPT ![run] =
                  [run |-> run, authority |-> who, settled |-> ok]]
           /\ placed' = IF who = "unapproved" THEN placed
                        ELSE [placed EXCEPT ![who] = @ + 1]
  <2>1. [run |-> run, authority |-> who, settled |-> ok] \in Orders
    BY DEF Orders
  <2>2. evidence' \in [Runs -> Orders \cup {None}]
    BY <1>2, <2>1 DEF TypeOK
  <2>3. placed' \in [Nonces \cup {None} -> Nat]
    BY <1>2 DEF TypeOK
  <2> QED
    BY <2>2, <2>3
<1> QED
  BY <1>1, <1>2 DEF PlaceCanonical


\* An order that succeeds leaves evidence of that run under that authority.
LEMMA PlacedOrder ==
    ASSUME TypeOK, NEW run \in Runs, NEW who \in Nonces \cup {None},
           \A r \in Runs : evidence[r] # None => evidence[r].run = r,
           PlaceCanonical(run, who, TRUE)
    PROVE  /\ evidence'[run] \in Orders
           /\ evidence'[run] # None
           /\ evidence'[run].run = run
           /\ evidence'[run].authority = who
<1>0. who # "unapproved"
  BY NoneAssumption
<1>1. CASE evidence[run] # None
  BY <1>0, <1>1 DEF PlaceCanonical, TypeOK
<1>2. CASE evidence[run] = None
  <2> DEFINE order == [run |-> run, authority |-> who, settled |-> TRUE]
  <2>1. evidence' = [evidence EXCEPT ![run] = order]
    BY <1>2 DEF PlaceCanonical
  <2>2. order \in Orders /\ order.run = run /\ order.authority = who
    BY DEF Orders
  <2>3. evidence'[run] = order
    BY <2>1 DEF TypeOK
  <2>4. order # None
    BY <2>2, NoneAssumption
  <2> QED
    BY <2>2, <2>3, <2>4
<1> QED
  BY <1>1, <1>2

LEMMA ConsumeApprovalType ==
    ASSUME TypeOK, NEW t \in Threads, NEW next \in Steps,
           ConsumeApproval(t, next)
    PROVE  TypeOK'
<1>1. CASE Consumable(row.approval, held[t].approval)
  <2>1. row.approval \in Approvals
    BY <1>1 DEF Consumable, TypeOK, Rows
  <2>2. [row.approval EXCEPT !.consumed = TRUE] \in Approvals
    BY <2>1 DEF Approvals
  <2>3. row' \in Rows
    BY <1>1, <2>2 DEF ConsumeApproval, TypeOK, Rows
  <2>4. op' \in [Threads -> Steps] /\ held' \in [Threads -> Rows]
    BY <1>1, GotoType DEF ConsumeApproval, TypeOK
  <2> QED
    BY <2>3, <2>4 DEF ConsumeApproval, TypeOK
<1>2. CASE ~Consumable(row.approval, held[t].approval)
  BY <1>2, ReturnType DEF ConsumeApproval, TypeOK
<1> QED
  BY <1>1, <1>2

\* The requests that only compute the next row from the one they read.
LEMMA Served ==
    ASSUME TypeOK, NEW t \in Threads,
           \/ BindRedlineRun(t) \/ ImportSimulation(t) \/ BindRiskPolicy(t)
           \/ Reject(t) \/ Kill(t)
    PROVE  \E u \in Rows : Serve(t, u)
<1>1. CASE BindRedlineRun(t)
  <2> PICK run \in Runs :
         Serve(t, [row EXCEPT !.state = StateForBoundRun(verdict[run]),
                              !.run = run, !.redline = verdict[run],
                              !.approval = None, !.manifest = FALSE])
    BY <1>1 DEF BindRedlineRun
  <2>1. StateForBoundRun(verdict[run]) \in States
    BY DEF StateForBoundRun, States, Terminal, BlockedStates
  <2> QED
    BY <2>1 DEF TypeOK, Rows
<1>2. CASE ImportSimulation(t)
  <2> DEFINE next == IF row.policy # None /\ RedlinePass(row)
                     THEN "review_required" ELSE "evidence_collecting"
  <2> PICK sim \in Simulations :
         Serve(t, [row EXCEPT !.state = next, !.simulation = sim,
                              !.approval = None, !.manifest = FALSE])
    BY <1>2 DEF ImportSimulation
  <2>1. next \in States
    BY DEF States
  <2> HIDE DEF next
  <2> QED
    BY <2>1 DEF TypeOK, Rows
<1>3. CASE BindRiskPolicy(t)
  <2> PICK p \in Policies :
         Serve(t, [row EXCEPT !.state = StateForPolicy(row, p), !.policy = p,
                              !.approval = None, !.manifest = FALSE])
    BY <1>3 DEF BindRiskPolicy
  <2>1. StateForPolicy(row, p) \in States
    BY DEF StateForPolicy, States, Terminal, BlockedStates
  <2> QED
    BY <2>1 DEF TypeOK, Rows
<1>4. CASE Reject(t)
  <2> DEFINE a == [decision |-> "reject", nonce |-> None,
                   fp |-> Fingerprint(row), consumed |-> FALSE]
  <2>1. a \in Approvals
    BY FingerprintType DEF Approvals, TypeOK
  <2> HIDE DEF a
  <2>2. [row EXCEPT !.state = "rejected", !.approval = a] \in Rows
    BY <2>1 DEF TypeOK, Rows, States, Terminal
  <2> QED
    BY <1>4, <2>2 DEF Reject, a
<1>5. CASE Kill(t)
  <2>1. [row EXCEPT !.state = "killed"] \in Rows
    BY DEF TypeOK, Rows, States, Terminal
  <2> QED
    BY <1>5, <2>1 DEF Kill
<1> QED
  BY <1>1, <1>2, <1>3, <1>4, <1>5

LEMMA ServedType ==
    ASSUME TypeOK, NEW t \in Threads,
           \/ BindRedlineRun(t) \/ ImportSimulation(t) \/ BindRiskPolicy(t)
           \/ Reject(t) \/ Kill(t)
    PROVE  TypeOK'
BY Served, ServeType

\* New simulation evidence makes a row of a row.
LEMMA ResimulatedRow ==
    ASSUME NEW r \in Rows, NEW s \in States, NEW sim \in Simulations
    PROVE  [r EXCEPT !.state = s, !.simulation = sim, !.approval = None,
                     !.manifest = FALSE] \in Rows
BY DEF Rows

LEMMA ReviewType ==
    ASSUME TypeOK, NEW t \in Threads,
           Approve(t) \/ BuildBundle(t)
    PROVE  TypeOK'
<1>1. CASE Approve(t)
  <2> PICK n \in Nonces \ granted :
         /\ granted' = granted \cup {n}
         /\ IF row.state = "release_ready"
            THEN Goto(t, "commit", [row EXCEPT !.showcase = Approval(n)])
            ELSE LET u == [row EXCEPT !.state = "approved",
                                      !.approval = Approval(n)]
                 IN  /\ Accepts(row, u)
                     /\ Goto(t, "commit", Settled(u))
    BY <1>1 DEF Approve
  <2>1. Approval(n) \in Approvals
    BY FingerprintType DEF Approval, Approvals, TypeOK
  <2>2. /\ [row EXCEPT !.showcase = Approval(n)] \in Rows
        /\ [row EXCEPT !.state = "approved", !.approval = Approval(n)] \in Rows
    <3>1. row \in Rows /\ "approved" \in States
      BY DEF TypeOK, States
    <3>2. [row EXCEPT !.showcase = Approval(n)] \in Rows
      BY <2>1, <3>1 DEF Rows
    <3>3. [row EXCEPT !.state = "approved", !.approval = Approval(n)] \in Rows
      BY <2>1, <3>1 DEF Rows
    <3> QED
      BY <3>2, <3>3
  <2>3. "commit" \in Steps
    BY DEF Steps
  <2>4. op' \in [Threads -> Steps] /\ held' \in [Threads -> Rows]
    BY <2>2, <2>3, GotoType, SettledType
  <2> QED
    BY <1>1, <2>4 DEF Approve, TypeOK
<1>2. CASE BuildBundle(t)
  <2>1. [row EXCEPT !.manifest = TRUE] \in Rows /\ "commit" \in Steps
    BY DEF TypeOK, Rows, Steps
  <2> QED
    BY <1>2, <2>1, GotoType DEF BuildBundle, TypeOK
<1> QED
  BY <1>1, <1>2

LEMMA ExecuteType ==
    ASSUME IInv, NEW t \in Threads,
           \/ Commit(t) \/ StartExecute(t) \/ Consume(t) \/ Reload(t)
           \/ PlaceOrder(t) \/ ExecuteRun(t)
    PROVE  TypeOK'
<1>0. TypeOK
  BY DEF IInv
<1>1. CASE Commit(t)
  BY <1>0, <1>1, ReturnType DEF Commit, TypeOK
<1>2. CASE StartExecute(t)
  <2>1. "consume" \in Steps
    BY DEF Steps
  <2> QED
    BY <1>0, <1>2, <2>1, GotoType DEF StartExecute, TypeOK
<1>3. CASE Consume(t)
  <2>1. "reload" \in Steps
    BY DEF Steps
  <2> QED
    BY <1>0, <1>3, <2>1, ConsumeApprovalType DEF Consume
<1>4. CASE Reload(t)
  <2>1. "order" \in Steps
    BY DEF Steps
  <2>2. [row EXCEPT !.state = "blocked_risk_policy"] \in Rows
    BY <1>0 DEF TypeOK, Rows, States, Terminal, BlockedStates
  <2>3. op' \in [Threads -> Steps] /\ held' \in [Threads -> Rows]
    BY <1>0, <1>4, <2>1, <2>2, GotoType, ReturnType, RequestType DEF Reload, TypeOK
  <2> QED
    BY <1>0, <1>4, <2>3 DEF Reload, TypeOK
<1>5. CASE PlaceOrder(t)
  <2> PICK ok \in BOOLEAN :
         /\ PlaceCanonical(held[t].run, held[t].approval.nonce, ok)
         /\ Request(t, held[t],
                    IF ok THEN Ready(held[t], evidence'[held[t].run])
                          ELSE Refused(held[t]))
    BY <1>5 DEF PlaceOrder
  <2> DEFINE run == held[t].run
             who == held[t].approval.nonce
  <2>1. held[t] \in Rows /\ run \in Runs /\ held[t].approval \in Approvals
    BY <1>5 DEF IInv, TypeOK, Fits, PlaceOrder, Rows
  <2>2. who \in Nonces \cup {None}
    BY <2>1 DEF Approvals
  <2>3. /\ evidence' \in [Runs -> Orders \cup {None}]
        /\ placed' \in [Nonces \cup {None} -> Nat]
    BY <2>1, <2>2, PlaceCanonicalType DEF IInv
  <2>4. Ready(held[t], evidence'[run]) \in Rows /\ Refused(held[t]) \in Rows
    BY <2>1, <2>3, OrderedType
  <2>5. op' \in [Threads -> Steps] /\ held' \in [Threads -> Rows]
    BY <2>1, <2>4, RequestType DEF IInv
  <2> QED
    BY <1>5, <2>3, <2>5 DEF PlaceOrder, IInv, TypeOK
<1>6. CASE ExecuteRun(t)
  <2> PICK run \in Runs, ok \in BOOLEAN : PlaceCanonical(run, "unapproved", ok)
    BY <1>6 DEF ExecuteRun
  <2> QED
    BY <1>0, <1>6, PlaceCanonicalType DEF ExecuteRun, TypeOK
<1> QED
  BY <1>1, <1>2, <1>3, <1>4, <1>5, <1>6

LEMMA ShowcaseType ==
    ASSUME IInv, NEW t \in Threads,
           \/ StartShowcase(t) \/ ConsumeShowcase(t) \/ ReloadShowcase(t)
           \/ PlaceShowcase(t)
    PROVE  TypeOK'
<1>0. TypeOK /\ {"show_consume", "show_reload", "show_order"} \subseteq Steps
  BY DEF IInv, Steps
<1>1. CASE StartShowcase(t)
  BY <1>0, <1>1, GotoType DEF StartShowcase, TypeOK
<1>2. CASE ConsumeShowcase(t)
  <2>1. CASE held[t].showcase = None
    BY <1>0, <1>2, <2>1, ConsumeApprovalType DEF ConsumeShowcase
  <2>2. CASE /\ held[t].showcase # None
             /\ Consumable(row.showcase, held[t].showcase)
    <3>1. row.showcase \in Approvals
      BY <1>0, <2>2 DEF Consumable, TypeOK, Rows
    <3>2. [row.showcase EXCEPT !.consumed = TRUE] \in Approvals
      BY <3>1 DEF Approvals
    <3>3. row' \in Rows
      BY <1>0, <1>2, <2>2, <3>2 DEF ConsumeShowcase, TypeOK, Rows
    <3>4. op' \in [Threads -> Steps] /\ held' \in [Threads -> Rows]
      BY <1>0, <1>2, <2>2, GotoType DEF ConsumeShowcase, TypeOK
    <3> QED
      BY <1>0, <1>2, <2>2, <3>3, <3>4 DEF ConsumeShowcase, TypeOK
  <2>3. CASE /\ held[t].showcase # None
             /\ ~Consumable(row.showcase, held[t].showcase)
    BY <1>0, <1>2, <2>3, ReturnType DEF ConsumeShowcase, TypeOK
  <2> QED
    BY <2>1, <2>2, <2>3
<1>3. CASE ReloadShowcase(t)
  BY <1>0, <1>3, GotoType, ReturnType DEF ReloadShowcase, TypeOK
<1>4. CASE PlaceShowcase(t)
  <2>1. placed' \in [Nonces \cup {None} -> Nat]
    BY <1>0, <1>4 DEF PlaceShowcase, TypeOK
  <2> QED
    BY <1>0, <1>4, <2>1, ReturnType DEF PlaceShowcase, TypeOK
<1> QED
  BY <1>1, <1>2, <1>3, <1>4

LEMMA TypeStep ==
    ASSUME IInv, Next
    PROVE  TypeOK'
<1>0. TypeOK
  BY DEF IInv
<1>1. ASSUME NEW t \in Threads, Step(t)
      PROVE  TypeOK'
  BY <1>0, <1>1, ServedType, ReviewType, ExecuteType, ShowcaseType DEF Step
<1>2. ASSUME NEW run \in Runs, FinishRun(run)
      PROVE  TypeOK'
  BY <1>0, <1>2 DEF FinishRun, TypeOK
<1>3. CASE Crash
  BY <1>0, <1>3, NewReleaseType DEF Crash, TypeOK, Steps
<1> QED
  BY <1>1, <1>2, <1>3 DEF Next

-----------------------------------------------------------------------------
(* Sound rows: what each handler writes is sound if what it read was.      *)

LEMMA NewReleaseSound == Sound(NewRelease)
BY NoneAssumption DEF Sound, NewRelease

\* The rows of the transition table the proof needs.
LEMMA Table ==
    ASSUME NEW r \in Rows, NEW u \in Rows, Accepts(r, u), u.state # r.state
    PROVE  /\ r.state \notin Terminal
           /\ u.state \in {"approved", "rejected"} => r.state = "review_required"
           /\ u.state = "release_ready" => r.state \in {"approved", "demo_executed"}
           /\ r.state = "release_ready" =>
                u.state \in {"released_demo", "released_live_gated", "killed"}
<1>1. /\ r.state \notin Terminal
      /\ r.state \in States
      /\ u.state \in AllowedTransitions[r.state]
  BY DEF Accepts, Rows
<1> QED
  BY <1>1 DEF AllowedTransitions, States, Terminal, BlockedStates

\* The evidence a sound row carries is all the target state asks for.
LEMMA SoundSettles ==
    ASSUME NEW u \in Rows, Sound(u)
    PROVE  Settled(u) = u
BY DEF Settled, MissingEvidence, Sound, Complete, Granted, RedlinePass, Requires

LEMMA BoundRunSound ==
    ASSUME NEW r \in Rows, Sound(r), r.state # "killed",
           NEW run \in Runs, NEW v \in Verdicts, NEW u \in Rows,
           u = [r EXCEPT !.state = StateForBoundRun(v), !.run = run,
                         !.redline = v, !.approval = None, !.manifest = FALSE],
           Accepts(r, u)
    PROVE  Sound(u) /\ u.execution = None
<1>1. u.state \in {"redline_running", "redline_passed", "blocked_withheld",
                   "blocked_unverified"}
  BY DEF StateForBoundRun, Rows
<1>2. r.state # "release_ready" /\ r.state # "blocked_risk_policy"
  BY <1>1, Table DEF Terminal, BlockedStates
<1>3. r.execution = None /\ r.showcase = None
  BY <1>2 DEF Sound
<1>4. /\ u.approval = None /\ u.showcase = None /\ u.execution = None
      /\ u.policy = r.policy
  BY <1>3 DEF Rows
<1> QED
  BY <1>1, <1>2, <1>4 DEF Sound

LEMMA SimulationSound ==
    ASSUME NEW r \in Rows, Sound(r), r.state \notin Terminal,
           NEW sim \in Simulations, NEW u \in Rows,
           u = [r EXCEPT !.state = IF r.policy # None /\ RedlinePass(r)
                                   THEN "review_required"
                                   ELSE "evidence_collecting",
                         !.simulation = sim, !.approval = None,
                         !.manifest = FALSE],
           Accepts(r, u)
    PROVE  Sound(u) /\ u.execution = None
<1>1. u.state \in {"review_required", "evidence_collecting"}
  BY DEF Rows
<1>2. r.state # "release_ready" /\ r.state # "blocked_risk_policy"
  BY <1>1, Table DEF Terminal, BlockedStates
<1>3. r.execution = None /\ r.showcase = None
  BY <1>2 DEF Sound, Terminal
<1>4. /\ u.approval = None /\ u.showcase = None /\ u.execution = None
      /\ u.policy = r.policy /\ u.simulation = sim
      /\ u.run = r.run /\ u.redline = r.redline
  BY <1>3 DEF Rows
<1>5. u.policy # None => ~u.policy.blocks
  BY <1>2, <1>4 DEF Sound
<1>6. u.state = "review_required" => Complete(u)
  BY <1>4, <1>5, NoneAssumption DEF Complete, RedlinePass, Rows
<1> QED
  BY <1>1, <1>4, <1>5, <1>6 DEF Sound

LEMMA PolicySound ==
    ASSUME NEW r \in Rows, Sound(r), r.state \notin Terminal,
           NEW p \in Policies, NEW u \in Rows,
           u = [r EXCEPT !.state = StateForPolicy(r, p), !.policy = p,
                         !.approval = None, !.manifest = FALSE],
           Accepts(r, u)
    PROVE  Sound(u) /\ u.execution = None
<1>1. u.state = StateForPolicy(r, p)
  BY DEF Rows
<1>2. u.state \in {"blocked_risk_policy", "review_required", "evidence_collecting"}
  BY <1>1 DEF StateForPolicy
<1>3. r.state # "release_ready"
  BY <1>2, Table
<1>4. r.execution = None /\ r.showcase = None
  BY <1>3 DEF Sound, Terminal
<1>5. /\ u.approval = None /\ u.showcase = None /\ u.execution = None
      /\ u.policy = p /\ u.simulation = r.simulation
      /\ u.run = r.run /\ u.redline = r.redline
  BY <1>4 DEF Rows
<1>6. p \in PolicyFlags
  BY PolicyAssumption
<1>7. p.blocks => u.state = "blocked_risk_policy"
  BY <1>1 DEF StateForPolicy
<1>8. u.state = "review_required" => Complete(u)
  BY <1>1, <1>5, <1>6, NoneAssumption
  DEF StateForPolicy, Complete, RedlinePass, PolicyFlags
<1> QED
  BY <1>2, <1>5, <1>7, <1>8 DEF Sound

LEMMA ApprovedSound ==
    ASSUME NEW r \in Rows, Sound(r), NEW n \in Nonces,
           r.policy # None, ~r.policy.blocks,
           NEW a, a = [decision |-> "approve", nonce |-> n,
                       fp |-> Fingerprint(r), consumed |-> FALSE],
           NEW u \in Rows, u = [r EXCEPT !.state = "approved", !.approval = a],
           r.state # "release_ready", Accepts(r, u)
    PROVE  Sound(u) /\ u.execution = None
<1>1. r.state \in {"review_required", "approved"}
  BY Table DEF Rows
<1>2. r.execution = None /\ r.showcase = None /\ Complete(r)
  BY <1>1 DEF Sound
<1>3. /\ u.approval = a /\ u.showcase = None /\ u.execution = None
      /\ u.state = "approved" /\ u.policy = r.policy
      /\ u.simulation = r.simulation /\ u.run = r.run
      /\ u.redline = r.redline
  BY <1>2 DEF Rows
<1>4. Complete(u)
  BY <1>2, <1>3 DEF Complete, RedlinePass
<1>5. a # None
  <2>1. Fingerprint(r) \in Fingerprints
    BY FingerprintType
  <2>2. a \in Approvals
    BY <2>1 DEF Approvals
  <2> QED
    BY <2>2, NoneAssumption
<1>6. Granted(u.approval) /\ u.approval.fp = Fingerprint(u)
  BY <1>3, <1>5 DEF Granted, Fingerprint
<1> QED
  BY <1>3, <1>4, <1>6 DEF Sound, Complete

LEMMA ShowcaseApprovedSound ==
    ASSUME NEW r \in Rows, Sound(r), NEW n \in Nonces,
           NEW a, a = [decision |-> "approve", nonce |-> n,
                       fp |-> Fingerprint(r), consumed |-> FALSE],
           NEW u \in Rows, u = [r EXCEPT !.showcase = a],
           r.state = "release_ready"
    PROVE  /\ Sound(u)
           /\ u.execution = r.execution /\ u.run = r.run
<1>1. /\ u.state = r.state /\ u.run = r.run /\ u.redline = r.redline
      /\ u.simulation = r.simulation /\ u.policy = r.policy
      /\ u.approval = r.approval /\ u.showcase = a
      /\ u.execution = r.execution
  BY DEF Rows
<1>2. Fingerprint(u) = Fingerprint(r) /\ (Complete(r) => Complete(u))
  BY <1>1 DEF Fingerprint, Complete, RedlinePass
<1>3. a \in Approvals
  BY FingerprintType DEF Approvals
<1>4. Granted(a) /\ a.fp = Fingerprint(r)
  BY <1>3, NoneAssumption DEF Granted
<1> QED
  BY <1>1, <1>2, <1>4 DEF Sound

LEMMA RejectedSound ==
    ASSUME NEW r \in Rows, Sound(r),
           NEW a, a = [decision |-> "reject", nonce |-> None,
                       fp |-> Fingerprint(r), consumed |-> FALSE],
           NEW u \in Rows, u = [r EXCEPT !.state = "rejected", !.approval = a],
           Accepts(r, u)
    PROVE  Sound(u) /\ u.execution = None
<1>1. r.state \in {"review_required", "rejected"}
  BY Table DEF Rows
<1>2. r.execution = None /\ r.showcase = None /\ Complete(r)
  BY <1>1 DEF Sound
<1>3. /\ u.approval = a /\ u.showcase = None /\ u.execution = None
      /\ u.state = "rejected" /\ u.policy = r.policy
      /\ u.simulation = r.simulation /\ u.run = r.run
      /\ u.redline = r.redline
  BY <1>2 DEF Rows
<1>4. Complete(u) /\ a.fp = Fingerprint(u)
  BY <1>2, <1>3 DEF Complete, RedlinePass, Fingerprint
<1> QED
  BY <1>3, <1>4 DEF Sound, Complete

LEMMA KilledSound ==
    ASSUME NEW r \in Rows, Sound(r),
           NEW u \in Rows, u = [r EXCEPT !.state = "killed"], Accepts(r, u)
    PROVE  /\ Sound(u)
           /\ u.execution = r.execution /\ u.run = r.run
<1>1. /\ u.state = "killed" /\ u.run = r.run /\ u.redline = r.redline
      /\ u.simulation = r.simulation /\ u.policy = r.policy
      /\ u.approval = r.approval /\ u.showcase = r.showcase
      /\ u.execution = r.execution
  BY DEF Rows
<1>2. r.state # "blocked_risk_policy"
  BY <1>1, Table DEF Terminal, BlockedStates
<1>3. Fingerprint(u) = Fingerprint(r)
  BY <1>1 DEF Fingerprint
<1> QED
  BY <1>1, <1>2, <1>3 DEF Sound

\* An order the release could not have: a breaching request, a failed order.
LEMMA BlockedSound ==
    ASSUME NEW r \in Rows, Sound(r), NEW u \in Rows,
           NEW s \in {"blocked_risk_policy", "blocked_exchange_error"},
           u = [r EXCEPT !.state = s], Accepts(r, u)
    PROVE  Sound(u) /\ u.execution = None
<1>1. /\ u.state = s /\ u.run = r.run /\ u.redline = r.redline
      /\ u.simulation = r.simulation /\ u.policy = r.policy
      /\ u.approval = r.approval /\ u.showcase = r.showcase
      /\ u.execution = r.execution
  BY DEF Rows
<1>2. /\ r.state \notin {"release_ready", "killed"}
      /\ r.state = "blocked_risk_policy" => s = "blocked_risk_policy"
  BY <1>1, Table DEF Terminal, BlockedStates
<1>3. Fingerprint(u) = Fingerprint(r)
  BY <1>1 DEF Fingerprint
<1> QED
  BY <1>1, <1>2, <1>3 DEF Sound

LEMMA BundledSound ==
    ASSUME NEW r \in Rows, Sound(r)
    PROVE  LET u == [r EXCEPT !.manifest = TRUE]
           IN  Sound(u) /\ u.execution = r.execution /\ u.run = r.run
<1> DEFINE u == [r EXCEPT !.manifest = TRUE]
<1>1. /\ u.state = r.state /\ u.run = r.run /\ u.redline = r.redline
      /\ u.simulation = r.simulation /\ u.policy = r.policy
      /\ u.approval = r.approval /\ u.showcase = r.showcase
      /\ u.execution = r.execution
  BY DEF Rows
<1> HIDE DEF u
<1>2. Fingerprint(u) = Fingerprint(r) /\ (Complete(r) => Complete(u))
  BY <1>1 DEF Fingerprint, Complete, RedlinePass
<1>3. Sound(u)
  BY <1>1, <1>2 DEF Sound
<1> QED
  BY <1>1, <1>3 DEF u

\* Consuming an approval changes nothing a sound row depends on.
LEMMA ConsumedSound ==
    ASSUME NEW r \in Rows, Sound(r), r.approval # None
    PROVE  LET u == [r EXCEPT !.approval = [r.approval EXCEPT !.consumed = TRUE]]
           IN  Sound(u) /\ u.execution = r.execution /\ u.run = r.run
<1> DEFINE a == [r.approval EXCEPT !.consumed = TRUE]
           u == [r EXCEPT !.approval = a]
<1>1. r.approval \in Approvals
  BY DEF Rows
<1>2. /\ a \in Approvals /\ a.decision = r.approval.decision
      /\ a.nonce = r.approval.nonce /\ a.fp = r.approval.fp
  BY <1>1 DEF Approvals
<1>3. a # None
  BY <1>2, NoneAssumption
<1> HIDE DEF a
<1>4. /\ u.state = r.state /\ u.run = r.run /\ u.redline = r.redline
      /\ u.simulation = r.simulation /\ u.policy = r.policy
      /\ u.approval = a /\ u.showcase = r.showcase
      /\ u.execution = r.execution
  BY DEF Rows
<1> HIDE DEF u
<1>5. /\ Fingerprint(u) = Fingerprint(r) /\ (Complete(r) => Complete(u))
      /\ Granted(r.approval) => Granted(u.approval)
  BY <1>2, <1>3, <1>4 DEF Fingerprint, Complete, RedlinePass, Granted
<1>6. Sound(u)
  BY <1>2, <1>4, <1>5 DEF Sound
<1> QED
  BY <1>4, <1>6 DEF u, a

LEMMA ConsumedShowcaseSound ==
    ASSUME NEW r \in Rows, Sound(r), r.showcase # None
    PROVE  LET u == [r EXCEPT !.showcase = [r.showcase EXCEPT !.consumed = TRUE]]
           IN  Sound(u) /\ u.execution = r.execution /\ u.run = r.run
<1> DEFINE a == [r.showcase EXCEPT !.consumed = TRUE]
           u == [r EXCEPT !.showcase = a]
<1>1. r.showcase \in Approvals
  BY DEF Rows
<1>2. /\ a \in Approvals /\ a.decision = r.showcase.decision
      /\ a.nonce = r.showcase.nonce /\ a.fp = r.showcase.fp
  BY <1>1 DEF Approvals
<1>3. a # None
  BY <1>2, NoneAssumption
<1> HIDE DEF a
<1>4. /\ u.state = r.state /\ u.run = r.run /\ u.redline = r.redline
      /\ u.simulation = r.simulation /\ u.policy = r.policy
      /\ u.approval = r.approval /\ u.showcase = a
      /\ u.execution = r.execution
  BY DEF Rows
<1> HIDE DEF u
<1>5. /\ Fingerprint(u) = Fingerprint(r) /\ (Complete(r) => Complete(u))
      /\ Granted(r.showcase) => Granted(u.showcase)
  BY <1>2, <1>3, <1>4 DEF Fingerprint, Complete, RedlinePass, Granted
<1>6. Sound(u)
  BY <1>2, <1>4, <1>5 DEF Sound
<1> QED
  BY <1>4, <1>6 DEF u, a

LEMMA ReadySound ==
    ASSUME NEW r \in Rows, Sound(r), r.run # None, NEW order \in Orders,
           order.run = r.run, order.authority = r.approval.nonce,
           NEW u \in Rows, u = Ready(r, order), Accepts(r, u)
    PROVE  Sound(u) /\ u.execution = order /\ u.run = r.run
<1>1. r.state \in {"approved", "release_ready"}
  BY Table DEF Ready, Rows, Sound
<1>2. Complete(r) /\ Granted(r.approval)
  BY <1>1 DEF Sound
<1>3. /\ u.state = "release_ready" /\ u.run = r.run /\ u.redline = r.redline
      /\ u.simulation = r.simulation /\ u.policy = r.policy
      /\ u.approval = r.approval /\ u.showcase = r.showcase
      /\ u.execution = order
  BY DEF Ready, Rows
<1>4. Complete(u) /\ Fingerprint(u) = Fingerprint(r)
  BY <1>2, <1>3 DEF Complete, RedlinePass, Fingerprint
<1>5. order # None
  BY NoneAssumption
<1> QED
  BY <1>2, <1>3, <1>4, <1>5 DEF Sound, Complete

-----------------------------------------------------------------------------
(* The invariant, one step of the system at a time.                        *)

\* Evidence files only grow, so what a row refers to stays there.
LEMMA RecordedStays ==
    ASSUME NEW r \in Rows, Sound(r), Recorded(r),
           \A run \in Runs : evidence[run] # None => evidence'[run] = evidence[run]
    PROVE  r.execution # None => r.execution = evidence'[r.run]
<1> HAVE r.execution # None
<1>1. r.execution \in Orders /\ r.execution.run = r.run
  BY DEF Rows, Sound
<1>2. r.run \in Runs
  BY <1>1 DEF Orders
<1> QED
  BY <1>2 DEF Recorded

\* A step of one thread that leaves the evidence files alone.
LEMMA QuietStep ==
    ASSUME IInv, TypeOK', evidence' = evidence,
           Sound(row'), row'.execution # None => row'.execution = evidence[row'.run],
           NEW t \in Threads, NEW step \in Steps, NEW r \in Rows, Goto(t, step, r),
           Sound(r), r.execution # None => r.execution = evidence[r.run],
           Fits(step, r)
    PROVE  IInv'
<1>1. Sound(row)' /\ Recorded(row)'
  BY DEF Recorded
<1>2. ASSUME NEW u \in Threads
      PROVE  (Sound(held[u]) /\ Recorded(held[u]) /\ Fits(op[u], held[u]))'
  <2>1. CASE u = t
    <3>1. op'[u] = step /\ held'[u] = r
      BY <2>1 DEF Goto, IInv, TypeOK
    <3> QED
      BY <3>1 DEF Recorded
  <2>2. CASE u # t
    <3>1. op'[u] = op[u] /\ held'[u] = held[u]
      BY <2>2 DEF Goto, IInv, TypeOK
    <3> QED
      BY <3>1 DEF Recorded, IInv
  <2> QED
    BY <2>1, <2>2
<1>3. (\A run \in Runs : evidence[run] # None => evidence[run].run = run)'
  BY DEF IInv
<1> QED
  BY <1>1, <1>2, <1>3 DEF IInv

\* The same for a thread that ends its request.
LEMMA QuietReturn ==
    ASSUME IInv, TypeOK', evidence' = evidence,
           Sound(row'), row'.execution # None => row'.execution = evidence[row'.run],
           NEW t \in Threads, Return(t)
    PROVE  IInv'
<1>1. NewRelease.execution = None /\ Fits("idle", NewRelease) /\ "idle" \in Steps
  BY DEF NewRelease, Fits, Steps
<1> QED
  BY <1>1, NewReleaseType, NewReleaseSound, QuietStep DEF Return

\* Serving a request whose updated row is sound.
LEMMA ServeStep ==
    ASSUME IInv, TypeOK', NEW t \in Threads, NEW u \in Rows, Serve(t, u),
           Sound(u), u.execution # None => u.execution = evidence[u.run]
    PROVE  IInv'
<1>1. Settled(u) = u
  BY SoundSettles
<1>2. Goto(t, "commit", u) /\ row' = row /\ evidence' = evidence
  BY <1>1 DEF Serve
<1>3. "commit" \in Steps /\ Fits("commit", u)
  BY DEF Steps, Fits
<1>4. Sound(row') /\ (row'.execution # None => row'.execution = evidence[row'.run])
  BY <1>2 DEF IInv, Recorded
<1> QED
  BY <1>2, <1>3, <1>4, QuietStep

LEMMA BindingStep ==
    ASSUME IInv, TypeOK', NEW t \in Threads,
           BindRedlineRun(t) \/ ImportSimulation(t) \/ BindRiskPolicy(t)
    PROVE  IInv'
<1>0. row \in Rows /\ Sound(row) /\ verdict \in [Runs -> Verdicts]
  BY DEF IInv, TypeOK
<1>1. CASE BindRedlineRun(t)
  <2> PICK run \in Runs :
         Serve(t, [row EXCEPT !.state = StateForBoundRun(verdict[run]),
                              !.run = run, !.redline = verdict[run],
                              !.approval = None, !.manifest = FALSE])
    BY <1>1 DEF BindRedlineRun
  <2> DEFINE u == [row EXCEPT !.state = StateForBoundRun(verdict[run]),
                              !.run = run, !.redline = verdict[run],
                              !.approval = None, !.manifest = FALSE]
  <2>1. StateForBoundRun(verdict[run]) \in States
    BY DEF StateForBoundRun, States, Terminal, BlockedStates
  <2>2. u \in Rows /\ verdict[run] \in Verdicts
    BY <1>0, <2>1 DEF Rows
  <2>3. Accepts(row, u) /\ row.state # "killed"
    BY <1>1 DEF BindRedlineRun, Serve
  <2>4. Sound(u) /\ u.execution = None
    BY <1>0, <2>2, <2>3, BoundRunSound
  <2>5. Serve(t, u)
    OBVIOUS
  <2> HIDE DEF u
  <2> QED
    BY <2>2, <2>4, <2>5, ServeStep
<1>2. CASE ImportSimulation(t)
  <2> PICK sim \in Simulations :
         Serve(t, [row EXCEPT !.state = IF row.policy # None /\ RedlinePass(row)
                                        THEN "review_required"
                                        ELSE "evidence_collecting",
                              !.simulation = sim,
                              !.approval = None, !.manifest = FALSE])
    BY <1>2 DEF ImportSimulation
  <2> DEFINE u == [row EXCEPT !.state = IF row.policy # None /\ RedlinePass(row)
                                        THEN "review_required"
                                        ELSE "evidence_collecting",
                              !.simulation = sim,
                              !.approval = None, !.manifest = FALSE]
  <2>1. (IF row.policy # None /\ RedlinePass(row)
         THEN "review_required"
         ELSE "evidence_collecting") \in States
    BY DEF States
  <2>2. u \in Rows
    BY <1>0, <2>1, ResimulatedRow
  <2>3. Accepts(row, u) /\ row.state \notin Terminal
    BY <1>2 DEF ImportSimulation, Serve
  <2>4. Sound(u) /\ u.execution = None
    BY <1>0, <2>2, <2>3, SimulationSound
  <2>5. Serve(t, u)
    OBVIOUS
  <2> HIDE DEF u
  <2> QED
    BY <2>2, <2>4, <2>5, ServeStep
<1>3. CASE BindRiskPolicy(t)
  <2> PICK p \in Policies :
         Serve(t, [row EXCEPT !.state = StateForPolicy(row, p), !.policy = p,
                              !.approval = None, !.manifest = FALSE])
    BY <1>3 DEF BindRiskPolicy
  <2> DEFINE u == [row EXCEPT !.state = StateForPolicy(row, p), !.policy = p,
                              !.approval = None, !.manifest = FALSE]
  <2>1. StateForPolicy(row, p) \in States
    BY DEF StateForPolicy, States, Terminal, BlockedStates
  <2>2. u \in Rows
    BY <1>0, <2>1 DEF Rows
  <2>3. Accepts(row, u) /\ row.state \notin Terminal
    BY <1>3 DEF BindRiskPolicy, Serve
  <2>4. Sound(u) /\ u.execution = None
    BY <1>0, <2>2, <2>3, PolicySound
  <2>5. Serve(t, u)
    OBVIOUS
  <2> HIDE DEF u
  <2> QED
    BY <2>2, <2>4, <2>5, ServeStep
<1> QED
  BY <1>1, <1>2, <1>3

LEMMA ReviewStep ==
    ASSUME IInv, TypeOK', NEW t \in Threads,
           Approve(t) \/ Reject(t) \/ Kill(t) \/ BuildBundle(t)
    PROVE  IInv'
<1>0. /\ row \in Rows /\ Sound(row)
      /\ row.execution # None => row.execution = evidence[row.run]
  BY DEF IInv, TypeOK, Recorded
<1>1. "commit" \in Steps /\ \A r : Fits("commit", r)
  BY DEF Steps, Fits
<1>2. CASE Approve(t)
  <2> PICK n \in Nonces \ granted :
         IF row.state = "release_ready"
         THEN Goto(t, "commit", [row EXCEPT !.showcase = Approval(n)])
         ELSE LET u == [row EXCEPT !.state = "approved",
                                   !.approval = Approval(n)]
              IN  /\ Accepts(row, u)
                  /\ Goto(t, "commit", Settled(u))
    BY <1>2 DEF Approve
  <2>0. row' = row /\ evidence' = evidence /\ Approvable(row)
    BY <1>2 DEF Approve
  <2>1. Approval(n) \in Approvals
    BY <1>0, FingerprintType DEF Approval, Approvals
  <2>2. CASE row.state = "release_ready"
    <3> DEFINE u == [row EXCEPT !.showcase = Approval(n)]
    <3>1. u \in Rows
      BY <1>0, <2>1 DEF Rows
    <3>2. Sound(u) /\ u.execution = row.execution /\ u.run = row.run
      BY <1>0, <2>2, <3>1, ShowcaseApprovedSound DEF Approval
    <3>3. Goto(t, "commit", u)
      BY <2>2
    <3> HIDE DEF u
    <3> QED
      BY <1>0, <1>1, <2>0, <3>1, <3>2, <3>3, QuietStep
  <2>3. CASE row.state # "release_ready"
    <3> DEFINE u == [row EXCEPT !.state = "approved", !.approval = Approval(n)]
    <3>1. u \in Rows
      BY <1>0, <2>1 DEF Rows, States
    <3>2. Accepts(row, u) /\ Goto(t, "commit", Settled(u))
      BY <2>3
    <3>3. row.policy # None /\ ~row.policy.blocks
      BY <2>0 DEF Approvable
    <3>4. Sound(u) /\ u.execution = None
      BY <1>0, <2>3, <3>1, <3>2, <3>3, ApprovedSound DEF Approval
    <3> HIDE DEF u
    <3>5. Goto(t, "commit", u)
      BY <3>1, <3>2, <3>4, SoundSettles
    <3> QED
      BY <1>0, <1>1, <2>0, <3>1, <3>4, <3>5, QuietStep
  <2> QED
    BY <2>2, <2>3
<1>3. CASE Reject(t)
  <2> DEFINE a == [decision |-> "reject", nonce |-> None,
                   fp |-> Fingerprint(row), consumed |-> FALSE]
             u == [row EXCEPT !.state = "rejected", !.approval = a]
  <2>1. a \in Approvals
    BY <1>0, FingerprintType DEF Approvals
  <2>2. u \in Rows
    <3> HIDE DEF a
    <3> QED
      BY <1>0, <2>1 DEF Rows, States, Terminal
  <2>3. Serve(t, u) /\ Accepts(row, u)
    BY <1>3 DEF Reject, Serve
  <2>4. Sound(u) /\ u.execution = None
    BY <1>0, <2>2, <2>3, RejectedSound
  <2> HIDE DEF u
  <2> QED
    BY <2>2, <2>3, <2>4, ServeStep
<1>4. CASE Kill(t)
  <2> DEFINE u == [row EXCEPT !.state = "killed"]
  <2>1. u \in Rows
    BY <1>0 DEF Rows, States, Terminal
  <2>2. Serve(t, u) /\ Accepts(row, u)
    BY <1>4 DEF Kill, Serve
  <2>3. Sound(u) /\ u.execution = row.execution /\ u.run = row.run
    BY <1>0, <2>1, <2>2, KilledSound
  <2> HIDE DEF u
  <2> QED
    BY <1>0, <2>1, <2>2, <2>3, ServeStep
<1>5. CASE BuildBundle(t)
  <2> DEFINE u == [row EXCEPT !.manifest = TRUE]
  <2>1. u \in Rows
    BY <1>0 DEF Rows
  <2>2. Sound(u) /\ u.execution = row.execution /\ u.run = row.run
    BY <1>0, BundledSound
  <2>3. Goto(t, "commit", u) /\ row' = row /\ evidence' = evidence
    BY <1>5 DEF BuildBundle
  <2> HIDE DEF u
  <2> QED
    BY <1>0, <1>1, <2>1, <2>2, <2>3, QuietStep
<1> QED
  BY <1>2, <1>3, <1>4, <1>5

\* Consuming the approval: the store changes, and the thread goes on or ends.
LEMMA ConsumeApprovalStep ==
    ASSUME IInv, TypeOK', NEW t \in Threads, NEW next \in Steps,
           next \notin {"consume", "order", "show_consume", "show_order"},
           ConsumeApproval(t, next)
    PROVE  IInv'
<1>0. /\ row \in Rows /\ Sound(row) /\ evidence' = evidence
      /\ row.execution # None => row.execution = evidence[row.run]
  BY DEF IInv, TypeOK, Recorded, ConsumeApproval
<1>1. CASE Consumable(row.approval, held[t].approval)
  <2> DEFINE u == [row EXCEPT !.approval = [row.approval EXCEPT !.consumed = TRUE]]
  <2>1. row' = u /\ Goto(t, next, held[t])
    BY <1>1 DEF ConsumeApproval
  <2>2. Sound(u) /\ u.execution = row.execution /\ u.run = row.run
    BY <1>0, <1>1, ConsumedSound DEF Consumable
  <2>3. /\ held[t] \in Rows /\ Sound(held[t]) /\ Fits(next, held[t])
        /\ held[t].execution # None => held[t].execution = evidence[held[t].run]
    BY DEF IInv, TypeOK, Recorded, Fits
  <2> HIDE DEF u
  <2> QED
    BY <1>0, <2>1, <2>2, <2>3, QuietStep
<1>2. CASE ~Consumable(row.approval, held[t].approval)
  BY <1>0, <1>2, QuietReturn DEF ConsumeApproval
<1> QED
  BY <1>1, <1>2

\* Placing an order adds at most the evidence of its own run.
LEMMA CanonicalGrows ==
    ASSUME IInv, NEW run \in Runs, NEW who, NEW ok \in BOOLEAN,
           PlaceCanonical(run, who, ok)
    PROVE  /\ \A r \in Runs : evidence[r] # None => evidence'[r] = evidence[r]
           /\ \A r \in Runs : evidence'[r] # None => evidence'[r].run = r
<1>1. CASE evidence' = evidence
  BY <1>1 DEF IInv
<1>2. CASE /\ evidence[run] = None
           /\ evidence' = [evidence EXCEPT ![run] =
                  [run |-> run, authority |-> who, settled |-> ok]]
  <2>1. /\ evidence'[run].run = run
        /\ \A r \in Runs \ {run} : evidence'[r] = evidence[r]
    BY <1>2 DEF IInv, TypeOK
  <2> QED
    BY <1>2, <2>1 DEF IInv
<1> QED
  BY <1>1, <1>2 DEF PlaceCanonical

LEMMA GrowingStep ==
    ASSUME IInv, TypeOK', row' = row,
           \A run \in Runs : evidence[run] # None => evidence'[run] = evidence[run],
           \A run \in Runs : evidence'[run] # None => evidence'[run].run = run,
           NEW t \in Threads, NEW step \in Steps, NEW r \in Rows, Goto(t, step, r),
           Sound(r), r.execution # None => r.execution = evidence'[r.run],
           Fits(step, r)
    PROVE  IInv'
<1>1. Sound(row)' /\ Recorded(row)'
  BY RecordedStays DEF Recorded, IInv, TypeOK
<1>2. ASSUME NEW u \in Threads
      PROVE  (Sound(held[u]) /\ Recorded(held[u]) /\ Fits(op[u], held[u]))'
  <2>1. CASE u = t
    <3>1. op'[u] = step /\ held'[u] = r
      BY <2>1 DEF Goto, IInv, TypeOK
    <3> QED
      BY <3>1 DEF Recorded
  <2>2. CASE u # t
    <3>1. op'[u] = op[u] /\ held'[u] = held[u] /\ held[u] \in Rows
      BY <2>2 DEF Goto, IInv, TypeOK
    <3>2. Sound(held[u]) /\ Recorded(held[u]) /\ Fits(op[u], held[u])
      BY DEF IInv
    <3>3. held[u].execution # None => held[u].execution = evidence'[held[u].run]
      BY <3>1, <3>2, RecordedStays
    <3> QED
      BY <3>1, <3>2, <3>3 DEF Recorded
  <2> QED
    BY <2>1, <2>2
<1> QED
  BY <1>1, <1>2 DEF IInv

LEMMA ExecuteStep ==
    ASSUME IInv, TypeOK', NEW t \in Threads,
           \/ Commit(t) \/ StartExecute(t) \/ Consume(t) \/ Reload(t)
           \/ PlaceOrder(t) \/ ExecuteRun(t)
    PROVE  IInv'
<1>0. /\ row \in Rows /\ Sound(row)
      /\ row.execution # None => row.execution = evidence[row.run]
      /\ held[t] \in Rows /\ Sound(held[t])
      /\ held[t].execution # None => held[t].execution = evidence[held[t].run]
  BY DEF IInv, TypeOK, Recorded
<1>1. CASE Commit(t)
  BY <1>0, <1>1, QuietReturn DEF Commit
<1>2. CASE StartExecute(t)
  <2>1. Granted(row.approval)
    BY <1>0, <1>2 DEF StartExecute, Sound
  <2>2. Fits("consume", row) /\ "consume" \in Steps
    BY <2>1 DEF Fits, Steps
  <2> QED
    BY <1>0, <1>2, <2>2, QuietStep DEF StartExecute
<1>3. CASE Consume(t)
  BY <1>3, ConsumeApprovalStep DEF Consume, Steps
<1>4. CASE Reload(t)
  <2> DEFINE u == [row EXCEPT !.state = "blocked_risk_policy"]
  <2>0. row' = row /\ evidence' = evidence
    BY <1>4 DEF Reload
  <2>1. CASE Request(t, row, u) /\ Accepts(row, u)
    <3>1. u \in Rows
      BY <1>0 DEF Rows, States, Terminal, BlockedStates
    <3>2. Sound(u) /\ u.execution = None
      BY <1>0, <2>1, <3>1, BlockedSound
    <3> HIDE DEF u
    <3>3. Goto(t, "commit", u)
      BY <2>1, <3>1, <3>2, SoundSettles DEF Request
    <3>4. Fits("commit", u) /\ "commit" \in Steps
      BY DEF Fits, Steps
    <3> QED
      BY <1>0, <2>0, <3>1, <3>2, <3>3, <3>4, QuietStep
  <2>2. CASE Return(t)
    BY <1>0, <2>0, <2>2, QuietReturn
  <2>3. CASE /\ Goto(t, "order", row)
             /\ row.run # None /\ row.approval # None
    <3>1. Fits("order", row) /\ "order" \in Steps
      BY <2>3 DEF Fits, Steps
    <3> QED
      BY <1>0, <2>0, <2>3, <3>1, QuietStep
  <2> QED
    BY <1>4, <2>1, <2>2, <2>3 DEF Reload, Request
<1>5. CASE PlaceOrder(t)
  <2> DEFINE run == held[t].run
             who == held[t].approval.nonce
  <2> PICK ok \in BOOLEAN :
         /\ PlaceCanonical(run, who, ok)
         /\ Request(t, held[t], IF ok THEN Ready(held[t], evidence'[run])
                                ELSE Refused(held[t]))
    BY <1>5 DEF PlaceOrder
  <2>0. row' = row /\ TypeOK
    BY <1>5 DEF PlaceOrder, IInv
  <2>1. run \in Runs /\ run # None /\ who \in Nonces \cup {None}
    <3>1. run # None /\ held[t].approval # None
      BY <1>5 DEF PlaceOrder, IInv, Fits
    <3> QED
      BY <1>0, <3>1 DEF Rows, Approvals
  <2>2. /\ \A r \in Runs : evidence[r] # None => evidence'[r] = evidence[r]
        /\ \A r \in Runs : evidence'[r] # None => evidence'[r].run = r
    BY <2>1, CanonicalGrows
  <2> DEFINE u == IF ok THEN Ready(held[t], evidence'[run]) ELSE Refused(held[t])
  <2>3. CASE ~Accepts(held[t], u)
    <3>1. Return(t)
      BY <2>3 DEF Request
    <3>2. /\ NewRelease.execution = None /\ Fits("idle", NewRelease)
          /\ "idle" \in Steps
      BY DEF NewRelease, Fits, Steps
    <3> QED
      BY <2>0, <2>2, <3>1, <3>2, NewReleaseType, NewReleaseSound, GrowingStep
      DEF Return
  <2>4. CASE Accepts(held[t], u) /\ ok
    <3>0. /\ \A r \in Runs : evidence[r] # None => evidence[r].run = r
          /\ PlaceCanonical(run, who, TRUE)
      <4>1. ok = TRUE
        BY <2>4
      <4> QED
        BY <4>1 DEF IInv
    <3>1. /\ evidence'[run] \in Orders /\ evidence'[run].run = run
          /\ evidence'[run].authority = who
      BY <2>0, <2>1, <2>4, <3>0, PlacedOrder
    <3>2. Ready(held[t], evidence'[run]) \in Rows
      BY <1>0, <3>1, OrderedType
    <3>3. u \in Rows /\ u = Ready(held[t], evidence'[run])
      BY <2>4, <3>2
    <3>4. Sound(u) /\ u.execution = evidence'[run] /\ u.run = run
      BY <1>0, <2>1, <2>4, <3>1, <3>3, ReadySound
    <3>5. Request(t, held[t], u)
      OBVIOUS
    <3> HIDE DEF u
    <3>6. Goto(t, "commit", u)
      BY <2>4, <3>3, <3>4, <3>5, SoundSettles DEF Request
    <3>7. Fits("commit", u) /\ "commit" \in Steps
      BY DEF Fits, Steps
    <3> QED
      BY <2>0, <2>2, <3>3, <3>4, <3>6, <3>7, GrowingStep
  <2>5. CASE Accepts(held[t], u) /\ ~ok
    <3>1. u = [held[t] EXCEPT !.state = "blocked_exchange_error"]
      BY <2>5 DEF Refused
    <3>2. u \in Rows
      BY <1>0, <3>1 DEF Rows, States, Terminal, BlockedStates
    <3>3. Sound(u) /\ u.execution = None
      BY <1>0, <2>5, <3>1, <3>2, BlockedSound
    <3>4. Request(t, held[t], u)
      OBVIOUS
    <3> HIDE DEF u
    <3>5. Goto(t, "commit", u)
      BY <2>5, <3>2, <3>3, <3>4, SoundSettles DEF Request
    <3>6. Fits("commit", u) /\ "commit" \in Steps
      BY DEF Fits, Steps
    <3> QED
      BY <2>0, <2>2, <3>2, <3>3, <3>5, <3>6, GrowingStep
  <2> QED
    BY <2>3, <2>4, <2>5
<1>6. CASE ExecuteRun(t)
  <2> PICK run \in Runs, ok \in BOOLEAN : PlaceCanonical(run, "unapproved", ok)
    BY <1>6 DEF ExecuteRun
  <2>1. /\ \A r \in Runs : evidence[r] # None => evidence'[r] = evidence[r]
        /\ \A r \in Runs : evidence'[r] # None => evidence'[r].run = r
    BY CanonicalGrows
  <2>2. row' = row /\ op' = op /\ held' = held
    BY <1>6 DEF ExecuteRun
  <2>3. (Sound(row) /\ Recorded(row))'
    BY <1>0, <2>1, <2>2, RecordedStays DEF Recorded
  <2>4. ASSUME NEW u \in Threads
        PROVE  (Sound(held[u]) /\ Recorded(held[u]) /\ Fits(op[u], held[u]))'
    <3>1. held[u] \in Rows /\ Sound(held[u]) /\ Recorded(held[u])
          /\ Fits(op[u], held[u])
      BY DEF IInv, TypeOK
    <3>2. held[u].execution # None => held[u].execution = evidence'[held[u].run]
      BY <2>1, <3>1, RecordedStays
    <3> QED
      BY <2>2, <3>1, <3>2 DEF Recorded
  <2> QED
    BY <2>1, <2>3, <2>4 DEF IInv
<1> QED
  BY <1>1, <1>2, <1>3, <1>4, <1>5, <1>6

LEMMA ShowcaseStep ==
    ASSUME IInv, TypeOK', NEW t \in Threads,
           \/ StartShowcase(t) \/ ConsumeShowcase(t) \/ ReloadShowcase(t)
           \/ PlaceShowcase(t)
    PROVE  IInv'
<1>0. /\ row \in Rows /\ Sound(row)
      /\ row.execution # None => row.execution = evidence[row.run]
      /\ held[t] \in Rows /\ Sound(held[t])
      /\ held[t].execution # None => held[t].execution = evidence[held[t].run]
  BY DEF IInv, TypeOK, Recorded
<1>1. CASE StartShowcase(t)
  <2>1. Fits("show_consume", row) /\ "show_consume" \in Steps
    BY <1>1 DEF StartShowcase, Fits, Steps
  <2> QED
    BY <1>0, <1>1, <2>1, QuietStep DEF StartShowcase
<1>2. CASE ConsumeShowcase(t)
  <2>1. CASE held[t].showcase = None
    BY <1>2, <2>1, ConsumeApprovalStep DEF ConsumeShowcase, Steps
  <2>2. CASE /\ held[t].showcase # None
             /\ Consumable(row.showcase, held[t].showcase)
    <3> DEFINE u == [row EXCEPT !.showcase = [row.showcase EXCEPT !.consumed = TRUE]]
    <3>1. row' = u /\ Goto(t, "show_reload", held[t]) /\ evidence' = evidence
      BY <1>2, <2>2 DEF ConsumeShowcase
    <3>2. Sound(u) /\ u.execution = row.execution /\ u.run = row.run
      BY <1>0, <2>2, ConsumedShowcaseSound DEF Consumable
    <3>3. Fits("show_reload", held[t]) /\ "show_reload" \in Steps
      BY DEF Fits, Steps
    <3> HIDE DEF u
    <3> QED
      BY <1>0, <3>1, <3>2, <3>3, QuietStep
  <2>3. CASE /\ held[t].showcase # None
             /\ ~Consumable(row.showcase, held[t].showcase)
    BY <1>0, <1>2, <2>3, QuietReturn DEF ConsumeShowcase
  <2> QED
    BY <2>1, <2>2, <2>3
<1>3. CASE ReloadShowcase(t)
  <2>1. row' = row /\ evidence' = evidence
    BY <1>3 DEF ReloadShowcase
  <2>2. CASE Return(t)
    BY <1>0, <2>1, <2>2, QuietReturn
  <2>3. CASE row.execution # None /\ Goto(t, "show_order", row)
    <3>1. Fits("show_order", row) /\ "show_order" \in Steps
      BY <2>3 DEF Fits, Steps
    <3> QED
      BY <1>0, <2>1, <2>3, <3>1, QuietStep
  <2> QED
    BY <1>3, <2>2, <2>3 DEF ReloadShowcase
<1>4. CASE PlaceShowcase(t)
  BY <1>0, <1>4, QuietReturn DEF PlaceShowcase
<1> QED
  BY <1>1, <1>2, <1>3, <1>4

\* Nothing else touches a row or an evidence file.
LEMMA OtherStep ==
    ASSUME IInv, TypeOK',
           (\E run \in Runs : FinishRun(run)) \/ Crash \/ UNCHANGED vars
    PROVE  IInv'
<1>1. row' = row /\ evidence' = evidence
  BY DEF FinishRun, Crash, vars
<1>2. (Sound(row) /\ Recorded(row))'
  BY <1>1 DEF IInv, Recorded
<1>3. CASE Crash
  <2>1. NewRelease.execution = None /\ Fits("idle", NewRelease)
    BY DEF NewRelease, Fits
  <2>2. \A t \in Threads : op'[t] = "idle" /\ held'[t] = NewRelease
    BY <1>3 DEF Crash
  <2>3. (\A t \in Threads : Sound(held[t]) /\ Recorded(held[t]) /\ Fits(op[t], held[t]))'
    BY <2>1, <2>2, NewReleaseSound DEF Recorded
  <2> QED
    BY <1>1, <1>2, <2>3 DEF IInv
<1>4. CASE (\E run \in Runs : FinishRun(run)) \/ UNCHANGED vars
  <2>1. op' = op /\ held' = held
    BY <1>4 DEF FinishRun, vars
  <2> QED
    BY <1>1, <1>2, <2>1 DEF IInv, Recorded
<1> QED
  BY <1>3, <1>4

-----------------------------------------------------------------------------
(* The theorems.                                                           *)

\* The initial state is sound, and every step of a handler, of a worker or
\* of a crash keeps the store and every row object in flight sound.
THEOREM Inductive == Spec => []IInv
<1>1. Init => IInv
  <2> SUFFICES ASSUME Init PROVE IInv
    OBVIOUS
  <2>1. TypeOK
    BY NewReleaseType DEF Init, TypeOK, Steps, Verdicts
  <2>2. NewRelease.execution = None /\ Fits("idle", NewRelease)
    BY DEF NewRelease, Fits
  <2> QED
    BY <2>1, <2>2, NewReleaseSound DEF Init, IInv, Recorded
<1>2. IInv /\ [Next]_vars => IInv'
  <2> SUFFICES ASSUME IInv, [Next]_vars PROVE IInv'
    OBVIOUS
  <2>1. TypeOK'
    <3>1. CASE Next
      BY <3>1, TypeStep
    <3>2. CASE UNCHANGED vars
      BY <3>2 DEF vars, IInv, TypeOK
    <3> QED
      BY <3>1, <3>2
  <2>2. ASSUME NEW t \in Threads, Step(t)
        PROVE  IInv'
    BY <2>1, <2>2, BindingStep, ReviewStep, ExecuteStep, ShowcaseStep DEF Step
  <2>3. CASE (\E run \in Runs : FinishRun(run)) \/ Crash \/ UNCHANGED vars
    BY <2>1, <2>3, OtherStep
  <2> QED
    BY <2>2, <2>3 DEF Next
<1> QED
  BY <1>1, <1>2, PTL DEF Spec

\* Every variable keeps its type.
THEOREM TypeCorrect == Spec => []TypeOK
BY Inductive, PTL DEF IInv

\* However requests interleave, the approval in the row was given for the
\* evidence in the row.
THEOREM ApprovalsBindEvidence == Spec => []ApprovalBindsEvidence
<1>1. IInv => ApprovalBindsEvidence
  BY DEF IInv, Sound, ApprovalBindsEvidence
<1> QED
  BY <1>1, Inductive, PTL

\* A release past review stands on complete evidence.
THEOREM ReviewedReleasesComplete == Spec => []ReviewedIsComplete
<1>1. IInv => ReviewedIsComplete
  BY DEF IInv, Sound, Complete, ReviewedIsComplete
<1> QED
  BY <1>1, Inductive, PTL

\* A ready release is backed by the order of its run and the approval the
\* order was placed under.
THEOREM ReadyReleasesBacked == Spec => []ReadyIsBacked
<1>1. IInv => ReadyIsBacked
  <2> SUFFICES ASSUME IInv PROVE ReadyIsBacked
    OBVIOUS
  <2>1. Tier(row) = "L1" <=> /\ RedlinePass(row) /\ row.simulation # None
                            /\ row.policy # None /\ row.execution # None
    BY DEF Tier, TierSignals
  <2>2. Sound(row)
    BY DEF IInv
  <2>3. Tier(row) = "L1" => row.state \in {"release_ready", "killed"}
    BY <2>1, <2>2 DEF Sound
  <2>4. row.state = "release_ready" => Tier(row) = "L1"
    BY <2>1, <2>2 DEF Sound, Complete
  <2> QED
    BY <2>3, <2>4 DEF IInv, Sound, Recorded, Granted, ReadyIsBacked
<1> QED
  BY <1>1, Inductive, PTL

\* No handler is turned into blocked_missing_evidence.
THEOREM EvidenceNeverMissing == Spec => []NoHandlerMissesEvidence
<1>1. IInv => NoHandlerMissesEvidence
  BY DEF IInv, Sound, NoHandlerMissesEvidence
<1> QED
  BY <1>1, Inductive, PTL

-----------------------------------------------------------------------------
(* With a single client the terminal states are final.  A handler about to *)
(* write then holds the state the store has, or one the store may go to.   *)

OneThread == \A t, u \in Threads : t = u

InStep(step, r, stored) ==
    /\ step = "commit" /\ stored \in Terminal => r.state = stored
    /\ step = "order" => r.state = stored

SerialInv == \A t \in Threads : InStep(op[t], held[t], row.state)

LEMMA SerialGoto ==
    ASSUME IInv, OneThread, NEW t \in Threads, NEW step, NEW r,
           Goto(t, step, r), InStep(step, r, row'.state)
    PROVE  SerialInv'
<1> SUFFICES ASSUME NEW u \in Threads
             PROVE  InStep(op'[u], held'[u], row'.state)
  BY DEF SerialInv
<1>1. u = t
  BY DEF OneThread
<1>2. op'[u] = step /\ held'[u] = r
  BY <1>1 DEF Goto, IInv, TypeOK
<1> QED
  BY <1>2

LEMMA SerialReturn ==
    ASSUME IInv, OneThread, NEW t \in Threads, Return(t)
    PROVE  SerialInv'
<1>1. InStep("idle", NewRelease, row'.state)
  BY DEF InStep
<1> QED
  BY <1>1, SerialGoto DEF Return

\* What a handler writes has the state it asked for: a sound row is never the
\* one blocked for missing evidence.
LEMMA SerialCommit ==
    ASSUME IInv, IInv', OneThread, row' = row, NEW t \in Threads,
           NEW u \in Rows, Goto(t, "commit", Settled(u)),
           row.state \in Terminal => u.state = row.state
    PROVE  SerialInv'
<1>1. held'[t] = Settled(u)
  BY DEF Goto, IInv, TypeOK
<1>2. Settled(u).state # "blocked_missing_evidence"
  BY <1>1 DEF IInv, Sound
<1>3. Settled(u) = u
  BY <1>2 DEF Settled, Rows
<1>4. InStep("commit", u, row'.state)
  BY DEF InStep
<1> QED
  BY <1>3, <1>4, SerialGoto

LEMMA SerialStep ==
    ASSUME IInv, IInv', OneThread, SerialInv, NEW t \in Threads, Step(t)
    PROVE  /\ SerialInv'
           /\ row.state \in Terminal => row'.state = row.state
<1>0. /\ row \in Rows /\ held[t] \in Rows /\ row' \in Rows
      /\ InStep(op[t], held[t], row.state)
  BY DEF IInv, TypeOK, SerialInv
<1>1. CASE \/ BindRedlineRun(t) \/ ImportSimulation(t) \/ BindRiskPolicy(t)
           \/ Reject(t) \/ Kill(t)
  <2> PICK u \in Rows : Serve(t, u)
    BY <1>1, Served DEF IInv
  <2>1. /\ row' = row /\ Goto(t, "commit", Settled(u))
        /\ row.state \in Terminal => u.state = row.state
    BY DEF Serve, Accepts
  <2> QED
    BY <2>1, SerialCommit
<1>2. CASE Approve(t)
  <2> PICK n \in Nonces \ granted :
         IF row.state = "release_ready"
         THEN Goto(t, "commit", [row EXCEPT !.showcase = Approval(n)])
         ELSE LET u == [row EXCEPT !.state = "approved",
                                   !.approval = Approval(n)]
              IN  /\ Accepts(row, u)
                  /\ Goto(t, "commit", Settled(u))
    BY <1>2 DEF Approve
  <2>0. row' = row
    BY <1>2 DEF Approve
  <2>1. Approval(n) \in Approvals
    BY <1>0, FingerprintType DEF Approval, Approvals
  <2>2. CASE row.state = "release_ready"
    <3>1. InStep("commit", [row EXCEPT !.showcase = Approval(n)], row.state)
      BY <1>0, <2>2 DEF InStep, Terminal, BlockedStates
    <3> QED
      BY <2>0, <2>2, <3>1, SerialGoto
  <2>3. CASE row.state # "release_ready"
    <3> DEFINE u == [row EXCEPT !.state = "approved", !.approval = Approval(n)]
    <3>1. u \in Rows
      BY <1>0, <2>1 DEF Rows, States
    <3>2. Accepts(row, u) /\ Goto(t, "commit", Settled(u))
      BY <2>3
    <3> HIDE DEF u
    <3> QED
      BY <2>0, <3>1, <3>2, SerialCommit DEF Accepts
  <2> QED
    BY <2>0, <2>2, <2>3
<1>3. CASE BuildBundle(t)
  <2>1. row' = row /\ Goto(t, "commit", [row EXCEPT !.manifest = TRUE])
    BY <1>3 DEF BuildBundle
  <2>2. InStep("commit", [row EXCEPT !.manifest = TRUE], row.state)
    BY <1>0 DEF InStep, Rows
  <2> QED
    BY <2>1, <2>2, SerialGoto
<1>4. CASE Commit(t)
  BY <1>0, <1>4, SerialReturn DEF Commit, InStep
<1>5. CASE StartExecute(t) \/ StartShowcase(t)
  <2>1. \A step \in {"consume", "show_consume"} : InStep(step, row, row.state)
    BY DEF InStep
  <2> QED
    BY <1>5, <2>1, SerialGoto DEF StartExecute, StartShowcase
<1>6. CASE Consume(t) \/ ConsumeShowcase(t)
  <2>1. row'.state = row.state
    BY <1>0, <1>6 DEF Consume, ConsumeShowcase, ConsumeApproval, Rows
  <2>2. \A step \in {"reload", "show_reload"} : InStep(step, held[t], row'.state)
    BY DEF InStep
  <2>3. \/ Goto(t, "reload", held[t]) \/ Goto(t, "show_reload", held[t])
        \/ Return(t)
    BY <1>6 DEF Consume, ConsumeShowcase, ConsumeApproval
  <2> QED
    BY <2>1, <2>2, <2>3, SerialGoto, SerialReturn
<1>7. CASE Reload(t) \/ ReloadShowcase(t)
  <2> DEFINE u == [row EXCEPT !.state = "blocked_risk_policy"]
  <2>0. row' = row
    BY <1>7 DEF Reload, ReloadShowcase
  <2>1. CASE Goto(t, "order", row) \/ Goto(t, "show_order", row)
    <3>1. InStep("order", row, row.state) /\ InStep("show_order", row, row.state)
      BY DEF InStep
    <3> QED
      BY <2>0, <2>1, <3>1, SerialGoto
  <2>2. CASE Accepts(row, u) /\ Goto(t, "commit", Settled(u))
    <3>1. u \in Rows
      BY <1>0 DEF Rows, States, Terminal, BlockedStates
    <3> HIDE DEF u
    <3> QED
      BY <2>0, <2>2, <3>1, SerialCommit DEF Accepts
  <2>3. CASE Return(t)
    BY <2>0, <2>3, SerialReturn
  <2> QED
    BY <1>7, <2>1, <2>2, <2>3 DEF Reload, ReloadShowcase, Request
<1>8. CASE PlaceOrder(t)
  <2> DEFINE run == held[t].run
  <2> PICK ok \in BOOLEAN :
         Request(t, held[t], IF ok THEN Ready(held[t], evidence'[run])
                             ELSE Refused(held[t]))
    BY <1>8 DEF PlaceOrder
  <2> DEFINE u == IF ok THEN Ready(held[t], evidence'[run]) ELSE Refused(held[t])
  <2>0. row' = row /\ held[t].state = row.state
    BY <1>0, <1>8 DEF PlaceOrder, InStep
  <2>1. CASE Return(t)
    BY <2>0, <2>1, SerialReturn
  <2>2. CASE Accepts(held[t], u) /\ Goto(t, "commit", Settled(u))
    <3>1. run \in Runs
      BY <1>0, <1>8 DEF PlaceOrder, IInv, Fits, Rows
    <3>2. evidence'[run] \in Orders \cup {None}
      BY <3>1 DEF IInv, TypeOK
    <3>3. u \in Rows
      BY <1>0, <3>2, OrderedType
    <3> HIDE DEF u
    <3>4. row.state \in Terminal => u.state = row.state
      BY <2>0, <2>2 DEF Accepts
    <3> QED
      BY <2>0, <2>2, <3>3, <3>4, SerialCommit
  <2>3. Return(t) \/ (Accepts(held[t], u) /\ Goto(t, "commit", Settled(u)))
    BY DEF Request
  <2> QED
    BY <2>0, <2>1, <2>2, <2>3
<1>9. CASE ExecuteRun(t)
  BY <1>9 DEF ExecuteRun, SerialInv
<1>10. CASE PlaceShowcase(t)
  BY <1>10, SerialReturn DEF PlaceShowcase
<1> QED
  BY <1>1, <1>2, <1>3, <1>4, <1>5, <1>6, <1>7, <1>8, <1>9, <1>10 DEF Step

\* As long as a client waits for each answer before it asks again, a blocked
\* or terminal release is never reopened.
THEOREM SerialTerminalIsFinal ==
    ASSUME OneThread
    PROVE  Spec => TerminalIsFinal
<1>1. Init => SerialInv
  BY DEF Init, SerialInv, InStep
<1>2. IInv /\ IInv' /\ SerialInv /\ [Next]_vars
        => /\ SerialInv'
           /\ [row.state \in Terminal => row'.state = row.state]_row
  <2> SUFFICES ASSUME IInv, IInv', SerialInv, [Next]_vars
               PROVE  /\ SerialInv'
                      /\ row.state \in Terminal => row'.state = row.state
    OBVIOUS
  <2>1. ASSUME NEW t \in Threads, Step(t)
        PROVE  /\ SerialInv'
               /\ row.state \in Terminal => row'.state = row.state
    BY <2>1, SerialStep
  <2>2. CASE (\E run \in Runs : FinishRun(run)) \/ UNCHANGED vars
    BY <2>2 DEF FinishRun, vars, SerialInv
  <2>3. CASE Crash
    BY <2>3 DEF Crash, SerialInv, InStep
  <2> QED
    BY <2>1, <2>2, <2>3 DEF Next
<1> QED
  BY <1>1, <1>2, Inductive, PTL DEF Spec, TerminalIsFinal

-----------------------------------------------------------------------------
(* With a single client an approval is spent on one order at most.  Every  *)
(* approval in a row object was granted, and has been consumed unless no   *)
(* order rests on it; a handler on its way to an order holds the stored    *)
(* row, in the state that allows the order.                                *)

\* g: the nonces granted; p: the orders placed on each.
Honest(a, g, p) ==
    a # None /\ a.nonce # None =>
        a.nonce \in g /\ (a.consumed \/ p[a.nonce] = 0)

HonestRow(r, g, p) ==
    /\ Honest(r.approval, g, p) /\ Honest(r.showcase, g, p)
    /\ r.execution # None => r.approval.consumed

\* Consumed, and no order placed on it yet.
Spent(a, p) == a # None /\ a.nonce # None /\ a.consumed /\ p[a.nonce] = 0

OnTheWay(step, r, stored, p) ==
    /\ step \in {"consume", "order", "show_consume", "show_order"} => r = stored
    /\ step \in {"consume", "reload", "order"} =>
         stored.state = "approved" /\ stored.execution = None
    /\ step \in {"reload", "order"} => Spent(stored.approval, p)
    /\ step \in {"show_consume", "show_reload", "show_order"} =>
         stored.state = "release_ready" /\ stored.showcase # None
    /\ step = "show_consume" => stored.showcase.nonce # None
    /\ step \in {"show_reload", "show_order"} => Spent(stored.showcase, p)
    /\ step = "commit" =>
         \/ Fingerprint(r) = Fingerprint(stored)
         \/ r.approval = None /\ r.state \notin {"approved", "release_ready"}

SpendInv ==
    /\ OrdersNeedApproval
    /\ HonestRow(row, granted, placed)
    /\ \A t \in Threads : /\ HonestRow(held[t], granted, placed)
                          /\ OnTheWay(op[t], held[t], row, placed)

\* What the two action properties ask of a step.
LiveStep ==
    /\ placed' # placed => row.state \in {"approved", "release_ready"}
    /\ Fingerprint(row') # Fingerprint(row)
         => /\ row'.approval = None
            /\ row'.state \notin {"approved", "release_ready"}

LEMMA HonestStays ==
    ASSUME NEW r, NEW g, NEW h, NEW p, g \subseteq h, HonestRow(r, g, p)
    PROVE  HonestRow(r, h, p)
BY DEF HonestRow, Honest

\* A step of the one handler that places no order.
LEMMA SpendGoto ==
    ASSUME IInv, OneThread, SpendInv, NEW t \in Threads, NEW step, NEW r,
           Goto(t, step, r), placed' = placed,
           granted' = granted \/ \E n \in Nonces : granted' = granted \cup {n},
           HonestRow(row', granted', placed), HonestRow(r, granted', placed),
           OnTheWay(step, r, row', placed)
    PROVE  SpendInv'
<1>1. OrdersNeedApproval'
  BY DEF SpendInv, OrdersNeedApproval
<1>2. ASSUME NEW u \in Threads
      PROVE  /\ HonestRow(held'[u], granted', placed')
             /\ OnTheWay(op'[u], held'[u], row', placed')
  <2>1. u = t
    BY DEF OneThread
  <2>2. op'[u] = step /\ held'[u] = r
    BY <2>1 DEF Goto, IInv, TypeOK
  <2> QED
    BY <2>2
<1> QED
  BY <1>1, <1>2 DEF SpendInv

LEMMA SpendReturn ==
    ASSUME IInv, OneThread, SpendInv, NEW t \in Threads, Return(t),
           placed' = placed, granted' = granted,
           HonestRow(row', granted', placed)
    PROVE  SpendInv'
<1>1. HonestRow(NewRelease, granted', placed)
  BY DEF HonestRow, Honest, NewRelease
<1>2. OnTheWay("idle", NewRelease, row', placed)
  BY DEF OnTheWay
<1> QED
  BY <1>1, <1>2, SpendGoto DEF Return

\* A request that computes its row from the stored one.  Only a sound row is
\* written, so that whoever loses the approval has no execution either.
LEMMA SpendCommit ==
    ASSUME IInv, IInv', OneThread, SpendInv, row' = row, placed' = placed,
           granted' = granted \/ \E n \in Nonces : granted' = granted \cup {n},
           NEW t \in Threads, NEW u \in Rows, Goto(t, "commit", Settled(u)),
           Honest(u.approval, granted', placed),
           Honest(u.showcase, granted', placed),
           u.execution # None =>
             u.approval = row.approval /\ row.execution # None,
           \/ Fingerprint(u) = Fingerprint(row)
           \/ u.approval = None /\ u.state \notin {"approved", "release_ready"}
    PROVE  SpendInv'
<1>1. held'[t] = Settled(u)
  BY DEF Goto, IInv, TypeOK
<1>2. Settled(u).state # "blocked_missing_evidence"
  BY <1>1 DEF IInv, Sound
<1>3. Settled(u) = u
  BY <1>2 DEF Settled, Rows
<1>4. HonestRow(row', granted', placed)
  BY HonestStays DEF SpendInv
<1>5. HonestRow(u, granted', placed)
  BY <1>4 DEF HonestRow
<1>6. OnTheWay("commit", u, row', placed)
  BY DEF OnTheWay
<1> QED
  BY <1>3, <1>4, <1>5, <1>6, SpendGoto

\* A binding clears the approval; a review keeps it or replaces it by one that
\* says reject; both keep what was executed on it.
LEMMA SpendServe ==
    ASSUME IInv, IInv', OneThread, SpendInv, NEW t \in Threads,
           NEW u \in Rows, Serve(t, u),
           u.showcase = row.showcase, u.execution = row.execution,
           \/ u.approval = None /\ u.state \notin {"approved", "release_ready"}
           \/ /\ Fingerprint(u) = Fingerprint(row)
              /\ \/ u.approval = row.approval
                 \/ u.approval.decision = "reject" /\ u.approval.nonce = None
    PROVE  SpendInv' /\ LiveStep
<1>0. row \in Rows /\ HonestRow(row, granted, placed)
  BY DEF IInv, TypeOK, SpendInv
<1>1. /\ UNCHANGED <<row, placed, granted>>
      /\ Goto(t, "commit", Settled(u))
  BY DEF Serve
<1>2. Honest(u.approval, granted', placed) /\ Honest(u.showcase, granted', placed)
  BY <1>0, <1>1 DEF HonestRow, Honest
<1>3. u.execution # None => u.approval = row.approval /\ row.execution # None
  <2>1. held'[t] = Settled(u)
    BY <1>1 DEF Goto, IInv, TypeOK
  <2>2. Settled(u).approval = u.approval /\ Settled(u).execution = u.execution
    BY DEF Settled, Rows
  <2>3. Sound(held'[t])
    BY DEF IInv
  <2>4. u.execution # None => Granted(u.approval)
    BY <2>1, <2>2, <2>3 DEF Sound
  <2> QED
    BY <2>4 DEF Granted
<1>4. SpendInv'
  BY <1>1, <1>2, <1>3, SpendCommit
<1>5. LiveStep
  BY <1>1 DEF LiveStep
<1> QED
  BY <1>4, <1>5

LEMMA SpendBinding ==
    ASSUME IInv, IInv', OneThread, SpendInv, NEW t \in Threads,
           \/ BindRedlineRun(t) \/ ImportSimulation(t) \/ BindRiskPolicy(t)
           \/ Reject(t) \/ Kill(t)
    PROVE  SpendInv' /\ LiveStep
<1>0. row \in Rows
  BY DEF IInv, TypeOK
<1>1. CASE BindRedlineRun(t)
  <2> PICK run \in Runs :
         Serve(t, [row EXCEPT !.state = StateForBoundRun(verdict[run]),
                              !.run = run, !.redline = verdict[run],
                              !.approval = None, !.manifest = FALSE])
    BY <1>1 DEF BindRedlineRun
  <2> DEFINE v == [row EXCEPT !.state = StateForBoundRun(verdict[run]),
                              !.run = run, !.redline = verdict[run],
                              !.approval = None, !.manifest = FALSE]
  <2>1. /\ StateForBoundRun(verdict[run]) \in States
        /\ StateForBoundRun(verdict[run]) \notin {"approved", "release_ready"}
    BY DEF StateForBoundRun, States, Terminal, BlockedStates
  <2>2. verdict[run] \in Verdicts
    BY DEF IInv, TypeOK
  <2>3. /\ v \in Rows /\ v.approval = None
        /\ v.state \notin {"approved", "release_ready"}
        /\ v.showcase = row.showcase /\ v.execution = row.execution
    BY <1>0, <2>1, <2>2 DEF Rows
  <2> HIDE DEF v
  <2> QED
    BY <2>3, SpendServe DEF v
<1>2. CASE ImportSimulation(t)
  <2> DEFINE next == IF row.policy # None /\ RedlinePass(row)
                     THEN "review_required" ELSE "evidence_collecting"
  <2> PICK sim \in Simulations :
         Serve(t, [row EXCEPT !.state = next, !.simulation = sim,
                              !.approval = None, !.manifest = FALSE])
    BY <1>2 DEF ImportSimulation
  <2> DEFINE v == [row EXCEPT !.state = next, !.simulation = sim,
                              !.approval = None, !.manifest = FALSE]
  <2>1. next \in States /\ next \notin {"approved", "release_ready"}
    BY DEF States
  <2> HIDE DEF next
  <2>2. /\ v \in Rows /\ v.approval = None
        /\ v.state \notin {"approved", "release_ready"}
        /\ v.showcase = row.showcase /\ v.execution = row.execution
    BY <1>0, <2>1 DEF Rows
  <2> HIDE DEF v
  <2> QED
    BY <2>2, SpendServe DEF v
<1>3. CASE BindRiskPolicy(t)
  <2> PICK p \in Policies :
         Serve(t, [row EXCEPT !.state = StateForPolicy(row, p), !.policy = p,
                              !.approval = None, !.manifest = FALSE])
    BY <1>3 DEF BindRiskPolicy
  <2> DEFINE v == [row EXCEPT !.state = StateForPolicy(row, p), !.policy = p,
                              !.approval = None, !.manifest = FALSE]
  <2>1. /\ StateForPolicy(row, p) \in States
        /\ StateForPolicy(row, p) \notin {"approved", "release_ready"}
    BY DEF StateForPolicy, States, Terminal, BlockedStates
  <2>2. /\ v \in Rows /\ v.approval = None
        /\ v.state \notin {"approved", "release_ready"}
        /\ v.showcase = row.showcase /\ v.execution = row.execution
    BY <1>0, <2>1 DEF Rows
  <2> HIDE DEF v
  <2> QED
    BY <2>2, SpendServe DEF v
<1>4. CASE Reject(t)
  <2> DEFINE a == [decision |-> "reject", nonce |-> None,
                   fp |-> Fingerprint(row), consumed |-> FALSE]
             v == [row EXCEPT !.state = "rejected", !.approval = a]
  <2>0. "rejected" \in States
    BY DEF States, Terminal
  <2>1. a \in Approvals /\ a.decision = "reject" /\ a.nonce = None
    BY <1>0, FingerprintType DEF Approvals
  <2>2. Serve(t, v)
    BY <1>4 DEF Reject
  <2> HIDE DEF a
  <2>3. /\ v \in Rows /\ v.approval = a
        /\ v.showcase = row.showcase /\ v.execution = row.execution
        /\ Fingerprint(v) = Fingerprint(row)
    BY <1>0, <2>0, <2>1 DEF Rows, Fingerprint
  <2> HIDE DEF v
  <2> QED
    BY <2>1, <2>2, <2>3, SpendServe
<1>5. CASE Kill(t)
  <2> DEFINE v == [row EXCEPT !.state = "killed"]
  <2>0. "killed" \in States
    BY DEF States, Terminal
  <2>1. /\ v \in Rows /\ v.approval = row.approval
        /\ v.showcase = row.showcase /\ v.execution = row.execution
        /\ Fingerprint(v) = Fingerprint(row)
    BY <1>0, <2>0 DEF Rows, Fingerprint
  <2>2. Serve(t, v)
    BY <1>5 DEF Kill
  <2> HIDE DEF v
  <2> QED
    BY <2>1, <2>2, SpendServe
<1> QED
  BY <1>1, <1>2, <1>3, <1>4, <1>5

\* A new approval rests on a nonce no order was placed on.
LEMMA SpendApprove ==
    ASSUME IInv, IInv', OneThread, SpendInv, NEW t \in Threads, Approve(t)
    PROVE  SpendInv' /\ LiveStep
<1>0. row \in Rows /\ HonestRow(row, granted, placed)
  BY DEF IInv, TypeOK, SpendInv
<1>1. UNCHANGED <<row, placed>>
  BY DEF Approve
<1> PICK n \in Nonces \ granted :
       /\ granted' = granted \cup {n}
       /\ IF row.state = "release_ready"
          THEN Goto(t, "commit", [row EXCEPT !.showcase = Approval(n)])
          ELSE LET u == [row EXCEPT !.state = "approved",
                                    !.approval = Approval(n)]
               IN  /\ Accepts(row, u)
                   /\ Goto(t, "commit", Settled(u))
  BY DEF Approve
<1> DEFINE a == Approval(n)
<1>2. a \in Approvals /\ a.nonce = n /\ a # None
  <2>1. a \in Approvals /\ a.nonce = n
    BY <1>0, FingerprintType DEF Approval, Approvals
  <2> QED
    BY <2>1, NoneAssumption
<1>3. placed[n] = 0
  BY DEF SpendInv, OrdersNeedApproval, IInv, TypeOK
<1> HIDE DEF a
<1>4. Honest(a, granted', placed)
  BY <1>2, <1>3 DEF Honest
<1>5. HonestRow(row, granted', placed)
  BY <1>0, HonestStays
<1>6. CASE row.state = "release_ready"
  <2> DEFINE v == [row EXCEPT !.showcase = a]
  <2>1. /\ v.approval = row.approval /\ v.showcase = a
        /\ v.execution = row.execution /\ Fingerprint(v) = Fingerprint(row)
    BY <1>0 DEF Rows, Fingerprint
  <2>2. Goto(t, "commit", v)
    BY <1>6 DEF a
  <2> HIDE DEF v
  <2>3. HonestRow(v, granted', placed)
    BY <1>4, <1>5, <2>1 DEF HonestRow
  <2>4. OnTheWay("commit", v, row, placed)
    BY <2>1 DEF OnTheWay
  <2> QED
    BY <1>1, <1>5, <2>2, <2>3, <2>4, SpendGoto DEF LiveStep
<1>7. CASE row.state # "release_ready"
  <2> DEFINE v == [row EXCEPT !.state = "approved", !.approval = a]
  <2>0. "approved" \in States
    BY DEF States
  <2>1. /\ v \in Rows /\ v.state = "approved"
        /\ v.approval = a /\ v.showcase = row.showcase
        /\ v.execution = row.execution /\ Fingerprint(v) = Fingerprint(row)
    BY <1>0, <1>2, <2>0 DEF Rows, Fingerprint
  <2>2. Goto(t, "commit", Settled(v))
    BY <1>7 DEF a
  <2> HIDE DEF v
  <2>3. v.execution = None
    <3>1. held'[t] = Settled(v)
      BY <2>2 DEF Goto, IInv, TypeOK
    <3>2. Sound(held'[t])
      BY DEF IInv
    <3>3. Settled(v).state # "blocked_missing_evidence"
      BY <3>1, <3>2 DEF Sound
    <3>4. Settled(v) = v
      BY <2>1, <3>3 DEF Settled, Rows
    <3> QED
      BY <2>1, <3>1, <3>2, <3>4 DEF Sound
  <2>4. SpendInv'
    BY <1>1, <1>4, <1>5, <2>1, <2>2, <2>3, SpendCommit DEF HonestRow
  <2> QED
    BY <1>1, <2>4 DEF LiveStep
<1> QED
  BY <1>6, <1>7

\* What a handler writes is what it was seen to hold.
LEMMA SpendWrites ==
    ASSUME IInv, IInv', OneThread, SpendInv, NEW t \in Threads,
           BuildBundle(t) \/ Commit(t)
    PROVE  SpendInv' /\ LiveStep
<1>0. /\ row \in Rows /\ HonestRow(row, granted, placed)
      /\ HonestRow(held[t], granted, placed)
      /\ OnTheWay(op[t], held[t], row, placed)
  BY DEF IInv, TypeOK, SpendInv
<1>1. CASE BuildBundle(t)
  <2> DEFINE v == [row EXCEPT !.manifest = TRUE]
  <2>1. /\ v.approval = row.approval /\ v.showcase = row.showcase
        /\ v.execution = row.execution /\ Fingerprint(v) = Fingerprint(row)
    BY <1>0 DEF Rows, Fingerprint
  <2>2. Goto(t, "commit", v) /\ UNCHANGED <<row, granted, placed>>
    BY <1>1 DEF BuildBundle
  <2> HIDE DEF v
  <2>3. HonestRow(v, granted, placed) /\ OnTheWay("commit", v, row, placed)
    BY <1>0, <2>1 DEF HonestRow, OnTheWay
  <2> QED
    BY <1>0, <2>2, <2>3, SpendGoto DEF LiveStep
<1>2. CASE Commit(t)
  <2>1. /\ op[t] = "commit" /\ row' = held[t] /\ Return(t)
        /\ UNCHANGED <<granted, placed>>
    BY <1>2 DEF Commit
  <2>2. SpendInv'
    BY <1>0, <2>1, SpendReturn
  <2> QED
    BY <1>0, <2>1, <2>2 DEF LiveStep, OnTheWay
<1> QED
  BY <1>1, <1>2

\* The way to an order: the stored approval is usable, then consumed, and the
\* row is read again.
LEMMA SpendStarts ==
    ASSUME IInv, IInv', OneThread, SpendInv, NEW t \in Threads,
           StartExecute(t) \/ StartShowcase(t)
    PROVE  SpendInv' /\ LiveStep
<1>0. HonestRow(row, granted, placed) /\ UNCHANGED <<row, granted, placed>>
  BY DEF SpendInv, StartExecute, StartShowcase
<1>1. CASE StartExecute(t)
  <2>1. OnTheWay("consume", row, row, placed) /\ Goto(t, "consume", row)
    BY <1>1 DEF StartExecute, OnTheWay
  <2> QED
    BY <1>0, <2>1, SpendGoto DEF LiveStep
<1>2. CASE StartShowcase(t)
  <2>1. /\ row.state = "release_ready" /\ row.execution # None
        /\ Usable(row, CurrentShowcase(row)) /\ Goto(t, "show_consume", row)
    BY <1>2 DEF StartShowcase
  <2>2. row.showcase # None /\ row.showcase.nonce # None
    BY <1>0, <2>1 DEF CurrentShowcase, Usable, HonestRow
  <2>3. OnTheWay("show_consume", row, row, placed)
    BY <2>1, <2>2 DEF OnTheWay
  <2> QED
    BY <1>0, <2>1, <2>3, SpendGoto DEF LiveStep
<1> QED
  BY <1>1, <1>2

LEMMA SpendConsumes ==
    ASSUME IInv, IInv', OneThread, SpendInv, NEW t \in Threads,
           Consume(t) \/ ConsumeShowcase(t)
    PROVE  SpendInv' /\ LiveStep
<1>0. /\ row \in Rows /\ HonestRow(row, granted, placed)
      /\ OnTheWay(op[t], held[t], row, placed)
      /\ HonestRow(held[t], granted, placed)
  BY DEF IInv, TypeOK, SpendInv
<1>1. UNCHANGED <<granted, placed>> /\ held[t] = row
  BY <1>0 DEF Consume, ConsumeShowcase, ConsumeApproval, OnTheWay
<1>2. CASE row' = row /\ Return(t)
  BY <1>0, <1>1, <1>2, SpendReturn DEF LiveStep
<1>3. CASE /\ Consume(t) /\ Consumable(row.approval, row.approval)
           /\ row' = [row EXCEPT !.approval =
                                   [row.approval EXCEPT !.consumed = TRUE]]
           /\ Goto(t, "reload", row)
  <2> DEFINE a == [row.approval EXCEPT !.consumed = TRUE]
             v == [row EXCEPT !.approval = a]
  <2>1. row.approval \in Approvals /\ ~row.approval.consumed /\ row.approval # None
    BY <1>0, <1>3 DEF Consumable, Rows
  <2>2. /\ a \in Approvals /\ a.consumed /\ a.nonce = row.approval.nonce
    BY <2>1 DEF Approvals
  <2>3. a # None
    BY <2>2, NoneAssumption
  <2>4. row.approval.nonce # None /\ row.state = "approved" /\ row.execution = None
    <3>1. op[t] = "consume"
      BY <1>3 DEF Consume
    <3>2. Granted(row.approval)
      BY <1>1, <3>1 DEF IInv, Fits
    <3> QED
      BY <1>0, <3>1, <3>2, NoneAssumption DEF OnTheWay, Granted
  <2> HIDE DEF a
  <2>5. /\ v.approval = a /\ v.showcase = row.showcase /\ v.state = row.state
        /\ v.execution = row.execution /\ Fingerprint(v) = Fingerprint(row)
    BY <1>0 DEF Rows, Fingerprint
  <2>6. row' = v
    BY <1>3 DEF a
  <2> HIDE DEF v
  <2>7. Spent(a, placed) /\ Honest(a, granted, placed)
    BY <1>0, <2>1, <2>2, <2>3, <2>4 DEF Spent, Honest, HonestRow
  <2>8. HonestRow(v, granted, placed)
    BY <1>0, <2>4, <2>5, <2>7 DEF HonestRow
  <2>9. OnTheWay("reload", row, v, placed)
    BY <2>4, <2>5, <2>7 DEF OnTheWay
  <2> QED
    BY <1>0, <1>1, <1>3, <2>5, <2>6, <2>8, <2>9, SpendGoto DEF LiveStep
<1>4. CASE /\ ConsumeShowcase(t) /\ Consumable(row.showcase, row.showcase)
           /\ row' = [row EXCEPT !.showcase =
                                   [row.showcase EXCEPT !.consumed = TRUE]]
           /\ Goto(t, "show_reload", row)
  <2> DEFINE a == [row.showcase EXCEPT !.consumed = TRUE]
             v == [row EXCEPT !.showcase = a]
  <2>1. row.showcase \in Approvals /\ ~row.showcase.consumed /\ row.showcase # None
    BY <1>0, <1>4 DEF Consumable, Rows
  <2>2. /\ a \in Approvals /\ a.consumed /\ a.nonce = row.showcase.nonce
    BY <2>1 DEF Approvals
  <2>3. a # None
    BY <2>2, NoneAssumption
  <2>4. row.showcase.nonce # None /\ row.state = "release_ready"
    BY <1>0, <1>4 DEF ConsumeShowcase, OnTheWay
  <2> HIDE DEF a
  <2>5. /\ v.approval = row.approval /\ v.showcase = a /\ v.state = row.state
        /\ v.execution = row.execution /\ Fingerprint(v) = Fingerprint(row)
    BY <1>0 DEF Rows, Fingerprint
  <2>6. row' = v
    BY <1>4 DEF a
  <2> HIDE DEF v
  <2>7. Spent(a, placed) /\ Honest(a, granted, placed)
    BY <1>0, <2>1, <2>2, <2>3, <2>4 DEF Spent, Honest, HonestRow
  <2>8. HonestRow(v, granted, placed)
    BY <1>0, <2>5, <2>7 DEF HonestRow
  <2>9. OnTheWay("show_reload", row, v, placed)
    BY <2>3, <2>4, <2>5, <2>7 DEF OnTheWay
  <2> QED
    BY <1>0, <1>1, <1>4, <2>5, <2>6, <2>8, <2>9, SpendGoto DEF LiveStep
<1>5. CASE Consume(t)
  BY <1>1, <1>2, <1>3, <1>5 DEF Consume, ConsumeApproval
<1>6. CASE ConsumeShowcase(t)
  <2>1. row.showcase # None
    BY <1>0, <1>6 DEF ConsumeShowcase, OnTheWay
  <2> QED
    BY <1>1, <1>2, <1>4, <1>6, <2>1 DEF ConsumeShowcase
<1> QED
  BY <1>5, <1>6

LEMMA SpendReloads ==
    ASSUME IInv, IInv', OneThread, SpendInv, NEW t \in Threads,
           Reload(t) \/ ReloadShowcase(t)
    PROVE  SpendInv' /\ LiveStep
<1>0. /\ row \in Rows /\ HonestRow(row, granted, placed)
      /\ OnTheWay(op[t], held[t], row, placed)
      /\ UNCHANGED <<row, granted, placed>>
  BY DEF IInv, TypeOK, SpendInv, Reload, ReloadShowcase
<1>1. LiveStep
  BY <1>0 DEF LiveStep
<1>2. CASE Return(t)
  BY <1>0, <1>1, <1>2, SpendReturn
<1>3. CASE Reload(t) /\ Goto(t, "order", row)
  <2>1. OnTheWay("order", row, row, placed)
    BY <1>0, <1>3 DEF OnTheWay, Reload
  <2> QED
    BY <1>0, <1>1, <1>3, <2>1, SpendGoto
<1>4. CASE ReloadShowcase(t) /\ Goto(t, "show_order", row)
  <2>1. OnTheWay("show_order", row, row, placed)
    BY <1>0, <1>4 DEF OnTheWay, ReloadShowcase
  <2> QED
    BY <1>0, <1>1, <1>4, <2>1, SpendGoto
<1>5. CASE Request(t, row, [row EXCEPT !.state = "blocked_risk_policy"])
  <2> DEFINE v == [row EXCEPT !.state = "blocked_risk_policy"]
  <2>0. "blocked_risk_policy" \in States
    BY DEF States, Terminal, BlockedStates
  <2>1. /\ v \in Rows /\ v.approval = row.approval
        /\ v.showcase = row.showcase /\ v.execution = row.execution
        /\ Fingerprint(v) = Fingerprint(row)
    BY <1>0, <2>0 DEF Rows, Fingerprint
  <2>2. Request(t, row, v)
    BY <1>5
  <2> HIDE DEF v
  <2>3. CASE Goto(t, "commit", Settled(v))
    BY <1>0, <1>1, <2>1, <2>3, SpendCommit DEF HonestRow
  <2> QED
    BY <1>2, <2>2, <2>3 DEF Request
<1> QED
  BY <1>2, <1>3, <1>4, <1>5 DEF Reload, ReloadShowcase

\* One order more, on an approval that was spent and had none.
LEMMA OneOrderMore ==
    ASSUME IInv, SpendInv, NEW a, Spent(a, placed), a.nonce \in granted,
           placed' = [placed EXCEPT ![a.nonce] = placed[a.nonce] + 1],
           granted' = granted
    PROVE  /\ OrdersNeedApproval'
           /\ \A b : Honest(b, granted, placed) /\ b # None
                       /\ (b.consumed \/ b.nonce # a.nonce)
                     => Honest(b, granted', placed')
<1>1. /\ placed \in [Nonces \cup {None} -> Nat] /\ a.nonce \in Nonces
      /\ placed[a.nonce] = 0
  BY DEF IInv, TypeOK, Spent
<1>2. /\ placed'[a.nonce] = 1
      /\ \A n \in (Nonces \cup {None}) \ {a.nonce} : placed'[n] = placed[n]
  BY <1>1
<1>3. OrdersNeedApproval'
  BY <1>2 DEF OrdersNeedApproval, SpendInv
<1>4. ASSUME NEW b, Honest(b, granted, placed), b # None,
             b.consumed \/ b.nonce # a.nonce
      PROVE  Honest(b, granted', placed')
  <2>1. CASE b.nonce \in Nonces
    BY <1>2, <1>4, <2>1 DEF Honest
  <2>2. CASE b.nonce \notin Nonces
    BY <1>4, <2>2 DEF Honest, IInv, TypeOK
  <2> QED
    BY <2>1, <2>2
<1> QED
  BY <1>3, <1>4

\* The canonical order: for an approved release, on the approval the handler
\* consumed, and on no other.
LEMMA SpendPlaces ==
    ASSUME IInv, IInv', OneThread, SpendInv, NEW t \in Threads, PlaceOrder(t)
    PROVE  SpendInv' /\ LiveStep
<1> DEFINE a == row.approval
<1>0. /\ row \in Rows /\ HonestRow(row, granted, placed)
      /\ op[t] = "order" /\ OnTheWay("order", held[t], row, placed)
      /\ UNCHANGED <<row, granted>>
  BY DEF IInv, TypeOK, SpendInv, PlaceOrder
<1>1. /\ held[t] = row /\ row.state = "approved" /\ row.execution = None
      /\ Spent(a, placed) /\ a.nonce \in granted /\ a \in Approvals
  BY <1>0 DEF OnTheWay, Spent, HonestRow, Honest, Rows
<1>2. row.showcase = None
  BY <1>1 DEF IInv, Sound
<1>3. row.run \in Runs
  BY <1>0, <1>1 DEF IInv, Fits, Rows
<1> PICK ok \in BOOLEAN :
      /\ PlaceCanonical(row.run, a.nonce, ok)
      /\ Request(t, row, IF ok THEN Ready(row, evidence'[row.run])
                         ELSE Refused(row))
  BY <1>1 DEF PlaceOrder
<1> DEFINE v == IF ok THEN Ready(row, evidence'[row.run]) ELSE Refused(row)
<1>4. evidence'[row.run] \in Orders \cup {None}
  BY <1>3 DEF IInv, TypeOK
<1>5. v \in Rows
  BY <1>0, <1>4, OrderedType
<1>6. /\ v.approval = a /\ v.showcase = row.showcase
      /\ Fingerprint(v) = Fingerprint(row)
  BY <1>0 DEF Ready, Refused, Rows, Fingerprint
<1>7. Request(t, row, v)
  OBVIOUS
<1> HIDE DEF v
<1>8. a.nonce # "unapproved"
  BY <1>1, NoneAssumption DEF Spent, Approvals
<1>9. \/ placed' = placed
      \/ placed' = [placed EXCEPT ![a.nonce] = placed[a.nonce] + 1]
  <2>1. placed \in [Nonces \cup {None} -> Nat] /\ a.nonce \in Nonces
    BY <1>1 DEF IInv, TypeOK
  <2> QED
    BY <1>8, <2>1 DEF PlaceCanonical
<1>10. /\ OrdersNeedApproval'
       /\ Honest(a, granted', placed')
  <2>1. CASE placed' = placed
    BY <1>0, <2>1 DEF OrdersNeedApproval, SpendInv, HonestRow
  <2>2. CASE placed' = [placed EXCEPT ![a.nonce] = placed[a.nonce] + 1]
    BY <1>0, <1>1, <2>2, OneOrderMore DEF HonestRow, Spent
  <2> QED
    BY <1>9, <2>1, <2>2
<1>11. HonestRow(row', granted', placed')
  BY <1>0, <1>1, <1>2, <1>10 DEF HonestRow, Honest
<1>12. ASSUME Goto(t, "commit", v) \/ Goto(t, "idle", NewRelease)
       PROVE  SpendInv'
  <2>1. HonestRow(v, granted', placed')
    BY <1>1, <1>2, <1>6, <1>10 DEF HonestRow, Honest, Spent
  <2>2. OnTheWay("commit", v, row', placed')
    BY <1>0, <1>6 DEF OnTheWay
  <2>3. /\ HonestRow(NewRelease, granted', placed')
        /\ OnTheWay("idle", NewRelease, row', placed')
    BY DEF HonestRow, Honest, NewRelease, OnTheWay
  <2>4. ASSUME NEW u \in Threads
        PROVE  /\ HonestRow(held'[u], granted', placed')
               /\ OnTheWay(op'[u], held'[u], row', placed')
    <3>1. u = t
      BY DEF OneThread
    <3>2. \/ op'[u] = "commit" /\ held'[u] = v
          \/ op'[u] = "idle" /\ held'[u] = NewRelease
      BY <1>12, <3>1 DEF Goto, IInv, TypeOK
    <3> QED
      BY <2>1, <2>2, <2>3, <3>2
  <2> QED
    BY <1>10, <1>11, <2>4 DEF SpendInv
<1>13. Settled(v) = v \/ ~Goto(t, "commit", Settled(v))
  <2> SUFFICES ASSUME Goto(t, "commit", Settled(v)) PROVE Settled(v) = v
    OBVIOUS
  <2>1. held'[t] = Settled(v)
    BY DEF Goto, IInv, TypeOK
  <2>2. Settled(v).state # "blocked_missing_evidence"
    BY <2>1 DEF IInv, Sound
  <2> QED
    BY <1>5, <2>2 DEF Settled, Rows
<1>14. SpendInv'
  <2>1. CASE Goto(t, "commit", Settled(v))
    <3>1. Settled(v) = v
      BY <1>13, <2>1
    <3>2. Goto(t, "commit", v)
      BY <2>1, <3>1
    <3> QED
      BY <1>12, <3>2
  <2>2. CASE Goto(t, "idle", NewRelease)
    BY <1>12, <2>2
  <2> QED
    BY <1>7, <2>1, <2>2 DEF Request, Return
<1>15. LiveStep
  BY <1>0, <1>1 DEF LiveStep
<1> QED
  BY <1>14, <1>15

\* A further order of a ready release, on its own approval.
LEMMA SpendShowcase ==
    ASSUME IInv, IInv', OneThread, SpendInv, NEW t \in Threads,
           PlaceShowcase(t)
    PROVE  SpendInv' /\ LiveStep
<1> DEFINE a == row.showcase
<1>0. /\ row \in Rows /\ HonestRow(row, granted, placed)
      /\ op[t] = "show_order" /\ OnTheWay("show_order", held[t], row, placed)
      /\ UNCHANGED <<row, granted>> /\ Return(t)
  BY DEF IInv, TypeOK, SpendInv, PlaceShowcase
<1>1. /\ held[t] = row /\ row.state = "release_ready"
      /\ Spent(a, placed) /\ a.nonce \in granted
  BY <1>0 DEF OnTheWay, Spent, HonestRow, Honest
<1>2. CurrentShowcase(held[t]) = a
  BY <1>0, <1>1 DEF CurrentShowcase, OnTheWay
<1>3. CASE placed' = placed
  BY <1>0, <1>3, SpendReturn DEF LiveStep
<1>4. CASE placed' = [placed EXCEPT ![a.nonce] = placed[a.nonce] + 1]
  <2>1. row.execution # None /\ row.approval # None /\ row.approval.consumed
    BY <1>0, <1>1 DEF IInv, Sound, Granted, HonestRow
  <2>2. /\ OrdersNeedApproval'
        /\ Honest(a, granted', placed')
        /\ Honest(row.approval, granted', placed')
    BY <1>0, <1>1, <1>4, <2>1, OneOrderMore DEF HonestRow, Spent
  <2>3. HonestRow(row', granted', placed')
    BY <1>0, <2>1, <2>2 DEF HonestRow
  <2>4. ASSUME NEW u \in Threads
        PROVE  /\ HonestRow(held'[u], granted', placed')
               /\ OnTheWay(op'[u], held'[u], row', placed')
    <3>1. u = t
      BY DEF OneThread
    <3>2. op'[u] = "idle" /\ held'[u] = NewRelease
      BY <1>0, <3>1 DEF Return, Goto, IInv, TypeOK
    <3> QED
      BY <3>2 DEF HonestRow, Honest, NewRelease, OnTheWay
  <2>5. SpendInv'
    BY <2>2, <2>3, <2>4 DEF SpendInv
  <2> QED
    BY <1>0, <1>1, <2>5 DEF LiveStep
<1> QED
  BY <1>2, <1>3, <1>4 DEF PlaceShowcase

\* Orders without a release, workers and stops touch no approval.
LEMMA SpendOther ==
    ASSUME IInv, IInv', OneThread, SpendInv,
           \/ \E t \in Threads : ExecuteRun(t)
           \/ (\E run \in Runs : FinishRun(run)) \/ Crash \/ UNCHANGED vars
    PROVE  SpendInv' /\ LiveStep
<1>1. UNCHANGED <<row, granted, placed>>
  BY DEF ExecuteRun, PlaceCanonical, FinishRun, Crash, vars
<1>2. LiveStep
  BY <1>1 DEF LiveStep
<1>3. CASE Crash
  <2>1. ASSUME NEW u \in Threads
        PROVE  /\ HonestRow(held'[u], granted', placed')
               /\ OnTheWay(op'[u], held'[u], row', placed')
    <3>1. op'[u] = "idle" /\ held'[u] = NewRelease
      BY <1>3 DEF Crash
    <3> QED
      BY <3>1 DEF HonestRow, Honest, NewRelease, OnTheWay
  <2> QED
    BY <1>1, <1>2, <2>1 DEF SpendInv, OrdersNeedApproval
<1>4. CASE \/ \E t \in Threads : ExecuteRun(t)
           \/ (\E run \in Runs : FinishRun(run)) \/ UNCHANGED vars
  <2>1. op' = op /\ held' = held
    BY <1>4 DEF ExecuteRun, FinishRun, vars
  <2> QED
    BY <1>1, <1>2, <2>1 DEF SpendInv, OrdersNeedApproval
<1> QED
  BY <1>3, <1>4

LEMMA SpendStep ==
    ASSUME IInv, IInv', OneThread, SpendInv, [Next]_vars
    PROVE  SpendInv' /\ LiveStep
<1>1. ASSUME NEW t \in Threads, Step(t)
      PROVE  SpendInv' /\ LiveStep
  BY <1>1, SpendBinding, SpendApprove, SpendWrites, SpendStarts,
     SpendConsumes, SpendReloads, SpendPlaces, SpendShowcase, SpendOther
  DEF Step
<1> QED
  BY <1>1, SpendOther DEF Next

LEMMA SpendInit == Init => SpendInv
<1> SUFFICES ASSUME Init PROVE SpendInv
  OBVIOUS
<1>1. HonestRow(NewRelease, granted, placed)
  BY DEF HonestRow, Honest, NewRelease
<1>2. \A t \in Threads : OnTheWay(op[t], held[t], row, placed)
  BY DEF OnTheWay, Init
<1>3. OrdersNeedApproval
  BY DEF OrdersNeedApproval, Init
<1> QED
  BY <1>1, <1>2, <1>3 DEF SpendInv, Init

\* As long as a client waits for each answer, no exchange order of a release,
\* canonical or showcase, rests on an approval that was not granted or that
\* another order rests on (OrdersNeedApproval); wherever the process stops.
THEOREM SerialOrdersNeedApproval ==
    ASSUME OneThread
    PROVE  Spec => []OrdersNeedApproval
<1>1. IInv /\ IInv' /\ SpendInv /\ [Next]_vars => SpendInv'
  BY SpendStep
<1>2. SpendInv => OrdersNeedApproval
  BY DEF SpendInv
<1> QED
  BY <1>1, <1>2, SpendInit, Inductive, PTL DEF Spec

\* Nor is one sent for a release that is not approved or ready by then, a
\* killed one above all (OrdersOnlyWhileLive).
THEOREM SerialOrdersOnlyWhileLive ==
    ASSUME OneThread
    PROVE  Spec => OrdersOnlyWhileLive
<1>1. IInv /\ IInv' /\ SpendInv /\ [Next]_vars => SpendInv'
  BY SpendStep
<1>2. IInv /\ IInv' /\ SpendInv /\ [Next]_vars
        => [placed' # placed => row.state \in {"approved", "release_ready"}]_vars
  BY SpendStep DEF LiveStep
<1> QED
  BY <1>1, <1>2, SpendInit, Inductive, PTL DEF Spec, OrdersOnlyWhileLive

\* New evidence under review takes the approval with it and sends the release
\* back (EvidenceChangeVoidsApproval).
THEOREM SerialEvidenceVoidsApproval ==
    ASSUME OneThread
    PROVE  Spec => EvidenceChangeVoidsApproval
<1>1. IInv /\ IInv' /\ SpendInv /\ [Next]_vars => SpendInv'
  BY SpendStep
<1>2. IInv /\ IInv' /\ SpendInv /\ [Next]_vars
        => [Fingerprint(row') # Fingerprint(row)
              => /\ row'.approval = None
                 /\ row'.state \notin {"approved", "release_ready"}]_vars
  BY SpendStep DEF LiveStep
<1> QED
  BY <1>1, <1>2, SpendInit, Inductive, PTL DEF Spec, EvidenceChangeVoidsApproval

-----------------------------------------------------------------------------
(* With a single client a release keeps the promises of ReleaseGate: what   *)
(* a handler is about to write over the stored row is one of the moves a    *)
(* release may make, and evidence under an approval means an order on it.   *)

SameApproval(r, u) == InForce(u) = InForce(r) /\ UsedUp(u) = UsedUp(r)

Revises(r, u) ==
    /\ Stage(r) # "ready"
    /\ Stage(u) \in {"open", "closed"}
    /\ Stage(r) = "closed" => Stage(u) = "closed"
    /\ InForce(u) = None

Approves(r, u, g, p) ==
    /\ Stage(r) # "closed"
    /\ Stage(u) = IF Stage(r) = "ready" THEN "ready" ELSE "approved"
    /\ InForce(u) \in g \ {InForce(r)} /\ p[InForce(u)] = 0
    /\ ~UsedUp(u)

Finishes(r, u, p) ==
    /\ Stage(r) = "approved" /\ Stage(u) = "ready"
    /\ InForce(r) # None /\ p[InForce(r)] = 1
    /\ SameApproval(r, u)

Closes(r, u) == Stage(u) = "closed" /\ (InForce(u) = None \/ SameApproval(r, u))

\* Writing u over r is a move of the gate, or none.  g: the nonces granted; p:
\* the orders placed on each.
Move(r, u, g, p) ==
    \/ Revises(r, u)
    \/ /\ Fingerprint(u) = Fingerprint(r)
       /\ \/ Stage(u) = Stage(r) /\ SameApproval(r, u)
          \/ Approves(r, u, g, p) \/ Finishes(r, u, p) \/ Closes(r, u)

\* e: the evidence of the runs.
Backed(e, p) ==
    \A run \in Runs :
        e[run] # None /\ e[run].authority \in Nonces => p[e[run].authority] > 0

GateInv ==
    /\ \A t \in Threads : op[t] = "commit" => Move(row, held[t], granted, placed)
    /\ Backed(evidence, placed)

Mapped == <<Stage(row), Fingerprint(row), InForce(row), UsedUp(row), granted, placed>>

LEMMA Stages ==
    ASSUME NEW r
    PROVE  /\ Stage(r) = "approved" <=> r.state = "approved"
           /\ Stage(r) = "ready" <=> r.state = "release_ready"
           /\ Stage(r) = "closed" <=> r.state \in Terminal
           /\ Stage(r) \in {"open", "approved", "ready", "closed"}
BY DEF Stage, Terminal, BlockedStates

LEMMA SameApprovals ==
    ASSUME NEW r, NEW u, u.approval = r.approval, u.showcase = r.showcase
    PROVE  SameApproval(r, u)
BY DEF SameApproval, InForce, UsedUp, CurrentShowcase

\* Showcase approvals come with the first order, so before it the approval of
\* the release is the one in force.
LEMMA NoShowcase ==
    ASSUME NEW r, Sound(r), r.state \notin {"release_ready", "killed"}
    PROVE  r.showcase = None
BY DEF Sound

LEMMA InForceBefore ==
    ASSUME NEW r, r.showcase = None
    PROVE  CurrentShowcase(r) = r.approval
BY DEF CurrentShowcase

\* The approval in force was granted, and is used up or pays for no order.
LEMMA InForceHonest ==
    ASSUME NEW r \in Rows, NEW g, NEW p, HonestRow(r, g, p), InForce(r) # None
    PROVE  /\ InForce(r) \in g
           /\ UsedUp(r) \/ p[InForce(r)] = 0
BY DEF HonestRow, Honest, InForce, UsedUp, CurrentShowcase

\* A sound row is never the one blocked for missing evidence.
LEMMA WrittenAsAsked ==
    ASSUME IInv, IInv', NEW t \in Threads, NEW u \in Rows,
           Goto(t, "commit", Settled(u))
    PROVE  Settled(u) = u /\ Sound(u)
<1>1. held'[t] = Settled(u)
  BY DEF Goto, IInv, TypeOK
<1>2. Sound(Settled(u)) /\ Settled(u).state # "blocked_missing_evidence"
  BY <1>1 DEF IInv, Sound
<1>3. Settled(u) = u
  BY <1>2 DEF Settled, Rows
<1> QED
  BY <1>2, <1>3

\* A step of the one handler.
LEMMA GateMoves ==
    ASSUME IInv, OneThread, GateInv, NEW t \in Threads, NEW step, NEW r,
           Goto(t, step, r), Backed(evidence', placed'),
           step = "commit" => Move(row', r, granted', placed')
    PROVE  GateInv'
<1>1. ASSUME NEW u \in Threads, op'[u] = "commit"
      PROVE  Move(row', held'[u], granted', placed')
  <2>1. u = t
    BY DEF OneThread
  <2>2. op'[u] = step /\ held'[u] = r
    BY <2>1 DEF Goto, IInv, TypeOK
  <2> QED
    BY <1>1, <2>2
<1> QED
  BY <1>1 DEF GateInv

LEMMA GateGoto ==
    ASSUME IInv, OneThread, GateInv, NEW t \in Threads, NEW step, NEW r,
           Goto(t, step, r), evidence' = evidence, placed' = placed,
           step = "commit" => Move(row', r, granted', placed)
    PROVE  GateInv'
<1>1. Backed(evidence', placed')
  BY DEF GateInv
<1> QED
  BY <1>1, GateMoves

LEMMA GateReturn ==
    ASSUME IInv, OneThread, GateInv, NEW t \in Threads, Return(t),
           evidence' = evidence, placed' = placed
    PROVE  GateInv'
BY GateGoto DEF Return

LEMMA GateCommit ==
    ASSUME IInv, IInv', OneThread, GateInv, NEW t \in Threads, NEW u \in Rows,
           Goto(t, "commit", Settled(u)), UNCHANGED <<row, evidence, placed>>,
           Move(row, u, granted', placed)
    PROVE  GateInv'
<1>1. Settled(u) = u
  BY WrittenAsAsked
<1> QED
  BY <1>1, GateGoto

LEMMA GateIdle ==
    ASSUME UNCHANGED <<row, granted, placed>>
    PROVE  UNCHANGED Mapped
BY DEF Mapped

\* Binding evidence sends a release that is not ready back, or blocks it.
LEMMA GateRevises ==
    ASSUME IInv, IInv', OneThread, GateInv, NEW t \in Threads,
           NEW u \in Rows, Serve(t, u),
           row.state # "killed", u.approval = None, u.showcase = row.showcase,
           u.state \in {"redline_running", "redline_passed", "review_required",
                        "evidence_collecting", "blocked_withheld",
                        "blocked_unverified", "blocked_risk_policy"}
    PROVE  GateInv' /\ UNCHANGED Mapped
<1>1. /\ UNCHANGED <<row, evidence, granted, placed>>
      /\ Goto(t, "commit", Settled(u)) /\ Accepts(row, u) /\ row \in Rows
  BY DEF Serve, IInv, TypeOK
<1>2. /\ row.state # "release_ready"
      /\ row.state \in Terminal => u.state = row.state
  BY <1>1 DEF Accepts, AllowedTransitions, Rows, Terminal, BlockedStates
<1>3. row.showcase = None
  BY <1>2, NoShowcase DEF IInv
<1>4. InForce(u) = None
  BY <1>3 DEF InForce, CurrentShowcase
<1>5. Stage(row) # "ready" /\ Stage(u) \in {"open", "closed"}
  BY <1>2, Stages
<1>6. Stage(row) = "closed" => Stage(u) = "closed"
  BY <1>2, Stages
<1>7. Revises(row, u)
  BY <1>4, <1>5, <1>6 DEF Revises
<1> QED
  BY <1>1, <1>7, GateCommit, GateIdle DEF Move

LEMMA GateBinding ==
    ASSUME IInv, IInv', OneThread, GateInv, NEW t \in Threads,
           BindRedlineRun(t) \/ ImportSimulation(t) \/ BindRiskPolicy(t)
    PROVE  GateInv' /\ UNCHANGED Mapped
<1>0. row \in Rows
  BY DEF IInv, TypeOK
<1>1. CASE BindRedlineRun(t)
  <2> DEFINE v(run) ==
        [row EXCEPT !.state = StateForBoundRun(verdict[run]), !.run = run,
                    !.redline = verdict[run], !.approval = None,
                    !.manifest = FALSE]
  <2> PICK run \in Runs : Serve(t, v(run))
    BY <1>1 DEF BindRedlineRun
  <2> DEFINE next == StateForBoundRun(verdict[run])
  <2>1. /\ next \in {"redline_running", "redline_passed", "blocked_withheld",
                     "blocked_unverified"}
        /\ next \in States
    BY DEF StateForBoundRun, States, Terminal, BlockedStates
  <2>2. verdict[run] \in Verdicts
    BY DEF IInv, TypeOK
  <2> HIDE DEF next
  <2>3. /\ v(run) \in Rows /\ v(run).approval = None
        /\ v(run).showcase = row.showcase /\ v(run).state = next
    BY <1>0, <2>1, <2>2 DEF Rows, next
  <2>4. row.state # "killed"
    BY <1>1 DEF BindRedlineRun
  <2> HIDE DEF v
  <2> QED
    BY <2>1, <2>3, <2>4, GateRevises
<1>2. CASE ImportSimulation(t)
  <2> DEFINE next == IF row.policy # None /\ RedlinePass(row)
                     THEN "review_required" ELSE "evidence_collecting"
             v(sim) == [row EXCEPT !.state = next, !.simulation = sim,
                                   !.approval = None, !.manifest = FALSE]
  <2> PICK sim \in Simulations : Serve(t, v(sim))
    BY <1>2 DEF ImportSimulation
  <2>1. next \in {"review_required", "evidence_collecting"} /\ next \in States
    BY DEF States
  <2> HIDE DEF next
  <2>3. /\ v(sim) \in Rows /\ v(sim).approval = None
        /\ v(sim).showcase = row.showcase /\ v(sim).state = next
    BY <1>0, <2>1 DEF Rows
  <2>4. row.state # "killed"
    BY <1>2 DEF ImportSimulation, Terminal
  <2> HIDE DEF v
  <2> QED
    BY <2>1, <2>3, <2>4, GateRevises
<1>3. CASE BindRiskPolicy(t)
  <2> DEFINE v(p) == [row EXCEPT !.state = StateForPolicy(row, p),
                                 !.policy = p, !.approval = None,
                                 !.manifest = FALSE]
  <2> PICK p \in Policies : Serve(t, v(p))
    BY <1>3 DEF BindRiskPolicy
  <2> DEFINE next == StateForPolicy(row, p)
  <2>1. /\ next \in {"review_required", "evidence_collecting",
                     "blocked_risk_policy"}
        /\ next \in States
    BY DEF StateForPolicy, States, Terminal, BlockedStates
  <2> HIDE DEF next
  <2>3. /\ v(p) \in Rows /\ v(p).approval = None
        /\ v(p).showcase = row.showcase /\ v(p).state = next
    BY <1>0, <2>1 DEF Rows, next
  <2>4. row.state # "killed"
    BY <1>3 DEF BindRiskPolicy, Terminal
  <2> HIDE DEF v
  <2> QED
    BY <2>1, <2>3, <2>4, GateRevises
<1> QED
  BY <1>1, <1>2, <1>3

\* A rejection drops the approval, a kill keeps it; both close the release.
LEMMA GateCloses ==
    ASSUME IInv, IInv', OneThread, GateInv, NEW t \in Threads,
           Reject(t) \/ Kill(t)
    PROVE  GateInv' /\ UNCHANGED Mapped
<1>0. row \in Rows /\ Sound(row)
  BY DEF IInv, TypeOK
<1>1. UNCHANGED <<row, evidence, granted, placed>>
  BY DEF Reject, Kill, Serve
<1>2. CASE Reject(t)
  <2> DEFINE a == [decision |-> "reject", nonce |-> None,
                   fp |-> Fingerprint(row), consumed |-> FALSE]
             v == [row EXCEPT !.state = "rejected", !.approval = a]
  <2>0. "rejected" \in States \cap Terminal
    BY DEF States, Terminal
  <2>1. a \in Approvals /\ a.nonce = None
    BY <1>0, FingerprintType DEF Approvals
  <2>2. Goto(t, "commit", Settled(v)) /\ Accepts(row, v)
    BY <1>2 DEF Reject, Serve
  <2> HIDE DEF a
  <2>3. /\ v \in Rows /\ v.approval = a /\ v.state = "rejected"
        /\ v.showcase = row.showcase /\ Fingerprint(v) = Fingerprint(row)
    BY <1>0, <2>0, <2>1 DEF Rows, Fingerprint
  <2> HIDE DEF v
  <2>4. row.state \notin {"release_ready", "killed"}
    BY <1>0, <2>2, <2>3 DEF Accepts, AllowedTransitions, Rows, Terminal
  <2>5. InForce(v) = None
    BY <1>0, <2>1, <2>3, <2>4, NoShowcase DEF InForce, CurrentShowcase
  <2>6. Stage(v) = "closed"
    BY <2>0, <2>3, Stages
  <2>7. Move(row, v, granted', placed)
    BY <2>3, <2>5, <2>6 DEF Move, Closes
  <2> QED
    BY <1>1, <2>2, <2>3, <2>7, GateCommit, GateIdle
<1>3. CASE Kill(t)
  <2> DEFINE v == [row EXCEPT !.state = "killed"]
  <2>0. "killed" \in States \cap Terminal
    BY DEF States, Terminal
  <2>1. /\ v \in Rows /\ v.approval = row.approval /\ v.state = "killed"
        /\ v.showcase = row.showcase /\ Fingerprint(v) = Fingerprint(row)
    BY <1>0, <2>0 DEF Rows, Fingerprint
  <2>2. Goto(t, "commit", Settled(v))
    BY <1>3 DEF Kill, Serve
  <2> HIDE DEF v
  <2>3. Stage(v) = "closed" /\ SameApproval(row, v)
    BY <2>0, <2>1, Stages, SameApprovals
  <2>4. Move(row, v, granted', placed)
    BY <2>1, <2>3 DEF Move, Closes
  <2> QED
    BY <1>1, <2>1, <2>2, <2>4, GateCommit, GateIdle
<1> QED
  BY <1>2, <1>3

\* The handler grants a nonce; its approval comes into force with the commit.
LEMMA GateApproves ==
    ASSUME IInv, IInv', OneThread, SpendInv, GateInv, NEW t \in Threads,
           Approve(t)
    PROVE  GateInv' /\ Gate!Grant
<1>0. row \in Rows /\ Sound(row) /\ HonestRow(row, granted, placed)
  BY DEF IInv, TypeOK, SpendInv
<1>1. UNCHANGED <<row, evidence, placed>>
  BY DEF Approve
<1> PICK n \in Nonces \ granted :
       /\ granted' = granted \cup {n}
       /\ IF row.state = "release_ready"
          THEN Goto(t, "commit", [row EXCEPT !.showcase = Approval(n)])
          ELSE LET u == [row EXCEPT !.state = "approved",
                                    !.approval = Approval(n)]
               IN  /\ Accepts(row, u)
                   /\ Goto(t, "commit", Settled(u))
  BY DEF Approve
<1> DEFINE a == Approval(n)
<1>2. a \in Approvals /\ a.nonce = n /\ ~a.consumed /\ a # None
  <2>1. a \in Approvals /\ a.nonce = n /\ ~a.consumed
    BY <1>0, FingerprintType DEF Approval, Approvals
  <2> QED
    BY <2>1, NoneAssumption
<1>3. placed[n] = 0
  BY DEF SpendInv, OrdersNeedApproval, IInv, TypeOK
<1>4. n \in granted' \ {InForce(row)}
  BY <1>0, InForceHonest, NoneAssumption
<1> HIDE DEF a
<1>5. Gate!Grant
  BY <1>1 DEF Gate!Grant
<1>6. CASE row.state = "release_ready"
  <2> DEFINE v == [row EXCEPT !.showcase = a]
  <2>1. /\ v \in Rows /\ v.showcase = a /\ v.state = "release_ready"
        /\ Fingerprint(v) = Fingerprint(row)
    BY <1>0, <1>2, <1>6 DEF Rows, Fingerprint
  <2>2. Goto(t, "commit", v)
    BY <1>6 DEF a
  <2> HIDE DEF v
  <2>3. InForce(v) = n /\ ~UsedUp(v)
    BY <1>2, <2>1 DEF InForce, UsedUp, CurrentShowcase
  <2>4. Stage(row) = "ready" /\ Stage(v) = "ready"
    BY <1>6, <2>1, Stages
  <2>5. Move(row, v, granted', placed)
    BY <1>3, <1>4, <2>1, <2>3, <2>4 DEF Move, Approves
  <2> QED
    BY <1>1, <1>5, <2>2, <2>5, GateGoto
<1>7. CASE row.state # "release_ready"
  <2> DEFINE v == [row EXCEPT !.state = "approved", !.approval = a]
  <2>0. "approved" \in States /\ "approved" \notin Terminal
    BY DEF States, Terminal, BlockedStates
  <2>1. /\ v \in Rows /\ v.state = "approved" /\ v.approval = a
        /\ v.showcase = row.showcase /\ Fingerprint(v) = Fingerprint(row)
    BY <1>0, <1>2, <2>0 DEF Rows, Fingerprint
  <2>2. Goto(t, "commit", Settled(v)) /\ Accepts(row, v)
    BY <1>7 DEF a
  <2> HIDE DEF v
  <2>3. row.state \notin Terminal
    BY <2>0, <2>1, <2>2 DEF Accepts
  <2>4. v.showcase = None
    BY <1>0, <1>7, <2>1, <2>3, NoShowcase DEF Terminal
  <2>5. InForce(v) = n /\ ~UsedUp(v)
    BY <1>2, <2>1, <2>4 DEF InForce, UsedUp, CurrentShowcase
  <2>6. Stage(row) \notin {"closed", "ready"} /\ Stage(v) = "approved"
    BY <1>7, <2>1, <2>3, Stages
  <2>7. Move(row, v, granted', placed)
    BY <1>3, <1>4, <2>1, <2>5, <2>6 DEF Move, Approves
  <2> QED
    BY <1>1, <1>5, <2>1, <2>2, <2>7, GateCommit
<1> QED
  BY <1>6, <1>7

\* A bundle changes nothing the gate looks at.
LEMMA GateBundle ==
    ASSUME IInv, IInv', OneThread, GateInv, NEW t \in Threads, BuildBundle(t)
    PROVE  GateInv' /\ UNCHANGED Mapped
<1> DEFINE v == [row EXCEPT !.manifest = TRUE]
<1>1. /\ v.approval = row.approval /\ v.showcase = row.showcase
      /\ v.state = row.state /\ Fingerprint(v) = Fingerprint(row)
  BY DEF IInv, TypeOK, Rows, Fingerprint
<1>2. Goto(t, "commit", v) /\ UNCHANGED <<row, evidence, granted, placed>>
  BY DEF BuildBundle
<1> HIDE DEF v
<1>3. Stage(v) = Stage(row) /\ SameApproval(row, v)
  BY <1>1, SameApprovals DEF Stage
<1>4. Move(row, v, granted', placed)
  BY <1>1, <1>3 DEF Move
<1> QED
  BY <1>2, <1>4, GateGoto, GateIdle

\* The write is where the gate moves.
LEMMA GateWrites ==
    ASSUME IInv, IInv', OneThread, GateInv, NEW t \in Threads, Commit(t)
    PROVE  GateInv' /\ (Gate!Next \/ UNCHANGED Mapped)
<1>1. /\ Move(row, row', granted, placed)
      /\ Return(t) /\ UNCHANGED <<evidence, granted, placed>>
  BY DEF Commit, GateInv
<1>2. GateInv'
  BY <1>1, GateReturn
<1>3. row' \in Rows /\ Fingerprint(row') \in Fingerprints
  BY FingerprintType DEF IInv, TypeOK
<1>4. \A r : InForce(r) = None => UsedUp(r) = FALSE
  BY DEF UsedUp
<1>5. CASE Revises(row, row')
  <2>1. Gate!Void
    BY <1>4, <1>5 DEF Revises, Gate!Void
  <2>2. Gate!Revise
    BY <1>1, <1>3, <1>5, <2>1 DEF Revises, Gate!Revise
  <2> QED
    BY <1>2, <2>2 DEF Gate!Next
<1>6. CASE /\ Fingerprint(row') = Fingerprint(row)
           /\ Approves(row, row', granted, placed)
  <2>1. UsedUp(row') = FALSE
    BY <1>6 DEF Approves
  <2>2. Gate!Approve
    BY <1>1, <1>6, <2>1 DEF Approves, Gate!Approve
  <2> QED
    BY <1>2, <2>2 DEF Gate!Next
<1>7. CASE Fingerprint(row') = Fingerprint(row) /\ Finishes(row, row', placed)
  <2>1. Gate!Finish
    BY <1>1, <1>7 DEF Finishes, SameApproval, Gate!Finish
  <2> QED
    BY <1>2, <2>1 DEF Gate!Next
<1>8. CASE Fingerprint(row') = Fingerprint(row) /\ Closes(row, row')
  <2>1. Gate!Void \/ (InForce(row') = InForce(row) /\ UsedUp(row') = UsedUp(row))
    BY <1>4, <1>8 DEF Closes, SameApproval, Gate!Void
  <2>2. Gate!Close
    BY <1>1, <1>8, <2>1 DEF Closes, Gate!Close
  <2> QED
    BY <1>2, <2>2 DEF Gate!Next
<1>9. CASE /\ Fingerprint(row') = Fingerprint(row)
           /\ Stage(row') = Stage(row) /\ SameApproval(row, row')
  BY <1>1, <1>2, <1>9 DEF SameApproval, Mapped
<1> QED
  BY <1>1, <1>5, <1>6, <1>7, <1>8, <1>9 DEF Move

LEMMA GateStarts ==
    ASSUME IInv, OneThread, GateInv, NEW t \in Threads,
           StartExecute(t) \/ StartShowcase(t)
    PROVE  GateInv' /\ UNCHANGED Mapped
<1>1. /\ Goto(t, "consume", row) \/ Goto(t, "show_consume", row)
      /\ UNCHANGED <<row, evidence, granted, placed>>
  BY DEF StartExecute, StartShowcase
<1> QED
  BY <1>1, GateGoto, GateIdle

\* The approval in force is marked in the stored row.
LEMMA GateSpends ==
    ASSUME IInv, IInv', OneThread, SpendInv, GateInv, NEW t \in Threads,
           Consume(t) \/ ConsumeShowcase(t)
    PROVE  GateInv' /\ (Gate!Spend \/ UNCHANGED Mapped)
<1>0. /\ row \in Rows /\ Sound(row) /\ OnTheWay(op[t], held[t], row, placed)
  BY DEF IInv, TypeOK, SpendInv
<1>1. UNCHANGED <<evidence, granted, placed>> /\ held[t] = row
  BY <1>0 DEF Consume, ConsumeShowcase, ConsumeApproval, OnTheWay
<1>2. CASE row' = row /\ Return(t)
  BY <1>1, <1>2, GateReturn, GateIdle
<1>3. CASE /\ Consume(t) /\ Consumable(row.approval, row.approval)
           /\ row' = [row EXCEPT !.approval =
                                   [row.approval EXCEPT !.consumed = TRUE]]
           /\ Goto(t, "reload", row)
  <2> DEFINE a == [row.approval EXCEPT !.consumed = TRUE]
             v == [row EXCEPT !.approval = a]
  <2>1. row.approval \in Approvals /\ ~row.approval.consumed /\ row.approval # None
    BY <1>0, <1>3 DEF Consumable, Rows
  <2>2. a \in Approvals /\ a.consumed /\ a.nonce = row.approval.nonce
    BY <2>1 DEF Approvals
  <2>3. a # None
    BY <2>2, NoneAssumption
  <2>4. row.approval.nonce # None /\ row.state = "approved" /\ row.showcase = None
    <3>1. op[t] = "consume"
      BY <1>3 DEF Consume
    <3>2. Granted(row.approval)
      BY <1>1, <3>1 DEF IInv, Fits
    <3>3. row.state = "approved"
      BY <1>0, <3>1 DEF OnTheWay
    <3> QED
      BY <1>0, <3>2, <3>3, NoShowcase, NoneAssumption DEF Granted
  <2> HIDE DEF a
  <2>5. /\ v.approval = a /\ v.showcase = row.showcase /\ v.state = row.state
        /\ Fingerprint(v) = Fingerprint(row)
    BY <1>0 DEF Rows, Fingerprint
  <2>6. row' = v
    BY <1>3 DEF a
  <2> HIDE DEF v
  <2>7. InForce(row) = row.approval.nonce /\ ~UsedUp(row)
    BY <2>1, <2>4 DEF InForce, UsedUp, CurrentShowcase
  <2>8. InForce(v) = row.approval.nonce /\ UsedUp(v) = TRUE
    <3>1. CurrentShowcase(v) = a
      BY <2>4, <2>5 DEF CurrentShowcase
    <3>2. a.consumed = TRUE
      BY <2>2 DEF Approvals
    <3> QED
      BY <2>2, <2>3, <2>4, <3>1, <3>2 DEF InForce, UsedUp
  <2>9. Stage(row) = "approved" /\ Stage(v) = Stage(row)
    BY <2>4, <2>5, Stages DEF Stage
  <2>10. Gate!Spend
    BY <1>1, <2>4, <2>5, <2>6, <2>7, <2>8, <2>9 DEF Gate!Spend
  <2> QED
    BY <1>1, <1>3, <2>10, GateGoto
<1>4. CASE /\ ConsumeShowcase(t) /\ Consumable(row.showcase, row.showcase)
           /\ row' = [row EXCEPT !.showcase =
                                   [row.showcase EXCEPT !.consumed = TRUE]]
           /\ Goto(t, "show_reload", row)
  <2> DEFINE a == [row.showcase EXCEPT !.consumed = TRUE]
             v == [row EXCEPT !.showcase = a]
  <2>1. row.showcase \in Approvals /\ ~row.showcase.consumed /\ row.showcase # None
    BY <1>0, <1>4 DEF Consumable, Rows
  <2>2. a \in Approvals /\ a.consumed /\ a.nonce = row.showcase.nonce
    BY <2>1 DEF Approvals
  <2>3. a # None
    BY <2>2, NoneAssumption
  <2>4. row.showcase.nonce # None /\ row.state = "release_ready"
    BY <1>0, <1>4 DEF ConsumeShowcase, OnTheWay
  <2> HIDE DEF a
  <2>5. /\ v.showcase = a /\ v.state = row.state
        /\ Fingerprint(v) = Fingerprint(row)
    BY <1>0 DEF Rows, Fingerprint
  <2>6. row' = v
    BY <1>4 DEF a
  <2> HIDE DEF v
  <2>7. InForce(row) = row.showcase.nonce /\ ~UsedUp(row)
    BY <2>1, <2>4 DEF InForce, UsedUp, CurrentShowcase
  <2>8. InForce(v) = row.showcase.nonce /\ UsedUp(v) = TRUE
    <3>1. CurrentShowcase(v) = a
      BY <2>3, <2>5 DEF CurrentShowcase
    <3>2. a.consumed = TRUE
      BY <2>2 DEF Approvals
    <3> QED
      BY <2>2, <2>3, <2>4, <3>1, <3>2 DEF InForce, UsedUp
  <2>9. Stage(row) = "ready" /\ Stage(v) = Stage(row)
    BY <2>4, <2>5, Stages DEF Stage
  <2>10. Gate!Spend
    BY <1>1, <2>4, <2>5, <2>6, <2>7, <2>8, <2>9 DEF Gate!Spend
  <2> QED
    BY <1>1, <1>4, <2>10, GateGoto
<1>5. CASE Consume(t)
  BY <1>1, <1>2, <1>3, <1>5 DEF Consume, ConsumeApproval
<1>6. CASE ConsumeShowcase(t)
  <2>1. row.showcase # None
    BY <1>0, <1>6 DEF ConsumeShowcase, OnTheWay
  <2> QED
    BY <1>1, <1>2, <1>4, <1>6, <2>1 DEF ConsumeShowcase
<1> QED
  BY <1>5, <1>6

LEMMA GateReloads ==
    ASSUME IInv, IInv', OneThread, GateInv, NEW t \in Threads,
           Reload(t) \/ ReloadShowcase(t)
    PROVE  GateInv' /\ UNCHANGED Mapped
<1>0. row \in Rows /\ UNCHANGED <<row, evidence, granted, placed>>
  BY DEF IInv, TypeOK, Reload, ReloadShowcase
<1>1. UNCHANGED Mapped
  BY <1>0, GateIdle
<1>2. CASE Return(t)
  BY <1>0, <1>1, <1>2, GateReturn
<1>3. CASE Goto(t, "order", row) \/ Goto(t, "show_order", row)
  BY <1>0, <1>1, <1>3, GateGoto
<1>4. CASE Request(t, row, [row EXCEPT !.state = "blocked_risk_policy"])
  <2> DEFINE v == [row EXCEPT !.state = "blocked_risk_policy"]
  <2>0. "blocked_risk_policy" \in States \cap Terminal
    BY DEF States, Terminal, BlockedStates
  <2>1. /\ v \in Rows /\ v.approval = row.approval
        /\ v.state = "blocked_risk_policy"
        /\ v.showcase = row.showcase /\ Fingerprint(v) = Fingerprint(row)
    BY <1>0, <2>0 DEF Rows, Fingerprint
  <2>2. Request(t, row, v)
    BY <1>4
  <2> HIDE DEF v
  <2>3. Stage(v) = "closed" /\ SameApproval(row, v)
    BY <2>0, <2>1, Stages, SameApprovals
  <2>4. Move(row, v, granted', placed)
    BY <2>1, <2>3 DEF Move, Closes
  <2>5. CASE Goto(t, "commit", Settled(v))
    BY <1>0, <1>1, <2>1, <2>4, <2>5, GateCommit
  <2> QED
    BY <1>2, <2>2, <2>5 DEF Request
<1> QED
  BY <1>2, <1>3, <1>4 DEF Reload, ReloadShowcase

\* The canonical order.  Evidence that was there before rests on another
\* approval, so the handler takes it for none of its own.
LEMMA GatePlaces ==
    ASSUME IInv, IInv', OneThread, SpendInv, GateInv, NEW t \in Threads,
           PlaceOrder(t)
    PROVE  GateInv' /\ (Gate!Order \/ UNCHANGED Mapped)
<1> DEFINE a == row.approval
           n == a.nonce
<1>0. /\ row \in Rows /\ Sound(row) /\ HonestRow(row, granted, placed)
      /\ op[t] = "order" /\ OnTheWay("order", held[t], row, placed)
      /\ UNCHANGED <<row, granted>>
      /\ placed \in [Nonces \cup {None} -> Nat]
      /\ evidence \in [Runs -> Orders \cup {None}]
  BY DEF IInv, TypeOK, SpendInv, PlaceOrder
<1>1. /\ held[t] = row /\ row.state = "approved"
      /\ Spent(a, placed) /\ n \in granted /\ a \in Approvals
  BY <1>0 DEF OnTheWay, Spent, HonestRow, Honest, Rows
<1>2. n \in Nonces /\ n # None /\ placed[n] = 0 /\ a.consumed = TRUE /\ a # None
  BY <1>1 DEF Spent, IInv, TypeOK, Approvals
<1>3. row.run \in Runs /\ row.showcase = None
  BY <1>0, <1>1, NoShowcase DEF IInv, Fits, Rows
<1>4. InForce(row) = n /\ UsedUp(row) = TRUE /\ Stage(row) = "approved"
  BY <1>1, <1>2, <1>3, Stages DEF InForce, UsedUp, CurrentShowcase
<1> PICK ok \in BOOLEAN :
      /\ PlaceCanonical(row.run, n, ok)
      /\ Request(t, row, IF ok THEN Ready(row, evidence'[row.run])
                         ELSE Refused(row))
  BY <1>1 DEF PlaceOrder
<1> DEFINE v == IF ok THEN Ready(row, evidence'[row.run]) ELSE Refused(row)
<1>5. /\ v \in Rows /\ v.approval = a /\ v.showcase = row.showcase
      /\ Fingerprint(v) = Fingerprint(row)
      /\ v.state = IF ok THEN "release_ready" ELSE "blocked_exchange_error"
  <2>1. evidence'[row.run] \in Orders \cup {None}
    BY <1>3 DEF IInv, TypeOK
  <2>2. v \in Rows
    BY <1>0, <2>1, OrderedType
  <2> QED
    BY <1>0, <2>2 DEF Ready, Refused, Rows, Fingerprint
<1>6. Request(t, row, v)
  OBVIOUS
<1> HIDE DEF v
<1>7. \/ ~ok /\ evidence' = evidence /\ placed' = placed
      \/ /\ evidence' = [evidence EXCEPT ![row.run] =
               [run |-> row.run, authority |-> n, settled |-> ok]]
         /\ placed' = [placed EXCEPT ![n] = 1]
  <2>1. CASE evidence[row.run] # None
    <3>1. /\ evidence' = evidence /\ placed' = placed
          /\ ok => n = "unapproved" \/ evidence[row.run].authority = n
      BY <2>1 DEF PlaceCanonical
    <3>2. ~ok
      BY <1>2, <1>3, <2>1, <3>1, NoneAssumption DEF GateInv, Backed
    <3> QED
      BY <3>1, <3>2
  <2>2. CASE evidence[row.run] = None
    <3>1. n # "unapproved" /\ placed[n] + 1 = 1
      BY <1>2, NoneAssumption
    <3> QED
      BY <1>0, <1>2, <2>2, <3>1 DEF PlaceCanonical
  <2> QED
    BY <2>1, <2>2
<1> HIDE DEF n, a
<1>8. Gate!Order \/ UNCHANGED Mapped
  <2>1. CASE placed' = placed
    BY <1>0, <2>1, GateIdle
  <2>2. CASE placed' = [placed EXCEPT ![n] = 1]
    BY <1>0, <1>2, <1>4, <2>2 DEF Gate!Order
  <2> QED
    BY <1>7, <2>1, <2>2
<1>9. Backed(evidence', placed')
  <2>1. CASE evidence' = evidence /\ placed' = placed
    BY <2>1 DEF GateInv
  <2>2. CASE /\ evidence' = [evidence EXCEPT ![row.run] =
                  [run |-> row.run, authority |-> n, settled |-> ok]]
             /\ placed' = [placed EXCEPT ![n] = 1]
    <3>1. /\ placed'[n] = 1
          /\ \A m \in Nonces \ {n} : placed'[m] = placed[m]
      BY <1>0, <1>2, <2>2
    <3>2. /\ evidence'[row.run].authority = n
          /\ \A run \in Runs \ {row.run} : evidence'[run] = evidence[run]
      BY <1>0, <1>3, <2>2
    <3>3. ASSUME NEW run \in Runs, evidence'[run] # None,
                 evidence'[run].authority \in Nonces
          PROVE  placed'[evidence'[run].authority] > 0
      <4>1. CASE evidence'[run].authority = n
        BY <3>1, <4>1
      <4>2. CASE evidence'[run].authority # n
        <5>1. evidence'[run] = evidence[run]
          BY <3>2, <4>2
        <5>2. placed[evidence[run].authority] > 0
          BY <3>3, <5>1 DEF GateInv, Backed
        <5> QED
          BY <3>1, <3>3, <4>2, <5>1, <5>2
      <4> QED
        BY <4>1, <4>2
    <3> QED
      BY <3>3 DEF Backed
  <2> QED
    BY <1>7, <2>1, <2>2
<1>10. Move(row', v, granted', placed')
  <2>1. SameApproval(row, v)
    BY <1>5, SameApprovals DEF a
  <2>2. CASE ok
    <3>1. placed'[n] = 1
      BY <1>0, <1>2, <1>7, <2>2
    <3>2. Stage(v) = "ready"
      BY <1>5, <2>2, Stages
    <3>3. Finishes(row, v, placed')
      BY <1>2, <1>4, <2>1, <3>1, <3>2 DEF Finishes
    <3> QED
      BY <1>0, <1>5, <3>3 DEF Move
  <2>3. CASE ~ok
    <3>1. Stage(v) = "closed"
      BY <1>5, <2>3, Stages DEF Terminal, BlockedStates
    <3> QED
      BY <1>0, <1>5, <2>1, <3>1 DEF Move, Closes
  <2> QED
    BY <2>2, <2>3
<1>11. GateInv'
  <2>1. CASE Goto(t, "commit", Settled(v))
    <3>1. Settled(v) = v
      BY <1>5, <2>1, WrittenAsAsked
    <3>2. Goto(t, "commit", v)
      BY <2>1, <3>1
    <3> QED
      BY <1>9, <1>10, <3>2, GateMoves
  <2>2. CASE Goto(t, "idle", NewRelease)
    BY <1>9, <2>2, GateMoves
  <2> QED
    BY <1>6, <2>1, <2>2 DEF Request, Return
<1> QED
  BY <1>8, <1>11

LEMMA GateShowcase ==
    ASSUME IInv, IInv', OneThread, SpendInv, GateInv, NEW t \in Threads,
           PlaceShowcase(t)
    PROVE  GateInv' /\ (Gate!Order \/ UNCHANGED Mapped)
<1> DEFINE n == row.showcase.nonce
<1>0. /\ row \in Rows /\ OnTheWay("show_order", held[t], row, placed)
      /\ op[t] = "show_order" /\ HonestRow(row, granted, placed)
      /\ UNCHANGED <<row, evidence, granted>> /\ Return(t)
      /\ placed \in [Nonces \cup {None} -> Nat] /\ granted \subseteq Nonces
  BY DEF IInv, TypeOK, SpendInv, PlaceShowcase
<1>1. /\ held[t] = row /\ row.state = "release_ready" /\ row.showcase # None
      /\ n # None /\ row.showcase.consumed /\ placed[n] = 0 /\ n \in Nonces
  BY <1>0 DEF OnTheWay, Spent, HonestRow, Honest
<1>2. /\ CurrentShowcase(row) = row.showcase /\ InForce(row) = n
      /\ UsedUp(row) /\ Stage(row) = "ready"
  BY <1>1, Stages DEF CurrentShowcase, InForce, UsedUp
<1>3. placed' = placed \/ placed' = [placed EXCEPT ![n] = placed[n] + 1]
  BY <1>1, <1>2 DEF PlaceShowcase
<1> HIDE DEF n
<1>4. CASE placed' = placed
  BY <1>0, <1>4, GateReturn, GateIdle
<1>5. CASE placed' = [placed EXCEPT ![n] = placed[n] + 1]
  <2>1. placed' = [placed EXCEPT ![n] = 1]
    BY <1>1, <1>5
  <2>2. Gate!Order
    BY <1>0, <1>1, <1>2, <2>1 DEF Gate!Order
  <2>3. \A m \in Nonces : placed[m] > 0 => placed'[m] > 0
    BY <1>0, <1>1, <2>1
  <2>4. Backed(evidence', placed')
    BY <1>0, <2>3 DEF GateInv, Backed
  <2>5. Goto(t, "idle", NewRelease)
    BY <1>0 DEF Return
  <2>6. GateInv'
    BY <2>4, <2>5, GateMoves
  <2> QED
    BY <2>2, <2>6
<1> QED
  BY <1>3, <1>4, <1>5

\* Orders without a release rest on no approval.
LEMMA GateOther ==
    ASSUME IInv, OneThread, GateInv,
           \/ \E t \in Threads : ExecuteRun(t)
           \/ (\E run \in Runs : FinishRun(run)) \/ Crash \/ UNCHANGED vars
    PROVE  GateInv' /\ UNCHANGED Mapped
<1>1. UNCHANGED <<row, granted, placed>>
  BY DEF ExecuteRun, PlaceCanonical, FinishRun, Crash, vars
<1>2. UNCHANGED Mapped
  BY <1>1, GateIdle
<1>3. Backed(evidence', placed')
  <2>1. CASE evidence' = evidence
    BY <1>1, <2>1 DEF GateInv
  <2>2. ASSUME NEW t \in Threads, ExecuteRun(t)
        PROVE  Backed(evidence', placed')
    <3> PICK run \in Runs, ok \in BOOLEAN : PlaceCanonical(run, "unapproved", ok)
      BY <2>2 DEF ExecuteRun
    <3>1. CASE evidence' = [evidence EXCEPT ![run] =
                 [run |-> run, authority |-> "unapproved", settled |-> ok]]
      <4>1. /\ evidence'[run].authority = "unapproved"
            /\ \A r \in Runs \ {run} : evidence'[r] = evidence[r]
        BY <3>1 DEF IInv, TypeOK
      <4> QED
        BY <1>1, <4>1, NoneAssumption DEF GateInv, Backed
    <3>2. CASE evidence' = evidence
      BY <1>1, <3>2 DEF GateInv
    <3> QED
      BY <3>1, <3>2 DEF PlaceCanonical
  <2> QED
    BY <2>1, <2>2 DEF FinishRun, Crash, vars
<1>4. \A t \in Threads : op'[t] = "commit" => Move(row', held'[t], granted', placed')
  <2>1. CASE Crash
    BY <2>1 DEF Crash
  <2>2. CASE op' = op /\ held' = held
    BY <1>1, <2>2 DEF GateInv
  <2> QED
    BY <2>1, <2>2 DEF ExecuteRun, FinishRun, vars
<1> QED
  BY <1>2, <1>3, <1>4 DEF GateInv

LEMMA GateStep ==
    ASSUME IInv, IInv', OneThread, SpendInv, GateInv, [Next]_vars
    PROVE  GateInv' /\ (Gate!Next \/ UNCHANGED Mapped)
<1>1. ASSUME NEW t \in Threads, Step(t)
      PROVE  GateInv' /\ (Gate!Next \/ UNCHANGED Mapped)
  <2>1. CASE BindRedlineRun(t) \/ ImportSimulation(t) \/ BindRiskPolicy(t)
    BY <2>1, GateBinding
  <2>2. CASE Reject(t) \/ Kill(t)
    BY <2>2, GateCloses
  <2>3. CASE Approve(t)
    BY <2>3, GateApproves DEF Gate!Next
  <2>4. CASE BuildBundle(t)
    BY <2>4, GateBundle
  <2>5. CASE Commit(t)
    BY <2>5, GateWrites
  <2>6. CASE StartExecute(t) \/ StartShowcase(t)
    BY <2>6, GateStarts
  <2>7. CASE Consume(t) \/ ConsumeShowcase(t)
    BY <2>7, GateSpends DEF Gate!Next
  <2>8. CASE Reload(t) \/ ReloadShowcase(t)
    BY <2>8, GateReloads
  <2>9. CASE PlaceOrder(t)
    BY <2>9, GatePlaces DEF Gate!Next
  <2>10. CASE PlaceShowcase(t)
    BY <2>10, GateShowcase DEF Gate!Next
  <2>11. CASE ExecuteRun(t)
    BY <2>11, GateOther
  <2> QED
    BY <1>1, <2>1, <2>2, <2>3, <2>4, <2>5, <2>6, <2>7, <2>8, <2>9, <2>10, <2>11
    DEF Step
<1> QED
  BY <1>1, GateOther DEF Next

LEMMA GateInit == Init => GateInv /\ Gate!Init
<1> SUFFICES ASSUME Init PROVE GateInv /\ Gate!Init
  OBVIOUS
<1>1. GateInv
  BY DEF Init, GateInv, Backed
<1>2. /\ Stage(NewRelease) = "open" /\ InForce(NewRelease) = None
      /\ UsedUp(NewRelease) = FALSE
  BY DEF Stage, InForce, UsedUp, CurrentShowcase, NewRelease, Terminal, BlockedStates
<1>3. Fingerprint(NewRelease) \in Fingerprints
  BY NewReleaseType, FingerprintType
<1>4. Gate!Init
  BY <1>2, <1>3 DEF Init, Gate!Init
<1> QED
  BY <1>1, <1>4

\* As long as a client waits for each answer, the handlers with their rows in
\* flight, their orders and their crashes keep the promises of ReleaseGate
\* (GateSpec): every order spends an approval of its own of the evidence under
\* review, and what is closed stays closed.
THEOREM SerialImplements ==
    ASSUME OneThread
    PROVE  Spec => GateSpec
<1>1. Init => SpendInv /\ GateInv /\ Gate!Init
  BY SpendInit, GateInit
<1>2. IInv /\ IInv' /\ SpendInv /\ GateInv /\ [Next]_vars
        => SpendInv' /\ GateInv' /\ [Gate!Next]_Mapped
  BY SpendStep, GateStep
<1> QED
  BY <1>1, <1>2, Inductive, PTL DEF Spec, GateSpec, Gate!Spec, Gate!vars, Mapped

=============================================================================
