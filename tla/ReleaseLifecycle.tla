-------------------------- MODULE ReleaseLifecycle --------------------------
(***************************************************************************)
(* One release candidate under the handlers of redline.service.app.        *)
(*                                                                         *)
(* Handlers are synchronous FastAPI endpoints: they run in the threads of  *)
(* a pool and share nothing but the database row and the execution lock.   *)
(* Each of them reads the row, computes from that snapshot the row it      *)
(* wants, and overwrites every column (update_release_candidate has no     *)
(* version check).  The two exceptions are the consumption of an approval, *)
(* a compare-and-swap in the store, and the exchange order itself, placed  *)
(* under service.execution_lock.                                           *)
(*                                                                         *)
(* A request that is refused writes nothing, so only requests that pass    *)
(* their checks start a handler here; freeze switches, roles and scopes    *)
(* and the expiry of an approval (no clock is modelled) only refuse more.  *)
(***************************************************************************)
EXTENDS ReleaseTransitions

CONSTANT Threads  \* threads of the pool; one thread is a service whose client
                  \* waits for each answer before it asks again

VARIABLES
    row,       \* the release candidate in the store
    verdict,   \* verdict[run]: state of the run row
    evidence,  \* evidence[run]: execution-evidence.json of the run, or None
    op,        \* op[t]: next step of the request thread t is serving
    held,      \* held[t]: the row object the handler holds
    granted,   \* nonces handed out so far
    placed     \* history: exchange orders placed on the authority of a nonce

vars == <<row, verdict, evidence, op, held, granted, placed>>

Steps == {"idle", "commit", "consume", "reload", "order",
          "show_consume", "show_reload", "show_order"}

TypeOK ==
    /\ row \in Rows
    /\ verdict \in [Runs -> Verdicts]
    /\ evidence \in [Runs -> Orders \cup {None}]
    /\ op \in [Threads -> Steps]
    /\ held \in [Threads -> Rows]
    /\ granted \subseteq Nonces
    /\ placed \in [Nonces \cup {None} -> Nat]

Init ==
    /\ row = NewRelease
    /\ verdict = [run \in Runs |-> "queued"]
    /\ evidence = [run \in Runs |-> None]
    /\ op = [t \in Threads |-> "idle"]
    /\ held = [t \in Threads |-> NewRelease]
    /\ granted = {}
    /\ placed = [n \in Nonces \cup {None} |-> 0]

-----------------------------------------------------------------------------
\* Thread t is free to take a request.
Free(t) == op[t] = "idle"

Goto(t, step, r) ==
    /\ op' = [op EXCEPT ![t] = step]
    /\ held' = [held EXCEPT ![t] = r]

\* The request of t ends; what it held is gone.
Return(t) == Goto(t, "idle", NewRelease)

\* The handler of t, looking at r, wants to write u.
Request(t, r, u) ==
    IF Accepts(r, u) THEN Goto(t, "commit", Settled(u)) ELSE Return(t)

\* A request whose computation needs only the row: read it, compute the next
\* one.  Refused ones change nothing and are left out.
Serve(t, u) ==
    /\ Free(t)
    /\ Accepts(row, u)
    /\ Goto(t, "commit", Settled(u))
    /\ UNCHANGED <<row, verdict, evidence, granted, placed>>

\* store.update_release_candidate: the whole row, whatever it is by now.
Commit(t) ==
    /\ op[t] = "commit"
    /\ row' = held[t]
    /\ Return(t)
    /\ UNCHANGED <<verdict, evidence, granted, placed>>

-----------------------------------------------------------------------------
(* Binding evidence.  Each of the three clears the approval.               *)

StateForBoundRun(v) ==
    CASE v = "queued" -> "redline_running"
      [] v = "pass" -> "redline_passed"
      [] v = "withheld" -> "blocked_withheld"
      [] OTHER -> "blocked_unverified"

BindRedlineRun(t) ==
    /\ row.state # "killed"
    /\ \E run \in Runs :
         Serve(t, [row EXCEPT !.state = StateForBoundRun(verdict[run]),
                              !.run = run,
                              !.redline = verdict[run],
                              !.approval = None,
                              !.manifest = FALSE])

\* Mutant: the approval survives a new import.
ImportSimulationKeepsApproval(t) ==
    /\ row.state \notin Terminal
    /\ \E sim \in Simulations :
         Serve(t, [row EXCEPT !.state = IF row.policy # None /\ RedlinePass(row)
                                        THEN "review_required"
                                        ELSE "evidence_collecting",
                              !.simulation = sim,
                              !.manifest = FALSE])

ImportSimulation(t) ==
    /\ row.state \notin Terminal
    /\ \E sim \in Simulations :
         Serve(t, [row EXCEPT !.state = IF row.policy # None /\ RedlinePass(row)
                                        THEN "review_required"
                                        ELSE "evidence_collecting",
                              !.simulation = sim,
                              !.approval = None,
                              !.manifest = FALSE])

\* Mutant: a policy sends a passing release to review without simulation.
StateForPolicyWithoutSimulation(r, p) ==
    IF p.blocks THEN "blocked_risk_policy"
    ELSE IF RedlinePass(r) THEN "review_required"
    ELSE "evidence_collecting"

StateForPolicy(r, p) ==
    IF p.blocks THEN "blocked_risk_policy"
    ELSE IF RedlinePass(r) /\ r.simulation # None THEN "review_required"
    ELSE "evidence_collecting"

BindRiskPolicy(t) ==
    /\ row.state \notin Terminal
    /\ \E p \in Policies :
         Serve(t, [row EXCEPT !.state = StateForPolicy(row, p),
                              !.policy = p,
                              !.approval = None,
                              !.manifest = FALSE])

-----------------------------------------------------------------------------
(* Review.                                                                 *)

\* _approval_block_reason
Approvable(r) ==
    /\ r.state \notin {"killed", "rejected", "blocked_withheld",
                       "blocked_unverified", "blocked_risk_policy",
                       "blocked_exchange_error"}
    /\ r.run # None
    /\ verdict[r.run] = "pass"
    /\ r.redline = "pass"
    /\ r.policy # None
    /\ ~r.policy.blocks
    /\ r.policy.requireSimulation => r.simulation # None

Approval(n) == [decision |-> "approve", nonce |-> n,
                fp |-> Fingerprint(row), consumed |-> FALSE]

\* Outside release_ready an approval is a transition to approved; there it
\* is a showcase approval kept in the metadata, and no transition at all.
Approve(t) ==
    /\ Free(t)
    /\ Approvable(row)
    /\ \E n \in Nonces \ granted :
         /\ granted' = granted \cup {n}
         /\ IF row.state = "release_ready"
            THEN Goto(t, "commit", [row EXCEPT !.showcase = Approval(n)])
            ELSE LET u == [row EXCEPT !.state = "approved",
                                      !.approval = Approval(n)]
                 IN  /\ Accepts(row, u)
                     /\ Goto(t, "commit", Settled(u))
    /\ UNCHANGED <<row, verdict, evidence, placed>>

Reject(t) ==
    Serve(t, [row EXCEPT !.state = "rejected",
                         !.approval = [decision |-> "reject", nonce |-> None,
                                       fp |-> Fingerprint(row),
                                       consumed |-> FALSE]])

Kill(t) == Serve(t, [row EXCEPT !.state = "killed"])

\* attest, GET .../evidence and GET .../attestation (the last asks for nothing):
\* build the bundle once, store its manifest by writing back the row as read.
BuildBundle(t) ==
    /\ Free(t)
    /\ ~row.manifest
    /\ Goto(t, "commit", [row EXCEPT !.manifest = TRUE])
    /\ UNCHANGED <<row, verdict, evidence, granted, placed>>

-----------------------------------------------------------------------------
(* execute-demo: check, consume the approval, read the row again, order,   *)
(* write.                                                                  *)

\* _approval_block_reason_for_execution finds nothing wrong with approval a.
Usable(r, a) ==
    /\ a # None
    /\ a.fp = Fingerprint(r)
    /\ ~a.consumed
    /\ a.nonce # None

\* Mutant: the state of the release is not looked at.
StartExecuteInAnyState(t) ==
    /\ Free(t)
    /\ row.execution = None
    /\ Usable(row, row.approval)
    /\ Goto(t, "consume", row)
    /\ UNCHANGED <<row, verdict, evidence, granted, placed>>

StartExecute(t) ==
    /\ Free(t)
    /\ row.execution = None
    /\ row.state = "approved"
    /\ Usable(row, row.approval)
    /\ Goto(t, "consume", row)
    /\ UNCHANGED <<row, verdict, evidence, granted, placed>>

\* The stored approval a still is the one the handler saw, and is unconsumed.
Consumable(a, seen) == a # None /\ a.nonce = seen.nonce /\ ~a.consumed

\* Mutant: the approval is checked but never marked.
ConsumeApprovalUnmarked(t, next) ==
    /\ row' = row
    /\ IF Consumable(row.approval, held[t].approval)
       THEN Goto(t, next, held[t])
       ELSE Return(t)
    /\ UNCHANGED <<verdict, evidence, granted, placed>>

\* store.consume_release_approval: one conditional UPDATE of the approval
\* columns.
ConsumeApproval(t, next) ==
    /\ IF Consumable(row.approval, held[t].approval)
       THEN /\ row' = [row EXCEPT !.approval =
                                    [row.approval EXCEPT !.consumed = TRUE]]
            /\ Goto(t, next, held[t])
       ELSE row' = row /\ Return(t)
    /\ UNCHANGED <<verdict, evidence, granted, placed>>

Consume(t) == op[t] = "consume" /\ ConsumeApproval(t, "reload")

\* The handler goes on with the row as it is after the UPDATE.  The request's
\* own symbol, product or size may still breach the policy.
Reload(t) ==
    /\ op[t] = "reload"
    /\ IF row.policy = None
       THEN Return(t)
       ELSE \/ Request(t, row, [row EXCEPT !.state = "blocked_risk_policy"])
            \/ IF row.run = None \/ row.approval = None
               THEN Return(t)
               ELSE Goto(t, "order", row)
    /\ UNCHANGED <<row, verdict, evidence, granted, placed>>

Ready(r, order) == [r EXCEPT !.state = "release_ready",
                             !.execution = order,
                             !.manifest = FALSE]

Refused(r) == [r EXCEPT !.state = "blocked_exchange_error"]

\* Mutant: existing evidence is taken whoever authorised its order.
PlaceCanonicalForAnyone(run, who, ok) ==
    IF evidence[run] # None
    THEN /\ ok => evidence[run].settled
         /\ UNCHANGED <<evidence, placed>>
    ELSE \/ /\ verdict[run] = "pass"
            /\ evidence' = [evidence EXCEPT ![run] =
                   [run |-> run, authority |-> who, settled |-> ok]]
            /\ placed' = IF who = "unapproved" THEN placed
                         ELSE [placed EXCEPT ![who] = @ + 1]
         \/ ~ok /\ UNCHANGED <<evidence, placed>>

(***************************************************************************)
(* _execute_bitget_demo_order for run under authority who, as one step of  *)
(* the thread that holds service.execution_lock.  ok: the order stands and *)
(* its evidence is bound to who.  An order the exchange took but whose     *)
(* status could not be reconciled leaves evidence behind and reports       *)
(* failure; everything that fails earlier leaves none.  placed counts the  *)
(* orders evidence was recorded for; DemoExecution opens this step up.     *)
(***************************************************************************)
PlaceCanonical(run, who, ok) ==
    LET known == evidence[run]
    IN  IF known # None
        THEN /\ ok => /\ known.settled
                      /\ who # "unapproved" => known.authority = who
             /\ evidence' = evidence
             /\ placed' = placed
        ELSE \/ /\ verdict[run] = "pass"
                /\ evidence' = [evidence EXCEPT ![run] =
                       [run |-> run, authority |-> who, settled |-> ok]]
                /\ placed' = IF who = "unapproved" THEN placed
                             ELSE [placed EXCEPT ![who] = @ + 1]
             \/ /\ ~ok
                /\ evidence' = evidence
                /\ placed' = placed

PlaceOrder(t) ==
    /\ op[t] = "order"
    /\ \E ok \in BOOLEAN :
         /\ PlaceCanonical(held[t].run, held[t].approval.nonce, ok)
         /\ Request(t, held[t],
                    IF ok THEN Ready(held[t], evidence'[held[t].run])
                          ELSE Refused(held[t]))
    /\ UNCHANGED <<row, verdict, granted>>

\* POST /runs/{id}/execute: the same order without any release.
ExecuteRun(t) ==
    /\ Free(t)
    /\ \E run \in Runs, ok \in BOOLEAN :
         PlaceCanonical(run, "unapproved", ok)
    /\ UNCHANGED <<row, verdict, op, held, granted>>

-----------------------------------------------------------------------------
(* demo-showcase-orders: a further order per approval, release state       *)
(* unchanged.                                                              *)

CurrentShowcase(r) == IF r.showcase # None THEN r.showcase ELSE r.approval

StartShowcase(t) ==
    /\ Free(t)
    /\ row.state = "release_ready"
    /\ row.execution # None
    /\ Usable(row, CurrentShowcase(row))
    /\ Goto(t, "show_consume", row)
    /\ UNCHANGED <<row, verdict, evidence, granted, placed>>

\* store.consume_release_showcase_approval: conditional on the metadata.
ConsumeShowcase(t) ==
    /\ op[t] = "show_consume"
    /\ IF held[t].showcase = None
       THEN ConsumeApproval(t, "show_reload")
       ELSE /\ IF Consumable(row.showcase, held[t].showcase)
               THEN /\ row' = [row EXCEPT !.showcase =
                                 [row.showcase EXCEPT !.consumed = TRUE]]
                    /\ Goto(t, "show_reload", held[t])
               ELSE row' = row /\ Return(t)
            /\ UNCHANGED <<verdict, evidence, granted, placed>>

\* The release state is not looked at again; the canonical evidence is.
ReloadShowcase(t) ==
    /\ op[t] = "show_reload"
    /\ \/ Return(t)    \* the request itself breaches the policy
       \/ /\ row.policy # None
          /\ row.execution # None
          /\ evidence[row.execution.run] = row.execution
          /\ Goto(t, "show_order", row)
    /\ UNCHANGED <<row, verdict, evidence, granted, placed>>

\* Every attempt has a client order id of its own, so the exchange does not
\* recognise a second one.
PlaceShowcase(t) ==
    /\ op[t] = "show_order"
    /\ \/ placed' = [placed EXCEPT ![CurrentShowcase(held[t]).nonce] = @ + 1]
       \/ placed' = placed
    /\ Return(t)
    /\ UNCHANGED <<row, verdict, evidence, granted>>

-----------------------------------------------------------------------------
\* A worker finishes a run.
FinishRun(run) ==
    /\ verdict[run] = "queued"
    /\ \E v \in Verdicts \ {"queued"} : verdict' = [verdict EXCEPT ![run] = v]
    /\ UNCHANGED <<row, evidence, op, held, granted, placed>>

\* The process stops: requests in flight are lost, database and files stay.
Crash ==
    /\ \E t \in Threads : op[t] # "idle"
    /\ op' = [t \in Threads |-> "idle"]
    /\ held' = [t \in Threads |-> NewRelease]
    /\ UNCHANGED <<row, verdict, evidence, granted, placed>>

Step(t) ==
    \/ BindRedlineRun(t) \/ ImportSimulation(t) \/ BindRiskPolicy(t)
    \/ Approve(t) \/ Reject(t) \/ Kill(t) \/ BuildBundle(t) \/ Commit(t)
    \/ StartExecute(t) \/ Consume(t) \/ Reload(t) \/ PlaceOrder(t)
    \/ ExecuteRun(t)
    \/ StartShowcase(t) \/ ConsumeShowcase(t) \/ ReloadShowcase(t)
    \/ PlaceShowcase(t)

Next ==
    \/ \E t \in Threads : Step(t)
    \/ \E run \in Runs : FinishRun(run)
    \/ Crash

Spec == Init /\ [][Next]_vars

-----------------------------------------------------------------------------
(***************************************************************************)
(* Properties that hold however the threads interleave.                    *)
(***************************************************************************)

\* An approval in the row, of the release or of its showcase orders, was
\* given for exactly the run, simulation and policy the row holds: no
\* interleaving of imports, reviews and whole-row writes mixes the two
\* (evidence_fingerprint, checked again before each order).
ApprovalBindsEvidence ==
    \A a \in {row.approval, row.showcase} \ {None} : a.fp = Fingerprint(row)

\* A release past review stands on a passing run, a policy that does not
\* block and a simulation import, also when the policy does not require one.
ReviewedIsComplete ==
    row.state \in {"review_required", "approved", "rejected", "release_ready"}
        => /\ RedlinePass(row)
           /\ row.policy # None /\ ~row.policy.blocks
           /\ row.simulation # None

\* A ready release carries the order its run's evidence file records, and the
\* approval in the row is the one that order was placed under (the
\* chain-approval-link and execution-link checks of the evidence bundle).  The
\* tier L1 is shown of ready releases, and else only of one that was killed
\* when it was ready: no stale write and no rejection leaves a release that
\* may not have an order with the tier of one that has.
ReadyIsBacked ==
    /\ row.state = "release_ready"
        => /\ row.execution # None
           /\ row.execution.run = row.run
           /\ row.execution = evidence[row.run]
           /\ row.approval # None
           /\ row.approval.decision = "approve"
           /\ row.execution.authority = row.approval.nonce
           /\ Tier(row) = "L1"
    /\ Tier(row) = "L1" => row.state \in {"release_ready", "killed"}

\* The handlers' own guards imply the evidence the transition table asks for:
\* none of them turns its request into blocked_missing_evidence.
NoHandlerMissesEvidence == row.state # "blocked_missing_evidence"

(***************************************************************************)
(* Why they hold: every row object, stored or held by a handler, is sound  *)
(* by itself, so overwriting the store with a stale one cannot make an     *)
(* unsound row; and the evidence files, which rows refer to, only grow.    *)
(***************************************************************************)
Complete(r) ==
    /\ RedlinePass(r)
    /\ r.policy # None /\ ~r.policy.blocks
    /\ r.simulation # None

Granted(a) ==
    /\ a # None
    /\ a.decision = "approve"
    /\ a.nonce \in Nonces

Sound(r) ==
    /\ r.state \notin {"blocked_missing_evidence", "demo_executed",
                       "released_demo", "released_live_gated"}
    /\ \A a \in {r.approval, r.showcase} \ {None} : a.fp = Fingerprint(r)
    /\ r.policy # None /\ r.policy.blocks => r.state = "blocked_risk_policy"
    /\ r.state \in {"review_required", "approved", "rejected", "release_ready"}
         => Complete(r)
    /\ r.state \in {"approved", "release_ready"} => Granted(r.approval)
    /\ r.state = "release_ready" => r.execution # None
    /\ r.execution # None =>
         /\ r.state \in {"release_ready", "killed"}
         /\ Granted(r.approval)
         /\ r.execution.run = r.run
         /\ r.execution.authority = r.approval.nonce
    /\ r.showcase # None => r.execution # None /\ Granted(r.showcase)

\* The execution a row carries is the one in the evidence file of its run.
Recorded(r) == r.execution # None => r.execution = evidence[r.run]

\* What a handler has checked before it takes the step.
Fits(step, r) ==
    /\ step = "consume" => Granted(r.approval)
    /\ step = "order" => r.run # None /\ r.approval # None
    /\ step \in {"show_consume", "show_order"} => r.execution # None

IInv ==
    /\ TypeOK
    /\ Sound(row) /\ Recorded(row)
    /\ \A t \in Threads : Sound(held[t]) /\ Recorded(held[t]) /\ Fits(op[t], held[t])
    /\ \A run \in Runs : evidence[run] # None => evidence[run].run = run

(***************************************************************************)
(* Properties of one request at a time, that is, of a single thread.       *)
(***************************************************************************)

\* A terminal or blocked state is never left.
TerminalIsFinal == [][row.state \in Terminal => row'.state = row.state]_row

\* An order is placed for a release only on the authority of an approval that
\* was granted, and of one no other order, canonical or showcase, is placed on:
\* it is consumed before the order and never becomes usable again.
OrdersNeedApproval ==
    \A n \in Nonces \cup {None} :
        placed[n] > 0 => n \in granted /\ placed[n] = 1

\* No order is sent for a release that is not approved or ready when the
\* order is sent, a killed one above all.
OrdersOnlyWhileLive ==
    [][placed' # placed => row.state \in {"approved", "release_ready"}]_vars

\* When the evidence under review changes, the approval goes and the review
\* starts again.
EvidenceChangeVoidsApproval ==
    [][Fingerprint(row') # Fingerprint(row)
         => /\ row'.approval = None
            /\ row'.state \notin {"approved", "release_ready"}]_vars

\* What of a row decides about orders: how far it got, and the nonce of the
\* approval that the next order would consume.
Stage(r) ==
    CASE r.state = "approved" -> "approved"
      [] r.state = "release_ready" -> "ready"
      [] r.state \in Terminal -> "closed"
      [] OTHER -> "open"

InForce(r) ==
    IF CurrentShowcase(r) = None THEN None ELSE CurrentShowcase(r).nonce

UsedUp(r) == InForce(r) # None /\ CurrentShowcase(r).consumed

Gate == INSTANCE ReleaseGate WITH
    Evidence <- Fingerprints, stage <- Stage(row), evidence <- Fingerprint(row),
    approval <- InForce(row), spent <- UsedUp(row), orders <- placed

\* With a single client every step of the handlers, whole-row writes, orders
\* and crashes included, is a step of ReleaseGate or none of its business: an
\* order is preceded by an approval of its own of the evidence then under
\* review, and new evidence, a rejection or a kill takes the approval away or
\* closes the release for good.
GateSpec == Gate!Spec

=============================================================================
