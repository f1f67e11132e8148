------------------------- MODULE ReleaseTransitions -------------------------
(***************************************************************************)
(* The release state machine of redline.service.transitions: the states,   *)
(* the transition table, the evidence a target state requires, and what    *)
(* _transition_release_or_409 makes of a requested transition.             *)
(*                                                                         *)
(* A release candidate is one database row.  Hashes are identities here:   *)
(* a run, a simulation import and a risk policy are each one value, and    *)
(* two of them are equal exactly when their hashes are.                    *)
(***************************************************************************)
EXTENDS Naturals

CONSTANTS
    Runs,         \* run ids
    Simulations,  \* simulation evidence hashes
    Policies,     \* risk policies, see PolicyFlags
    Nonces,       \* approval nonces
    None          \* Python's None

(***************************************************************************)
(* blocks: risk_policy_breach blocks the default execution request.        *)
(* require*: the three require_* switches of RiskPolicyRequest.            *)
(***************************************************************************)
PolicyFlags == [blocks: BOOLEAN, requireSimulation: BOOLEAN,
                requireApproval: BOOLEAN, requireDemo: BOOLEAN]

ASSUME PolicyAssumption == Policies \subseteq PolicyFlags
-----------------------------------------------------------------------------
BlockedStates == {"blocked_withheld", "blocked_unverified",
                  "blocked_missing_evidence", "blocked_risk_policy",
                  "blocked_approval", "blocked_exchange_error"}

Terminal == {"released_demo", "released_live_gated", "rejected", "killed"}
                \cup BlockedStates

States == {"draft", "redline_running", "redline_passed",
           "evidence_collecting", "review_required", "approved",
           "demo_executed", "release_ready"} \cup Terminal

AllowedTransitions == [s \in States |->
    CASE s = "draft" ->
           {"redline_running", "redline_passed", "evidence_collecting",
            "blocked_missing_evidence", "blocked_withheld",
            "blocked_unverified", "killed"}
      [] s = "redline_running" ->
           {"redline_passed", "blocked_missing_evidence", "blocked_withheld",
            "blocked_unverified", "killed"}
      [] s = "redline_passed" ->
           {"evidence_collecting", "review_required",
            "blocked_missing_evidence", "blocked_risk_policy", "killed"}
      [] s = "evidence_collecting" ->
           {"evidence_collecting", "review_required",
            "blocked_missing_evidence", "blocked_risk_policy", "killed"}
      [] s = "review_required" ->
           {"approved", "rejected", "blocked_missing_evidence", "killed"}
      [] s = "approved" ->
           {"release_ready", "evidence_collecting", "review_required",
            "blocked_missing_evidence", "blocked_risk_policy",
            "blocked_exchange_error", "killed"}
      [] s = "demo_executed" -> {"release_ready", "killed"}
      [] s = "release_ready" ->
           {"released_demo", "released_live_gated", "killed"}
      [] OTHER -> {}]

-----------------------------------------------------------------------------
(***************************************************************************)
(* What the row stores.  redline is the verdict copied from the run when   *)
(* it was bound; execution is the canonical execution evidence.            *)
(***************************************************************************)
Verdicts == {"queued", "pass", "withheld", "error"}

Fingerprints == [run: Runs \cup {None}, simulation: Simulations \cup {None},
                 policy: Policies \cup {None}]

Approvals == [decision: {"approve", "reject"}, nonce: Nonces \cup {None},
              fp: Fingerprints, consumed: BOOLEAN]

Orders == [run: Runs, authority: Nonces \cup {None, "unapproved"},
           settled: BOOLEAN]

Rows == [state: States, run: Runs \cup {None},
         redline: Verdicts \cup {None},
         simulation: Simulations \cup {None},
         policy: Policies \cup {None},
         approval: Approvals \cup {None},
         showcase: Approvals \cup {None},
         execution: Orders \cup {None},
         manifest: BOOLEAN]

\* None is none of the values it stands in for.
ASSUME NoneAssumption ==
    /\ None \notin Runs \cup Simulations \cup Policies \cup Nonces
    /\ None \notin Verdicts \cup Approvals \cup Orders
    /\ "unapproved" \notin Nonces \cup {None}

NewRelease == [state |-> "draft", run |-> None, redline |-> None,
               simulation |-> None, policy |-> None, approval |-> None,
               showcase |-> None, execution |-> None, manifest |-> FALSE]

\* What a reviewer signs: the receipt and report hashes are functions of the
\* run, the package of the release.
Fingerprint(r) ==
    [run |-> r.run, simulation |-> r.simulation, policy |-> r.policy]

RedlinePass(r) == r.run # None /\ r.redline = "pass"

\* What the release tier depends on, but for the controls of the live gate.
TierSignals(r) ==
    [redline_passed |-> RedlinePass(r),
     simulation_evidence |-> r.simulation # None,
     risk_policy |-> r.policy # None,
     demo_execution |-> r.execution # None]

\* compute_release_tier, done for every row a transition makes; the row
\* writes that are none leave the signals alone.  Only a live-gated release
\* is L2.
Tier(r) ==
    LET signals == TierSignals(r)
    IN  IF /\ signals.redline_passed /\ signals.simulation_evidence
           /\ signals.risk_policy /\ signals.demo_execution
        THEN "L1" ELSE "L0"

-----------------------------------------------------------------------------
(***************************************************************************)
(* Evidence the target state still misses; a policy that is absent         *)
(* requires everything.                                                    *)
(***************************************************************************)
Requires(r, flag) == r.policy = None \/ r.policy[flag]

MissingEvidence(r) ==
    \/ /\ r.state \in {"review_required", "approved", "release_ready",
                       "released_demo", "released_live_gated"}
       /\ \/ ~RedlinePass(r)
          \/ r.policy = None
          \/ Requires(r, "requireSimulation") /\ r.simulation = None
    \/ /\ r.state \in {"approved", "release_ready", "released_demo",
                       "released_live_gated"}
       /\ Requires(r, "requireApproval")
       /\ r.approval = None
    \/ /\ r.state \in {"release_ready", "released_demo",
                       "released_live_gated"}
       /\ Requires(r, "requireDemo")
       /\ r.execution = None

\* Mutant: only a kill is terminal.
AcceptsUnlessKilled(r, u) == r.state = "killed" => u.state = r.state

\* transition_release from r to the updated row u is not refused with a 409.
Accepts(r, u) ==
    \/ u.state = r.state
    \/ r.state \notin Terminal /\ u.state \in AllowedTransitions[r.state]

\* Missing evidence is not an error: the updates are kept and the release is
\* blocked.
Settled(u) ==
    IF MissingEvidence(u)
    THEN [u EXCEPT !.state = "blocked_missing_evidence"]
    ELSE u

=============================================================================
