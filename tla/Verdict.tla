------------------------------ MODULE Verdict ------------------------------
(***************************************************************************)
(* How a run comes to its verdict: run_redline of runner.py, decide of     *)
(* proof_kernel.py, the receipt or bundle it issues, and what verifier.py  *)
(* says of those afterwards.                                               *)
(*                                                                         *)
(* A run imports the package, replays baseline and candidate in every      *)
(* scenario, puts every probe of the spec to every replay, in the order of *)
(* suite and spec, and decides from the proofs it collected.  What each    *)
(* probe would find is fixed when the replay is done, for cells the scan   *)
(* never reaches as well, so that the verdict can be held against it.      *)
(***************************************************************************)
EXTENDS Integers, FiniteSets

CONSTANTS
    NumScenarios, \* scenarios of the suite
    NumProbes,    \* probes of the spec
    Types,        \* probe types
    None          \* no reason, no receipt

ASSUME SizesAssumption ==
    NumScenarios \in Nat \ {0} /\ NumProbes \in Nat \ {0}

ASSUME NoneAssumption ==
    None \notin {"binding", "baseline_receipt", "engine", "violation",
                 "baseline_breach"}

VARIABLES
    spec,     \* of each probe: type, the scenario it is bound to, block
    chain,    \* is the baseline the candidate of a trusted earlier receipt
    truth,    \* what each probe finds in each scenario
    stage,    \* where run_redline is
    scenario, \* the cell the scan is at
    probe,
    proofs,   \* collected so far
    cells,    \* coverage: the blocking cells visited
    missing,  \* coverage: what is missing of them, and why
    reject,   \* reason to reject, or None
    envelope, \* the decision
    receipt,  \* the receipt issued for it, or None
    answer    \* what verification says of the artifacts

vars == <<spec, chain, truth, stage, scenario, probe, proofs, cells, missing,
          reject, envelope, receipt, answer>>

Scenarios == 1 .. NumScenarios
Probes == 1 .. NumProbes
Cells == Scenarios \X Probes

\* Bound to 0: a probe that looks at every scenario.
Specs == {f \in [Probes -> [type: Types, bound: 0 .. NumScenarios,
                            block: BOOLEAN]] :
            \E p \in Probes : f[p].block}

\* baseline: the baseline already breaches; forbidden: a probe that is not
\* the one it claims to be, or that reached out of the verdict path.
Outcomes == {"pass", "breach", "baseline", "errored", "forbidden"}
Rejections == {"binding", "baseline_receipt", "engine", "violation",
               "baseline_breach"}
\* A proof; of a probe, cell is its meta, about and holds its assertion.
Simple(kind) == [kind |-> kind, bearing |-> kind # "edit_provenance",
                 cell |-> <<0, 0>>, about |-> <<>>, holds |-> TRUE]

Applies(p, s) == spec[p].bound \in {0, s}

\* The assertion of a probe in a scenario it is not bound to tells its type
\* only.
ProbeProof(s, p) ==
    [kind |-> "probe", bearing |-> spec[p].block, cell |-> <<s, p>>,
     about |-> <<spec[p].type, IF Applies(p, s) THEN p ELSE 0>>,
     holds |-> truth[<<s, p>>] # "breach"]

Init ==
    /\ spec \in Specs
    /\ chain \in {"genesis", "chained"}
    /\ truth = [c \in Cells |-> "pass"]
    /\ stage = "import" /\ scenario = 1 /\ probe = 1
    /\ proofs = {} /\ cells = {} /\ missing = {}
    /\ reject = None /\ envelope = None /\ receipt = None /\ answer = None

-----------------------------------------------------------------------------
(* run_redline.                                                            *)

\* Identity lock, baseline receipt and edit provenance are checked; whatever
\* they give, the run goes on to a decision.
Import ==
    /\ stage = "import"
    /\ stage' = "replay"
    /\ proofs' = {Simple("package_canonical"), Simple("edit_provenance"),
                  Simple("spec_compile")}
    /\ reject' \in {None, "binding", "baseline_receipt"}
    /\ UNCHANGED <<spec, chain, truth, scenario, probe, cells, missing,
                   envelope, receipt, answer>>

\* What the probes may find: where one is not bound to the scenario, a breach
\* is not among it.
Findings == {t \in [Cells -> Outcomes] :
               \A c \in Cells : ~Applies(c[2], c[1]) =>
                                  t[c] \notin {"breach", "baseline"}}

Replay ==
    /\ stage = "replay"
    /\ \/ /\ reject = None
          /\ stage' = "probe"
          /\ truth' \in Findings
          /\ proofs' = proofs \cup {Simple("replay"),
                                    Simple("replay_wellformed")}
          /\ UNCHANGED reject
       \/ /\ stage' = "decide"
          /\ reject' = IF reject = None THEN "engine" ELSE reject
          /\ UNCHANGED <<truth, proofs>>
    /\ UNCHANGED <<spec, chain, scenario, probe, cells, missing, envelope,
                   receipt, answer>>

\* The scan goes on with the next probe, or with the next scenario.
Advance ==
    IF probe < NumProbes THEN probe' = probe + 1 /\ UNCHANGED scenario
    ELSE probe' = 1 /\ scenario' = scenario + 1

Blocks == spec[probe].block
Found == truth[<<scenario, probe>>]
Visit == cells' = IF Blocks THEN cells \cup {<<scenario, probe>>} ELSE cells

Scanning == stage = "probe" /\ scenario \in Scenarios

\* A probe that cannot be evaluated leaves a gap, also an advisory one.
ProbeErrs ==
    /\ Scanning /\ Found = "errored"
    /\ Visit
    /\ missing' = missing \cup {<<<<scenario, probe>>, "errored">>}
    /\ Advance
    /\ UNCHANGED <<spec, chain, truth, stage, proofs, reject, envelope,
                   receipt, answer>>

\* The first forbidden probe or breach of the baseline ends the scan.
ProbeRejects ==
    /\ Scanning
    /\ Found = "forbidden" \/ (Found = "baseline" /\ Blocks)
    /\ Visit
    /\ missing' = missing \cup {<<<<scenario, probe>>, "rejected">>}
    /\ reject' = IF Found = "forbidden" THEN "violation" ELSE "baseline_breach"
    /\ stage' = "decide"
    /\ UNCHANGED <<spec, chain, truth, scenario, probe, proofs, envelope,
                   receipt, answer>>

\* Mutant: a breach is proved for advisory probes only.
ProbeAnswersMildly ==
    /\ Scanning
    /\ Found \in {"pass", "breach"} \/ (Found = "baseline" /\ ~Blocks)
    /\ Visit
    /\ proofs' = proofs \cup {[ProbeProof(scenario, probe) EXCEPT
                                 !.holds = Blocks \/ @]}
    /\ Advance
    /\ UNCHANGED <<spec, chain, truth, stage, missing, reject, envelope,
                   receipt, answer>>

\* The proof of an answer carries the verdict if the probe blocks.
ProbeAnswers ==
    /\ Scanning
    /\ Found \in {"pass", "breach"} \/ (Found = "baseline" /\ ~Blocks)
    /\ Visit
    /\ proofs' = proofs \cup {ProbeProof(scenario, probe)}
    /\ Advance
    /\ UNCHANGED <<spec, chain, truth, stage, missing, reject, envelope,
                   receipt, answer>>

\* Every cell was visited: coverage, calibration and absolute proofs follow.
Conclude ==
    /\ stage = "probe" /\ scenario > NumScenarios
    /\ stage' = "decide"
    /\ proofs' = proofs \cup {Simple("coverage"),
                              Simple("baseline_calibration"),
                              Simple("candidate_absolute")}
    /\ UNCHANGED <<spec, chain, truth, scenario, probe, cells, missing,
                   reject, envelope, receipt, answer>>

-----------------------------------------------------------------------------
(* decide.  No proof of the runner names a reduced size, so that REDUCE_SIZE *)
(* is not among its verdicts.                                              *)

REQUIRED_PROOFS ==
    [pass |-> {"baseline_calibration", "replay", "replay_wellformed",
               "coverage", "probe", "candidate_absolute",
               "package_canonical", "spec_compile"},
     withheld |-> {"package_canonical", "spec_compile", "replay",
                   "replay_wellformed", "coverage", "probe"},
     reject |-> {}, unverified |-> {}]

Bearing == {p \in proofs : p.bearing}
BearingProbes == {p \in Bearing : p.kind = "probe"}

\* Cells without a verdict-bearing probe proof.
Uncovered == {c \in cells : \A p \in BearingProbes : p.cell # c}

\* The coverage decide goes by: an error found by the runner, or what is
\* missing although the runner missed nothing.
Missing == IF missing # {} THEN missing
           ELSE Uncovered \X {"missing_probe_proof"}

Complete == reject = None /\ cells # {} /\ Missing = {}

Status ==
    IF reject # None THEN "reject"
    ELSE IF ~Complete THEN "unverified"
    ELSE IF \E p \in BearingProbes : ~p.holds THEN "withheld"
    ELSE "pass"

Reason ==
    CASE Status = "reject" -> reject
      [] Status = "unverified" ->
           IF \E m \in Missing : m[2] = "errored" THEN "PROBE_ERROR"
           ELSE "COVERAGE_INCOMPLETE"
      [] Status = "withheld" -> "NEW_BLOCK_BREACH"
      [] Status = "pass" ->
           IF chain = "genesis" THEN "BASELINE_GENESIS" ELSE "PASS"

Lacks(status) ==
    {k \in REQUIRED_PROOFS[status] : \A p \in Bearing : p.kind # k}

\* What a proof's id is made of: its kind and what it was computed from, which
\* for a probe is the two results, and not the probe.  Probes of one type
\* differ in their thresholds here, or their ids were equal everywhere.
ProofId(p) == <<p.kind, p.about, p.cell[1], p.holds>>

\* The decision proof binds the status to the proofs and the coverage.
DecisionOn(status, collected) ==
    [status |-> status, proofs |-> collected, cells |-> cells,
     missing |-> Missing]

\* Mutant: what is missing is asked for only when nothing is breached.
DecisionOnBreachFirst ==
    LET status == IF reject = None /\ \E p \in BearingProbes : ~p.holds
                  THEN "withheld" ELSE Status
    IN  [status |-> status, reason |-> Reason,
         required |-> {ProofId(p) : p \in
                        {q \in Bearing :
                           q.kind \in REQUIRED_PROOFS[status]}},
         decision |-> DecisionOn(status, proofs)]

\* decide: a verdict that lacks a proof it requires is none.
Decision ==
    LET status == IF Lacks(Status) = {} THEN Status ELSE "unverified"
    IN  [status |-> status,
         reason |-> IF status = Status THEN Reason
                    ELSE "UNVERIFIED_NO_VERDICT",
         required |-> {ProofId(p) : p \in
                        {q \in Bearing :
                           q.kind \in REQUIRED_PROOFS[status]}},
         decision |-> DecisionOn(status, proofs)]

Decide ==
    /\ stage = "decide"
    /\ stage' = "issue"
    /\ envelope' = Decision
    /\ UNCHANGED <<spec, chain, truth, scenario, probe, proofs, cells,
                   missing, reject, receipt, answer>>

\* Mutant: the receipt leaves advisory proofs out.
ReceiptOfBearing ==
    IF envelope.status \notin {"pass", "withheld"} THEN None
    ELSE [status |-> envelope.status, required |-> envelope.required,
          decision |-> envelope.decision, proofs |-> Bearing]

\* issue_receipt: a verdict has a receipt, anything else only its envelope
\* and its proofs.
Receipt ==
    IF envelope.status \notin {"pass", "withheld"} THEN None
    ELSE [status |-> envelope.status, required |-> envelope.required,
          decision |-> envelope.decision, proofs |-> proofs]

\* The receipt is issued, or the decision proof joins the proofs; the report
\* is made of both.
Issue ==
    /\ stage = "issue"
    /\ stage' = "verify"
    /\ receipt' = Receipt
    /\ UNCHANGED <<spec, chain, truth, scenario, probe, proofs, cells,
                   missing, reject, envelope, answer>>

-----------------------------------------------------------------------------
(* verifier.py on the artifacts as they were issued.                       *)

\* The proof files are named by proof id: of two with one id the later one
\* stays.
OnDisk(collected) ==
    {p \in collected : \A q \in collected :
        ProofId(q) = ProofId(p) => q.cell[2] <= p.cell[2]}

\* _missing_required_proof_ids.
MissingIds ==
    LET needed == {p \in receipt.proofs :
                     p.bearing /\ p.kind \in REQUIRED_PROOFS[receipt.status]}
    IN  \/ \E k \in REQUIRED_PROOFS[receipt.status] :
             \A p \in needed : p.kind # k
        \/ {ProofId(p) : p \in needed} # receipt.required

IdsAreUnique(collected) ==
    \A p, q \in collected : ProofId(p) = ProofId(q) => p = q

\* _receipt_binding_error.
ReceiptBinds ==
    /\ IdsAreUnique(receipt.proofs)
    /\ \A p \in receipt.proofs : p.kind = "edit_provenance" => ~p.bearing
    /\ \A p, q \in receipt.proofs : p.kind = q.kind /\ p.kind # "probe"
                                      => p = q
    /\ receipt.decision.status = receipt.status
    /\ receipt.decision.proofs = receipt.proofs

\* verify_proof with the package: the file is the receipt's proof, and the
\* run repeated gives it again.
ProofVerifies(p) ==
    /\ ReceiptBinds
    /\ p \in OnDisk(receipt.proofs)
    /\ OnDisk(receipt.proofs) = receipt.proofs
    /\ p \in proofs

\* verify_decision_proof_bundle: the artifacts of a rejected run.
BundleVerifies ==
    /\ envelope.status = "reject"
    /\ envelope.required = {}
    /\ envelope.decision.proofs = OnDisk(proofs)

\* The receipt, and every proof of it; or the bundle.
Verify ==
    /\ stage = "verify"
    /\ stage' = "done"
    /\ answer' = IF receipt = None
                 THEN IF BundleVerifies THEN "verified"
                      ELSE IF envelope.status = "reject" THEN "mismatch"
                      ELSE "no_verdict"
                 ELSE IF MissingIds THEN "incomplete"
                 ELSE IF \A p \in receipt.proofs : ProofVerifies(p)
                 THEN "verified" ELSE "mismatch"
    /\ UNCHANGED <<spec, chain, truth, scenario, probe, proofs, cells,
                   missing, reject, envelope, receipt>>

Next == \/ Import \/ Replay \/ ProbeErrs \/ ProbeRejects \/ ProbeAnswers
        \/ Conclude \/ Decide \/ Issue \/ Verify

Spec == Init /\ [][Next]_vars

-----------------------------------------------------------------------------
Decided == stage \in {"issue", "verify", "done"}

\* No proof, no verdict: a run passes only if every blocking probe held in
\* every scenario, on the baseline as on the candidate, and none of the other
\* probes failed to answer.
PassMeansEveryCellHolds ==
    Decided /\ envelope.status = "pass" =>
        /\ reject = None
        /\ \A s \in Scenarios, p \in Probes :
             /\ truth[<<s, p>>] \notin {"errored", "forbidden"}
             /\ spec[p].block => truth[<<s, p>>] = "pass"

\* The verdict that what the probes find calls for, whatever the order of
\* suite and spec: rejected if one may not be trusted or the baseline fails,
\* else without verdict if one did not answer, else withheld on a breach.
Called ==
    LET found(what) == {c \in Cells : truth[c] = what}
        blocking(what) == {c \in found(what) : spec[c[2]].block}
    IN  IF reject \in {"binding", "baseline_receipt", "engine"} THEN "reject"
        ELSE IF found("forbidden") # {} \/ blocking("baseline") # {}
        THEN "reject"
        ELSE IF found("errored") # {} THEN "unverified"
        ELSE IF blocking("breach") # {} THEN "withheld"
        ELSE "pass"

\* The order in which scan and decision apply their rules does not show in
\* the verdict.
VerdictIsCalledFor == Decided => envelope.status = Called

\* Artifacts of a run that gave each probe proof an id of its own verify as
\* they were issued.
DistinctProofsVerify ==
    stage = "done" /\ IdsAreUnique(proofs) =>
        answer \in {"verified", "no_verdict"}

\* What README.md says of receipts: anyone can verify them again.
EveryReceiptVerifies ==
    stage = "done" /\ receipt # None => answer = "verified"

=============================================================================
