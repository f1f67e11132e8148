--------------------------- MODULE VerdictProofs ---------------------------
(***************************************************************************)
(* What the verdict of a run says, for any suite, any spec and anything    *)
(* the probes may find: a run that passes has seen every cell hold, the    *)
(* verdict is the one that is called for, and its artifacts verify.        *)
(***************************************************************************)
EXTENDS Verdict, TLAPS

Stages == {"import", "replay", "probe", "decide", "issue", "verify", "done"}

ScanTypes ==
    /\ spec \in Specs
    /\ truth \in [Cells -> Outcomes]
    /\ stage \in Stages
    /\ scenario \in 1 .. NumScenarios + 1 /\ probe \in Probes
    /\ reject \in Rejections \cup {None}

\* The scan has come past this cell.
Visited(s, p) == s < scenario \/ (s = scenario /\ p < probe)

\* What a cell the scan has come past leaves behind.
Recorded(s, p) ==
    /\ truth[<<s, p>>] # "forbidden"
    /\ truth[<<s, p>>] = "errored" => missing # {}
    /\ spec[p].block =>
         /\ truth[<<s, p>>] # "baseline"
         /\ truth[<<s, p>>] = "breach" => \E q \in BearingProbes : ~q.holds

\* The scan forgets no cell, and nothing is decided before it is over.
ScanInv ==
    /\ stage = "probe" => reject = None
    /\ stage \in {"import", "replay"} => scenario = 1 /\ probe = 1
    /\ stage \in {"probe", "decide"} /\ reject = None =>
         \A s \in Scenarios, p \in Probes : Visited(s, p) => Recorded(s, p)
    /\ stage = "decide" /\ reject = None => scenario = NumScenarios + 1

VerdictInv == ScanTypes /\ ScanInv /\ PassMeansEveryCellHolds

LEMMA InitInv == Init => VerdictInv
<1> SUFFICES ASSUME Init PROVE VerdictInv
  OBVIOUS
<1>1. 1 \in 1 .. NumScenarios + 1 /\ 1 \in Probes
  BY SizesAssumption DEF Probes
<1>2. truth \in [Cells -> Outcomes]
  BY DEF Init, Outcomes
<1>3. stage = "import"
  BY DEF Init
<1>4. ScanTypes
  BY <1>1, <1>2, <1>3 DEF ScanTypes, Init, Stages
<1>5. ScanInv
  BY <1>3 DEF ScanInv, Init
<1>6. PassMeansEveryCellHolds
  BY <1>3 DEF PassMeansEveryCellHolds, Decided
<1> QED
  BY <1>4, <1>5, <1>6 DEF VerdictInv

\* The cells visited after the scan went on: those before, and this one.
LEMMA AdvanceVisits ==
    ASSUME ScanTypes, Scanning, Advance
    PROVE  /\ scenario' \in 1 .. NumScenarios + 1 /\ probe' \in Probes
           /\ \A s \in Scenarios, p \in Probes :
                Visited(s, p)' => Visited(s, p) \/ (s = scenario /\ p = probe)
<1>1. scenario \in Nat /\ probe \in Nat /\ NumProbes \in Nat
      /\ NumScenarios \in Nat
  BY SizesAssumption DEF ScanTypes, Probes
<1>2. scenario <= NumScenarios /\ 1 <= scenario /\ 1 <= probe
      /\ probe <= NumProbes
  BY <1>1 DEF ScanTypes, Scanning, Scenarios, Probes
<1>3. CASE probe < NumProbes
  <2>1. probe' = probe + 1 /\ scenario' = scenario
    BY <1>3 DEF Advance
  <2>2. scenario' \in 1 .. NumScenarios + 1 /\ probe' \in Probes
    BY <2>1, <1>1, <1>2, <1>3 DEF Probes
  <2>3. ASSUME NEW s \in Scenarios, NEW p \in Probes, Visited(s, p)'
        PROVE  Visited(s, p) \/ (s = scenario /\ p = probe)
    BY <2>1, <2>3, <1>1 DEF Visited, Scenarios, Probes
  <2> QED
    BY <2>2, <2>3
<1>4. CASE ~(probe < NumProbes)
  <2>1. probe' = 1 /\ scenario' = scenario + 1
    BY <1>4 DEF Advance
  <2>2. scenario' \in 1 .. NumScenarios + 1 /\ probe' \in Probes
    BY <2>1, <1>1, <1>2 DEF Probes
  <2>3. ASSUME NEW s \in Scenarios, NEW p \in Probes, Visited(s, p)'
        PROVE  Visited(s, p) \/ (s = scenario /\ p = probe)
    BY <2>1, <2>3, <1>1, <1>2, <1>4 DEF Visited, Scenarios, Probes
  <2> QED
    BY <2>2, <2>3
<1> QED
  BY <1>3, <1>4

\* A step of the scan that keeps what was recorded and records this cell.
LEMMA ScanGoesOn ==
    ASSUME NEW s0, NEW p0, s0 = scenario, p0 = probe,
           VerdictInv, Scanning, Advance,
           UNCHANGED <<spec, truth, stage, reject>>,
           missing # {} => missing' # {},
           BearingProbes \subseteq BearingProbes',
           Recorded(s0, p0)'
    PROVE  VerdictInv'
<1>1. ScanTypes /\ ScanInv
  BY DEF VerdictInv
<1>2. stage = "probe" /\ stage' = "probe" /\ reject' = reject
  BY DEF Scanning
<1>3. ScanTypes'
  BY <1>1, AdvanceVisits DEF ScanTypes
<1>4. ASSUME NEW s \in Scenarios, NEW p \in Probes, Visited(s, p)'
      PROVE  Recorded(s, p)'
  <2>1. CASE s = scenario /\ p = probe
    BY <2>1
  <2>2. CASE Visited(s, p)
    <3>1. Recorded(s, p)
      BY <2>2, <1>1, <1>2 DEF ScanInv
    <3>2. (truth' = truth) /\ (spec' = spec)
      OBVIOUS
    <3>3. (\E q \in BearingProbes : ~q.holds)
          => \E q \in BearingProbes' : ~q.holds
      OBVIOUS
    <3> QED
      BY <3>1, <3>2, <3>3 DEF Recorded
  <2> QED
    BY <2>1, <2>2, <1>1, <1>4, AdvanceVisits
<1>5. ScanInv'
  BY <1>1, <1>2, <1>4 DEF ScanInv
<1>6. PassMeansEveryCellHolds'
  BY <1>2 DEF PassMeansEveryCellHolds, Decided
<1> QED
  BY <1>3, <1>5, <1>6 DEF VerdictInv

LEMMA ProbeErrsInv == VerdictInv /\ ProbeErrs => VerdictInv'
<1> SUFFICES ASSUME VerdictInv, ProbeErrs PROVE VerdictInv'
  OBVIOUS
<1>1. /\ Scanning /\ Advance /\ UNCHANGED <<spec, truth, stage, reject>>
      /\ UNCHANGED proofs
  BY DEF ProbeErrs
<1>2. missing' # {}
  BY DEF ProbeErrs
<1>3. BearingProbes' = BearingProbes
  BY <1>1 DEF BearingProbes, Bearing
<1>4. PICK s0, p0 : s0 = scenario /\ p0 = probe
  OBVIOUS
<1>5. truth'[<<s0, p0>>] = "errored"
  BY <1>1, <1>4 DEF ProbeErrs, Found
<1>6. Recorded(s0, p0)'
  BY <1>2, <1>5 DEF Recorded
<1> QED
  BY <1>1, <1>2, <1>3, <1>4, <1>6, ScanGoesOn

LEMMA ProbeAnswersInv == VerdictInv /\ ProbeAnswers => VerdictInv'
<1> SUFFICES ASSUME VerdictInv, ProbeAnswers PROVE VerdictInv'
  OBVIOUS
<1>1. /\ Scanning /\ Advance /\ UNCHANGED <<spec, truth, stage, reject>>
      /\ UNCHANGED missing
  BY DEF ProbeAnswers
<1>2. PICK s0, p0 : s0 = scenario /\ p0 = probe
  OBVIOUS
<1> DEFINE q == ProbeProof(s0, p0)
<1>3. proofs' = proofs \cup {q}
  BY <1>2 DEF ProbeAnswers
<1>4. BearingProbes \subseteq BearingProbes'
  BY <1>3 DEF BearingProbes, Bearing
<1>5. \/ truth'[<<s0, p0>>] \in {"pass", "breach"}
      \/ truth'[<<s0, p0>>] = "baseline" /\ ~spec'[p0].block
  BY <1>1, <1>2 DEF ProbeAnswers, Found, Blocks
<1>6. ASSUME spec'[p0].block, truth'[<<s0, p0>>] = "breach"
      PROVE  \E r \in BearingProbes' : ~r.holds
  <2>1. q.kind = "probe" /\ q.bearing = spec[p0].block
        /\ q.holds = (truth[<<s0, p0>>] # "breach")
    BY DEF ProbeProof
  <2>2. q.bearing /\ ~q.holds
    BY <2>1, <1>1, <1>6
  <2>3. q \in proofs'
    BY <1>3
  <2> HIDE DEF q
  <2>4. q \in BearingProbes'
    BY <2>1, <2>2, <2>3 DEF BearingProbes, Bearing
  <2> QED
    BY <2>2, <2>4
<1> HIDE DEF q
<1>7. Recorded(s0, p0)'
  <2>1. truth'[<<s0, p0>>] \notin {"forbidden", "errored"}
    BY <1>5
  <2>2. spec'[p0].block => truth'[<<s0, p0>>] # "baseline"
    BY <1>5
  <2> QED
    BY <2>1, <2>2, <1>6 DEF Recorded
<1>8. missing # {} => missing' # {}
  BY <1>1
<1> QED
  BY <1>1, <1>2, <1>4, <1>7, <1>8, ScanGoesOn

\* What makes decide say pass.
LEMMA PassNeeds ==
    ASSUME Decide, (envelope.status)' = "pass"
    PROVE  /\ reject = None /\ missing = {}
           /\ \A q \in BearingProbes : q.holds
<1> DEFINE status == IF Lacks(Status) = {} THEN Status ELSE "unverified"
<1>1. envelope'.status = status
  BY DEF Decide, Decision
<1>2. Status = "pass"
  BY <1>1
<1>3. reject = None /\ Complete /\ ~\E q \in BearingProbes : ~q.holds
  BY <1>2 DEF Status
<1>4. missing = {}
  BY <1>3 DEF Complete, Missing
<1> QED
  BY <1>3, <1>4

LEMMA DecideInv == VerdictInv /\ Decide => VerdictInv'
<1> SUFFICES ASSUME VerdictInv, Decide PROVE VerdictInv'
  OBVIOUS
<1>1. ScanTypes /\ ScanInv
  BY DEF VerdictInv
<1>2. /\ stage = "decide" /\ stage' = "issue"
      /\ UNCHANGED <<spec, truth, scenario, probe, reject>>
  BY DEF Decide
<1>3. ScanTypes'
  BY <1>1, <1>2 DEF ScanTypes, Stages
<1>4. ScanInv'
  BY <1>2 DEF ScanInv
<1>5. ASSUME envelope'.status = "pass"
      PROVE  /\ reject' = None
             /\ \A s \in Scenarios, p \in Probes :
                  /\ truth'[<<s, p>>] \notin {"errored", "forbidden"}
                  /\ spec'[p].block => truth'[<<s, p>>] = "pass"
  <2>1. /\ reject = None /\ missing = {}
        /\ \A q \in BearingProbes : q.holds
    BY <1>5, PassNeeds
  <2>2. scenario = NumScenarios + 1
    BY <1>1, <1>2, <2>1 DEF ScanInv
  <2>3. ASSUME NEW s \in Scenarios, NEW p \in Probes
        PROVE  /\ truth[<<s, p>>] \notin {"errored", "forbidden"}
               /\ spec[p].block => truth[<<s, p>>] = "pass"
    <3>1. Visited(s, p)
      BY <2>2, SizesAssumption DEF Visited, Scenarios
    <3>2. Recorded(s, p)
      BY <3>1, <1>1, <1>2, <2>1 DEF ScanInv
    <3>3. truth[<<s, p>>] \in Outcomes
      BY <1>1 DEF ScanTypes, Cells
    <3> QED
      BY <3>2, <3>3, <2>1 DEF Recorded, Outcomes
  <2> QED
    BY <2>1, <2>3, <1>2
<1>6. PassMeansEveryCellHolds'
  BY <1>5 DEF PassMeansEveryCellHolds
<1> QED
  BY <1>3, <1>4, <1>6 DEF VerdictInv

\* The steps that leave the scan where it is.
LEMMA NextInv == VerdictInv /\ [Next]_vars => VerdictInv'
<1> SUFFICES ASSUME VerdictInv, [Next]_vars PROVE VerdictInv'
  OBVIOUS
<1>1. ScanTypes /\ ScanInv
  BY DEF VerdictInv
<1>2. CASE UNCHANGED vars
  BY <1>2 DEF VerdictInv, ScanTypes, ScanInv, PassMeansEveryCellHolds, Decided,
              Visited, Recorded, BearingProbes, Bearing, vars
<1>3. CASE Import
  <2>1. /\ stage = "import" /\ stage' = "replay"
        /\ UNCHANGED <<spec, truth, scenario, probe>>
        /\ reject' \in Rejections \cup {None}
    BY <1>3 DEF Import, Rejections
  <2>2. ScanTypes'
    BY <2>1, <1>1 DEF ScanTypes, Stages
  <2>3. ScanInv'
    BY <2>1, <1>1 DEF ScanInv
  <2>4. PassMeansEveryCellHolds'
    BY <2>1 DEF PassMeansEveryCellHolds, Decided
  <2> QED
    BY <2>2, <2>3, <2>4 DEF VerdictInv
<1>4. CASE Replay
  <2>1. /\ stage = "replay" /\ UNCHANGED <<spec, scenario, probe>>
        /\ scenario = 1 /\ probe = 1
    BY <1>4, <1>1 DEF Replay, ScanInv
  <2>2. CASE reject = None /\ stage' = "probe" /\ truth' \in Findings
             /\ UNCHANGED reject
    <3>1. truth' \in [Cells -> Outcomes]
      BY <2>2 DEF Findings
    <3>2. ScanTypes'
      BY <2>1, <2>2, <3>1, <1>1 DEF ScanTypes, Stages
    <3>3. \A s \in Scenarios, p \in Probes : ~Visited(s, p)'
      BY <2>1, SizesAssumption DEF Visited, Scenarios, Probes
    <3>4. ScanInv'
      BY <2>2, <3>3 DEF ScanInv
    <3>5. PassMeansEveryCellHolds'
      BY <2>2 DEF PassMeansEveryCellHolds, Decided
    <3> QED
      BY <3>2, <3>4, <3>5 DEF VerdictInv
  <2>3. CASE stage' = "decide" /\ UNCHANGED truth
             /\ reject' = IF reject = None THEN "engine" ELSE reject
    <3>1. reject' \in Rejections
      BY <2>3, <1>1 DEF ScanTypes, Rejections
    <3>2. ScanTypes'
      BY <2>1, <2>3, <3>1, <1>1 DEF ScanTypes, Stages
    <3>3. reject' # None
      BY <3>1, NoneAssumption DEF Rejections
    <3>4. ScanInv'
      BY <2>3, <3>3 DEF ScanInv
    <3>5. PassMeansEveryCellHolds'
      BY <2>3 DEF PassMeansEveryCellHolds, Decided
    <3> QED
      BY <3>2, <3>4, <3>5 DEF VerdictInv
  <2> QED
    BY <1>4, <2>2, <2>3 DEF Replay
<1>5. CASE ProbeRejects
  <2>1. /\ stage' = "decide" /\ UNCHANGED <<spec, truth, scenario, probe>>
        /\ reject' \in {"violation", "baseline_breach"}
    BY <1>5 DEF ProbeRejects
  <2>2. ScanTypes'
    BY <2>1, <1>1 DEF ScanTypes, Stages, Rejections
  <2>3. reject' # None
    BY <2>1, NoneAssumption
  <2>4. ScanInv'
    BY <2>1, <2>3 DEF ScanInv
  <2>5. PassMeansEveryCellHolds'
    BY <2>1 DEF PassMeansEveryCellHolds, Decided
  <2> QED
    BY <2>2, <2>4, <2>5 DEF VerdictInv
<1>6. CASE Conclude
  <2>1. /\ stage = "probe" /\ scenario > NumScenarios /\ stage' = "decide"
        /\ UNCHANGED <<spec, truth, scenario, probe, missing, reject>>
    BY <1>6 DEF Conclude
  <2>2. BearingProbes \subseteq BearingProbes'
    BY <1>6 DEF Conclude, BearingProbes, Bearing
  <2>3. ScanTypes'
    BY <2>1, <1>1 DEF ScanTypes, Stages
  <2>4. scenario = NumScenarios + 1
    BY <2>1, <1>1, SizesAssumption DEF ScanTypes
  <2>5. ASSUME NEW s \in Scenarios, NEW p \in Probes, Visited(s, p)',
               reject' = None
        PROVE  Recorded(s, p)'
    <3>1. Visited(s, p)
      BY <2>1, <2>5 DEF Visited
    <3>2. Recorded(s, p)
      BY <3>1, <2>1, <2>5, <1>1 DEF ScanInv
    <3> QED
      BY <3>2, <2>1, <2>2 DEF Recorded
  <2>6. ScanInv'
    BY <2>1, <2>4, <2>5 DEF ScanInv
  <2>7. PassMeansEveryCellHolds'
    BY <2>1 DEF PassMeansEveryCellHolds, Decided
  <2> QED
    BY <2>3, <2>6, <2>7 DEF VerdictInv
<1>7. CASE Issue \/ Verify
  <2>1. /\ stage \in {"issue", "verify"} /\ stage' \in {"verify", "done"}
        /\ UNCHANGED <<spec, truth, scenario, probe, reject, envelope>>
    BY <1>7 DEF Issue, Verify
  <2>2. ScanTypes'
    BY <2>1, <1>1 DEF ScanTypes, Stages
  <2>3. ScanInv'
    BY <2>1 DEF ScanInv
  <2>4. PassMeansEveryCellHolds'
    BY <2>1 DEF VerdictInv, PassMeansEveryCellHolds, Decided
  <2> QED
    BY <2>2, <2>3, <2>4 DEF VerdictInv
<1> QED
  BY <1>2, <1>3, <1>4, <1>5, <1>6, <1>7, ProbeErrsInv, ProbeAnswersInv,
     DecideInv DEF Next

\* A run that passes has put every blocking probe to every scenario, with the
\* baseline and the candidate holding, and every probe answered.
THEOREM NoProofNoVerdict == Spec => []PassMeansEveryCellHolds
<1>1. VerdictInv => PassMeansEveryCellHolds
  BY DEF VerdictInv
<1> QED
  BY InitInv, NextInv, <1>1, PTL DEF Spec

-----------------------------------------------------------------------------
(* The verdict that is called for.  It takes both directions: what a cell   *)
(* calls for is recorded (Recorded, NothingLost), and what is recorded some *)
(* cell called for (NothingInvented).                                       *)

Identified == {"package_canonical", "spec_compile"}
Replayed == Identified \cup {"replay", "replay_wellformed"}
Concluded == Replayed \cup {"coverage", "baseline_calibration",
                            "candidate_absolute"}
Kinds == Concluded \cup {"edit_provenance"}

Simples(kinds) == {Simple(k) : k \in kinds}

FromCell(q) == \E s \in Scenarios, p \in Probes : q = ProbeProof(s, p)

Untrusted(s, p) == \/ truth[<<s, p>>] = "forbidden"
                   \/ truth[<<s, p>>] = "baseline" /\ spec[p].block

\* Every proof is of a stage or of a cell, every gap and every rejection of
\* the scan has a cell that called for it.
NothingInvented ==
    /\ \A q \in proofs : q \in Simples(Kinds) \/ FromCell(q)
    /\ cells \subseteq {c \in Cells : spec[c[2]].block}
    /\ reject = None /\ missing # {} =>
         \E s \in Scenarios, p \in Probes : truth[<<s, p>>] = "errored"
    /\ reject \in {"violation", "baseline_breach"} =>
         \E s \in Scenarios, p \in Probes : Untrusted(s, p)
    /\ stage \in {"import", "replay"} =>
         proofs \subseteq Simples(Kinds) /\ missing = {} /\ cells = {}

\* A cell of a blocking probe is counted, and its answer proved.
Covered(s, p) ==
    spec[p].block => /\ <<s, p>> \in cells
                     /\ truth[<<s, p>>] # "errored"
                          => ProbeProof(s, p) \in proofs

\* A run that was not rejected holds the proofs of its stages and its cells.
NothingLost ==
    /\ stage = "replay" => Simples(Identified) \subseteq proofs
    /\ stage = "probe" => Simples(Replayed) \subseteq proofs
    /\ stage = "decide" /\ reject = None => Simples(Concluded) \subseteq proofs
    /\ stage \in {"probe", "decide"} /\ reject = None =>
         \A s \in Scenarios, p \in Probes : Visited(s, p) => Covered(s, p)

RequiredIds(status) ==
    {ProofId(p) : p \in {q \in Bearing : q.kind \in REQUIRED_PROOFS[status]}}

\* The envelope is of these proofs, and lacks none that its status requires.
EnvelopeInv ==
    Decided =>
        /\ envelope.status \in {"pass", "withheld", "reject", "unverified"}
        /\ Lacks(envelope.status) = {}
        /\ envelope.required = RequiredIds(envelope.status)
        /\ envelope.decision.status = envelope.status
        /\ envelope.decision.proofs = proofs
        /\ stage \in {"verify", "done"} => receipt = Receipt

TraceInv == NothingInvented /\ NothingLost /\ EnvelopeInv

CalledInv == VerdictInv /\ TraceInv /\ VerdictIsCalledFor /\ DistinctProofsVerify

LEMMA SimpleShape ==
    ASSUME NEW k
    PROVE  /\ Simple(k).kind = k
           /\ Simple(k).bearing = (k # "edit_provenance")
           /\ Simple(k).cell = <<0, 0>> /\ Simple(k).holds = TRUE
BY DEF Simple

LEMMA ProbeProofShape ==
    ASSUME NEW s, NEW p
    PROVE  /\ ProbeProof(s, p).kind = "probe"
           /\ ProbeProof(s, p).bearing = spec[p].block
           /\ ProbeProof(s, p).cell = <<s, p>>
           /\ ProbeProof(s, p).holds = (truth[<<s, p>>] # "breach")
BY DEF ProbeProof

\* What a probe proves is a matter of spec and findings.
LEMMA ProofsStay ==
    ASSUME UNCHANGED <<spec, truth>>
    PROVE  /\ \A s, p : ProbeProof(s, p)' = ProbeProof(s, p)
           /\ \A q : FromCell(q)' <=> FromCell(q)
           /\ \A s, p : Untrusted(s, p)' <=> Untrusted(s, p)
<1>1. \A s, p : ProbeProof(s, p)' = ProbeProof(s, p)
  BY DEF ProbeProof, Applies
<1>2. \A q : FromCell(q)' <=> FromCell(q)
  BY <1>1 DEF FromCell
<1>3. \A s, p : Untrusted(s, p)' <=> Untrusted(s, p)
  BY DEF Untrusted
<1> QED
  BY <1>1, <1>2, <1>3

LEMMA InitTrace == Init => TraceInv
<1> SUFFICES ASSUME Init PROVE TraceInv
  OBVIOUS
<1>1. stage = "import" /\ proofs = {} /\ cells = {} /\ missing = {}
      /\ reject = None
  BY DEF Init
<1>2. NothingInvented
  BY <1>1, NoneAssumption DEF NothingInvented
<1>3. NothingLost /\ EnvelopeInv
  BY <1>1 DEF NothingLost, EnvelopeInv, Decided
<1> QED
  BY <1>2, <1>3 DEF TraceInv

LEMMA ImportTrace == VerdictInv /\ TraceInv /\ Import => TraceInv'
<1> SUFFICES ASSUME VerdictInv, TraceInv, Import PROVE TraceInv'
  OBVIOUS
<1>1. /\ stage = "import" /\ stage' = "replay"
      /\ UNCHANGED <<spec, truth, cells, missing>>
      /\ reject' \in {None, "binding", "baseline_receipt"}
  BY DEF Import
<1>2. proofs' = {Simple("package_canonical"), Simple("edit_provenance"),
                 Simple("spec_compile")}
  BY DEF Import
<1>3. proofs' \subseteq Simples(Kinds) /\ Simples(Identified) \subseteq proofs'
  BY <1>2 DEF Simples, Kinds, Concluded, Replayed, Identified
<1>4. cells' = {} /\ missing' = {}
  BY <1>1 DEF TraceInv, NothingInvented
<1>5. reject' \notin {"violation", "baseline_breach"}
  BY <1>1, NoneAssumption
<1>6. NothingInvented'
  BY <1>1, <1>3, <1>4, <1>5 DEF NothingInvented
<1>7. NothingLost'
  BY <1>1, <1>3 DEF NothingLost
<1>8. EnvelopeInv'
  BY <1>1 DEF EnvelopeInv, Decided
<1> QED
  BY <1>6, <1>7, <1>8 DEF TraceInv

LEMMA ReplayTrace == VerdictInv /\ TraceInv /\ Replay => TraceInv'
<1> SUFFICES ASSUME VerdictInv, TraceInv, Replay PROVE TraceInv'
  OBVIOUS
<1>1. /\ stage = "replay"
      /\ UNCHANGED <<spec, scenario, probe, cells, missing>>
      /\ scenario = 1 /\ probe = 1
  BY DEF Replay, VerdictInv, ScanInv
<1>2. /\ proofs \subseteq Simples(Kinds) /\ missing = {} /\ cells = {}
      /\ Simples(Identified) \subseteq proofs
  BY <1>1 DEF TraceInv, NothingInvented, NothingLost
<1>3. CASE /\ reject = None /\ stage' = "probe" /\ UNCHANGED reject
           /\ proofs' = proofs \cup {Simple("replay"),
                                     Simple("replay_wellformed")}
  <2>1. proofs' \subseteq Simples(Kinds) /\ Simples(Replayed) \subseteq proofs'
    BY <1>2, <1>3 DEF Simples, Kinds, Concluded, Replayed, Identified
  <2>2. \A s \in Scenarios, p \in Probes : ~Visited(s, p)'
    BY <1>1, SizesAssumption DEF Visited, Scenarios, Probes
  <2>3. reject' \notin {"violation", "baseline_breach"}
    BY <1>3, NoneAssumption
  <2>4. NothingInvented'
    BY <1>1, <1>2, <1>3, <2>1, <2>3 DEF NothingInvented
  <2>5. NothingLost'
    BY <1>3, <2>1, <2>2 DEF NothingLost
  <2>6. EnvelopeInv'
    BY <1>3 DEF EnvelopeInv, Decided
  <2> QED
    BY <2>4, <2>5, <2>6 DEF TraceInv
<1>4. CASE /\ stage' = "decide" /\ UNCHANGED <<truth, proofs>>
           /\ reject' = IF reject = None THEN "engine" ELSE reject
  <2>1. reject' # None
    BY <1>4, NoneAssumption
  <2>2. reject' \in {"violation", "baseline_breach"}
          => \E s \in Scenarios, p \in Probes : Untrusted(s, p)'
    <3>1. SUFFICES ASSUME reject' \in {"violation", "baseline_breach"}
                   PROVE  \E s \in Scenarios, p \in Probes : Untrusted(s, p)'
      OBVIOUS
    <3>2. reject \in {"violation", "baseline_breach"}
      BY <1>4, <3>1
    <3>3. \E s \in Scenarios, p \in Probes : Untrusted(s, p)
      BY <3>2 DEF TraceInv, NothingInvented
    <3> QED
      BY <1>1, <1>4, <3>3, ProofsStay
  <2>3. NothingInvented'
    BY <1>1, <1>2, <1>4, <2>1, <2>2 DEF NothingInvented
  <2>4. NothingLost'
    BY <1>4, <2>1 DEF NothingLost
  <2>5. EnvelopeInv'
    BY <1>4 DEF EnvelopeInv, Decided
  <2> QED
    BY <2>3, <2>4, <2>5 DEF TraceInv
<1> QED
  BY <1>3, <1>4 DEF Replay

\* A step of the scan that adds what this cell calls for, and only that.
LEMMA ScanTrace ==
    ASSUME NEW s0, NEW p0, s0 = scenario, p0 = probe,
           VerdictInv, TraceInv, Scanning, Advance, Visit,
           UNCHANGED <<spec, truth, stage, reject>>,
           proofs \subseteq proofs', \A q \in proofs' \ proofs : FromCell(q),
           missing' # {} => missing # {} \/ truth[<<s0, p0>>] = "errored",
           spec[p0].block /\ truth[<<s0, p0>>] # "errored"
             => ProbeProof(s0, p0) \in proofs'
    PROVE  TraceInv'
<1>1. /\ ScanTypes /\ ScanInv /\ NothingInvented /\ NothingLost
      /\ stage = "probe" /\ scenario \in Scenarios /\ probe \in Probes
  BY DEF VerdictInv, TraceInv, Scanning, ScanTypes
<1>2. reject = None
  BY <1>1 DEF ScanInv
<1>3. /\ \A s, p : ProbeProof(s, p)' = ProbeProof(s, p)
      /\ \A q : FromCell(q)' <=> FromCell(q)
  BY ProofsStay
<1>4. cells \subseteq cells' /\ (spec[p0].block => <<s0, p0>> \in cells')
  BY DEF Visit, Blocks
<1>5. cells' \subseteq {c \in Cells : spec[c[2]].block}
  <2>1. <<scenario, probe>> \in Cells /\ <<scenario, probe>>[2] = probe
    BY <1>1 DEF Cells
  <2>2. cells \subseteq {c \in Cells : spec[c[2]].block}
    BY <1>1 DEF NothingInvented
  <2> QED
    BY <2>1, <2>2 DEF Visit, Blocks
<1>6. missing' # {} => \E s \in Scenarios, p \in Probes :
                         truth'[<<s, p>>] = "errored"
  BY <1>1, <1>2 DEF NothingInvented
<1>7. \A q \in proofs' : q \in Simples(Kinds) \/ FromCell(q)'
  BY <1>1, <1>3 DEF NothingInvented
<1>8. NothingInvented'
  BY <1>1, <1>2, <1>5, <1>6, <1>7, NoneAssumption DEF NothingInvented
<1>9. ASSUME NEW s \in Scenarios, NEW p \in Probes, Visited(s, p)'
      PROVE  Covered(s, p)'
  <2>1. CASE s = scenario /\ p = probe
    BY <2>1, <1>3, <1>4 DEF Covered
  <2>2. CASE Visited(s, p)
    <3>1. Covered(s, p)
      BY <2>2, <1>1, <1>2 DEF NothingLost
    <3> QED
      BY <3>1, <1>3, <1>4 DEF Covered
  <2> QED
    BY <2>1, <2>2, <1>1, <1>9, AdvanceVisits
<1>10. NothingLost'
  BY <1>1, <1>9 DEF NothingLost
<1>11. EnvelopeInv'
  BY <1>1 DEF EnvelopeInv, Decided
<1> QED
  BY <1>8, <1>10, <1>11 DEF TraceInv

LEMMA ProbeErrsTrace == VerdictInv /\ TraceInv /\ ProbeErrs => TraceInv'
<1> SUFFICES ASSUME VerdictInv, TraceInv, ProbeErrs PROVE TraceInv'
  OBVIOUS
<1>1. /\ Scanning /\ Advance /\ Visit /\ UNCHANGED proofs
      /\ UNCHANGED <<spec, truth, stage, reject>>
  BY DEF ProbeErrs
<1>2. PICK s0, p0 : s0 = scenario /\ p0 = probe
  OBVIOUS
<1>3. truth[<<s0, p0>>] = "errored"
  BY <1>2 DEF ProbeErrs, Found
<1> QED
  BY <1>1, <1>2, <1>3, ScanTrace

LEMMA ProbeAnswersTrace == VerdictInv /\ TraceInv /\ ProbeAnswers => TraceInv'
<1> SUFFICES ASSUME VerdictInv, TraceInv, ProbeAnswers PROVE TraceInv'
  OBVIOUS
<1>1. /\ Scanning /\ Advance /\ Visit /\ UNCHANGED missing
      /\ UNCHANGED <<spec, truth, stage, reject>>
  BY DEF ProbeAnswers
<1>2. PICK s0, p0 : s0 = scenario /\ p0 = probe
  OBVIOUS
<1>3. proofs' = proofs \cup {ProbeProof(s0, p0)}
  BY <1>2 DEF ProbeAnswers
<1>4. s0 \in Scenarios /\ p0 \in Probes
  BY <1>1, <1>2 DEF Scanning, VerdictInv, ScanTypes
<1>5. \A q \in proofs' \ proofs : FromCell(q)
  BY <1>3, <1>4 DEF FromCell
<1> QED
  BY <1>1, <1>2, <1>3, <1>5, ScanTrace

LEMMA ProbeRejectsTrace == VerdictInv /\ TraceInv /\ ProbeRejects => TraceInv'
<1> SUFFICES ASSUME VerdictInv, TraceInv, ProbeRejects PROVE TraceInv'
  OBVIOUS
<1>1. /\ scenario \in Scenarios /\ probe \in Probes
      /\ UNCHANGED <<spec, truth, proofs>> /\ Visit
      /\ stage' = "decide" /\ reject' \in {"violation", "baseline_breach"}
  BY DEF ProbeRejects, Scanning, VerdictInv, ScanTypes
<1>2. Untrusted(scenario, probe)
  BY DEF ProbeRejects, Found, Blocks, Untrusted
<1>3. \E s \in Scenarios, p \in Probes : Untrusted(s, p)'
  BY <1>1, <1>2, ProofsStay
<1>4. cells' \subseteq {c \in Cells : spec[c[2]].block}
  <2>1. <<scenario, probe>> \in Cells /\ <<scenario, probe>>[2] = probe
    BY <1>1 DEF Cells
  <2>2. cells \subseteq {c \in Cells : spec[c[2]].block}
    BY DEF TraceInv, NothingInvented
  <2> QED
    BY <2>1, <2>2, <1>1 DEF Visit, Blocks
<1>5. \A q \in proofs' : q \in Simples(Kinds) \/ FromCell(q)'
  BY <1>1, ProofsStay DEF TraceInv, NothingInvented
<1>6. reject' # None
  BY <1>1, NoneAssumption
<1>7. NothingInvented'
  BY <1>1, <1>3, <1>4, <1>5, <1>6 DEF NothingInvented
<1>8. NothingLost'
  BY <1>1, <1>6 DEF NothingLost
<1>9. EnvelopeInv'
  BY <1>1 DEF EnvelopeInv, Decided
<1> QED
  BY <1>7, <1>8, <1>9 DEF TraceInv

LEMMA ConcludeTrace == VerdictInv /\ TraceInv /\ Conclude => TraceInv'
<1> SUFFICES ASSUME VerdictInv, TraceInv, Conclude PROVE TraceInv'
  OBVIOUS
<1>1. /\ stage = "probe" /\ stage' = "decide"
      /\ UNCHANGED <<spec, truth, scenario, probe, cells, missing, reject>>
  BY DEF Conclude
<1>2. proofs' = proofs \cup {Simple("coverage"), Simple("baseline_calibration"),
                             Simple("candidate_absolute")}
  BY DEF Conclude
<1>3. /\ NothingInvented /\ NothingLost /\ ScanInv
      /\ Simples(Replayed) \subseteq proofs
  BY <1>1 DEF TraceInv, NothingLost, VerdictInv
<1>4. reject = None
  BY <1>1, <1>3 DEF ScanInv
<1>5. Simples(Concluded) \subseteq proofs'
  BY <1>2, <1>3 DEF Simples, Concluded
<1>6. \A q \in proofs' : q \in Simples(Kinds) \/ FromCell(q)'
  <2>1. {Simple("coverage"), Simple("baseline_calibration"),
         Simple("candidate_absolute")} \subseteq Simples(Kinds)
    BY DEF Simples, Kinds, Concluded
  <2> QED
    BY <1>1, <1>2, <1>3, <2>1, ProofsStay DEF NothingInvented
<1>7. NothingInvented'
  BY <1>1, <1>3, <1>4, <1>6, NoneAssumption DEF NothingInvented
<1>8. ASSUME NEW s \in Scenarios, NEW p \in Probes, Visited(s, p)'
      PROVE  Covered(s, p)'
  <2>1. Visited(s, p)
    BY <1>1, <1>8 DEF Visited
  <2>2. Covered(s, p)
    BY <2>1, <1>1, <1>3, <1>4 DEF NothingLost
  <2> QED
    BY <2>2, <1>1, <1>2, ProofsStay DEF Covered
<1>9. NothingLost'
  BY <1>1, <1>5, <1>8 DEF NothingLost
<1>10. EnvelopeInv'
  BY <1>1 DEF EnvelopeInv, Decided
<1> QED
  BY <1>7, <1>9, <1>10 DEF TraceInv

\* Called, cell by cell.
LEMMA CalledSays ==
    /\ reject \in {"binding", "baseline_receipt", "engine"} => Called = "reject"
    /\ (\E s \in Scenarios, p \in Probes : Untrusted(s, p)) => Called = "reject"
    /\ reject = None
       /\ (\A s \in Scenarios, p \in Probes : ~Untrusted(s, p)) =>
         /\ (\E s \in Scenarios, p \in Probes : truth[<<s, p>>] = "errored")
              => Called = "unverified"
         /\ (\A s \in Scenarios, p \in Probes : truth[<<s, p>>] # "errored") =>
              Called = IF \E s \in Scenarios, p \in Probes :
                            truth[<<s, p>>] = "breach" /\ spec[p].block
                       THEN "withheld" ELSE "pass"
<1> DEFINE found(what) == {c \in Cells : truth[c] = what}
           blocking(what) == {c \in found(what) : spec[c[2]].block}
<1>1. \A what : found(what) # {} <=> \E s \in Scenarios, p \in Probes :
                                       truth[<<s, p>>] = what
  <2> TAKE what
  <2>1. ASSUME found(what) # {}
        PROVE  \E s \in Scenarios, p \in Probes : truth[<<s, p>>] = what
    <3>1. PICK c \in Cells : truth[c] = what
      BY <2>1
    <3>2. PICK s \in Scenarios, p \in Probes : c = <<s, p>>
      BY DEF Cells
    <3> QED
      BY <3>1, <3>2
  <2>2. ASSUME NEW s \in Scenarios, NEW p \in Probes, truth[<<s, p>>] = what
        PROVE  found(what) # {}
    <3>1. <<s, p>> \in found(what)
      BY <2>2 DEF Cells
    <3> QED
      BY <3>1
  <2> HIDE DEF found
  <2> QED
    BY <2>1, <2>2
<1>2. \A what : blocking(what) # {}
                  <=> \E s \in Scenarios, p \in Probes :
                        truth[<<s, p>>] = what /\ spec[p].block
  <2> TAKE what
  <2>1. ASSUME blocking(what) # {}
        PROVE  \E s \in Scenarios, p \in Probes :
                 truth[<<s, p>>] = what /\ spec[p].block
    <3>1. PICK c \in Cells : truth[c] = what /\ spec[c[2]].block
      BY <2>1
    <3>2. PICK s \in Scenarios, p \in Probes : c = <<s, p>>
      BY DEF Cells
    <3> QED
      BY <3>1, <3>2
  <2>2. ASSUME NEW s \in Scenarios, NEW p \in Probes,
               truth[<<s, p>>] = what, spec[p].block
        PROVE  blocking(what) # {}
    <3>1. <<s, p>> \in Cells /\ <<s, p>>[2] = p
      BY DEF Cells
    <3>2. <<s, p>> \in blocking(what)
      BY <2>2, <3>1
    <3> QED
      BY <3>2
  <2> HIDE DEF blocking
  <2> QED
    BY <2>1, <2>2
<1>3. (found("forbidden") # {} \/ blocking("baseline") # {})
      <=> \E s \in Scenarios, p \in Probes : Untrusted(s, p)
  <2>1. found("forbidden") # {} <=> \E s \in Scenarios, p \in Probes :
                                      truth[<<s, p>>] = "forbidden"
    BY <1>1
  <2>2. blocking("baseline") # {} <=> \E s \in Scenarios, p \in Probes :
                                        truth[<<s, p>>] = "baseline"
                                        /\ spec[p].block
    BY <1>2
  <2> HIDE DEF found, blocking
  <2> QED
    BY <2>1, <2>2 DEF Untrusted
<1>4. Called = IF reject \in {"binding", "baseline_receipt", "engine"}
               THEN "reject"
               ELSE IF found("forbidden") # {} \/ blocking("baseline") # {}
               THEN "reject"
               ELSE IF found("errored") # {} THEN "unverified"
               ELSE IF blocking("breach") # {} THEN "withheld"
               ELSE "pass"
  BY DEF Called
<1> HIDE DEF found, blocking
<1>5. reject = None => reject \notin {"binding", "baseline_receipt", "engine"}
  BY NoneAssumption
<1>6. CASE reject \in {"binding", "baseline_receipt", "engine"}
  <2>1. Called = "reject"
    BY <1>4, <1>6
  <2> QED
    BY <1>5, <1>6, <2>1
<1>7. CASE /\ reject \notin {"binding", "baseline_receipt", "engine"}
           /\ \E s \in Scenarios, p \in Probes : Untrusted(s, p)
  <2>1. Called = "reject"
    BY <1>3, <1>4, <1>7
  <2> QED
    BY <1>7, <2>1
<1>8. CASE /\ reject \notin {"binding", "baseline_receipt", "engine"}
           /\ ~\E s \in Scenarios, p \in Probes : Untrusted(s, p)
  <2>1. Called = IF found("errored") # {} THEN "unverified"
                 ELSE IF blocking("breach") # {} THEN "withheld" ELSE "pass"
    BY <1>3, <1>4, <1>8
  <2>2. found("errored") # {} <=> \E s \in Scenarios, p \in Probes :
                                    truth[<<s, p>>] = "errored"
    BY <1>1
  <2>3. blocking("breach") # {} <=> \E s \in Scenarios, p \in Probes :
                                      truth[<<s, p>>] = "breach"
                                      /\ spec[p].block
    BY <1>2
  <2>4. (\E s \in Scenarios, p \in Probes : truth[<<s, p>>] = "errored")
          => Called = "unverified"
    BY <2>1, <2>2
  <2>5. (\A s \in Scenarios, p \in Probes : truth[<<s, p>>] # "errored") =>
          Called = IF \E s \in Scenarios, p \in Probes :
                        truth[<<s, p>>] = "breach" /\ spec[p].block
                   THEN "withheld" ELSE "pass"
    BY <2>1, <2>2, <2>3
  <2> QED
    BY <1>8, <2>4, <2>5
<1> QED
  BY <1>6, <1>7, <1>8

LEMMA NothingRequired == Lacks("reject") = {} /\ Lacks("unverified") = {}
BY DEF Lacks, REQUIRED_PROOFS

\* A run that scanned every cell without a gap: its coverage is complete, it
\* has the proofs any verdict requires, and a proof fails only on a breach.
LEMMA ScanIsWhole ==
    ASSUME VerdictInv, TraceInv, stage = "decide", reject = None, missing = {}
    PROVE  /\ Complete /\ Lacks("pass") = {} /\ Lacks("withheld") = {}
           /\ (\E q \in BearingProbes : ~q.holds)
              <=> \E s \in Scenarios, p \in Probes :
                    truth[<<s, p>>] = "breach" /\ spec[p].block
<1>1. /\ NothingInvented /\ NothingLost /\ ScanInv /\ ScanTypes
      /\ scenario = NumScenarios + 1 /\ Simples(Concluded) \subseteq proofs
  BY DEF VerdictInv, TraceInv, NothingLost, ScanInv
<1>2. \A s \in Scenarios, p \in Probes : Visited(s, p)
  BY <1>1, SizesAssumption DEF Visited, Scenarios
<1>3. \A s \in Scenarios, p \in Probes : Recorded(s, p) /\ Covered(s, p)
  BY <1>1, <1>2 DEF ScanInv, NothingLost
<1>4. ASSUME NEW s \in Scenarios, NEW p \in Probes, spec[p].block
      PROVE  <<s, p>> \in cells /\ ProbeProof(s, p) \in BearingProbes
  <2>1. truth[<<s, p>>] # "errored"
    BY <1>3 DEF Recorded
  <2>2. <<s, p>> \in cells /\ ProbeProof(s, p) \in proofs
    BY <1>3, <1>4, <2>1 DEF Covered
  <2>3. ProbeProof(s, p).kind = "probe" /\ ProbeProof(s, p).bearing
    BY <1>4, ProbeProofShape
  <2> QED
    BY <2>2, <2>3 DEF BearingProbes, Bearing
<1>5. PICK s1 \in Scenarios, p1 \in Probes : spec[p1].block
  <2>1. 1 \in Scenarios
    BY SizesAssumption DEF Scenarios
  <2>2. \E p \in Probes : spec[p].block
    BY <1>1 DEF ScanTypes, Specs
  <2> QED
    BY <2>1, <2>2
<1>6. ASSUME NEW c \in cells PROVE \E q \in BearingProbes : q.cell = c
  <2>1. c \in Cells /\ spec[c[2]].block
    BY <1>1 DEF NothingInvented
  <2>2. PICK s \in Scenarios, p \in Probes : c = <<s, p>>
    BY <2>1 DEF Cells
  <2>3. spec[p].block
    BY <2>1, <2>2
  <2>4. ProbeProof(s, p) \in BearingProbes /\ ProbeProof(s, p).cell = <<s, p>>
    BY <1>4, <2>3, ProbeProofShape
  <2> QED
    BY <2>2, <2>4
<1>7. Missing = {}
  <2>1. Uncovered = {}
    BY <1>6 DEF Uncovered
  <2> QED
    BY <2>1 DEF Missing
<1>8. Complete
  <2>1. cells # {}
    BY <1>4, <1>5
  <2> QED
    BY <1>7, <2>1 DEF Complete
<1>9. \A k \in Concluded : \E q \in Bearing : q.kind = k
  <2> TAKE k \in Concluded
  <2>1. Simple(k) \in proofs
    BY <1>1 DEF Simples
  <2>2. k # "edit_provenance"
    BY DEF Concluded, Replayed, Identified
  <2>3. Simple(k).bearing /\ Simple(k).kind = k
    BY <2>2, SimpleShape
  <2>4. Simple(k) \in Bearing
    BY <2>1, <2>3 DEF Bearing
  <2> QED
    BY <2>3, <2>4
<1>10. \E q \in Bearing : q.kind = "probe"
  BY <1>4, <1>5 DEF BearingProbes
<1>11. \A k \in Concluded \cup {"probe"} : \E q \in Bearing : q.kind = k
  BY <1>9, <1>10
<1>12. /\ REQUIRED_PROOFS["pass"] \subseteq Concluded \cup {"probe"}
       /\ REQUIRED_PROOFS["withheld"] \subseteq Concluded \cup {"probe"}
  BY DEF REQUIRED_PROOFS, Concluded, Replayed, Identified
<1>13. Lacks("pass") = {} /\ Lacks("withheld") = {}
  BY <1>11, <1>12 DEF Lacks
<1>14. ASSUME NEW q \in BearingProbes, ~q.holds
       PROVE  \E s \in Scenarios, p \in Probes :
                truth[<<s, p>>] = "breach" /\ spec[p].block
  <2>1. q \in proofs /\ q.bearing /\ q.kind = "probe"
    BY DEF BearingProbes, Bearing
  <2>2. q \notin Simples(Kinds)
    BY <1>14, SimpleShape DEF Simples
  <2>3. PICK s \in Scenarios, p \in Probes : q = ProbeProof(s, p)
    BY <1>1, <2>1, <2>2 DEF NothingInvented, FromCell
  <2>4. /\ ProbeProof(s, p).bearing = spec[p].block
        /\ ProbeProof(s, p).holds = (truth[<<s, p>>] # "breach")
    BY ProbeProofShape
  <2> QED
    BY <1>14, <2>1, <2>3, <2>4
<1>15. ASSUME NEW s \in Scenarios, NEW p \in Probes,
              truth[<<s, p>>] = "breach", spec[p].block
       PROVE  \E q \in BearingProbes : ~q.holds
  BY <1>3, <1>15 DEF Recorded
<1> QED
  BY <1>8, <1>13, <1>14, <1>15

\* Where the decision is made, it is the one that is called for, and lacks
\* nothing it requires.
LEMMA DecisionIsCalledFor ==
    ASSUME VerdictInv, TraceInv, stage = "decide"
    PROVE  /\ Decision.status = Called /\ Lacks(Decision.status) = {}
           /\ Decision.status \in {"pass", "withheld", "reject", "unverified"}
<1>1. /\ NothingInvented /\ ScanInv /\ ScanTypes
  BY DEF VerdictInv, TraceInv
<1>2. Decision.status = IF Lacks(Status) = {} THEN Status ELSE "unverified"
  BY DEF Decision
<1>3. CASE reject # None
  <2>1. Status = "reject"
    BY <1>3 DEF Status
  <2>2. Decision.status = "reject"
    BY <1>2, <2>1, NothingRequired
  <2>3. Called = "reject"
    <3>1. CASE reject \in {"binding", "baseline_receipt", "engine"}
      BY <3>1, CalledSays
    <3>2. CASE reject \in {"violation", "baseline_breach"}
      BY <3>2, <1>1, CalledSays DEF NothingInvented
    <3> QED
      BY <1>1, <1>3, <3>1, <3>2 DEF ScanTypes, Rejections
  <2> QED
    BY <2>2, <2>3, NothingRequired
<1>4. CASE reject = None
  <2>1. \A s \in Scenarios, p \in Probes : Recorded(s, p)
    <3>1. scenario = NumScenarios + 1
      BY <1>1, <1>4 DEF ScanInv
    <3>2. \A s \in Scenarios, p \in Probes : Visited(s, p)
      BY <3>1, SizesAssumption DEF Visited, Scenarios
    <3> QED
      BY <3>2, <1>1, <1>4 DEF ScanInv
  <2>2. \A s \in Scenarios, p \in Probes : ~Untrusted(s, p)
    BY <2>1 DEF Recorded, Untrusted
  <2>3. CASE missing # {}
    <3>1. Status = "unverified"
      BY <1>4, <2>3 DEF Status, Complete, Missing
    <3>2. Decision.status = "unverified"
      BY <1>2, <3>1
    <3>3. \E s \in Scenarios, p \in Probes : truth[<<s, p>>] = "errored"
      BY <1>1, <1>4, <2>3 DEF NothingInvented
    <3>4. Called = "unverified"
      BY <1>4, <2>2, <3>3, CalledSays
    <3> QED
      BY <3>2, <3>4, NothingRequired
  <2>4. CASE missing = {}
    <3>1. \A s \in Scenarios, p \in Probes : truth[<<s, p>>] # "errored"
      BY <2>1, <2>4 DEF Recorded
    <3>2. Called = IF \E s \in Scenarios, p \in Probes :
                        truth[<<s, p>>] = "breach" /\ spec[p].block
                   THEN "withheld" ELSE "pass"
      BY <1>4, <2>2, <3>1, CalledSays
    <3>3. /\ Complete /\ Lacks("pass") = {} /\ Lacks("withheld") = {}
          /\ (\E q \in BearingProbes : ~q.holds)
             <=> \E s \in Scenarios, p \in Probes :
                   truth[<<s, p>>] = "breach" /\ spec[p].block
      BY <1>4, <2>4, ScanIsWhole
    <3>4. Status = Called
      BY <1>4, <3>2, <3>3 DEF Status
    <3>5. Status \in {"pass", "withheld"} /\ Lacks(Status) = {}
      BY <3>2, <3>3, <3>4
    <3> QED
      BY <1>2, <3>4, <3>5
  <2> QED
    BY <2>3, <2>4
<1> QED
  BY <1>3, <1>4

\* What a status lacks and the ids it requires depend on the proofs alone.
LEMMA LacksStays ==
    ASSUME NEW s, UNCHANGED proofs
    PROVE  /\ {k \in REQUIRED_PROOFS[s] : \A p \in Bearing' : p.kind # k}
              = Lacks(s)
           /\ {ProofId(p) : p \in {q \in Bearing' :
                                     q.kind \in REQUIRED_PROOFS[s]}}
              = RequiredIds(s)
<1>1. Bearing' = Bearing
  BY DEF Bearing
<1> QED
  BY <1>1 DEF Lacks, RequiredIds

LEMMA DecideTrace ==
    VerdictInv /\ TraceInv /\ Decide => TraceInv' /\ VerdictIsCalledFor'
<1> SUFFICES ASSUME VerdictInv, TraceInv, Decide
             PROVE  TraceInv' /\ VerdictIsCalledFor'
  OBVIOUS
<1>1. /\ stage = "decide" /\ stage' = "issue" /\ envelope' = Decision
      /\ UNCHANGED <<spec, truth, proofs, cells, missing, reject>>
  BY DEF Decide
<1>2. NothingInvented'
  BY <1>1, ProofsStay DEF TraceInv, NothingInvented
<1>3. NothingLost'
  BY <1>1 DEF NothingLost
<1> DEFINE s == envelope'.status
<1>4. /\ s = Called /\ Lacks(s) = {}
      /\ s \in {"pass", "withheld", "reject", "unverified"}
  BY <1>1, DecisionIsCalledFor
<1>5. /\ envelope'.required = RequiredIds(s)
      /\ envelope'.decision.status = s
      /\ envelope'.decision.proofs = proofs
  BY <1>1 DEF Decision, DecisionOn, RequiredIds
<1> HIDE DEF s
<1>6. /\ {k \in REQUIRED_PROOFS[s] : \A p \in Bearing' : p.kind # k} = {}
      /\ {ProofId(p) : p \in {q \in Bearing' :
                                q.kind \in REQUIRED_PROOFS[s]}}
         = RequiredIds(s)
  BY <1>1, <1>4, LacksStays
<1> USE DEF s
<1>7. EnvelopeInv'
  <2>1. Lacks(envelope.status)' = {}
    BY <1>6 DEF Lacks
  <2>2. RequiredIds(envelope.status)' = RequiredIds(s)
    BY <1>6 DEF RequiredIds
  <2> HIDE DEF s
  <2>3. /\ (envelope.status)' \in {"pass", "withheld", "reject", "unverified"}
        /\ (envelope.required)' = RequiredIds(envelope.status)'
        /\ (envelope.decision.status)' = (envelope.status)'
        /\ (envelope.decision.proofs)' = proofs'
    BY <1>1, <1>4, <1>5, <2>2 DEF s
  <2> QED
    BY <1>1, <2>1, <2>3 DEF EnvelopeInv
<1>8. VerdictIsCalledFor'
  <2>1. Called' = Called
    BY <1>1 DEF Called, Cells
  <2> QED
    BY <1>4, <2>1 DEF VerdictIsCalledFor
<1> QED
  BY <1>2, <1>3, <1>7, <1>8 DEF TraceInv

\* What is decided stays as it was decided.
LEMMA EnvelopeStays ==
    ASSUME VerdictInv, TraceInv, VerdictIsCalledFor, Decided,
           stage' \in {"verify", "done"},
           UNCHANGED <<spec, chain, truth, proofs, cells, missing, reject,
                       envelope>>,
           receipt' = Receipt
    PROVE  TraceInv' /\ VerdictIsCalledFor'
<1>1. NothingInvented'
  BY ProofsStay DEF TraceInv, NothingInvented
<1>2. NothingLost'
  BY DEF NothingLost
<1>3. Called' = Called
  BY DEF Called, Cells
<1>4. VerdictIsCalledFor'
  BY <1>3 DEF VerdictIsCalledFor
<1>5. Receipt' = Receipt
  BY DEF Receipt
<1>6. Bearing' = Bearing
  BY DEF Bearing
<1>7. Lacks(envelope.status)' = Lacks(envelope.status)
  BY <1>6 DEF Lacks
<1>8. RequiredIds(envelope.status)' = RequiredIds(envelope.status)
  BY <1>6 DEF RequiredIds
<1>9. EnvelopeInv'
  BY <1>5, <1>7, <1>8 DEF TraceInv, EnvelopeInv
<1> QED
  BY <1>1, <1>2, <1>4, <1>9 DEF TraceInv

\* The proofs of a run, sorted: of a stage, or of a cell.
LEMMA ProofShape ==
    ASSUME NothingInvented, NEW p \in proofs
    PROVE  /\ p.cell[2] \in Nat
           /\ p.kind = "edit_provenance" => ~p.bearing
           /\ p.kind # "probe" => p = Simple(p.kind)
<1>1. CASE p \in Simples(Kinds)
  <2>1. PICK k \in Kinds : p = Simple(k)
    BY <1>1 DEF Simples
  <2>2. /\ p.kind = k /\ p.bearing = (k # "edit_provenance")
        /\ p.cell = <<0, 0>>
    BY <2>1, SimpleShape
  <2>3. p.cell[2] = 0
    BY <2>2
  <2>4. p.cell[2] \in Nat
    BY <2>3
  <2>5. p.kind = "edit_provenance" => ~p.bearing
    BY <2>2
  <2>6. p = Simple(p.kind)
    BY <2>1, <2>2
  <2> QED
    BY <2>4, <2>5, <2>6
<1>2. CASE FromCell(p)
  <2>1. PICK s \in Scenarios, q \in Probes : p = ProbeProof(s, q)
    BY <1>2 DEF FromCell
  <2>2. p.cell = <<s, q>> /\ p.kind = "probe"
    BY <2>1, ProbeProofShape
  <2>3. p.cell[2] = q
    BY <2>2
  <2> QED
    BY <2>2, <2>3 DEF Probes
<1> QED
  BY <1>1, <1>2 DEF NothingInvented

\* With ids that are unique no proof file takes the place of another one.
LEMMA NothingOverwritten ==
    ASSUME NothingInvented, IdsAreUnique(proofs)
    PROVE  OnDisk(proofs) = proofs
<1>1. ASSUME NEW p \in proofs, NEW q \in proofs, ProofId(q) = ProofId(p)
      PROVE  q.cell[2] <= p.cell[2]
  <2>1. q = p
    BY <1>1 DEF IdsAreUnique
  <2>2. p.cell[2] \in Nat
    BY ProofShape
  <2> QED
    BY <2>1, <2>2
<1> QED
  BY <1>1 DEF OnDisk

LEMMA ArtifactsVerify ==
    ASSUME TraceInv, stage = "verify", IdsAreUnique(proofs)
    PROVE  /\ envelope.status = "reject" => BundleVerifies
           /\ envelope.status \in {"pass", "withheld"} =>
                ~MissingIds /\ \A p \in receipt.proofs : ProofVerifies(p)
<1>1. /\ NothingInvented /\ Lacks(envelope.status) = {}
      /\ envelope.required = RequiredIds(envelope.status)
      /\ envelope.decision.status = envelope.status
      /\ envelope.decision.proofs = proofs /\ receipt = Receipt
  BY DEF TraceInv, EnvelopeInv, Decided
<1>2. OnDisk(proofs) = proofs
  BY <1>1, NothingOverwritten
<1>3. ASSUME envelope.status = "reject" PROVE BundleVerifies
  <2>1. envelope.required = {}
    BY <1>1, <1>3 DEF RequiredIds, REQUIRED_PROOFS
  <2> QED
    BY <1>1, <1>2, <1>3, <2>1 DEF BundleVerifies
<1>4. ASSUME envelope.status \in {"pass", "withheld"}
      PROVE  ~MissingIds /\ \A p \in receipt.proofs : ProofVerifies(p)
  <2>1. receipt = [status |-> envelope.status, required |-> envelope.required,
                   decision |-> envelope.decision, proofs |-> proofs]
    BY <1>1, <1>4 DEF Receipt
  <2>2. /\ receipt.status = envelope.status
        /\ receipt.required = envelope.required
        /\ receipt.decision = envelope.decision /\ receipt.proofs = proofs
    BY <2>1
  <2>3. ReceiptBinds
    <3>1. \A p \in proofs : p.kind = "edit_provenance" => ~p.bearing
      BY <1>1, ProofShape
    <3>2. \A p, q \in proofs : p.kind = q.kind /\ p.kind # "probe" => p = q
      <4> TAKE p, q \in proofs
      <4>1. p.kind # "probe" => p = Simple(p.kind)
        BY <1>1, ProofShape
      <4>2. q.kind # "probe" => q = Simple(q.kind)
        BY <1>1, ProofShape
      <4> QED
        BY <4>1, <4>2
    <3> QED
      BY <1>1, <2>2, <3>1, <3>2 DEF ReceiptBinds
  <2>4. \A p \in receipt.proofs : ProofVerifies(p)
    BY <1>2, <2>2, <2>3 DEF ProofVerifies
  <2>5. ~MissingIds
    <3> DEFINE needed == {p \in receipt.proofs : p.bearing /\
                            p.kind \in REQUIRED_PROOFS[receipt.status]}
    <3>1. needed = {q \in Bearing : q.kind \in REQUIRED_PROOFS[envelope.status]}
      BY <2>2 DEF Bearing
    <3>2. \A k \in REQUIRED_PROOFS[receipt.status] :
            \E p \in needed : p.kind = k
      BY <1>1, <2>2, <3>1 DEF Lacks
    <3>3. {ProofId(p) : p \in needed} = receipt.required
      BY <1>1, <2>2, <3>1 DEF RequiredIds
    <3> HIDE DEF needed
    <3>4. MissingIds <=> \/ \E k \in REQUIRED_PROOFS[receipt.status] :
                              \A p \in needed : p.kind # k
                         \/ {ProofId(p) : p \in needed} # receipt.required
      BY DEF MissingIds, needed
    <3> QED
      BY <3>2, <3>3, <3>4
  <2> QED
    BY <2>4, <2>5
<1> QED
  BY <1>3, <1>4

LEMMA VerifyAnswers ==
    ASSUME TraceInv, Verify PROVE DistinctProofsVerify'
<1>1. /\ stage = "verify" /\ UNCHANGED proofs
      /\ answer' = IF receipt = None
                   THEN IF BundleVerifies THEN "verified"
                        ELSE IF envelope.status = "reject" THEN "mismatch"
                        ELSE "no_verdict"
                   ELSE IF MissingIds THEN "incomplete"
                   ELSE IF \A p \in receipt.proofs : ProofVerifies(p)
                   THEN "verified" ELSE "mismatch"
  BY DEF Verify
<1>2. /\ envelope.status \in {"pass", "withheld", "reject", "unverified"}
      /\ receipt = Receipt
  BY <1>1 DEF TraceInv, EnvelopeInv, Decided
<1>3. receipt # None => envelope.status \in {"pass", "withheld"}
  BY <1>2 DEF Receipt
<1>4. ASSUME IdsAreUnique(proofs) PROVE answer' \in {"verified", "no_verdict"}
  <2>1. /\ envelope.status = "reject" => BundleVerifies
        /\ envelope.status \in {"pass", "withheld"} =>
             ~MissingIds /\ \A p \in receipt.proofs : ProofVerifies(p)
    BY <1>1, <1>4, ArtifactsVerify
  <2>2. CASE receipt = None
    BY <1>1, <2>1, <2>2
  <2>3. CASE receipt # None
    BY <1>1, <1>3, <2>1, <2>3
  <2> QED
    BY <2>2, <2>3
<1>5. IdsAreUnique(proofs)' => IdsAreUnique(proofs)
  BY <1>1 DEF IdsAreUnique
<1> QED
  BY <1>4, <1>5 DEF DistinctProofsVerify

LEMMA CalledNext == CalledInv /\ [Next]_vars => CalledInv'
<1> SUFFICES ASSUME CalledInv, [Next]_vars PROVE CalledInv'
  OBVIOUS
<1>1. /\ VerdictInv /\ TraceInv /\ VerdictIsCalledFor /\ DistinctProofsVerify
      /\ VerdictInv'
  BY NextInv DEF CalledInv
<1>2. CASE Import \/ Replay \/ ProbeErrs \/ ProbeRejects \/ ProbeAnswers
           \/ Conclude
  <2>1. TraceInv'
    BY <1>1, <1>2, ImportTrace, ReplayTrace, ProbeErrsTrace, ProbeRejectsTrace,
       ProbeAnswersTrace, ConcludeTrace
  <2>2. stage' \in {"replay", "probe", "decide"}
    BY <1>2 DEF Import, Replay, ProbeErrs, ProbeRejects, ProbeAnswers, Conclude,
                Scanning
  <2>3. VerdictIsCalledFor' /\ DistinctProofsVerify'
    BY <2>2 DEF VerdictIsCalledFor, Decided, DistinctProofsVerify
  <2> QED
    BY <1>1, <2>1, <2>3 DEF CalledInv
<1>3. CASE Decide
  <2>1. TraceInv' /\ VerdictIsCalledFor'
    BY <1>1, <1>3, DecideTrace
  <2>2. DistinctProofsVerify'
    BY <1>3 DEF Decide, DistinctProofsVerify
  <2> QED
    BY <1>1, <2>1, <2>2 DEF CalledInv
<1>4. CASE Issue
  <2>1. /\ Decided /\ stage' = "verify" /\ receipt' = Receipt
        /\ UNCHANGED <<spec, chain, truth, proofs, cells, missing, reject,
                       envelope>>
    BY <1>4 DEF Issue, Decided
  <2>2. TraceInv' /\ VerdictIsCalledFor'
    BY <1>1, <2>1, EnvelopeStays
  <2>3. DistinctProofsVerify'
    BY <2>1 DEF DistinctProofsVerify
  <2> QED
    BY <1>1, <2>2, <2>3 DEF CalledInv
<1>5. CASE Verify
  <2>1. /\ stage = "verify" /\ stage' = "done" /\ receipt' = receipt
        /\ UNCHANGED <<spec, chain, truth, proofs, cells, missing, reject,
                       envelope>>
    BY <1>5 DEF Verify
  <2>2. Decided /\ receipt' = Receipt
    BY <1>1, <2>1 DEF Decided, TraceInv, EnvelopeInv
  <2>3. TraceInv' /\ VerdictIsCalledFor'
    BY <1>1, <2>1, <2>2, EnvelopeStays
  <2>4. DistinctProofsVerify'
    BY <1>1, <1>5, VerifyAnswers
  <2> QED
    BY <1>1, <2>3, <2>4 DEF CalledInv
<1>6. CASE UNCHANGED vars
  <2>1. UNCHANGED <<spec, chain, truth, stage, scenario, probe, proofs, cells,
                    missing, reject, envelope, receipt, answer>>
    BY <1>6 DEF vars
  <2>2. NothingInvented'
    BY <1>1, <2>1, ProofsStay DEF TraceInv, NothingInvented
  <2>3. NothingLost'
    <3>1. \A s \in Scenarios, p \in Probes : Visited(s, p)' => Visited(s, p)
      BY <2>1 DEF Visited
    <3>2. \A s \in Scenarios, p \in Probes : Covered(s, p) => Covered(s, p)'
      BY <2>1, ProofsStay DEF Covered
    <3> QED
      BY <1>1, <2>1, <3>1, <3>2 DEF TraceInv, NothingLost
  <2>4. EnvelopeInv' /\ VerdictIsCalledFor'
    <3>1. CASE Decided
      <4>1. Lacks(envelope.status)' = Lacks(envelope.status)
        BY <2>1 DEF Lacks, Bearing
      <4>2. RequiredIds(envelope.status)' = RequiredIds(envelope.status)
        BY <2>1 DEF RequiredIds, Bearing
      <4>3. Receipt' = Receipt /\ Called' = Called
        BY <2>1 DEF Receipt, Called, Cells
      <4> QED
        BY <1>1, <2>1, <3>1, <4>1, <4>2, <4>3
        DEF TraceInv, EnvelopeInv, VerdictIsCalledFor
    <3>2. CASE ~Decided
      BY <2>1, <3>2 DEF EnvelopeInv, VerdictIsCalledFor, Decided
    <3> QED
      BY <3>1, <3>2
  <2>5. DistinctProofsVerify'
    BY <1>1, <2>1 DEF DistinctProofsVerify, IdsAreUnique
  <2> QED
    BY <1>1, <2>2, <2>3, <2>4, <2>5 DEF CalledInv, TraceInv
<1> QED
  BY <1>2, <1>3, <1>4, <1>5, <1>6 DEF Next

\* The inductive invariant: the scan (VerdictInv), what it leaves behind and
\* what is decided of it (TraceInv), and the two properties below.
THEOREM CalledInductive == Spec => []CalledInv
<1>1. Init => CalledInv
  <2>1. Init => VerdictIsCalledFor /\ DistinctProofsVerify
    BY DEF Init, VerdictIsCalledFor, Decided, DistinctProofsVerify
  <2> QED
    BY <2>1, InitInv, InitTrace DEF CalledInv
<1> QED
  BY <1>1, CalledNext, PTL DEF Spec

\* The order in which the scan meets the probes and decide applies its rules
\* does not show in the verdict, for any suite, spec and findings: it is the
\* one that what the probes find calls for.
THEOREM VerdictCalledFor == Spec => []VerdictIsCalledFor
<1>1. CalledInv => VerdictIsCalledFor
  BY DEF CalledInv
<1> QED
  BY CalledInductive, <1>1, PTL

\* Receipt and proofs of a verdict, and the bundle of a rejection, verify as
\* they were issued if each proof of the run has an id of its own.
THEOREM ArtifactsVerified == Spec => []DistinctProofsVerify
<1>1. CalledInv => DistinctProofsVerify
  BY DEF CalledInv
<1> QED
  BY CalledInductive, <1>1, PTL

=============================================================================
