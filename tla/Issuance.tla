------------------------------- MODULE Issuance -------------------------------
(***************************************************************************)
(* Artifact directories.  A run of Redline judges a candidate and leaves   *)
(* report, proofs and receipt in a directory, the receipt in the issuance  *)
(* ledger of that directory, and a checkpoint of the ledger beside it.     *)
(* People sign checkpoints.  A run may build on the receipt of another     *)
(* directory, and anyone may verify a directory.  Runs are processes: two  *)
(* may share a directory, each may raise or stop at any step.              *)
(*                                                                         *)
(* A hash is the value it is a hash of.  Package, suite and specification  *)
(* of a directory are fixed, so a candidate is a key of its ledger.  What  *)
(* the engine finds is any verdict, because the baseline is not in the key.*)
(***************************************************************************)
EXTENDS Naturals, Sequences, FiniteSets

CONSTANTS
    Dirs,        \* artifact directories
    Candidates,  \* candidates: keys of a ledger
    Receipts,    \* receipts: candidate, status, and the receipt built on
    Runs,        \* processes
    MaxBegun,    \* bound on the runs that begin
    MaxSigned,   \* bound on the checkpoints that are signed
    MaxFaults,   \* bound on the steps that raise or stop the process
    None, Rejected

ASSUME ReceiptAssumption ==
    /\ \A r \in Receipts :
         /\ r.candidate \in Candidates
         /\ r.status \in {"pass", "withheld"}
         /\ r.prev \in Receipts \cup {None}
    /\ None \notin Receipts /\ Rejected \notin Receipts /\ None # Rejected
    /\ None \notin Dirs
    /\ MaxBegun \in Nat /\ MaxSigned \in Nat /\ MaxFaults \in Nat

VARIABLES
    ledger,       \* ledger[d]: entries of issuance-ledger.jsonl
    torn,         \* directories whose ledger ends in half a line
    checkpoint,   \* checkpoint[d]: the ledger it was made of, or None
    attestation,  \* attestation[d]: the ledger that was signed, or None
    receipt,      \* receipt[d]: of receipt.json, or None
    report,       \* report[d]: the verdict of report.json, or None
    proofs,       \* proofs[d]: verdicts whose proofs are in proofs/
    signed,       \* ledgers whose checkpoint was signed
    at,           \* at[p]: what run p does next
    dir,          \* dir[p]: its output directory
    base,         \* base[p]: directory of the baseline receipt, or None
    work,         \* work[p]: baseline receipt, then verdict, or Rejected
    tail,         \* tail[p]: entries of the ledger when p read its end
    verdict,      \* history: first receipt appended for a candidate
    shared,       \* history: directories two runs wrote at a time
    begun, faults

files == <<ledger, torn, checkpoint, attestation, receipt, report, proofs>>
process == <<at, dir, base, work, tail>>
history == <<verdict, shared>>
count == <<begun, faults>>
vars == <<files, signed, process, history, count>>

Registry == INSTANCE VerdictRegistry WITH verdict <- verdict

Entries == [receipt : Receipts, after : Nat]
Verdicts == Receipts \cup {Rejected}
Steps == {"idle", "judge", "check", "clear", "clear rest", "report", "proofs",
          "recheck", "receipt", "tail", "append", "checkpoint", "unlink"}

TypeOK ==
    /\ ledger \in [Dirs -> Seq(Entries)]
    /\ torn \subseteq Dirs
    /\ checkpoint \in [Dirs -> Seq(Entries) \cup {None}]
    /\ attestation \in [Dirs -> Seq(Entries) \cup {None}]
    /\ receipt \in [Dirs -> Receipts \cup {None}]
    /\ report \in [Dirs -> Verdicts \cup {None}]
    /\ proofs \in [Dirs -> SUBSET Verdicts]
    /\ signed \subseteq Seq(Entries)
    /\ at \in [Runs -> Steps]
    /\ dir \in [Runs -> Dirs \cup {None}]
    /\ base \in [Runs -> Dirs \cup {None}]
    /\ work \in [Runs -> Verdicts \cup {None}]
    /\ tail \in [Runs -> Nat]
    /\ verdict \in [Dirs -> [Candidates -> Receipts \cup {None}]]
    /\ shared \subseteq Dirs
    /\ begun \in 0 .. MaxBegun /\ faults \in 0 .. MaxFaults

Init ==
    /\ ledger = [d \in Dirs |-> <<>>]
    /\ torn = {}
    /\ checkpoint = [d \in Dirs |-> None]
    /\ attestation = [d \in Dirs |-> None]
    /\ receipt = [d \in Dirs |-> None]
    /\ report = [d \in Dirs |-> None]
    /\ proofs = [d \in Dirs |-> {}]
    /\ signed = {}
    /\ at = [p \in Runs |-> "idle"]
    /\ dir = [p \in Runs |-> None]
    /\ base = [p \in Runs |-> None]
    /\ work = [p \in Runs |-> None]
    /\ tail = [p \in Runs |-> 0]
    /\ verdict = [d \in Dirs |-> [c \in Candidates |-> None]]
    /\ shared = {}
    /\ begun = 0 /\ faults = 0

-----------------------------------------------------------------------------
(* Reading a directory.                                                    *)

\* _read_ledger_entries: every line is whole and names the one before.
Readable(d) ==
    d \notin torn /\ \A i \in DOMAIN ledger[d] : ledger[d][i].after = i - 1

\* Entries of a candidate, in the order of the ledger.
Of(d, c) == {i \in DOMAIN ledger[d] : ledger[d][i].receipt.candidate = c}

\* Mutant: a ledger that can be read is no conflict.
ConflictIfTorn(d, c) == d \in torn

\* _raise_on_ledger_conflict: it asks for whole lines, not for the chain.
Conflict(d, c) == d \in torn \/ Of(d, c) # {}

\* Mutant: a second entry of the candidate is passed over.
RecordsAny(d, r) ==
    Readable(d) /\ \E i \in Of(d, r.candidate) : ledger[d][i].receipt = r

\* _ledger_error: the one entry of the candidate is that of r.
Records(d, r) ==
    /\ Readable(d)
    /\ \E i \in DOMAIN ledger[d] :
         ledger[d][i].receipt = r /\ Of(d, r.candidate) = {i}

\* _ledger_checkpoint_error: the checkpoint is of the ledger as it is.
Current(d) == checkpoint[d] # None /\ checkpoint[d] = ledger[d]

\* verify_checkpoint_attestation: and it is the one that was signed.
Attested(d) == attestation[d] # None /\ attestation[d] = checkpoint[d]

\* Mutant: a checkpoint is enough, signed or not.
TrustedUnsigned(d, r) == Records(d, r) /\ Current(d)

\* _baseline_receipt_trusted: and the checkpoint is current and signed.
Trusted(d, r) == Records(d, r) /\ Current(d) /\ Attested(d)

\* _external_proofs_error: the files in proofs/ are the proofs of r, no more.
ProofsMatch(d, r) == proofs[d] = {r}

\* _external_report_error
ReportMatches(d, r) == report[d] = r

\* _replay_error: the run would leave the same again, with the baseline receipt
\* of directory b if it was given one.
Replays(d, b, r) ==
    /\ r.prev # None => b # None /\ receipt[b] = r.prev /\ Trusted(b, r.prev)
    /\ ReportMatches(d, r)

\* verify at level REPLAYED says VERIFIED, with or without a trust policy.
Verified(d, b, trust) ==
    LET r == receipt[d] IN
    /\ r # None
    /\ Records(d, r) /\ Current(d) /\ (trust => Attested(d))
    /\ ProofsMatch(d, r)
    /\ Replays(d, b, r)
    /\ r.prev # None => trust
    /\ r.status = "pass" => r.prev # None

-----------------------------------------------------------------------------
(* A run.                                                                  *)

Goto(p, step) ==
    /\ at' = [at EXCEPT ![p] = step]
    /\ UNCHANGED <<dir, base, work, tail>>

\* The process ends.
Stop(p) ==
    /\ at' = [at EXCEPT ![p] = "idle"]
    /\ dir' = [dir EXCEPT ![p] = None]
    /\ base' = [base EXCEPT ![p] = None]
    /\ work' = [work EXCEPT ![p] = None]
    /\ tail' = [tail EXCEPT ![p] = 0]

\* run_redline is given an output directory and perhaps a baseline receipt,
\* which it loads.
Begin(p) ==
    /\ at[p] = "idle" /\ begun < MaxBegun
    /\ begun' = begun + 1
    /\ \E d \in Dirs, b \in Dirs \cup {None} :
         /\ dir' = [dir EXCEPT ![p] = d]
         /\ base' = [base EXCEPT ![p] = b]
         /\ work' = [work EXCEPT ![p] = IF b = None THEN None
                                        ELSE IF receipt[b] = None THEN Rejected
                                        ELSE receipt[b]]
         /\ shared' = IF \E q \in Runs : dir[q] = d THEN shared \cup {d}
                      ELSE shared
    /\ at' = [at EXCEPT ![p] = "judge"]
    /\ UNCHANGED <<files, signed, tail, verdict, faults>>

\* Mutant: any PASS will do, the trust policy is not asked.
ChainedByAnyPass(p) ==
    base[p] # None => work[p] # Rejected /\ work[p].status = "pass"

\* _baseline_chain accepted the baseline receipt, or none was given.
Chained(p) ==
    base[p] # None =>
        work[p] # Rejected /\ work[p].status = "pass" /\ Trusted(base[p], work[p])

\* The verdict of decide; a rejection has no receipt.
Judge(p) ==
    /\ at[p] = "judge"
    /\ \E v \in Verdicts :
         /\ v # Rejected => Chained(p) /\ v.prev = work[p]
         /\ work' = [work EXCEPT ![p] = v]
    /\ at' = [at EXCEPT ![p] = "check"]
    /\ UNCHANGED <<files, signed, dir, base, tail, history, count>>

\* write_artifacts: nothing is touched if the candidate has a verdict.
Check(p) ==
    /\ at[p] = "check"
    /\ IF work[p] # Rejected /\ Conflict(dir[p], work[p].candidate)
       THEN Stop(p) ELSE Goto(p, "clear")
    /\ UNCHANGED <<files, signed, history, count>>

\* _clear_artifacts_dir, first half: the report goes before the receipt.
Clear(p) ==
    /\ at[p] = "clear"
    /\ report' = [report EXCEPT ![dir[p]] = None]
    /\ Goto(p, "clear rest")
    /\ UNCHANGED <<ledger, torn, checkpoint, attestation, receipt, proofs,
                   signed, history, count>>

\* Mutant: proofs of the run before are left.
ClearButProofs(p) ==
    /\ at[p] = "clear rest"
    /\ receipt' = [receipt EXCEPT ![dir[p]] = None]
    /\ attestation' = [attestation EXCEPT ![dir[p]] = None]
    /\ Goto(p, "report")
    /\ UNCHANGED <<ledger, torn, checkpoint, report, proofs,
                   signed, history, count>>

\* _clear_artifacts_dir, second half: ledger and checkpoint stay.
ClearRest(p) ==
    /\ at[p] = "clear rest"
    /\ receipt' = [receipt EXCEPT ![dir[p]] = None]
    /\ attestation' = [attestation EXCEPT ![dir[p]] = None]
    /\ proofs' = [proofs EXCEPT ![dir[p]] = {}]
    /\ Goto(p, "report")
    /\ UNCHANGED <<ledger, torn, checkpoint, report, signed, history, count>>

WriteReport(p) ==
    /\ at[p] = "report"
    /\ report' = [report EXCEPT ![dir[p]] = work[p]]
    /\ Goto(p, "proofs")
    /\ UNCHANGED <<ledger, torn, checkpoint, attestation, receipt, proofs,
                   signed, history, count>>

\* A rejection is left without a receipt.
WriteProofs(p) ==
    /\ at[p] = "proofs"
    /\ proofs' = [proofs EXCEPT ![dir[p]] = @ \cup {work[p]}]
    /\ IF work[p] = Rejected THEN Stop(p) ELSE Goto(p, "recheck")
    /\ UNCHANGED <<ledger, torn, checkpoint, attestation, receipt, report,
                   signed, history, count>>

\* atomic_write_receipt asks again.
Recheck(p) ==
    /\ at[p] = "recheck"
    /\ IF Conflict(dir[p], work[p].candidate) THEN Stop(p)
       ELSE Goto(p, "receipt")
    /\ UNCHANGED <<files, signed, history, count>>

WriteReceipt(p) ==
    /\ at[p] = "receipt"
    /\ receipt' = [receipt EXCEPT ![dir[p]] = work[p]]
    /\ Goto(p, "tail")
    /\ UNCHANGED <<ledger, torn, checkpoint, attestation, report, proofs,
                   signed, history, count>>

\* _last_ledger_entry_hash: the last entry, of a ledger that can be read.
ReadTail(p) ==
    /\ at[p] = "tail"
    /\ IF Readable(dir[p])
       THEN /\ at' = [at EXCEPT ![p] = "append"]
            /\ tail' = [tail EXCEPT ![p] = Len(ledger[dir[p]])]
            /\ UNCHANGED <<dir, base, work>>
       ELSE Goto(p, "unlink")
    /\ UNCHANGED <<files, signed, history, count>>

\* _append_ledger: one line, lost in the rest of a torn one.
AppendLedger(p) ==
    LET d == dir[p]
        r == work[p] IN
    /\ at[p] = "append"
    /\ IF d \in torn THEN UNCHANGED <<ledger, verdict>>
       ELSE /\ ledger' = [ledger EXCEPT ![d] =
                            Append(@, [receipt |-> r, after |-> tail[p]])]
            /\ verdict' = IF verdict[d][r.candidate] # None THEN verdict
                          ELSE [verdict EXCEPT ![d][r.candidate] = r]
    /\ Goto(p, "checkpoint")
    /\ UNCHANGED <<torn, checkpoint, attestation, receipt, report, proofs,
                   signed, shared, count>>

\* create_ledger_checkpoint
WriteCheckpoint(p) ==
    /\ at[p] = "checkpoint"
    /\ IF Readable(dir[p])
       THEN /\ checkpoint' = [checkpoint EXCEPT ![dir[p]] = ledger[dir[p]]]
            /\ Stop(p)
       ELSE Goto(p, "unlink") /\ UNCHANGED checkpoint
    /\ UNCHANGED <<ledger, torn, attestation, receipt, report, proofs,
                   signed, history, count>>

\* A receipt whose ledger entry or checkpoint could not be written is removed.
Unlink(p) ==
    /\ at[p] = "unlink"
    /\ receipt' = [receipt EXCEPT ![dir[p]] = None]
    /\ Stop(p)
    /\ UNCHANGED <<ledger, torn, checkpoint, attestation, report, proofs,
                   signed, history, count>>

\* A line may be half written when the process stops or the disk is full.
Tear(p) ==
    /\ \/ torn' = torn
       \/ at[p] = "append" /\ torn' = torn \cup {dir[p]}
    /\ UNCHANGED <<ledger, checkpoint, attestation, receipt, report, proofs>>

Raise(p) ==
    /\ at[p] # "idle" /\ faults < MaxFaults
    /\ faults' = faults + 1
    /\ Tear(p)
    /\ IF at[p] \in {"tail", "append", "checkpoint"} THEN Goto(p, "unlink")
       ELSE Stop(p)
    /\ UNCHANGED <<signed, history, begun>>

Crash(p) ==
    /\ at[p] # "idle" /\ faults < MaxFaults
    /\ faults' = faults + 1
    /\ Tear(p)
    /\ Stop(p)
    /\ UNCHANGED <<signed, history, begun>>

-----------------------------------------------------------------------------
(* People.                                                                 *)

\* sign-ledger-checkpoint
Sign(d) ==
    /\ checkpoint[d] # None
    /\ Cardinality(signed) < MaxSigned
    /\ signed' = signed \cup {checkpoint[d]}
    /\ UNCHANGED <<files, process, history, count>>

\* The attestation is put beside some ledger, now or later.
Attach(d) ==
    /\ \E c \in signed : attestation' = [attestation EXCEPT ![d] = c]
    /\ UNCHANGED <<ledger, torn, checkpoint, receipt, report, proofs,
                   signed, process, history, count>>

Run(p) ==
    \/ Begin(p) \/ Judge(p) \/ Check(p) \/ Clear(p) \/ ClearRest(p)
    \/ WriteReport(p) \/ WriteProofs(p) \/ Recheck(p) \/ WriteReceipt(p)
    \/ ReadTail(p) \/ AppendLedger(p) \/ WriteCheckpoint(p) \/ Unlink(p)
    \/ Raise(p) \/ Crash(p)

Next ==
    \/ \E p \in Runs : Run(p)
    \/ \E d \in Dirs : Sign(d) \/ Attach(d)

Spec == Init /\ [][Next]_vars

-----------------------------------------------------------------------------
(***************************************************************************)
(* Properties.                                                             *)
(***************************************************************************)

\* Directories implement a registry: whatever runs race, raise or stop, the
\* first verdict on a candidate stands, and one that builds on a baseline
\* receipt builds on a PASS issued before.
RegistrySpec == Registry!Spec

\* Nobody can be shown a second verdict: what a directory can be verified to
\* say of a candidate is the first verdict it ever issued on it.
VerifiedIsFirst ==
    \A d \in Dirs, b \in Dirs \cup {None} :
        Verified(d, b, TRUE) \/ Verified(d, b, FALSE) =>
            verdict[d][receipt[d].candidate] = receipt[d]

\* A directory that one run writes at a time has one entry for a candidate,
\* whatever stops in between, so its ledger can go on.
OneEntryEach ==
    \A d \in Dirs \ shared :
        \A i, j \in DOMAIN ledger[d] :
            ledger[d][i].receipt.candidate = ledger[d][j].receipt.candidate => i = j

\* Such a directory never shows a receipt beside report or proofs of another
\* verdict, also after a run that was stopped.
ArtifactsAreOfOneRun ==
    \A d \in Dirs \ shared : receipt[d] # None =>
        report[d] \in {None, receipt[d]} /\ proofs[d] = {receipt[d]}

\* Somebody signed a checkpoint of a ledger with an entry of r.
SignedFor(r) == \E l \in signed : \E k \in DOMAIN l : l[k].receipt = r

\* A verdict that builds on a baseline receipt builds on one that somebody
\* signed for while it was in its ledger.
ChainsAreSigned ==
    \A d \in Dirs : \A i \in DOMAIN ledger[d] :
        LET r == ledger[d][i].receipt IN
        r.prev # None => r.prev.status = "pass" /\ SignedFor(r.prev)

-----------------------------------------------------------------------------
(***************************************************************************)
(* The invariant the properties follow from.                               *)
(***************************************************************************)

\* What a verdict builds on was issued, and signed for.
Grounded(r) == Registry!Founded(r) /\ (r.prev # None => SignedFor(r.prev))

\* A candidate has a verdict when it has an entry, and one entry carries it.
VerdictInv ==
    \A d \in Dirs, c \in Candidates :
        \/ verdict[d][c] = None /\ Of(d, c) = {}
        \/ \E i \in Of(d, c) : ledger[d][i].receipt = verdict[d][c]

\* Entries are grounded, and an attestation is of what was signed.
LedgerInv ==
    \A d \in Dirs :
        /\ \A i \in DOMAIN ledger[d] : Grounded(ledger[d][i].receipt)
        /\ attestation[d] # None => attestation[d] \in signed

\* What a run carries from step to step: a receipt only if it is grounded.
WorkInv ==
    \A p \in Runs :
        /\ at[p] = "idle" => dir[p] = None
        /\ at[p] # "idle" => dir[p] \in Dirs
        /\ at[p] = "judge" => (base[p] = None <=> work[p] = None)
        /\ at[p] \notin {"idle", "judge"} => work[p] \in Verdicts
        /\ at[p] \notin {"idle", "judge", "check", "clear", "clear rest",
                         "report", "proofs"} => work[p] \in Receipts
        /\ at[p] \notin {"idle", "judge"} /\ work[p] \in Receipts =>
             Grounded(work[p])

\* In a directory of one run at a time, a run that passed the check finds
\* no entry of its candidate until it appends one.
AloneInv ==
    \A p \in Runs : dir[p] \in Dirs \ shared =>
        /\ \A q \in Runs : dir[q] = dir[p] => q = p
        /\ at[p] \in {"clear", "clear rest", "report", "proofs", "recheck",
                     "receipt", "tail", "append"} /\ work[p] \in Receipts =>
             Of(dir[p], work[p].candidate) = {}

\* What such a run has cleared, and what it has written.
ArtifactInv ==
    \A p \in Runs : dir[p] \in Dirs \ shared =>
        /\ at[p] = "clear rest" => report[dir[p]] = None
        /\ at[p] \in {"report", "proofs", "recheck", "receipt"} =>
             receipt[dir[p]] = None
        /\ at[p] \in {"report", "proofs"} => proofs[dir[p]] = {}
        /\ at[p] \in {"proofs", "recheck", "receipt"} => report[dir[p]] = work[p]
        /\ at[p] \in {"recheck", "receipt"} => proofs[dir[p]] = {work[p]}

IInv ==
    /\ TypeOK /\ VerdictInv /\ LedgerInv /\ WorkInv
    /\ AloneInv /\ OneEntryEach
    /\ ArtifactInv /\ ArtifactsAreOfOneRun

=============================================================================
