--------------------------- MODULE EvidenceBundle ---------------------------
(***************************************************************************)
(* The audit trail of a release candidate and the evidence bundle built    *)
(* from it: service/release.py, attestation.py and the handlers of         *)
(* service/app.py that append, build, serve, sign and verify.              *)
(*                                                                         *)
(* Every handler runs in a thread of its own and takes no lock: between    *)
(* two of its file or database operations any other may run.  A file is    *)
(* replaced as a whole, a hash is the content it is taken of, and an audit *)
(* entry is told from the others by its number.  The release is followed   *)
(* from the moment its run, simulation and policy are bound; simulation    *)
(* and policy may be bound anew, the transition table refuses another run. *)
(* The run can be pruned by a cleanup at any time.                         *)
(***************************************************************************)
EXTENDS Integers, Sequences, FiniteSets

CONSTANTS
    Clients,     \* concurrent requests
    MaxEntries,  \* bound: audit entries ever made
    MaxBindings, \* bound: simulations and policies bound
    MaxClock,    \* bound: seconds in which bundles are generated
    MaxCrashes,  \* bound: stops of the process
    MaxOverlaps, \* bound: requests that begin while another one is served
    None         \* a file or value that is not there

ASSUME BoundsAssumption ==
    /\ MaxEntries \in Nat \ {0} /\ MaxBindings \in Nat \ {0}
    /\ MaxClock \in Nat /\ MaxCrashes \in Nat /\ MaxOverlaps \in Nat

VARIABLES
    row,         \* the release's row, as far as evidence depends on it
    entries,     \* table release_audit_entries, by sequence
    audit,       \* release-audit-ledger.jsonl
    simulation,  \* release-simulation-evidence.json: the number of a binding
    policy,      \* release-risk-policy.json: the number of a binding
    decision,    \* release-decision-record.json
    bundle,      \* release-evidence-bundle.json
    manifest,    \* release-evidence-manifest.json
    attestation, \* release-attestation.json
    run,         \* row and directory of the bound run
    at,          \* the step each request is at
    work,        \* what it asks for and has in its hands
    tail,        \* the audit ledger it loaded to append to
    made,        \* audit entries made
    bindings,    \* simulations and policies bound
    clock,       \* the second of the last bundle
    crashes,     \* stops so far
    overlaps     \* requests that began before another one had ended

files == <<audit, simulation, policy, decision, bundle, manifest, attestation,
           run>>
database == <<row, entries>>
counters == <<made, bindings, clock, crashes>>
vars == <<files, database, at, work, tail, counters, overlaps>>

States == {"review_required", "approved", "release_ready", "killed",
           "blocked_risk_policy", "blocked_exchange_error"}
\* The run is kept whole, or its row was deleted, or its directory too.
Runs == {"kept", "unlisted", "gone"}
Ops == {"none", "import", "policy", "block", "approve", "execute",
        "showcase", "kill", "evidence", "attest"}
Steps == {"idle", "overwrite", "rebind", "update", "load", "append", "insert",
          "order", "ensure", "artifacts", "bare", "bundle", "manifest",
          "record", "verify", "hash", "sign"}

\* What the files hold.  release is the copy of the row in the bundle;
\* redline: the artifacts of the run are copied too; run: the manifest lists
\* the files of the run directory.
Entries == [id: 1 .. MaxEntries, after: 0 .. MaxEntries]
Ledgers == Seq(Entries)
Releases == [state: States, simulation: 1 .. MaxBindings,
             policy: 1 .. MaxBindings, executed: BOOLEAN]
Decisions == [release: Releases, at: 0 .. MaxClock]
Bundles == [release: Releases, slice: Ledgers, decision: Decisions,
            redline: BOOLEAN]
Manifests == [bundle: Bundles, audit: Ledgers, simulation: 1 .. MaxBindings,
              policy: 1 .. MaxBindings, decision: Decisions, run: BOOLEAN]
Attestations == [bundle: Bundles, manifest: Manifests]
Rows == [state: States, simulation: 1 .. MaxBindings,
         policy: 1 .. MaxBindings, executed: BOOLEAN,
         approval: {"none", "granted", "consumed"}, showcase: BOOLEAN,
         manifest: Manifests \cup {None}]

ASSUME NoneAssumption == None \notin Bundles \cup Manifests

\* seen: the row as it was read or is to be written; left: audit events still
\* to append; held: a bundle, a manifest or an attestation.
Works == [op: Ops, seen: Rows \cup {None}, left: 0 .. 2,
          held: Bundles \cup Manifests \cup Attestations \cup {None}]
Nothing == [op |-> "none", seen |-> None, left |-> 0, held |-> None]

CopyOf(r) == [state |-> r.state, simulation |-> r.simulation,
              policy |-> r.policy, executed |-> r.executed]

Init ==
    /\ row = [state |-> "review_required", simulation |-> 1, policy |-> 1,
              executed |-> FALSE, approval |-> "none", showcase |-> FALSE,
              manifest |-> None]
    /\ audit = <<[id |-> 1, after |-> 0]>> /\ entries = audit
    /\ simulation = 1 /\ policy = 1 /\ run = "kept"
    /\ decision = None /\ bundle = None
    /\ manifest = None /\ attestation = None
    /\ at = [c \in Clients |-> "idle"]
    /\ work = [c \in Clients |-> Nothing]
    /\ tail = [c \in Clients |-> <<>>]
    /\ made = 1 /\ bindings = 1 /\ clock = 0 /\ crashes = 0
    /\ overlaps = 0

-----------------------------------------------------------------------------
\* Request c goes on with w, or has ended.
Goto(c, step, w) ==
    /\ at' = [at EXCEPT ![c] = step]
    /\ work' = [work EXCEPT ![c] = IF step = "idle" THEN Nothing ELSE w]

Idle == \A c \in Clients : at[c] = "idle"

\* A request arrives and reads the row; those the handler refuses at once
\* change nothing and are left out.
Receive(c, what, r, step, events) ==
    /\ at[c] = "idle"
    /\ Goto(c, step,
            [op |-> what, seen |-> r, left |-> events, held |-> None])
    /\ UNCHANGED tail
    /\ IF Idle THEN UNCHANGED overlaps
       ELSE overlaps < MaxOverlaps /\ overlaps' = overlaps + 1

\* import_simulation_evidence: terminal releases are refused before the file
\* is touched.
Import(c) ==
    /\ row.state \in {"review_required", "approved", "release_ready"}
    /\ bindings < MaxBindings
    /\ bindings' = bindings + 1
    /\ Receive(c, "import", [row EXCEPT !.simulation = bindings'],
               "overwrite", 1)
    /\ UNCHANGED <<files, database, made, clock, crashes>>

\* The evidence file is written before the transition is checked.
Overwrite(c) ==
    /\ at[c] = "overwrite"
    /\ simulation' = work[c].seen.simulation
    /\ Goto(c, IF work[c].seen.state = "release_ready" THEN "idle"
               ELSE "update",
            [work[c] EXCEPT !.seen = [@ EXCEPT !.state = "review_required",
                                               !.approval = "none",
                                               !.manifest = None]])
    /\ UNCHANGED <<database, audit, policy, decision, bundle, manifest,
                   attestation, run, tail, counters, overlaps>>

\* bind_risk_policy: a policy the default order satisfies, or one it breaks.
\* Both are bound with two events.
BindPolicy(c) ==
    /\ row.state \in {"review_required", "approved", "release_ready"}
    /\ bindings < MaxBindings
    /\ bindings' = bindings + 1
    /\ \E what \in {"policy", "block"} :
         Receive(c, what, [row EXCEPT !.policy = bindings'], "rebind", 2)
    /\ UNCHANGED <<files, database, made, clock, crashes>>

\* The transitions a binding asks for that the table has.
MayBind(what, state) ==
    \/ state = "approved"
    \/ state = "review_required" /\ what = "policy"

\* Mutant: a new policy leaves the manifest of the old one.
RebindOnly(c) ==
    /\ at[c] = "rebind"
    /\ policy' = work[c].seen.policy
    /\ Goto(c, IF MayBind(work[c].op, work[c].seen.state) THEN "update"
               ELSE "idle",
            [work[c] EXCEPT
               !.seen = [@ EXCEPT !.state = IF work[c].op = "block"
                                            THEN "blocked_risk_policy"
                                            ELSE "review_required",
                                  !.approval = "none"]])
    /\ UNCHANGED <<database, audit, simulation, decision, bundle, manifest,
                   attestation, run, tail, counters, overlaps>>

\* The policy file is written before the transition is checked, too.
Rebind(c) ==
    /\ at[c] = "rebind"
    /\ policy' = work[c].seen.policy
    /\ Goto(c, IF MayBind(work[c].op, work[c].seen.state) THEN "update"
               ELSE "idle",
            [work[c] EXCEPT
               !.seen = [@ EXCEPT !.state = IF work[c].op = "block"
                                            THEN "blocked_risk_policy"
                                            ELSE "review_required",
                                  !.approval = "none",
                                  !.manifest = None]])
    /\ UNCHANGED <<database, audit, simulation, decision, bundle, manifest,
                   attestation, run, tail, counters, overlaps>>

\* Mutant: an approval for a showcase order clears the manifest.
ApproveAnew(c) ==
    /\ run = "kept"
    /\ \/ /\ row.state = "review_required"
          /\ Receive(c, "approve", [row EXCEPT !.state = "approved",
                                               !.approval = "granted"],
                     "update", 1)
       \/ /\ row.state = "release_ready"
          /\ Receive(c, "approve", [row EXCEPT !.showcase = TRUE,
                                               !.manifest = None],
                     "update", 1)
    /\ UNCHANGED <<files, database, counters>>

\* approve: the run must be listed; a ready release gets an approval for a
\* showcase order instead.
Approve(c) ==
    /\ run = "kept"
    /\ \/ /\ row.state = "review_required"
          /\ Receive(c, "approve", [row EXCEPT !.state = "approved",
                                               !.approval = "granted"],
                     "update", 1)
       \/ /\ row.state = "release_ready"
          /\ Receive(c, "approve", [row EXCEPT !.showcase = TRUE], "update", 1)
    /\ UNCHANGED <<files, database, counters>>

Kill(c) ==
    /\ row.state \in {"review_required", "approved", "release_ready"}
    /\ Receive(c, "kill", [row EXCEPT !.state = "killed"], "update", 1)
    /\ UNCHANGED <<files, database, counters>>

\* store.update_release_candidate: the whole row.
Update(c) ==
    /\ at[c] = "update"
    /\ row' = work[c].seen
    /\ Goto(c, "load", work[c])
    /\ UNCHANGED <<files, entries, tail, counters, overlaps>>

\* execute_release_demo up to the order: the approval is consumed in the row.
\* Then the policy may forbid this order, the run not be found any more, or
\* the request is recorded.
Execute(c) ==
    /\ row.state = "approved" /\ row.approval = "granted"
    /\ row' = [row EXCEPT !.approval = "consumed"]
    /\ \/ run = "kept" /\ Receive(c, "execute", row', "load", 1)
       \/ run # "kept" /\ Receive(c, "execute", row', "idle", 0)
       \/ Receive(c, "execute", [row' EXCEPT !.state = "blocked_risk_policy"],
                  "update", 1)
    /\ UNCHANGED <<files, entries, counters>>

\* The exchange answered.  A placed order clears the manifest and has two
\* events, a blocked one has one; without its run directory the evidence of a
\* placed one may be missing, and the request ends.
Order(c) ==
    /\ at[c] = "order"
    /\ \/ Goto(c, "update",
               [work[c] EXCEPT !.left = 2,
                               !.seen = [@ EXCEPT !.state = "release_ready",
                                                  !.executed = TRUE,
                                                  !.manifest = None]])
       \/ Goto(c, "update",
               [work[c] EXCEPT !.left = 1,
                               !.seen = [@ EXCEPT
                                           !.state = "blocked_exchange_error"]])
       \/ run = "gone" /\ Goto(c, "idle", Nothing)
    /\ UNCHANGED <<files, database, tail, counters, overlaps>>

\* create_release_demo_showcase_order: the policy may forbid the order, the
\* run not be found any more, or it is requested, then placed or blocked; it has
\* a directory of its own, which no bundle covers.
Showcase(c) ==
    /\ row.state = "release_ready" /\ row.executed /\ row.showcase
    /\ row' = [row EXCEPT !.showcase = FALSE]
    /\ \/ run = "kept" /\ Receive(c, "showcase", row', "load", 2)
       \/ run # "kept" /\ Receive(c, "showcase", row', "idle", 0)
       \/ Receive(c, "showcase", row', "load", 1)
    /\ UNCHANGED <<files, entries, counters>>

-----------------------------------------------------------------------------
(* append_release_audit_event: load, replace the file, insert the row.     *)

LastId(ledger) == IF ledger = <<>> THEN 0 ELSE ledger[Len(ledger)].id

\* What load_release_audit_ledger requires of previous_entry_hash.
Chained(ledger) ==
    \A i \in DOMAIN ledger :
        ledger[i].after = IF i = 1 THEN 0 ELSE ledger[i - 1].id

Load(c) ==
    /\ at[c] = "load"
    /\ tail' = [tail EXCEPT ![c] = audit]
    /\ Goto(c, IF Chained(audit) THEN "append" ELSE "idle", work[c])
    /\ UNCHANGED <<files, database, counters, overlaps>>

\* Mutant: the new entry is chained to the last one of the table.
AppendAfterTable(c) ==
    /\ at[c] = "append" /\ made < MaxEntries
    /\ made' = made + 1
    /\ audit' = Append(tail[c], [id |-> made', after |-> LastId(entries)])
    /\ tail' = [tail EXCEPT ![c] = audit']
    /\ Goto(c, "insert", work[c])
    /\ UNCHANGED <<simulation, policy, decision, bundle, manifest, attestation,
                   run, database, bindings, clock, crashes, overlaps>>

AppendEntry(c) ==
    /\ at[c] = "append" /\ made < MaxEntries
    /\ made' = made + 1
    /\ audit' = Append(tail[c], [id |-> made', after |-> LastId(tail[c])])
    /\ tail' = [tail EXCEPT ![c] = audit']
    /\ Goto(c, "insert", work[c])
    /\ UNCHANGED <<simulation, policy, decision, bundle, manifest, attestation,
                   run, database, bindings, clock, crashes, overlaps>>

\* Mutant: the kill handler writes the file only.
InsertUnlessKilled(c) ==
    /\ at[c] = "insert"
    /\ entries' = IF work[c].op = "kill" THEN entries
                  ELSE Append(entries, tail[c][Len(tail[c])])
    /\ tail' = [tail EXCEPT ![c] = <<>>]
    /\ Goto(c, IF work[c].left > 1 THEN "load" ELSE "idle",
            [work[c] EXCEPT !.left = @ - 1])
    /\ UNCHANGED <<files, row, counters, overlaps>>

Insert(c) ==
    /\ at[c] = "insert"
    /\ entries' = Append(entries, tail[c][Len(tail[c])])
    /\ tail' = [tail EXCEPT ![c] = <<>>]
    /\ Goto(c, IF work[c].left > 1 THEN "load"
               ELSE IF /\ work[c].op = "execute"
                       /\ work[c].seen.state = "approved"
               THEN "order" ELSE "idle",
            [work[c] EXCEPT !.left = @ - 1])
    /\ UNCHANGED <<files, row, counters, overlaps>>

\* Two inserts read the same highest sequence: the later one fails on the
\* primary key, and its request with it.
InsertLost(c) ==
    /\ at[c] = "insert"
    /\ \E d \in Clients \ {c} : at[d] = "insert"
    /\ tail' = [tail EXCEPT ![c] = <<>>]
    /\ Goto(c, "idle", Nothing)
    /\ UNCHANGED <<files, database, counters, overlaps>>

-----------------------------------------------------------------------------
(* _ensure_release_evidence_bundle and generate_release_evidence_bundle.   *)

\* What the policy, which is the default one, still asks for.
RequiredEvidenceMissing(r) ==
    {what \in {"human_approval", "demo_execution"} :
       IF what = "human_approval" THEN r.approval = "none" ELSE ~r.executed}

\* download_release_evidence and attest_release require that nothing is
\* missing; the attestation pages build a bundle of whatever there is.
GetEvidence(c) ==
    /\ RequiredEvidenceMissing(row) = {}
    /\ Receive(c, "evidence", row, "ensure", 0)
    /\ UNCHANGED <<files, database, counters>>

Attest(c) ==
    /\ RequiredEvidenceMissing(row) = {} /\ row.state = "release_ready"
    /\ Receive(c, "attest", row, "ensure", 0)
    /\ UNCHANGED <<files, database, counters>>

GetAttestation(c) ==
    /\ Receive(c, "evidence", row, "ensure", 0)
    /\ UNCHANGED <<files, database, counters>>

\* What follows a bundle that is there.
Ensured(c) == IF work[c].op = "attest" THEN "verify" ELSE "idle"

\* A manifest the row names is never built again: its files are as the row
\* says, or the request is refused.
UseCached(c) ==
    /\ at[c] = "ensure"
    /\ work[c].seen.manifest # None /\ bundle # None /\ manifest # None
    /\ Goto(c, IF manifest = work[c].seen.manifest /\ bundle = manifest.bundle
               THEN Ensured(c) ELSE "idle", work[c])
    /\ UNCHANGED <<files, database, tail, counters, overlaps>>

\* The run of the row is looked up: found, its artifacts go into the bundle.
FindRun(c) ==
    /\ at[c] = "ensure"
    /\ work[c].seen.manifest = None \/ bundle = None \/ manifest = None
    /\ Goto(c, IF run = "kept" THEN "artifacts" ELSE "bare", work[c])
    /\ UNCHANGED <<files, database, tail, counters, overlaps>>

\* A run that was found but has lost its directory: the request is refused.
ArtifactsLost(c) ==
    /\ at[c] = "artifacts" /\ run = "gone"
    /\ Goto(c, "idle", Nothing)
    /\ UNCHANGED <<files, database, tail, counters, overlaps>>

\* The ledger is read, the decision record written; the second may be the
\* one of the bundle before.
Collect(c) ==
    /\ at[c] \in {"artifacts", "bare"}
    /\ at[c] = "artifacts" => run # "gone"
    /\ Chained(audit)
    /\ clock' \in clock .. clock + 1 /\ clock' <= MaxClock
    /\ decision' = [release |-> CopyOf(work[c].seen), at |-> clock']
    /\ Goto(c, "bundle",
            [work[c] EXCEPT !.held = [release |-> CopyOf(work[c].seen),
                                      slice |-> audit,
                                      decision |-> decision',
                                      redline |-> at[c] = "artifacts"]])
    /\ UNCHANGED <<audit, simulation, policy, bundle, manifest, attestation,
                   run, database, tail, made, bindings, crashes, overlaps>>

WriteBundle(c) ==
    /\ at[c] = "bundle"
    /\ bundle' = work[c].held
    /\ Goto(c, "manifest", work[c])
    /\ UNCHANGED <<audit, simulation, policy, decision, manifest, attestation,
                   run, database, tail, counters, overlaps>>

\* The manifest hashes the files as they are by now, the bundle possibly
\* before another request replaced it: then the build is given up.  The files
\* of the run are listed as its row has them.
WriteManifest(c) ==
    /\ at[c] = "manifest"
    /\ \E hashed \in {work[c].held, bundle} :
         /\ manifest' = [bundle |-> hashed, audit |-> audit,
                         simulation |-> simulation, policy |-> policy,
                         decision |-> decision, run |-> work[c].held.redline]
         /\ Goto(c, IF bundle = hashed THEN "record" ELSE "idle",
                 [work[c] EXCEPT !.held = manifest'])
    /\ UNCHANGED <<audit, simulation, policy, decision, bundle, attestation,
                   run, database, tail, counters, overlaps>>

\* The row is overwritten as it was read, with the manifest.
RecordManifest(c) ==
    /\ at[c] = "record"
    /\ row' = [work[c].seen EXCEPT !.manifest = work[c].held]
    /\ Goto(c, IF bundle = work[c].held.bundle THEN Ensured(c) ELSE "idle",
            work[c])
    /\ UNCHANGED <<files, entries, tail, counters, overlaps>>

-----------------------------------------------------------------------------
(* attest_release_bundle and verify_release_attestation.                   *)

\* Every file has the hash the manifest lists for it.
FilesAsListed ==
    /\ manifest.bundle = bundle
    /\ manifest.audit = audit
    /\ manifest.simulation = simulation
    /\ manifest.policy = policy
    /\ manifest.decision = decision
    /\ manifest.run => run # "gone"

\* The execution evidence is in the bundle, and still in the run directory: it
\* is written before the row says executed, and never again.
ExecutionVerifies == bundle.release.executed /\ run # "gone"

\* The evidence copied into the bundle is linked.  Simulation and policy are
\* bound from the start here, the receipt is among the artifacts of the run;
\* approval, execution and checkpoint are those of an executed release.
ChainLinks == bundle.release.executed /\ bundle.redline

\* verify_release_evidence_bundle.
BundleVerifies ==
    /\ bundle # None /\ manifest # None
    /\ FilesAsListed
    /\ Chained(audit)
    /\ ExecutionVerifies
    /\ ChainLinks

\* What verify_release_attestation compares besides checking the bundle; keys
\* and signatures are taken as sound.
AttestationMatches ==
    attestation.bundle = bundle /\ attestation.manifest = manifest

\* What the judge page says of the files it finds, at any time.
BundleStatus == CASE bundle = None -> "missing"
                  [] BundleVerifies -> "verified"
                  [] OTHER -> "invalid"

AttestationStatus == CASE attestation = None -> "missing"
                       [] BundleVerifies /\ AttestationMatches -> "ATTESTED"
                       [] OTHER -> "invalid"

\* verify_release_chain: bundle and attestation.
ChainVerifies == BundleStatus = "verified" /\ AttestationStatus = "ATTESTED"

Verify(c) ==
    /\ at[c] = "verify"
    /\ Goto(c, IF BundleVerifies THEN "hash" ELSE "idle", work[c])
    /\ UNCHANGED <<files, database, tail, counters, overlaps>>

\* What is signed is the bundle found when the checks are done.
HashBundle(c) ==
    /\ at[c] = "hash"
    /\ Goto(c, "sign", [work[c] EXCEPT !.held = bundle])
    /\ UNCHANGED <<files, database, tail, counters, overlaps>>

Sign(c) ==
    /\ at[c] = "sign"
    /\ attestation' = [bundle |-> work[c].held, manifest |-> manifest]
    /\ Goto(c, "idle", Nothing)
    /\ UNCHANGED <<audit, simulation, policy, decision, bundle, manifest, run,
                   database, tail, counters, overlaps>>

\* The process stops and starts again: files and rows are all that is left.
Crash ==
    /\ crashes < MaxCrashes
    /\ crashes' = crashes + 1
    /\ \E c \in Clients : at[c] # "idle"
    /\ at' = [c \in Clients |-> "idle"]
    /\ work' = [c \in Clients |-> Nothing]
    /\ tail' = [c \in Clients |-> <<>>]
    /\ UNCHANGED <<files, database, made, bindings, clock, overlaps>>

\* cleanup_expired_runs, a process of its own: the row is deleted before the
\* directory, and a cleanup that stops in between leaves the directory.
PruneRow ==
    /\ run = "kept" /\ run' = "unlisted"
    /\ UNCHANGED <<audit, simulation, policy, decision, bundle, manifest,
                   attestation, database, at, work, tail, counters, overlaps>>

PruneDirectory ==
    /\ run = "unlisted" /\ run' = "gone"
    /\ UNCHANGED <<audit, simulation, policy, decision, bundle, manifest,
                   attestation, database, at, work, tail, counters, overlaps>>

Serve(c) ==
    \/ Import(c) \/ Overwrite(c) \/ BindPolicy(c) \/ Rebind(c)
    \/ Approve(c) \/ Kill(c) \/ Update(c)
    \/ Execute(c) \/ Order(c) \/ Showcase(c)
    \/ Load(c) \/ AppendEntry(c) \/ Insert(c) \/ InsertLost(c)
    \/ GetEvidence(c) \/ Attest(c) \/ GetAttestation(c)
    \/ UseCached(c) \/ FindRun(c) \/ ArtifactsLost(c) \/ Collect(c)
    \/ WriteBundle(c) \/ WriteManifest(c)
    \/ RecordManifest(c)
    \/ Verify(c) \/ HashBundle(c) \/ Sign(c)

Next == Crash \/ PruneRow \/ PruneDirectory \/ \E c \in Clients : Serve(c)

Spec == Init /\ [][Next]_vars

-----------------------------------------------------------------------------
\* Types of the variables.
TypeOK ==
    /\ row \in Rows
    /\ entries \in Ledgers /\ audit \in Ledgers
    /\ simulation \in 1 .. MaxBindings /\ policy \in 1 .. MaxBindings
    /\ run \in Runs
    /\ decision \in Decisions \cup {None} /\ bundle \in Bundles \cup {None}
    /\ manifest \in Manifests \cup {None}
    /\ attestation \in Attestations \cup {None}
    /\ at \in [Clients -> Steps] /\ work \in [Clients -> Works]
    /\ tail \in [Clients -> Ledgers]
    /\ made \in 1 .. MaxEntries /\ bindings \in 1 .. MaxBindings
    /\ clock \in 0 .. MaxClock /\ crashes \in 0 .. MaxCrashes
    /\ overlaps \in 0 .. MaxOverlaps

\* However requests interleave and wherever the process stops, the audit
\* ledger on disk is one hash chain: no append ever finds it unreadable.
AuditIsAChain ==
    /\ Chained(audit)
    /\ \A c \in Clients : at[c] \in {"append", "insert"} => Chained(tail[c])

\* One request at a time, the table follows the ledger: it has every event of
\* the file in the file's order, but for those whose insertion a stop took.
TableFollowsLedger ==
    overlaps = 0 =>
        /\ \A i, j \in DOMAIN entries : i < j => entries[i].id < entries[j].id
        /\ \A i \in DOMAIN entries :
             \E j \in DOMAIN audit : audit[j] = entries[i]
        /\ Idle => Len(audit) - Len(entries) \in 0 .. crashes

\* One request at a time, and wherever a build is cut short: while the row
\* names a manifest, it and its bundle are on disk, so that they can be served,
\* and tell of the simulation, the policy and the execution bound now.
BundleTellsTheEvidence ==
    overlaps = 0 /\ Idle /\ row.manifest # None =>
        /\ manifest = row.manifest /\ bundle = manifest.bundle
        /\ row.manifest.bundle.release.simulation = row.simulation
        /\ row.manifest.bundle.release.policy = row.policy
        /\ row.manifest.bundle.release.executed = row.executed

\* One request at a time, what was signed stays on disk: nothing a ready
\* release still answers builds another bundle or manifest.  The release chain
\* verifies for anyone, and the judge page says so, until an event is appended,
\* a refused import or policy binding replaces the file the manifest lists, or
\* the directory of the run is pruned: one of these it takes.
SignedStaysOnDisk ==
    overlaps = 0 /\ attestation # None =>
        /\ AttestationMatches
        /\ \/ ChainVerifies
           \/ audit # manifest.audit
           \/ simulation # manifest.simulation \/ policy # manifest.policy
           \/ run = "gone"

=============================================================================
