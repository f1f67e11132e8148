# Playbook Redline in TLA+

Playbook Redline decides whether a changed trading strategy may be released.
It runs a candidate and its baseline through a deterministic engine, issues a
receipt with a verdict (PASS or WITHHELD, built on a baseline receipt or on none), and a
FastAPI service carries a release candidate from that receipt through
simulation evidence, a risk policy and a human approval to one demo order on
the Bitget exchange.  This directory holds TLA+ models of the parts where order
matters, the TLC configurations that check them, and TLAPS proofs.

Paths below are relative to `src/redline/`.

## Inventory

| Component | State it keeps | Operations | What is hard |
|---|---|---|---|
| Release lifecycle (`service/transitions.py`, `service/app.py`, `service/store.py`) | one row per release candidate: state, evidence, policy, approval, execution | create, bind run, import simulation, bind policy, approve, reject, kill, build bundle, execute, showcase order | endpoints run in a thread pool; each reads a row, does file and network work, and overwrites the row |
| Demo order execution (`sponsor/bitget_execution.py`, `service/app.py`) | files of a run directory, `execution_lock`, the exchange | preflight, place, recover by clientOid, record, query status | requests lost, late or answered with an error; a crash between two files |
| Run queue (`service/app.py`, `service/worker.py`, `service/store.py`, `service/cleanup.py`) | rows of `runs`, executor tasks, issuance ledger | create, claim, execute, mark, requeue, prune | racing workers and requests, crash while executing |
| Release jobs (`service/app.py`, `service/store.py`) | job rows, hash-chained job events, drain threads | create, claim, execute, cancel, recover | cancel racing claim, events written apart from rows |
| Release audit and evidence bundle (`service/release.py`) | audit rows, their file, a bundle manifest | append, verify, build, verify | append is read, compute, write; the manifest is cached |
| Idempotency and rate limit (`service/app.py`, `service/store.py`) | key records, request times | replay, allow | check-then-act |
| Proof kernel (`runner.py`, `proof_kernel.py`, `tripwire.py`, `violations.py`) | none | scan the probes, collect proofs, decide a verdict | the order of rules must not show; a probe that was not put or did not answer must not pass |
| Receipts, chain, trust (`receipt.py`, `chain.py`, `attestation.py`, `trust.py`) | receipt, issuance ledger, checkpoint, attestation | issue, refuse a re-roll, sign, chain to a baseline receipt | two runs in one directory, partial writes, a baseline that changes while it is read |
| Verifier and runner (`verifier.py`, `runner.py`) | artifact directory | run, clear and write artifacts, verify | a directory that a stopped run left must not verify |
| Merkle and canonical forms (`merkle.py`, `canonical.py`, `package_identity.py`) | none | root, inclusion, hash | odd levels, one leaf |
| Spec compiler, probes (`spec_compiler.py`, `probes/`) | none | compile invariants, measure drawdown and behaviour | boundaries |
| Engine and sandbox (`engine_adapter/`) | none | simulate a strategy | Python subset, limits |
| Authentication, configuration (`service/auth.py`, `service/config.py`) | session cookies in browsers, the environment | log in, out, check role and scope, freeze | a cookie outlives the configuration it was given under |
| Postgres store (`service/postgres_store.py`) | the same rows | the same operations | several services on one database, each statement with a snapshot of its own |
| Storage, io safety (`service/storage.py`, `io_safety.py`) | files | write, read | a file is replaced atomically |
| Surfaces (`surfaces.py`, `render.py`, `judge_console.py`, `hackathon_pack.py`, `cli.py`, `mcp_server.py`, `sponsor/bitget.py`) | none | rendering, parsing | little |

How they interact: a run queued by a request is claimed by an executor thread,
whose verdict and receipt hash end up in the run row and whose receipt goes to
the issuance ledger of the run directory.  A release binds a finished run, an
approval fixes the hash of the evidence (`evidence_fingerprint`), and the
execution handler consumes the approval with a compare-and-swap, then takes the
process-wide `execution_lock` and drives the Bitget adapter.  The adapter leaves
files in the run directory.  Threads share only the database, these files and
the lock.

## Modules

| Module | Models |
|---|---|
| `ReleaseTransitions` | the transition table, the evidence each state asks for, and `transition_release`, as operators on a release row |
| `ReleaseGate` | abstract: what a release promises about exchange orders |
| `ReleaseLifecycle` | one release candidate under request threads, step by step between store accesses; with one thread it refines `ReleaseGate` |
| `MCReleaseLifecycle` | policies and symmetry for TLC |
| `ReleaseLifecycleProofs` | theorems about `ReleaseLifecycle` |
| `DemoExecution` | the demo order of one run: lock, files, adapter, exchange, crash |
| `RunQueue`, `MCRunQueue` | rows of `runs`, requests, drain threads, the process |
| `RunQueueProofs` | theorems about `RunQueue` |
| `JobContract` | abstract: what a release job promises |
| `ReleaseJobs` | job rows, events, keys, requests, drain threads, restart; refines `JobContract` |
| `ReleaseJobsProofs` | theorems about `ReleaseJobs` |
| `VerdictRegistry` | abstract: a write-once registry of verdicts |
| `Issuance`, `MCIssuance` | artifact directories, runs that write them, signers, the verifier; refines `VerdictRegistry` |
| `IssuanceProofs` | theorems about `Issuance` |
| `EvidenceBundle`, `MCEvidenceBundle` | audit ledger and table of a release, its evidence bundle, manifest and attestation, file by file |
| `EvidenceBundleProofs` | theorems about `EvidenceBundle` |
| `Verdict` | `run_redline`, `decide`, the receipt and its verification |
| `VerdictProofs` | theorems about `Verdict` |
| `SharedStore`, `MCSharedStore` | runs, jobs and job events in Postgres under several services, statement by statement |
| `SharedStoreProofs` | theorems about `SharedStore` |
| `Authority`, `MCAuthority` | credentials, roles, four eyes, expiry, freeze switches and keys in front of showcase orders |
| `OrderRequests` | the threads that `Authority` and `DemoExecution` share |
| `OrderProofs` | theorems about both kinds of orders, those of `Authority` and those of `DemoExecution` |

Every hash is the value it is a hash of and every signature is sound, in all
modules.  Each module takes one aspect of the service and leaves what the
others have as a free choice: `ReleaseLifecycle` places an order in one step
that may fail, `DemoExecution` opens that step; `ReleaseJobs` calls an endpoint
that ends either way; `Issuance` takes any verdict, `Verdict` says which.

### ReleaseLifecycle

`row` is the release row, `held[t]` the row object the handler of thread `t`
works on and `op[t]` its next step.  A simple handler (`BindRedlineRun`,
`ImportSimulation`, `BindRiskPolicy`, `Approve`, `Reject`, `Kill`,
`BuildBundle`) is two steps: it reads the row and computes the row it wants
(`Serve`), and later overwrites the store with it (`Commit`), which is
`update_release_candidate` without a version check.  Execution is four: read
and check (`StartExecute`), consume (`ConsumeApproval`, the compare-and-swap of
`consume_release_approval`), read again (`Reload`), and place the order and
compute the final row (`PlaceOrder`); a showcase order is the same with the
approval kept in the metadata.  `FinishRun` is the worker that gives a run its
verdict, `ExecuteRun` the order of `POST /runs/{id}/execute`, which needs no
approval.  `Crash` ends every handler.  `PlaceCanonical` is one step here:
`DemoExecution` shows what it does under the lock.

Hashes are the values they are hashes of, so `Fingerprint(row)` is the triple
of run, simulation and policy.  An approval has a nonce; `granted` and `placed`
are history: nonces handed out, orders recorded on the authority of each.

`ReleaseGate` has no handlers, rows in flight or files: only how far the release
is, the evidence under review, the approval in force and whether it is spent,
and the orders that rest on each nonce.  `Stage`, `InForce` and `UsedUp` read
these off the stored row; the approval in force is the one
`_current_showcase_approval` finds.  The gate moves when a row is written
(`Commit` is its `Revise`, `Approve`, `Finish` or `Close`), when a nonce is
handed out (`Grant`), consumed (`Spend`) and used (`Order`); every other step
leaves it alone.

What a refused request writes is nothing, so requests that fail a check have no
action.  Freeze switches, roles, scopes and the expiry of an approval can only
refuse more and are in `Authority` (no property here needs a refusal they
cause); the audit rows are in `EvidenceBundle`; the live gate and released
states are left out.

### DemoExecution

A request takes the lock and looks at the evidence file and the execution
ledger (`Enter`), queries the exchange and writes the preflight file
(`Preflight`), places the order (`Send`, with the retry of 5xx answers), asks
by clientOid when there was no answer or a duplicate (`Recover`), and writes
ledger, evidence and status (`WriteLedger`, `WriteEvidence`, `WriteStatus`).
The exchange is external: it takes at most one order per clientOid, may lose an
order, may take it without answering, and may get it after the client gave it
up (`Arrive`).  `Reboot` ends the process at any step; files survive.
`ExecutionVerifies` is what `verify_release_chain` asks of the evidence file: a
ledger entry that tells the same.  The status file is written once
(`KeepStatus`), so that an order whose state was unknown stays so.

### RunQueue

`run[r]` is the state of a row, `tasks` the drain tasks the executor has not
started, `at[w]` and `job[w]` what a worker does.  `Request`, `Insert`, `Kick`
are `create_run`; `Claim` is one transaction; `Execute` is `run_redline` up to
the receipt, which refuses a receipt its ledger has already; `Mark` writes the
row.  `Crash`, `Requeue` and `KickAtStart` are a restart, `Prune` is retention,
which runs as a process of its own.

### ReleaseJobs

`status[j]` is a row of `release_jobs`, `events[j]` its events, `at[w]` and
`job[w]` what a drain thread does, `client[c]` the next step of a request.
Every access to the store is a step and may raise (`FailRequest`, `FailWork`).
A request creates a job (`Create`, `Insert`, `LogQueued`, `Remember`, `Kick`)
or cancels one (`Cancel`, `CancelQueued`, `LogCancelled` or `LogRequest`).  A
thread claims the oldest job (`Claim`), asks whether it is to be cancelled
(`Check`), calls the release endpoint (`Execute`), writes the row (`Mark`) and
then the event (`LogResult`); the exception handler writes the row as failed
(`Rescue`) and the event (`LogRescued`).  `Crash`, `Recover`, `LogRecovered`
and `KickAtStart` are a restart.  What the endpoint itself does is
`ReleaseLifecycle`'s and may end either way here.

`JobContract` keeps two things of all that: the status of a job and whether
its order was asked for.

### Issuance

A directory `d` has a ledger, a checkpoint, an attestation, a receipt, a report
and proofs, each of them the value it stands for: a report is the verdict it
reports, a checkpoint the ledger it was made of.  `torn` holds the directories
whose ledger ends in half a line.  A run `p` reads the baseline receipt
(`Begin`), judges (`Judge`, after `Chained`), and writes: `Check`, `Clear`,
`ClearRest`, `WriteReport`, `WriteProofs`, `Recheck`, `WriteReceipt`,
`ReadTail`, `AppendLedger`, `WriteCheckpoint`, in the order of `write_artifacts`
and `atomic_write_receipt`.  `Unlink` is the exception handler that takes the
receipt away again; `Raise` and `Crash` may come at any step.  `Sign` and
`Attach` are people with `sign-ledger-checkpoint`: an attestation may be put
beside any ledger at any time.  `Verified(d, b, trust)` is what `verify` accepts
at level replayed, with baseline receipt `b` and with or without a trust policy.

Package, suite and specification of a directory are fixed, so a candidate is
the key of its ledger.  The engine is any verdict: the baseline is not part of
the key, so the same candidate may well be judged differently later, which is
what the ledger must prevent.  `verdict` (the first receipt appended) and
`shared` (directories two runs wrote at a time) are history.

### EvidenceBundle

The files of one release (`audit`, `simulation`, `policy`, `decision`,
`bundle`, `manifest`, `attestation`), its row, the table
`release_audit_entries`, and what is left of the bound run (`run`: row and
directory, the directory only, nothing).  A request `c` is at step `at[c]` with
`work[c]` in its hands.  Handlers that change the release (`Import`,
`BindPolicy`, `Approve`, `Kill`, `Execute`, `Showcase`) go on to `Overwrite` or
`Rebind`, which replace the evidence file before the transition is checked, to
`Update`, `Order` and to `append_release_audit_event`, which is
three steps: `Load`, `AppendEntry` (the file is replaced), `Insert` (the row,
or `InsertLost` on the primary key).  `GetEvidence`, `Attest` and
`GetAttestation` go through `_ensure_release_evidence_bundle`: `UseCached`, or
`FindRun`, `Collect` (or `ArtifactsLost`), `WriteBundle`, `WriteManifest`,
`RecordManifest`, the last of which writes the row back as it was read; then
`Verify`, `HashBundle`, `Sign`.  The manifest lists ledger, simulation, policy
and decision as they are on disk by then, and the files of the run if its row
was found.  `Crash` drops every request; `PruneRow` and `PruneDirectory` are
`cleanup_expired_runs`.  `BundleVerifies` and `ChainVerifies` are
`verify_release_evidence_bundle` and `verify_release_chain`; `BundleStatus` and
`AttestationStatus` are what the judge page says of the same files.

An audit entry is a number and the number of the entry it is chained to.  The
decision record carries a time in seconds, which tells two bundles apart only
when they are not made in the same one.  `Init` is a release whose run,
simulation and policy have been bound once and that is up for review: an
approval, an order and an attestation need all three.  Simulation and policy
are bound anew from there, in states that allow it and in `release_ready`,
which refuses them after the file was replaced; binding another run is refused
by the transition table in all these states and touches no file first.  A
policy that asks for less evidence than the default one only lets a bundle be
served earlier, which `GetAttestation` does in any state.  Files of a run
directory that a manifest lists are written once, so they are there as listed
or gone with the directory.

### Verdict

A run goes through `Import`, `Replay`, one action per probe and scenario
(`ProbeErrs`, `ProbeRejects`, `ProbeAnswers`), `Conclude`, `Decide`, `Issue`
and `Verify`.  `truth` fixes beforehand what every probe would find in every
scenario, also in cells the scan does not reach: that is what the verdict is
held against.  `Called` is the verdict those findings call for, defined without
any order of scenarios or rules; `Decision` is what the code computes in its
order.  `ProofId` is what `_simple_proof` hashes, and for a probe that is its
two results and not the probe.  `Verify` is what `verifier.py` says of the
artifacts as they were issued; what it says of altered ones is not modelled.

### SharedStore

A session is a thread or a request of a service; `op[s]` is the transaction it
is in.  Every statement is a step under READ COMMITTED, and `lock[j]` is the row
lock of a transaction that selected job `j` FOR UPDATE SKIP LOCKED.  Appending
an event reads the tail and inserts after it (`ReadTail`, `InsertEvent`); the
lock on the tail does not make a second reader see the new one, and an empty
ledger has no row to lock, so the primary key decides (`EventRefused`).
`Start`, `SelectInterrupted`, `FailInterrupted`, `LogInterrupted` and `Open`
are the start of a service beside others that run; `Stop` rolls its
transactions back.  `SelectOldRuns` and `DeleteRuns` are the cleanup process.

### Authority

A release that is ready for showcase orders.  `Role(p)` is the role a request
is served with: a token is looked up in the configuration in force, a cookie
(`principal_from_session_cookie`) carries the role of its login until it
expires.  `reigns` is the history of configurations, one per
start of the service, since both configuration and freeze switches come from
the environment.  `Approve` has role, scope, four eyes and the freeze switch; a
showcase request is `Receive`, `Lookup`, `Consume`, `Order`, `Record`.  The
dependencies of a request run on the event loop, so they are one step with the
arrival; that also makes the rate limiter a check and an update in one step
that only refuses, and it is left out.  `demo_mode` of an approval is any value and
changes nothing (see Findings).  `torn` marks keys with overlapping
requests, or whose request was cut off.

## Runs

| Run | Instance | States | Shows |
|---|---|---|---|
| `release_serial` | 1 thread, 2 runs, 2 simulations, 3 policies, 3 nonces | 22 thousand | with one handler at a time: orders rest on a granted approval that is used once, and are sent only while the release is approved or ready; terminal states are final; rows, handlers and orders implement `ReleaseGate` |
| `release_concurrent` | 2 threads, 1 run, 2 simulations, 3 policies, 2 nonces | 630 thousand | what holds under any interleaving: an approval in the row is of the evidence in the row, a reviewed release is complete, a ready release is backed by the order on file, and the tier L1 is shown of releases that are ready, or were when they were killed |
| `race_terminal` | 2 threads | counterexample | a stale write undoes a kill |
| `demo_execution` | 2 threads, 2 intents, 1 approval or none, 1 retry | 170 thousand | one order per run; evidence that verifies against its ledger and is of an order that exists; backed answers; the lock is let go |
| `run_queue` | 3 runs, 2 workers, 2 clients, quota 1, 1 crash | 240 thousand | running rows are owned, verdicts are backed and final, the quota is overshot by no more than the racing requests, no run is forgotten while the process lives, interrupted runs finish |
| `release_jobs` | 2 jobs, 1 worker, 1 client, 1 crash, 1 store access that raises | 1.2 million | rows and threads implement `JobContract`, a recorded request to cancel is honoured, row and event agree on how a job ended, queued jobs end |
| `issuance` | 2 directories, 2 candidates, 3 runs, 2 at a time, 1 signature, 1 fault | 1.7 million | directories implement `VerdictRegistry`: the first verdict stands and is the only one that verifies, chained verdicts rest on signed ones, a stopped run leaves no mixed artifacts |
| `evidence_bundle` | 2 clients, 7 audit entries, 2 bindings of simulation or policy, 2 seconds, 1 stop or 1 request that overlaps another | 4.3 million | the audit ledger is one chain always; while requests do not overlap, the table follows it, a cached bundle is on disk and tells the present evidence, and what was signed stays on disk and verifies until an event, a refused binding or the pruning of the run ends that |
| `verdict` | 2 scenarios, 2 probes of 2 types, every spec and every finding | 480 thousand | a PASS has every blocking cell holding; the verdict is the one the findings call for, in whatever order; artifacts with distinct proof ids verify |
| `doc_receipts_verify` | the same | counterexample | see Findings |
| `shared_store` | 2 services of 1 worker and 1 request, 1 job, 1 run, 1 stop, 2 events a cancellation may find | 2.8 million | a job's order is asked for once, event ledgers are chains, a run has one executor unless a service started meanwhile, only ended runs are pruned |
| `authority` | 3 people, 3 environments, 1 restart, 2 approvals, 2 threads, 1 key | 3.7 million | roles are those of a configuration in force within the life of a cookie; every order spends a valid approval of its own and none leaves a frozen service; a key tells the order placed under it |

Bounds.  Two threads suffice for a stale write over any single write; the
proofs below cover any number.  Three nonces in the serial run allow an
approval, its replacement and a showcase approval.  Two intents under one run
are what it takes to place two orders; one retry is the adapter's default.
Three runs with a quota of one let two requests overshoot it and still leave
one queued behind two workers.  One crash is what it takes to interrupt,
requeue and re-execute; with a second crash a requeued run is merely a queued
run, which nobody kicks at start.

One worker and one client are enough in `release_jobs` to let a cancellation
race a claim, which is all that races there: a claim is one transaction, and
the proof covers any number of workers and clients.  That run has no
`Idempotency-Key`: two requests with one key may each create a job, and none of
its properties is about keys.  Three runs in `issuance` are two that race and a
third that finds what they left, or builds on it; one fault stops, or tears the
ledger of, any one of them; successors pass, because their own status plays no
part in the chain.  One signature is taken back to a ledger that went on, or
carried to another directory.

Seven audit entries carry a release from its creation over another policy, an
approval and an order, whose request, answer and readiness are three, to its
attestation; whoever would append an eighth waits, with everything it wrote
before, and the proofs cover any number.  The second binding is one made at any
point of that, also after the attestation; a second bundle may be made in the
same second as the first or in the next; `StopOrOverlap` leaves a stop together
with an overlap to the proof of `AuditIsAChain`, the one property that speaks
of overlaps; one overlap is what it takes to interleave
any two requests, and three properties are asked only without it, because an
overlap breaks them (see Findings).  Two probes in two scenarios are what it takes
to stop a scan between a breach and a gap in either order, and to give two
proofs one id.  One job and one run under two services are all that two
services can contend for; the ledger theorems cover any number.  The three
environments of `authority` differ in everything a restart can change: roles,
allowed logins, dev login, both freeze switches, the default token.

Deadlock is checked except in the runs of `RunQueue`, `ReleaseJobs`,
`Issuance`, `EvidenceBundle`, `Verdict` and `SharedStore`: ids are used once,
their number or that of entries is bounded and a run ends, so these models stop
when they are used up.

Fairness.  `DemoExecution`: the thread that holds the lock goes on, because the
transport has a timeout and retries are bounded; nothing is assumed of the
exchange.  `RunQueue`: executor threads are scheduled, a request that inserted
its row reaches its kick, and a stopped service is started again; no request
is assumed to come.  `ReleaseJobs`: the same; a store access may raise, and
`JobsEnd` promises an end only as long as none does.  The other modules state
no liveness: people drive a release, and a run of `Issuance` or `Verdict` ends
or does not.

## Proofs

Every safety property of the passing runs is a theorem: it holds for every
number of threads, runs, nonces, workers and clients, jobs, directories,
receipts, services, probes, scenarios, people, keys and faults.  The
assumptions are those the modules name for their constants and nothing more:
`None` and `Unapproved` are not members of the sets they stand beside, workers and clients
are finite sets, a receipt names a candidate, a status and perhaps a receipt, a
session belongs to a service, the bounds are natural numbers.
`QuotaAssumption` asks for a quota of one at least: `max_active_runs` 0 means
no quota (`app.py:259`), and there is then nothing to overshoot.  The serial theorems of the release have one
more hypothesis, `OneThread`, because without it they are false (see Findings).

* `ReleaseLifecycleProofs`.  `IInv` says that every row object, stored or held,
  is `Sound` by itself: its approvals have its own fingerprint, its state is
  covered by its evidence.  This is why stale overwrites do no harm to
  `ApprovalBindsEvidence`, `ReviewedIsComplete` and `ReadyIsBacked`: a handler
  replaces one sound row by another.  The only thing outside a row that it
  relies on is the evidence file, which only comes into being (`Recorded`).
  `SerialTerminalIsFinal` assumes one thread and shows that a handler that
  holds a row then holds the stored one.  `SpendInv` carries
  `SerialOrdersNeedApproval`, `SerialOrdersOnlyWhileLive` and
  `SerialEvidenceVoidsApproval`: an approval that an order was placed on is
  consumed wherever it appears (`Honest`), and a handler on its way to an order
  holds a spent approval of a release that is still approved or ready
  (`OnTheWay`).  It holds across stops at every step.  `SerialImplements` shows
  the refinement of `ReleaseGate` step by step.  For that `GateInv` says what a
  handler is about to write: over the row as it is stored, it is one of the
  moves of the gate or none (`Move`); and evidence that names an approval means
  an order on it (`Backed`), so a handler with a fresh approval never takes an
  older order for its own.
* `OrderProofs`, on `DemoExecution`.  `OrderInv` shows one order per run
  without appeal to the lock or the ledger: an order, sent or still on its way,
  is preceded by a preflight file of its own clientOid, and that file is never
  replaced.  `RecordInv` needs the lock: only one thread is past `Enter`, so
  ledger and evidence get one entry, the same one (`RecordsAreTrue`), and an
  answer is read of it (`AnswersAreTrue`).
* `OrderProofs`, on `Authority`.  `SpentOnce`: an order is on its way, or placed, on
  a grant that was consumed or replaced, and no two orders share one; `GrantInv`
  says who can have given it, and that a thread past the freeze check is in a
  service that is not frozen, since the switches change only with a restart
  (`ShowcaseOrdersAuthorised`).  `CookiesInv`: a cookie carries a role that some
  configuration gave its holder, and ends `SessionTTL` after that configuration
  at the latest (`RolesEnd`).  `KeyInv`: as long as the requests with a key do
  not overlap and none is cut off, what is recorded, or in the hands of the
  one request that will record it, is the one order placed under the key
  (`KeysAreHonest`).
* `RunQueueProofs`.  `IInv` ties a running row to the one worker that claimed
  it, and a verdict in a worker's hand to the issued receipt.  `QuotaInv` counts
  rows together with the requests between their count and their insert: a
  request only becomes one of these when the rows were below the quota, so the
  sum stays below the quota and one for every client (`QuotaIsBounded`).
* `ReleaseJobsProofs`.  `RowInv`: only the worker that claimed a job writes its
  row until it lets the job go, and recovery runs while nobody holds one.
  `EventInv` adds that an event of an end is written by who lets go.
  `Implements` maps every step to a step of `JobContract` or to none.
* `IssuanceProofs`.  `VerdictInv` ties the registry to the ledger: a candidate
  has a verdict exactly when it has an entry, and an entry carries it, so a
  receipt that is the only entry of its candidate is the first verdict, however
  runs raced (`FirstVerdictOnly`).  `Grounded` goes along with a receipt from
  `Judge` to the ledger: what it builds on was issued and signed for, and stays
  so because verdicts and signatures are never taken back; hence `SignedChains`
  and `Implements`.  `AloneInv` and `ArtifactInv` are about directories that
  one run writes at a time: between check and append no entry of the candidate
  appears (`OneRunOneStory`), and the receipt is away while report and proofs
  change (`ReceiptsMatchArtifacts`).  For shared directories both are false,
  and only the verifier protects the reader.
* `EvidenceBundleProofs`.  `ChainInv`: the ledger on disk, and every ledger a
  request has loaded or is about to write, is a chain by itself.  An append
  replaces the file by one of those, so overlapping appends may lose entries
  but never leave a ledger that cannot be read (`AuditStaysAChain`).
  `SerialInv` holds until two requests overlap: at most one request is at work,
  and what it has in its hands follows from the files and the row
  (`Hands`).  `TableInv` has the table lag behind the ledger by the entry being
  inserted and by one for every stop (`TableKeepsUp`); `BundleInv` and
  `SignInv` tie the manifest the row names, the bundle and the attestation to
  each other and to the evidence (`BundlesAreCurrent`, `SignedBundlesStay`).
  Only a binding changes the simulation or the policy file, and one that is
  accepted clears the manifest of the row (`Rebind`), so the row never names a
  manifest of an older one.  An attestation follows a verification in the same
  request: the bundle it signs has the run's artifacts and an execution, which
  nothing takes out of it, so the four things the property names are all that
  can end its verification.
* `VerdictProofs`.  `VerdictInv` follows the scan: while nothing rejects, every
  blocking cell behind it with a breach has left a bearing proof that does not
  hold, and every probe without an answer a gap.  A PASS then has neither gap nor breach
  (`NoProofNoVerdict`), for any number of scenarios and probes.  `TraceInv`
  says the two halves of what the scan leaves: every proof, gap and rejection
  has a cell that called for it (`NothingInvented`), and every cell the scan
  has passed is covered by a proof (`NothingLost`).  So the rules of `decide`,
  which see proofs and not cells, reach what the findings call for in whatever
  order (`VerdictCalledFor`), and the envelope requires exactly proofs that are
  there (`EnvelopeInv`, `ArtifactsVerified`).
* `SharedStoreProofs`.  `ClaimInv`: the row lock keeps a selected job queued
  until its claim, and one session at most is between the claim and the order,
  so no order is asked for twice (`NoJobRunsTwice`).  `TailInv`: what an append
  read is a prefix of the ledger, and it is inserted only if it is all of it
  (`LedgersStayChains`).  `RunInv`: a run that was not queued again under its
  executor is running as long as it has one, which is what keeps a second
  session from claiming it (`RunsHaveOneExecutor`); and the ids the cleanup
  holds are of runs that have ended, which they stay (`CleanupSparesLiveRuns`).

The invariants these proofs rest on, type invariants included, were
model-checked before they were proved; the runs keep the properties only.

Checked by TLC only: the four liveness properties `LockIsReleased`,
`AwaitedRunsFinish`, `InterruptedRunsFinish` and `JobsEnd`, because fairness
speaks of ENABLED, which the prover does not handle.

## Findings

* `race_terminal`: the release row is overwritten without a version check, so a
  handler that read it before `kill` or `reject` undoes them.  With two threads
  `OrdersNeedApproval`, `OrdersOnlyWhileLive`, `EvidenceChangeVoidsApproval` and
  `GateSpec` fail as well, for the same reason: the
  consumption of an approval is written back as not consumed, and execution
  goes on with what it read before.  `release_serial` therefore says nothing of
  overlapping handlers; `release_concurrent` does.
* `authority`: `PRODUCTION_RELEASE_BACKEND.md:235-236` and
  `SERVICE_API.md:516-517` let the creator of a release approve it with
  `demo_mode=true`.  The code forbids it whatever `demo_mode` says
  (`app.py:784`), as `test_self_approval_forbidden_even_in_demo_mode` expects;
  `OrdersAreAuthorised` states the rule of the code and holds, the rule of the
  documents is its mutant `MayApproveOwn`.
* `doc_receipts_verify`: in a scenario that two probes of one type are not bound
  to, their proofs hash to one id, and `verify-proof` refuses the receipt as it
  was issued.

Seen while reading, without a run.

Release and evidence:
a policy that does not require simulation still cannot reach approval without it;
`_ensure_release_evidence_bundle` writes back the row it read, so a download may
revive a killed release or an approval that was consumed;
two audit events appended at a time may leave one that the table has and the
ledger has not, and two requests that build a bundle at a time may leave a row whose manifest is not
on disk, and every later download is refused;
a refused import, or a refused policy binding, on a ready release has already
replaced the file that the manifest lists before it answers 409: the signed
chain of that release stops verifying without an audit event, as
`SignedStaysOnDisk` allows, and a release whose audit ledger or evidence files
changed after its bundle was cached cannot be attested;
pruning the directory of the run does the same, and a release whose run row was
pruned before its bundle was built gets one without artifacts of the run, which
never verifies;
an unapproved order through `POST /runs/{id}/execute`, which asks neither for an
approval nor for `REDLINE_EXECUTION_FREEZE`, makes a later approved execution of
that run end in `EXECUTION_EVIDENCE_MISMATCH`.

Orders:
5xx answers to all attempts are reported as a rejection, though the exchange may
have taken the order;
the file of a failed preflight stays when a later attempt passes, so the order
stands beside evidence of a failed preflight and the bundle does not verify;
a crash between execution ledger and evidence leaves the run at
`EXECUTION_EVIDENCE_MISSING`.

Keys and credentials:
two requests with one `Idempotency-Key`, or a retry of one that failed in
between, may create two jobs;
of two showcase requests with one key the refusal of the loser may be recorded
first, and the key then answers a refusal although an order was placed, as it
does after a lost answer;
a refusal caused by a freeze or an expiry is replayed after it is lifted;
logging out deletes the cookie in the browser and nothing else;
a queued job runs as release manager whatever its requester has become.

Queues:
at start the workers are kicked only if a run was interrupted, so runs that were
merely queued wait for the next request;
a run that is executed again after its receipt was issued collides with its own
ledger entry and ends as an error, and a process that stops between ledger entry
and checkpoint leaves a directory whose candidate can be neither verified nor
judged again;
`cancel_release_job` does not say whether it cancelled, so `job_cancelled` is
appended for a job that was claimed meanwhile and is executed;
a fault while the last event is written turns a succeeded job into a failed one;
`job_started` may precede `job_queued` in the ledger;
a second fault in the exception handler leaves a running job without an owner
until a restart, and one while a job is created leaves a queued row that nobody
kicks;
on Postgres two appends to one event ledger may collide on the primary key, and
a request is answered with an error, or a job marked failed, although its order
was placed;
a second service that starts requeues the runs and fails the jobs of the first,
and reports jobs as failed that ended meanwhile; its runs are then executed
twice, which `RunsAreExclusive` leaves out and no run here refutes.

Verdicts:
`decide` never looks at whether the well-formedness proofs hold, only that they
are there;
the `expected_order_notional` of a risk policy is a field of its own and not
derived from the size of the order.

## Plan

Done: `ReleaseTransitions`, `ReleaseGate`, `ReleaseLifecycle`, `DemoExecution`, `RunQueue`,
`JobContract`, `ReleaseJobs`, `VerdictRegistry`, `Issuance`, `EvidenceBundle`,
`Verdict`, `SharedStore`, `Authority`, and the proofs listed above.  Left, in
this order:

1. `OneOrderPerRun` of `DemoExecution` with the directories of showcase orders.
2. Keys and attestations that expire or are revoked.
3. Pure functions against reference definitions: Merkle inclusion, drawdown and
   behaviour probes, compiled invariants.

## Not modelled

The engine and its sandbox (a deterministic function here), Merkle trees and
canonical JSON (taken as injective), the arithmetic of probes and compiled
specifications (any finding they can have), sponsor import and replay, reports,
surfaces, command line and MCP server, schemas: sequential conversions without
state of their own.  Storage: a file is replaced atomically, as `io_safety.py`
does it.  Of the parts that are modelled: expiry and revocation of keys and
attestations, verification of tampered artifacts, a ledger line that lacks only
its end of line, runs and jobs competing for the same executor threads,
directories of showcase orders, mainnet mode and the live gate, the rate
limiter, scopes listed for a single token, parsing of the environment, and the
Postgres rows of packages, strategy versions and release candidates.
