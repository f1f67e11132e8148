------------------------ MODULE EvidenceBundleProofs ------------------------
(***************************************************************************)
(* The audit ledger of a release is one hash chain, whatever requests do   *)
(* to it at a time and wherever the process stops.  One request at a time, *)
(* the table follows the ledger, the bundle tells of the evidence that is  *)
(* bound, and what was signed stays on disk.                               *)
(***************************************************************************)
EXTENDS EvidenceBundle, TLAPS

\* The invariant: the ledger on disk and the copies held are ledgers, and
\* what a request is about to write is a chain.
ChainInv ==
    /\ audit \in Ledgers
    /\ made \in 1 .. MaxEntries
    /\ at \in [Clients -> Steps]
    /\ tail \in [Clients -> Ledgers]
    /\ AuditIsAChain

\* The initial ledger has the creation of the release.
LEMMA InitChain == Init => ChainInv
<1> SUFFICES ASSUME Init PROVE ChainInv
  OBVIOUS
<1>1. 1 \in 1 .. MaxEntries /\ 0 \in 0 .. MaxEntries
  BY BoundsAssumption
<1>2. [id |-> 1, after |-> 0] \in Entries
  BY <1>1 DEF Entries
<1>3. audit \in Ledgers
  BY <1>2 DEF Init, Ledgers
<1>4. Chained(audit)
  <2>1. Len(audit) = 1 /\ audit[1].after = 0
    BY DEF Init
  <2> QED
    BY <2>1, <1>3 DEF Chained, Ledgers
<1>5. at \in [Clients -> Steps]
  BY DEF Init, Steps
<1>6. <<>> \in Ledgers
  BY DEF Ledgers
<1>7. tail \in [Clients -> Ledgers]
  BY <1>6 DEF Init
<1>8. made \in 1 .. MaxEntries
  BY <1>1 DEF Init
<1>9. \A c \in Clients : at[c] = "idle"
  BY DEF Init
<1> QED
  BY <1>3, <1>4, <1>5, <1>7, <1>8, <1>9 DEF ChainInv, AuditIsAChain

\* A step that leaves the ledgers alone and goes anywhere but to a write.
LEMMA GoesElsewhere ==
    ASSUME ChainInv, NEW c \in Clients,
           NEW step \in Steps \ {"append", "insert"},
           at' = [at EXCEPT ![c] = step],
           UNCHANGED <<audit, tail, made>>
    PROVE  ChainInv'
<1>1. at' = [at EXCEPT ![c] = step]
  OBVIOUS
<1>2. at' \in [Clients -> Steps]
  BY <1>1 DEF ChainInv
<1>3. \A d \in Clients : at'[d] \in {"append", "insert"} => at'[d] = at[d]
  BY <1>1 DEF ChainInv
<1>4. audit' = audit /\ tail' = tail /\ made' = made
  OBVIOUS
<1>5. Chained(audit')
  BY <1>4 DEF ChainInv, AuditIsAChain
<1>6. \A d \in Clients : at'[d] \in {"append", "insert"} => Chained(tail'[d])
  BY <1>3, <1>4 DEF ChainInv, AuditIsAChain
<1>7. AuditIsAChain'
  BY <1>5, <1>6 DEF AuditIsAChain, Chained
<1> QED
  BY <1>2, <1>4, <1>7 DEF ChainInv

\* An entry that names its predecessor keeps a chain one.
LEMMA AppendKeepsChain ==
    ASSUME NEW l \in Ledgers, Chained(l), NEW e \in Entries,
           e.after = LastId(l)
    PROVE  Append(l, e) \in Ledgers /\ Chained(Append(l, e))
<1> DEFINE longer == Append(l, e)
<1>1. longer \in Ledgers
  BY DEF Ledgers
<1>2. l \in Seq(Entries) /\ Len(l) \in Nat
  BY DEF Ledgers
<1>3. Len(longer) = Len(l) + 1 /\ DOMAIN longer = 1 .. Len(l) + 1
  BY <1>2
<1>4. \A i \in 1 .. Len(l) : longer[i] = l[i]
  BY <1>2
<1>5. longer[Len(l) + 1] = e
  BY <1>2
<1>6. ASSUME NEW i \in DOMAIN longer
      PROVE  longer[i].after = IF i = 1 THEN 0 ELSE longer[i - 1].id
  <2>1. CASE i \in 1 .. Len(l)
    <3>1. l[i].after = IF i = 1 THEN 0 ELSE l[i - 1].id
      BY <2>1, <1>2 DEF Chained
    <3>2. i # 1 => i - 1 \in 1 .. Len(l)
      BY <2>1, <1>2
    <3> QED
      BY <3>1, <3>2, <2>1, <1>4
  <2>2. CASE i = Len(l) + 1
    <3>1. CASE Len(l) = 0
      <4>1. l = <<>>
        BY <3>1, <1>2
      <4>2. e.after = 0
        BY <4>1 DEF LastId
      <4> QED
        BY <4>2, <3>1, <2>2, <1>5
    <3>2. CASE Len(l) # 0
      <4>1. l # <<>>
        BY <3>2
      <4>2. e.after = l[Len(l)].id
        BY <4>1 DEF LastId
      <4>3. i # 1 /\ i - 1 = Len(l) /\ Len(l) \in 1 .. Len(l)
        BY <3>2, <2>2, <1>2
      <4>4. longer[i - 1] = l[Len(l)]
        BY <4>3, <1>4
      <4> QED
        BY <4>2, <4>3, <4>4, <2>2, <1>5
    <3> QED
      BY <3>1, <3>2
  <2> QED
    BY <2>1, <2>2, <1>3, <1>2
<1> HIDE DEF longer
<1>7. Chained(longer)
  BY <1>6 DEF Chained
<1> QED
  BY <1>1, <1>7 DEF longer

\* The number of the last entry is 0 or a number an entry can have.
LEMMA LastIdType ==
    ASSUME NEW l \in Ledgers PROVE LastId(l) \in 0 .. MaxEntries
<1>1. l \in Seq(Entries)
  BY DEF Ledgers
<1>2. CASE l = <<>>
  BY <1>2, BoundsAssumption DEF LastId
<1>3. CASE l # <<>>
  <2>1. Len(l) \in 1 .. Len(l)
    BY <1>1, <1>3
  <2>2. l[Len(l)] \in Entries
    BY <1>1, <2>1
  <2>3. l[Len(l)].id \in 1 .. MaxEntries
    BY <2>2 DEF Entries
  <2> QED
    BY <2>3, <1>3, BoundsAssumption DEF LastId
<1> QED
  BY <1>2, <1>3

\* What a request loads is the chain on disk.
LEMMA LoadChain ==
    ASSUME ChainInv, NEW c \in Clients, Load(c) PROVE ChainInv'
<1>1. tail' = [tail EXCEPT ![c] = audit] /\ audit' = audit /\ made' = made
  BY DEF Load, files, counters
<1>2. PICK step \in {"append", "idle"} : at' = [at EXCEPT ![c] = step]
  BY DEF Load, Goto
<1>3. at' \in [Clients -> Steps]
  BY <1>2 DEF ChainInv, Steps
<1>4. tail' \in [Clients -> Ledgers]
  BY <1>1 DEF ChainInv
<1>5. ASSUME NEW d \in Clients, at'[d] \in {"append", "insert"}
      PROVE  Chained(tail'[d])
  <2>1. CASE d = c
    BY <2>1, <1>1 DEF ChainInv, AuditIsAChain
  <2>2. CASE d # c
    BY <2>2, <1>1, <1>2, <1>5 DEF ChainInv, AuditIsAChain
  <2> QED
    BY <2>1, <2>2
<1>6. Chained(audit')
  BY <1>1 DEF ChainInv, AuditIsAChain
<1>7. AuditIsAChain'
  BY <1>5, <1>6 DEF AuditIsAChain, Chained
<1> QED
  BY <1>1, <1>3, <1>4, <1>7 DEF ChainInv

\* What a request writes is the chain it loaded and one entry more, even when
\* another request has replaced the file in between.
LEMMA AppendChain ==
    ASSUME ChainInv, NEW c \in Clients, AppendEntry(c) PROVE ChainInv'
<1> DEFINE e == [id |-> made', after |-> LastId(tail[c])]
<1>1. made' = made + 1 /\ made < MaxEntries
  BY DEF AppendEntry
<1>2. made' \in 1 .. MaxEntries
  BY <1>1, BoundsAssumption DEF ChainInv
<1>3. tail[c] \in Ledgers /\ Chained(tail[c])
  BY DEF ChainInv, AuditIsAChain, AppendEntry
<1>4. LastId(tail[c]) \in 0 .. MaxEntries
  BY <1>3, LastIdType
<1>5. e \in Entries /\ e.after = LastId(tail[c])
  BY <1>2, <1>4 DEF Entries
<1>6. audit' = Append(tail[c], e)
  BY DEF AppendEntry
<1> HIDE DEF e
<1>7. audit' \in Ledgers /\ Chained(audit')
  <2>1. Append(tail[c], e) \in Ledgers /\ Chained(Append(tail[c], e))
    BY <1>3, <1>5, AppendKeepsChain
  <2> QED
    BY <2>1, <1>6
<1>8. tail' = [tail EXCEPT ![c] = audit'] /\ at' = [at EXCEPT ![c] = "insert"]
  BY DEF AppendEntry, Goto
<1>9. tail' \in [Clients -> Ledgers] /\ at' \in [Clients -> Steps]
  BY <1>7, <1>8 DEF ChainInv, Steps
<1>10. ASSUME NEW d \in Clients, at'[d] \in {"append", "insert"}
       PROVE  Chained(tail'[d])
  <2>1. CASE d = c
    BY <2>1, <1>7, <1>8 DEF ChainInv
  <2>2. CASE d # c
    BY <2>2, <1>8, <1>10 DEF ChainInv, AuditIsAChain
  <2> QED
    BY <2>1, <2>2
<1>11. AuditIsAChain'
  BY <1>7, <1>10 DEF AuditIsAChain, Chained
<1> QED
  BY <1>2, <1>7, <1>9, <1>11 DEF ChainInv

\* A request that has nothing more to insert drops its copy.
LEMMA DropChain ==
    ASSUME ChainInv, NEW c \in Clients, tail' = [tail EXCEPT ![c] = <<>>],
           NEW step \in Steps \ {"append", "insert"},
           at' = [at EXCEPT ![c] = step], audit' = audit, made' = made
    PROVE  ChainInv'
<1>1. <<>> \in Ledgers
  BY DEF Ledgers
<1>2. tail' \in [Clients -> Ledgers] /\ at' \in [Clients -> Steps]
  BY <1>1 DEF ChainInv
<1>3. ASSUME NEW d \in Clients, at'[d] \in {"append", "insert"}
      PROVE  Chained(tail'[d])
  <2>1. d # c
    BY <1>3 DEF ChainInv
  <2> QED
    BY <2>1, <1>3 DEF ChainInv, AuditIsAChain
<1>4. Chained(audit')
  BY DEF ChainInv, AuditIsAChain
<1>5. AuditIsAChain'
  BY <1>3, <1>4 DEF AuditIsAChain, Chained
<1> QED
  BY <1>2, <1>5 DEF ChainInv

\* The requests that begin.
LEMMA ReceiveChain ==
    ASSUME ChainInv, NEW c \in Clients,
           \/ Import(c) \/ BindPolicy(c) \/ Approve(c) \/ Kill(c)
           \/ Execute(c) \/ Showcase(c)
           \/ GetEvidence(c) \/ Attest(c) \/ GetAttestation(c)
    PROVE  ChainInv'
<1>1. PICK step \in {"idle", "overwrite", "rebind", "update", "load",
                     "ensure"} :
        at' = [at EXCEPT ![c] = step]
  <2>1. CASE Import(c) \/ BindPolicy(c)
    BY <2>1 DEF Import, BindPolicy, Receive, Goto
  <2>2. CASE Approve(c) \/ Kill(c)
    BY <2>2 DEF Approve, Kill, Receive, Goto
  <2>3. CASE Execute(c) \/ Showcase(c)
    BY <2>3 DEF Execute, Showcase, Receive, Goto
  <2>4. CASE GetEvidence(c) \/ Attest(c) \/ GetAttestation(c)
    BY <2>4 DEF GetEvidence, Attest, GetAttestation, Receive, Goto
  <2> QED
    BY <2>1, <2>2, <2>3, <2>4
<1>2. step \in Steps \ {"append", "insert"}
  BY DEF Steps
<1>3. UNCHANGED <<audit, tail, made>>
  BY DEF Import, BindPolicy, Approve, Kill, Execute, Showcase, GetEvidence,
         Attest, GetAttestation, Receive, files, counters
<1> QED
  BY <1>1, <1>2, <1>3, GoesElsewhere

\* The steps of a request that are no append.
LEMMA WorkChain ==
    ASSUME ChainInv, NEW c \in Clients,
           \/ Overwrite(c) \/ Rebind(c) \/ Update(c) \/ Order(c)
           \/ UseCached(c) \/ FindRun(c) \/ ArtifactsLost(c)
           \/ Collect(c) \/ WriteBundle(c) \/ WriteManifest(c)
           \/ RecordManifest(c) \/ Verify(c) \/ HashBundle(c) \/ Sign(c)
    PROVE  ChainInv'
<1> DEFINE Elsewhere == {"idle", "update", "load", "verify", "artifacts",
                         "bare", "bundle", "manifest", "record", "hash",
                         "sign"}
<1>1. PICK step \in Elsewhere : at' = [at EXCEPT ![c] = step]
  <2>1. CASE Overwrite(c) \/ Rebind(c) \/ Update(c)
    BY <2>1 DEF Overwrite, Rebind, Update, Goto
  <2>2. CASE Order(c)
    BY <2>2 DEF Order, Goto
  <2>3. CASE UseCached(c) \/ RecordManifest(c)
    BY <2>3 DEF UseCached, RecordManifest, Ensured, Goto
  <2>4. CASE FindRun(c) \/ ArtifactsLost(c) \/ Collect(c) \/ WriteBundle(c)
    BY <2>4 DEF FindRun, ArtifactsLost, Collect, WriteBundle, Goto
  <2>5. CASE WriteManifest(c)
    BY <2>5 DEF WriteManifest, Goto
  <2>6. CASE Verify(c) \/ HashBundle(c) \/ Sign(c)
    BY <2>6 DEF Verify, HashBundle, Sign, Goto
  <2> QED
    BY <2>1, <2>2, <2>3, <2>4, <2>5, <2>6
<1>2. step \in Steps \ {"append", "insert"}
  BY DEF Steps
<1>3. UNCHANGED <<audit, tail, made>>
  <2>1. CASE Overwrite(c) \/ Rebind(c) \/ Update(c) \/ Order(c)
    BY <2>1 DEF Overwrite, Rebind, Update, Order, files, counters
  <2>2. CASE \/ UseCached(c) \/ FindRun(c) \/ ArtifactsLost(c) \/ Collect(c)
             \/ WriteBundle(c) \/ WriteManifest(c)
    BY <2>2 DEF UseCached, FindRun, ArtifactsLost, Collect, WriteBundle,
                WriteManifest, files, counters
  <2>3. CASE RecordManifest(c) \/ Verify(c) \/ HashBundle(c) \/ Sign(c)
    BY <2>3 DEF RecordManifest, Verify, HashBundle, Sign, files, counters
  <2> QED
    BY <2>1, <2>2, <2>3
<1> QED
  BY <1>1, <1>2, <1>3, GoesElsewhere

\* Every step keeps the invariant.
LEMMA NextChain == ChainInv /\ [Next]_vars => ChainInv'
<1> SUFFICES ASSUME ChainInv, [Next]_vars PROVE ChainInv'
  OBVIOUS
<1>1. CASE UNCHANGED vars
  <2>1. audit' = audit /\ made' = made /\ at' = at /\ tail' = tail
    BY <1>1 DEF vars, files, counters
  <2> QED
    BY <2>1 DEF ChainInv, AuditIsAChain, Chained
<1>2. CASE Crash
  <2>1. audit' = audit /\ made' = made
    BY <1>2 DEF Crash, files
  <2>2. <<>> \in Ledgers
    BY DEF Ledgers
  <2>3. at' = [c \in Clients |-> "idle"] /\ tail' = [c \in Clients |-> <<>>]
    BY <1>2 DEF Crash
  <2>4. at' \in [Clients -> Steps] /\ tail' \in [Clients -> Ledgers]
    BY <2>2, <2>3 DEF Steps
  <2>5. Chained(audit')
    BY <2>1 DEF ChainInv, AuditIsAChain
  <2>6. AuditIsAChain'
    BY <2>3, <2>5 DEF AuditIsAChain, Chained
  <2> QED
    BY <2>1, <2>4, <2>6 DEF ChainInv
<1>3. ASSUME NEW c \in Clients, Serve(c) PROVE ChainInv'
  <2>1. CASE \/ Import(c) \/ BindPolicy(c) \/ Approve(c) \/ Kill(c)
             \/ Execute(c) \/ Showcase(c) \/ GetEvidence(c) \/ Attest(c)
             \/ GetAttestation(c)
    BY <2>1, ReceiveChain
  <2>2. CASE \/ Overwrite(c) \/ Rebind(c) \/ Update(c) \/ Order(c)
             \/ UseCached(c) \/ FindRun(c) \/ ArtifactsLost(c)
             \/ Collect(c) \/ WriteBundle(c) \/ WriteManifest(c)
             \/ RecordManifest(c) \/ Verify(c) \/ HashBundle(c) \/ Sign(c)
    BY <2>2, WorkChain
  <2>3. CASE Load(c)
    BY <2>3, LoadChain
  <2>4. CASE AppendEntry(c)
    BY <2>4, AppendChain
  <2>5. CASE Insert(c) \/ InsertLost(c)
    <3>1. /\ tail' = [tail EXCEPT ![c] = <<>>]
          /\ audit' = audit /\ made' = made
      BY <2>5 DEF Insert, InsertLost, files, counters
    <3>2. PICK step \in {"load", "order", "idle"} :
            at' = [at EXCEPT ![c] = step]
      BY <2>5 DEF Insert, InsertLost, Goto
    <3>3. step \in Steps \ {"append", "insert"}
      BY DEF Steps
    <3> QED
      BY <3>1, <3>2, <3>3, DropChain
  <2> QED
    BY <1>3, <2>1, <2>2, <2>3, <2>4, <2>5 DEF Serve
<1>4. CASE PruneRow \/ PruneDirectory
  <2>1. audit' = audit /\ made' = made /\ at' = at /\ tail' = tail
    BY <1>4 DEF PruneRow, PruneDirectory, counters
  <2> QED
    BY <2>1 DEF ChainInv, AuditIsAChain, Chained
<1> QED
  BY <1>1, <1>2, <1>3, <1>4 DEF Next

\* append_release_audit_event, however it interleaves with itself and with a
\* stop of the process, leaves a ledger that load_release_audit_ledger takes.
THEOREM AuditStaysAChain == Spec => []AuditIsAChain
<1>1. ChainInv => AuditIsAChain
  BY DEF ChainInv
<1> QED
  BY InitChain, NextChain, <1>1, PTL DEF Spec


-----------------------------------------------------------------------------
(* Types, with what a request has in its hands at each step.               *)

\* A request at a step, holding w and having loaded t, with the decision
\* record, the bundle and the manifest that are on disk.
Session(step, w, t, de, bu, ma) ==
    /\ step # "idle" => w.seen \in Rows
    /\ step \in {"overwrite", "rebind", "update", "load", "append", "insert"}
         => w.left \in 1 .. 2
    /\ step = "insert" => t # <<>>
    /\ step \in {"bundle", "manifest", "sign"} => w.held \in Bundles
    /\ step = "record" => w.held \in Manifests
    /\ step \in {"bundle", "manifest"} => de \in Decisions
    /\ step \in {"manifest", "hash", "sign"} => bu \in Bundles
    /\ step \in {"hash", "sign"} => ma \in Manifests

HandsTyped ==
    /\ at \in [Clients -> Steps] /\ work \in [Clients -> Works]
    /\ tail \in [Clients -> Ledgers]
    /\ \A c \in Clients :
         Session(at[c], work[c], tail[c], decision, bundle, manifest)

FilesTyped ==
    /\ row \in Rows
    /\ entries \in Ledgers /\ audit \in Ledgers
    /\ simulation \in 1 .. MaxBindings /\ policy \in 1 .. MaxBindings
    /\ run \in Runs
    /\ decision \in Decisions \cup {None} /\ bundle \in Bundles \cup {None}
    /\ manifest \in Manifests \cup {None}
    /\ attestation \in Attestations \cup {None}
    /\ made \in 1 .. MaxEntries /\ bindings \in 1 .. MaxBindings
    /\ clock \in 0 .. MaxClock /\ crashes \in 0 .. MaxCrashes
    /\ overlaps \in 0 .. MaxOverlaps

TInv == FilesTyped /\ HandsTyped

LEMMA NothingTyped == Nothing \in Works /\ Nothing.op = "none"
BY DEF Nothing, Works, Ops

LEMMA WorkMoves ==
    ASSUME NEW w \in Works
    PROVE  /\ \A s \in Rows :
                /\ [w EXCEPT !.seen = s] \in Works
                /\ [w EXCEPT !.seen = s].seen = s
                /\ [w EXCEPT !.seen = s].left = w.left
                /\ [w EXCEPT !.seen = s].op = w.op
           /\ \A n \in 0 .. 2 :
                /\ [w EXCEPT !.left = n] \in Works
                /\ [w EXCEPT !.left = n].seen = w.seen
                /\ [w EXCEPT !.left = n].left = n
                /\ [w EXCEPT !.left = n].op = w.op
BY DEF Works

\* A job that takes the bundle or the manifest it will write in hand.
LEMMA HeldMoves ==
    ASSUME NEW w \in Works, NEW h \in Bundles \cup Manifests
    PROVE  /\ [w EXCEPT !.held = h] \in Works
           /\ [w EXCEPT !.held = h].seen = w.seen
           /\ [w EXCEPT !.held = h].held = h
BY DEF Works

\* A step of request c that keeps the files it may have looked at.
LEMMA SessionStep ==
    ASSUME TInv, NEW c \in Clients, NEW step \in Steps, NEW w \in Works,
           Goto(c, step, w),
           tail' \in [Clients -> Ledgers],
           \A d \in Clients \ {c} : tail'[d] = tail[d],
           decision \in Decisions => decision' \in Decisions,
           bundle \in Bundles => bundle' \in Bundles,
           manifest \in Manifests => manifest' \in Manifests,
           step # "idle"
             => Session(step, w, tail'[c], decision', bundle', manifest')
    PROVE  HandsTyped'
<1> DEFINE v == IF step = "idle" THEN Nothing ELSE w
<1>1. v \in Works
  BY NothingTyped
<1>2. /\ at' = [at EXCEPT ![c] = step]
      /\ work' = [work EXCEPT ![c] = v]
  BY DEF Goto
<1>3. at' \in [Clients -> Steps] /\ work' \in [Clients -> Works]
  BY <1>1, <1>2 DEF TInv, HandsTyped
<1>4. ASSUME NEW d \in Clients
      PROVE  Session(at'[d], work'[d], tail'[d], decision', bundle', manifest')
  <2>1. CASE d = c
    <3>1. at'[d] = step /\ work'[d] = v
      BY <1>2, <2>1 DEF TInv, HandsTyped
    <3>2. CASE step = "idle"
      BY <3>1, <3>2 DEF Session
    <3>3. CASE step # "idle"
      BY <3>1, <3>3, <2>1
    <3> QED
      BY <3>2, <3>3
  <2>2. CASE d # c
    <3>1. at'[d] = at[d] /\ work'[d] = work[d] /\ tail'[d] = tail[d]
      BY <1>2, <2>2 DEF TInv, HandsTyped
    <3>2. Session(at[d], work[d], tail[d], decision, bundle, manifest)
      BY DEF TInv, HandsTyped
    <3> QED
      BY <3>1, <3>2 DEF Session
  <2> QED
    BY <2>1, <2>2
<1> QED
  BY <1>3, <1>4 DEF HandsTyped

\* What copies of a row are typed.
LEMMA RowMoves ==
    ASSUME NEW r \in Rows
    PROVE  /\ CopyOf(r) \in Releases
           /\ \A n \in 1 .. MaxBindings :
                /\ [r EXCEPT !.simulation = n] \in Rows
                /\ [r EXCEPT !.policy = n] \in Rows
           /\ [r EXCEPT !.state = "approved", !.approval = "granted"] \in Rows
           /\ [r EXCEPT !.showcase = TRUE] \in Rows
           /\ [r EXCEPT !.showcase = FALSE] \in Rows
           /\ [r EXCEPT !.state = "killed"] \in Rows
           /\ [r EXCEPT !.approval = "consumed"] \in Rows
           /\ [r EXCEPT !.state = "review_required", !.approval = "none",
                        !.manifest = None] \in Rows
           /\ [r EXCEPT !.state = "release_ready", !.executed = TRUE,
                        !.manifest = None] \in Rows
           /\ \A t \in States :
                [r EXCEPT !.state = t, !.approval = "none",
                          !.manifest = None] \in Rows
           /\ [r EXCEPT !.state = "blocked_risk_policy"] \in Rows
           /\ [r EXCEPT !.state = "blocked_exchange_error"] \in Rows
           /\ \A m \in Manifests : [r EXCEPT !.manifest = m] \in Rows
BY DEF Rows, Releases, States, CopyOf

LEMMA ReceiveTyped ==
    ASSUME TInv, NEW c \in Clients, NEW what \in Ops, NEW r \in Rows,
           NEW step \in {"idle", "overwrite", "rebind", "update", "load",
                        "ensure"},
           NEW events \in 0 .. 2,
           step \notin {"idle", "ensure"} => events # 0,
           Receive(c, what, r, step, events),
           UNCHANGED <<decision, bundle, manifest>>
    PROVE  HandsTyped' /\ overlaps' \in 0 .. MaxOverlaps
<1> DEFINE w == [op |-> what, seen |-> r, left |-> events, held |-> None]
<1>1. w \in Works
  BY DEF Works
<1>2. step \in Steps
  BY DEF Steps
<1>3. Goto(c, step, w) /\ tail' = tail
  BY DEF Receive
<1>4. Session(step, w, tail'[c], decision', bundle', manifest')
  BY DEF Session
<1> HIDE DEF w
<1>5. HandsTyped'
  BY <1>1, <1>2, <1>3, <1>4, SessionStep DEF TInv, HandsTyped
<1>6. overlaps' \in 0 .. MaxOverlaps
  BY BoundsAssumption DEF Receive, TInv, FilesTyped
<1> QED
  BY <1>5, <1>6

LEMMA TypeReceives ==
    ASSUME TInv, NEW c \in Clients,
           \/ Import(c) \/ BindPolicy(c) \/ Approve(c) \/ Kill(c)
           \/ Execute(c) \/ Showcase(c)
           \/ GetEvidence(c) \/ Attest(c) \/ GetAttestation(c)
    PROVE  TInv'
<1> USE DEF files, database, counters
<1>r. row \in Rows
  BY DEF TInv, FilesTyped
<1>1. CASE Import(c)
  <2>1. bindings' \in 1 .. MaxBindings
    BY <1>1, BoundsAssumption DEF Import, TInv, FilesTyped
  <2>2. [row EXCEPT !.simulation = bindings'] \in Rows
    BY <1>r, <2>1, RowMoves
  <2>3. "import" \in Ops BY DEF Ops
  <2>4. HandsTyped' /\ overlaps' \in 0 .. MaxOverlaps
    BY <1>1, <2>2, <2>3, ReceiveTyped DEF Import
  <2> QED
    BY <1>1, <2>1, <2>4 DEF Import, TInv, FilesTyped
<1>7. CASE BindPolicy(c)
  <2>1. bindings' \in 1 .. MaxBindings
    BY <1>7, BoundsAssumption DEF BindPolicy, TInv, FilesTyped
  <2>2. [row EXCEPT !.policy = bindings'] \in Rows
    BY <1>r, <2>1, RowMoves
  <2>3. {"policy", "block"} \subseteq Ops BY DEF Ops
  <2>4. PICK what \in {"policy", "block"} :
          Receive(c, what, [row EXCEPT !.policy = bindings'], "rebind", 2)
    BY <1>7 DEF BindPolicy
  <2>5. UNCHANGED <<decision, bundle, manifest>>
    BY <1>7 DEF BindPolicy
  <2>6. HandsTyped' /\ overlaps' \in 0 .. MaxOverlaps
    BY <2>2, <2>3, <2>4, <2>5, ReceiveTyped
  <2> QED
    BY <1>7, <2>1, <2>6 DEF BindPolicy, TInv, FilesTyped
<1>2. CASE Approve(c)
  <2>1. "approve" \in Ops BY DEF Ops
  <2>2. HandsTyped' /\ overlaps' \in 0 .. MaxOverlaps
    <3>1. [row EXCEPT !.state = "approved", !.approval = "granted"] \in Rows
      BY <1>r, RowMoves
    <3>2. [row EXCEPT !.showcase = TRUE] \in Rows
      BY <1>r, RowMoves
    <3>3. UNCHANGED <<decision, bundle, manifest>>
      BY <1>2 DEF Approve
    <3>4. CASE Receive(c, "approve", [row EXCEPT !.state = "approved",
                                                 !.approval = "granted"],
                       "update", 1)
      BY <2>1, <3>1, <3>3, <3>4, ReceiveTyped
    <3>5. CASE Receive(c, "approve", [row EXCEPT !.showcase = TRUE], "update", 1)
      BY <2>1, <3>2, <3>3, <3>5, ReceiveTyped
    <3> QED
      BY <1>2, <3>4, <3>5 DEF Approve
  <2> QED
    BY <1>2, <2>2 DEF Approve, TInv, FilesTyped
<1>3. CASE Kill(c)
  <2>1. "kill" \in Ops BY DEF Ops
  <2>2. HandsTyped' /\ overlaps' \in 0 .. MaxOverlaps
    <3>1. [row EXCEPT !.state = "killed"] \in Rows
      BY <1>r, RowMoves
    <3>2. UNCHANGED <<decision, bundle, manifest>>
      BY <1>3 DEF Kill
    <3>3. Receive(c, "kill", [row EXCEPT !.state = "killed"], "update", 1)
      BY <1>3 DEF Kill
    <3> QED
      BY <2>1, <3>1, <3>2, <3>3, ReceiveTyped
  <2> QED
    BY <1>3, <2>2 DEF Kill, TInv, FilesTyped
<1>4. CASE Execute(c)
  <2>1. "execute" \in Ops BY DEF Ops
  <2>2. row' \in Rows
    BY <1>4, <1>r, RowMoves DEF Execute
  <2>4. UNCHANGED <<decision, bundle, manifest>>
    BY <1>4 DEF Execute
  <2>3. HandsTyped' /\ overlaps' \in 0 .. MaxOverlaps
    <3>1. CASE Receive(c, "execute", row', "load", 1)
      BY <2>1, <2>2, <2>4, <3>1, ReceiveTyped
    <3>2. CASE Receive(c, "execute", row', "idle", 0)
      BY <2>1, <2>2, <2>4, <3>2, ReceiveTyped
    <3>3. CASE Receive(c, "execute",
                       [row' EXCEPT !.state = "blocked_risk_policy"],
                       "update", 1)
      <4>1. [row' EXCEPT !.state = "blocked_risk_policy"] \in Rows
        BY <2>2, RowMoves
      <4> QED
        BY <2>1, <2>4, <3>3, <4>1, ReceiveTyped
    <3> QED
      BY <1>4, <3>1, <3>2, <3>3 DEF Execute
  <2> QED
    BY <1>4, <2>2, <2>3 DEF Execute, TInv, FilesTyped
<1>5. CASE Showcase(c)
  <2>1. "showcase" \in Ops BY DEF Ops
  <2>2. row' \in Rows
    BY <1>5, <1>r, RowMoves DEF Showcase
  <2>4. UNCHANGED <<decision, bundle, manifest>>
    BY <1>5 DEF Showcase
  <2>3. HandsTyped' /\ overlaps' \in 0 .. MaxOverlaps
    <3>1. CASE Receive(c, "showcase", row', "load", 2)
      BY <2>1, <2>2, <2>4, <3>1, ReceiveTyped
    <3>2. CASE Receive(c, "showcase", row', "idle", 0)
      BY <2>1, <2>2, <2>4, <3>2, ReceiveTyped
    <3>3. CASE Receive(c, "showcase", row', "load", 1)
      BY <2>1, <2>2, <2>4, <3>3, ReceiveTyped
    <3> QED
      BY <1>5, <3>1, <3>2, <3>3 DEF Showcase
  <2> QED
    BY <1>5, <2>2, <2>3 DEF Showcase, TInv, FilesTyped
<1>6. CASE GetEvidence(c) \/ Attest(c) \/ GetAttestation(c)
  <2>1. {"evidence", "attest"} \subseteq Ops BY DEF Ops
  <2>2. HandsTyped' /\ overlaps' \in 0 .. MaxOverlaps
    BY <1>6, <1>r, <2>1, ReceiveTyped DEF GetEvidence, Attest, GetAttestation
  <2> QED
    BY <1>6, <2>2 DEF GetEvidence, Attest, GetAttestation, TInv, FilesTyped
<1> QED
  BY <1>1, <1>2, <1>3, <1>4, <1>5, <1>6, <1>7

\* The steps up to the row, the audit trail and the order.
LEMMA TypeAppends ==
    ASSUME TInv, NEW c \in Clients,
           \/ Overwrite(c) \/ Rebind(c) \/ Update(c) \/ Order(c) \/ Load(c)
           \/ AppendEntry(c) \/ Insert(c) \/ InsertLost(c)
    PROVE  TInv'
<1> DEFINE w == work[c]
<1> USE DEF files, database, counters
<1>s. Session(at[c], w, tail[c], decision, bundle, manifest) /\ w \in Works
  BY DEF TInv, HandsTyped
<1>t. tail \in [Clients -> Ledgers]
  BY DEF TInv, HandsTyped
<1>1. CASE Overwrite(c)
  <2> DEFINE s == [w.seen EXCEPT !.state = "review_required",
                                 !.approval = "none", !.manifest = None]
  <2>1. w.seen \in Rows /\ w.left \in 1 .. 2
    BY <1>1, <1>s DEF Overwrite, Session
  <2>2. s \in Rows
    BY <2>1, RowMoves
  <2>3. PICK step \in {"idle", "update"} : Goto(c, step, [w EXCEPT !.seen = s])
    BY <1>1 DEF Overwrite
  <2> HIDE DEF s, w
  <2>4. /\ [w EXCEPT !.seen = s] \in Works
        /\ [w EXCEPT !.seen = s].seen = s /\ [w EXCEPT !.seen = s].left = w.left
    BY <1>s, <2>2, WorkMoves
  <2>5. Session(step, [w EXCEPT !.seen = s], tail'[c], decision', bundle',
                manifest') \/ step = "idle"
    BY <2>1, <2>2, <2>3, <2>4 DEF Session
  <2>6. UNCHANGED <<tail, decision, bundle, manifest>> /\ step \in Steps
    BY <1>1 DEF Overwrite, Steps
  <2>7. HandsTyped'
    BY <1>t, <2>3, <2>4, <2>5, <2>6, SessionStep
  <2>8. simulation' \in 1 .. MaxBindings
    BY <1>1, <2>1 DEF Overwrite, Rows, w
  <2> QED
    BY <1>1, <2>7, <2>8 DEF Overwrite, TInv, FilesTyped
<1>8. CASE Rebind(c)
  <2> DEFINE to == IF w.op = "block" THEN "blocked_risk_policy"
                   ELSE "review_required"
             s == [w.seen EXCEPT !.state = to, !.approval = "none",
                                 !.manifest = None]
  <2>1. w.seen \in Rows /\ w.left \in 1 .. 2
    BY <1>8, <1>s DEF Rebind, Session
  <2>2. s \in Rows
    <3>1. to \in States
      BY DEF States
    <3> HIDE DEF to
    <3> QED
      BY <2>1, <3>1, RowMoves
  <2>3. PICK step \in {"idle", "update"} : Goto(c, step, [w EXCEPT !.seen = s])
    BY <1>8 DEF Rebind
  <2> HIDE DEF s, w
  <2>4. /\ [w EXCEPT !.seen = s] \in Works
        /\ [w EXCEPT !.seen = s].seen = s /\ [w EXCEPT !.seen = s].left = w.left
    BY <1>s, <2>2, WorkMoves
  <2>5. Session(step, [w EXCEPT !.seen = s], tail'[c], decision', bundle',
                manifest') \/ step = "idle"
    BY <2>1, <2>2, <2>3, <2>4 DEF Session
  <2>6. UNCHANGED <<tail, decision, bundle, manifest>> /\ step \in Steps
    BY <1>8 DEF Rebind, Steps
  <2>7. HandsTyped'
    BY <1>t, <2>3, <2>4, <2>5, <2>6, SessionStep
  <2>8. policy' \in 1 .. MaxBindings
    BY <1>8, <2>1 DEF Rebind, Rows, w
  <2> QED
    BY <1>8, <2>7, <2>8 DEF Rebind, TInv, FilesTyped
<1>2. CASE Update(c)
  <2>1. w.seen \in Rows /\ w.left \in 1 .. 2
    BY <1>2, <1>s DEF Update, Session
  <2>2. Session("load", w, tail'[c], decision', bundle', manifest')
    BY <2>1 DEF Session
  <2>3. UNCHANGED <<tail, decision, bundle, manifest>> /\ "load" \in Steps
    BY <1>2 DEF Update, Steps
  <2>4. Goto(c, "load", w) /\ row' = w.seen
    BY <1>2 DEF Update
  <2> HIDE DEF w
  <2>5. HandsTyped'
    BY <1>s, <1>t, <2>2, <2>3, <2>4, SessionStep
  <2> QED
    BY <1>2, <2>1, <2>4, <2>5 DEF Update, TInv, FilesTyped
<1>3. CASE Order(c)
  <2>1. w.seen \in Rows
    BY <1>3, <1>s DEF Order, Session
  <2>5. /\ UNCHANGED <<tail, decision, bundle, manifest>> /\ "update" \in Steps
        /\ "idle" \in Steps
    BY <1>3 DEF Order, Steps
  <2>7. CASE Goto(c, "idle", Nothing)
    <3>1. HandsTyped'
      BY <1>t, <2>5, <2>7, NothingTyped, SessionStep
    <3> QED
      BY <1>3, <3>1 DEF Order, TInv, FilesTyped
  <2> SUFFICES ASSUME ~Goto(c, "idle", Nothing) PROVE TInv'
    BY <2>7
  <2>2. PICK n \in {1, 2}, s \in Rows :
          Goto(c, "update", [w EXCEPT !.left = n, !.seen = s])
    <3>1. [w.seen EXCEPT !.state = "release_ready", !.executed = TRUE,
                         !.manifest = None] \in Rows
      BY <2>1, RowMoves
    <3>2. [w.seen EXCEPT !.state = "blocked_exchange_error"] \in Rows
      BY <2>1, RowMoves
    <3> QED
      BY <1>3, <3>1, <3>2 DEF Order
  <2> HIDE DEF w
  <2>3. /\ [w EXCEPT !.left = n, !.seen = s] \in Works
        /\ [w EXCEPT !.left = n, !.seen = s].seen = s
        /\ [w EXCEPT !.left = n, !.seen = s].left = n
    <3> DEFINE v == [w EXCEPT !.left = n]
    <3>0. n \in 0 .. 2 /\ w \in Works
      BY <1>s
    <3>1. v \in Works /\ v.left = n
      BY <3>0, WorkMoves
    <3> HIDE DEF v
    <3>2. /\ [v EXCEPT !.seen = s] \in Works
          /\ [v EXCEPT !.seen = s].seen = s /\ [v EXCEPT !.seen = s].left = n
      BY <3>1, WorkMoves
    <3> QED
      BY <3>2 DEF v
  <2>4. Session("update", [w EXCEPT !.left = n, !.seen = s], tail'[c],
                decision', bundle', manifest')
    BY <2>3 DEF Session
  <2>6. HandsTyped'
    BY <1>t, <2>2, <2>3, <2>4, <2>5, SessionStep
  <2> QED
    BY <1>3, <2>6 DEF Order, TInv, FilesTyped
<1>4. CASE Load(c)
  <2>1. w.seen \in Rows /\ w.left \in 1 .. 2
    BY <1>4, <1>s DEF Load, Session
  <2>2. PICK step \in {"append", "idle"} : Goto(c, step, w)
    BY <1>4 DEF Load
  <2>3. Session(step, w, tail'[c], decision', bundle', manifest')
    BY <2>1, <2>2 DEF Session
  <2>4. /\ tail' \in [Clients -> Ledgers]
        /\ \A d \in Clients \ {c} : tail'[d] = tail[d]
    BY <1>4, <1>t DEF Load, TInv, FilesTyped
  <2>5. UNCHANGED <<decision, bundle, manifest>> /\ step \in Steps
    BY <1>4 DEF Load, Steps
  <2> HIDE DEF w
  <2>6. HandsTyped'
    BY <1>s, <2>2, <2>3, <2>4, <2>5, SessionStep
  <2> QED
    BY <1>4, <2>6 DEF Load, TInv, FilesTyped
<1>5. CASE AppendEntry(c)
  <2> DEFINE e == [id |-> made', after |-> LastId(tail[c])]
  <2>1. w.seen \in Rows /\ w.left \in 1 .. 2
    BY <1>5, <1>s DEF AppendEntry, Session
  <2>2. made' = made + 1 /\ made' \in 1 .. MaxEntries
    BY <1>5, BoundsAssumption DEF AppendEntry, TInv, FilesTyped
  <2>3. LastId(tail[c]) \in 0 .. MaxEntries
    BY <1>t, LastIdType
  <2>4. e \in Entries
    BY <2>2, <2>3 DEF Entries
  <2>5. audit' = Append(tail[c], e) /\ tail' = [tail EXCEPT ![c] = audit']
    BY <1>5 DEF AppendEntry
  <2> HIDE DEF e, w
  <2>6. audit' \in Ledgers /\ audit' # <<>>
    BY <1>t, <2>4, <2>5 DEF Ledgers
  <2>7. /\ tail' \in [Clients -> Ledgers]
        /\ tail'[c] = audit'
        /\ \A d \in Clients \ {c} : tail'[d] = tail[d]
    BY <1>t, <2>5, <2>6
  <2>8. Session("insert", w, tail'[c], decision', bundle', manifest')
    BY <2>1, <2>6, <2>7 DEF Session
  <2>9. /\ UNCHANGED <<decision, bundle, manifest>> /\ "insert" \in Steps
        /\ Goto(c, "insert", w)
    BY <1>5 DEF AppendEntry, Steps, w
  <2>10. HandsTyped'
    BY <1>s, <2>7, <2>8, <2>9, SessionStep
  <2> QED
    BY <1>5, <2>2, <2>6, <2>10 DEF AppendEntry, TInv, FilesTyped
<1>6. CASE Insert(c)
  <2>1. w.seen \in Rows /\ w.left \in 1 .. 2 /\ tail[c] # <<>>
    BY <1>6, <1>s DEF Insert, Session
  <2>2. entries' \in Ledgers
    <3>1. tail[c] \in Seq(Entries) /\ entries \in Seq(Entries)
      BY <1>t DEF Ledgers, TInv, FilesTyped
    <3>2. tail[c][Len(tail[c])] \in Entries
      BY <2>1, <3>1
    <3> QED
      BY <1>6, <3>1, <3>2 DEF Insert, Ledgers
  <2>3. PICK step \in {"load", "order", "idle"} :
          /\ Goto(c, step, [w EXCEPT !.left = w.left - 1])
          /\ step = "load" => w.left > 1
    BY <1>6 DEF Insert
  <2> HIDE DEF w
  <2>4. w.left - 1 \in 0 .. 2 /\ (w.left > 1 => w.left - 1 \in 1 .. 2)
    BY <2>1
  <2>5. /\ [w EXCEPT !.left = w.left - 1] \in Works
        /\ [w EXCEPT !.left = w.left - 1].seen = w.seen
        /\ [w EXCEPT !.left = w.left - 1].left = w.left - 1
    BY <1>s, <2>4, WorkMoves
  <2>6. Session(step, [w EXCEPT !.left = w.left - 1], tail'[c],
                decision', bundle', manifest')
    BY <2>1, <2>3, <2>4, <2>5 DEF Session
  <2>7. <<>> \in Ledgers
    BY DEF Ledgers
  <2>8. /\ tail' \in [Clients -> Ledgers]
        /\ \A d \in Clients \ {c} : tail'[d] = tail[d]
    BY <1>6, <1>t, <2>7 DEF Insert
  <2>9. UNCHANGED <<decision, bundle, manifest>> /\ step \in Steps
    BY <1>6 DEF Insert, Steps
  <2>10. HandsTyped'
    BY <2>3, <2>5, <2>6, <2>8, <2>9, SessionStep
  <2> QED
    BY <1>6, <2>2, <2>10 DEF Insert, TInv, FilesTyped
<1>7. CASE InsertLost(c)
  <2>1. <<>> \in Ledgers
    BY DEF Ledgers
  <2>2. /\ tail' \in [Clients -> Ledgers]
        /\ \A d \in Clients \ {c} : tail'[d] = tail[d]
    BY <1>7, <1>t, <2>1 DEF InsertLost
  <2>3. /\ UNCHANGED <<decision, bundle, manifest>> /\ "idle" \in Steps
        /\ Goto(c, "idle", Nothing)
    BY <1>7 DEF InsertLost, Steps
  <2>4. HandsTyped'
    BY <2>2, <2>3, NothingTyped, SessionStep
  <2> QED
    BY <1>7, <2>4 DEF InsertLost, TInv, FilesTyped
<1> QED
  BY <1>1, <1>2, <1>3, <1>4, <1>5, <1>6, <1>7, <1>8

\* The steps of a build and of an attestation.
LEMMA TypeBuilds ==
    ASSUME TInv, NEW c \in Clients,
           \/ UseCached(c) \/ FindRun(c) \/ ArtifactsLost(c) \/ Collect(c)
           \/ WriteBundle(c) \/ WriteManifest(c) \/ RecordManifest(c)
           \/ Verify(c) \/ HashBundle(c) \/ Sign(c)
    PROVE  TInv'
<1> DEFINE w == work[c]
<1> USE DEF files, database, counters
<1>s. Session(at[c], w, tail[c], decision, bundle, manifest) /\ w \in Works
  BY DEF TInv, HandsTyped
<1>t. tail \in [Clients -> Ledgers]
  BY DEF TInv, HandsTyped
<1>1. CASE UseCached(c) \/ FindRun(c) \/ Verify(c)
  <2>1. PICK step \in {"verify", "artifacts", "bare", "idle", "hash"} :
          Goto(c, step, w) /\ (step = "hash" => BundleVerifies)
    BY <1>1 DEF UseCached, FindRun, Verify, Ensured
  <2>2. w.seen \in Rows
    BY <1>1, <1>s DEF UseCached, FindRun, Verify, Session
  <2>3. /\ UNCHANGED <<tail, decision, bundle, manifest>> /\ step \in Steps
    BY <1>1 DEF UseCached, FindRun, Verify, Steps
  <2>4. step = "hash" => bundle \in Bundles /\ manifest \in Manifests
    BY <2>1 DEF BundleVerifies, TInv, FilesTyped
  <2>5. Session(step, w, tail'[c], decision', bundle', manifest')
    BY <2>1, <2>2, <2>3, <2>4 DEF Session
  <2> HIDE DEF w
  <2>6. HandsTyped'
    BY <1>s, <1>t, <2>1, <2>3, <2>5, SessionStep
  <2> QED
    BY <1>1, <2>6 DEF UseCached, FindRun, Verify, TInv, FilesTyped
<1>8. CASE ArtifactsLost(c)
  <2>1. /\ UNCHANGED <<tail, decision, bundle, manifest>> /\ "idle" \in Steps
        /\ Goto(c, "idle", Nothing)
    BY <1>8 DEF ArtifactsLost, Steps
  <2>2. HandsTyped'
    BY <1>t, <2>1, NothingTyped, SessionStep
  <2> QED
    BY <1>8, <2>2 DEF ArtifactsLost, TInv, FilesTyped
<1>2. CASE Collect(c)
  <2> DEFINE h == [release |-> CopyOf(w.seen), slice |-> audit,
                   decision |-> decision', redline |-> at[c] = "artifacts"]
  <2>1. w.seen \in Rows /\ CopyOf(w.seen) \in Releases
    BY <1>2, <1>s, RowMoves DEF Collect, Session
  <2>2. clock' \in 0 .. MaxClock
    BY <1>2, BoundsAssumption DEF Collect, TInv, FilesTyped
  <2>3. decision' \in Decisions
    BY <1>2, <2>1, <2>2 DEF Collect, Decisions
  <2>4. h \in Bundles
    BY <2>1, <2>3 DEF Bundles, TInv, FilesTyped
  <2>5. /\ UNCHANGED <<tail, bundle, manifest>> /\ "bundle" \in Steps
        /\ Goto(c, "bundle", [w EXCEPT !.held = h])
    BY <1>2 DEF Collect, Steps
  <2> HIDE DEF w, h
  <2>6. /\ [w EXCEPT !.held = h] \in Works
        /\ [w EXCEPT !.held = h].seen = w.seen /\ [w EXCEPT !.held = h].held = h
    BY <1>s, <2>4, HeldMoves
  <2>7. Session("bundle", [w EXCEPT !.held = h], tail'[c], decision', bundle',
                manifest')
    BY <2>1, <2>3, <2>4, <2>6 DEF Session
  <2>8. HandsTyped'
    BY <1>t, <2>3, <2>5, <2>6, <2>7, SessionStep
  <2> QED
    BY <1>2, <2>2, <2>3, <2>8 DEF Collect, TInv, FilesTyped
<1>3. CASE WriteBundle(c)
  <2>1. w.seen \in Rows /\ w.held \in Bundles /\ decision \in Decisions
    BY <1>3, <1>s DEF WriteBundle, Session
  <2>2. /\ UNCHANGED <<tail, decision, manifest>> /\ "manifest" \in Steps
        /\ Goto(c, "manifest", w) /\ bundle' = w.held
    BY <1>3 DEF WriteBundle, Steps
  <2>3. Session("manifest", w, tail'[c], decision', bundle', manifest')
    BY <2>1, <2>2 DEF Session
  <2> HIDE DEF w
  <2>4. HandsTyped'
    BY <1>s, <1>t, <2>1, <2>2, <2>3, SessionStep
  <2> QED
    BY <1>3, <2>1, <2>2, <2>4 DEF WriteBundle, TInv, FilesTyped
<1>4. CASE WriteManifest(c)
  <2>1. /\ w.seen \in Rows /\ w.held \in Bundles /\ decision \in Decisions
        /\ bundle \in Bundles
    BY <1>4, <1>s DEF WriteManifest, Session
  <2>2. PICK hashed \in {w.held, bundle}, step \in {"record", "idle"} :
          /\ manifest' = [bundle |-> hashed, audit |-> audit,
                          simulation |-> simulation, policy |-> policy,
                          decision |-> decision, run |-> w.held.redline]
          /\ Goto(c, step, [w EXCEPT !.held = manifest'])
    BY <1>4 DEF WriteManifest
  <2>3. manifest' \in Manifests
    <3>1. w.held.redline \in BOOLEAN
      BY <2>1 DEF Bundles
    <3> QED
      BY <2>1, <2>2, <3>1 DEF Manifests, TInv, FilesTyped
  <2>4. UNCHANGED <<tail, decision, bundle>> /\ step \in Steps
    BY <1>4 DEF WriteManifest, Steps
  <2> HIDE DEF w
  <2>5. /\ [w EXCEPT !.held = manifest'] \in Works
        /\ [w EXCEPT !.held = manifest'].seen = w.seen
        /\ [w EXCEPT !.held = manifest'].held = manifest'
    BY <1>s, <2>3, HeldMoves
  <2>6. Session(step, [w EXCEPT !.held = manifest'], tail'[c], decision',
                bundle', manifest')
    BY <2>1, <2>2, <2>3, <2>5 DEF Session
  <2>7. HandsTyped'
    BY <1>t, <2>2, <2>3, <2>4, <2>5, <2>6, SessionStep
  <2> QED
    BY <1>4, <2>3, <2>7 DEF WriteManifest, TInv, FilesTyped
<1>5. CASE RecordManifest(c)
  <2>1. w.seen \in Rows /\ w.held \in Manifests
    BY <1>5, <1>s DEF RecordManifest, Session
  <2>2. PICK step \in {"verify", "idle"} : Goto(c, step, w)
    BY <1>5 DEF RecordManifest, Ensured
  <2>3. UNCHANGED <<tail, decision, bundle, manifest>> /\ step \in Steps
    BY <1>5 DEF RecordManifest, Steps
  <2>4. Session(step, w, tail'[c], decision', bundle', manifest')
    BY <2>1, <2>2 DEF Session
  <2>5. row' \in Rows
    BY <1>5, <2>1, RowMoves DEF RecordManifest
  <2> HIDE DEF w
  <2>6. HandsTyped'
    BY <1>s, <1>t, <2>2, <2>3, <2>4, SessionStep
  <2> QED
    BY <1>5, <2>5, <2>6 DEF RecordManifest, TInv, FilesTyped
<1>6. CASE HashBundle(c)
  <2>1. w.seen \in Rows /\ bundle \in Bundles /\ manifest \in Manifests
    BY <1>6, <1>s DEF HashBundle, Session
  <2>2. /\ UNCHANGED <<tail, decision, bundle, manifest>> /\ "sign" \in Steps
        /\ Goto(c, "sign", [w EXCEPT !.held = bundle])
    BY <1>6 DEF HashBundle, Steps
  <2> HIDE DEF w
  <2>3. /\ [w EXCEPT !.held = bundle] \in Works
        /\ [w EXCEPT !.held = bundle].seen = w.seen
        /\ [w EXCEPT !.held = bundle].held = bundle
    BY <1>s, <2>1, HeldMoves
  <2>4. Session("sign", [w EXCEPT !.held = bundle], tail'[c], decision',
                bundle', manifest')
    BY <2>1, <2>2, <2>3 DEF Session
  <2>5. HandsTyped'
    BY <1>t, <2>2, <2>3, <2>4, SessionStep
  <2> QED
    BY <1>6, <2>5 DEF HashBundle, TInv, FilesTyped
<1>7. CASE Sign(c)
  <2>1. w.held \in Bundles /\ manifest \in Manifests
    BY <1>7, <1>s DEF Sign, Session
  <2>2. /\ UNCHANGED <<tail, decision, bundle, manifest>> /\ "idle" \in Steps
        /\ Goto(c, "idle", Nothing)
    BY <1>7 DEF Sign, Steps
  <2>3. HandsTyped'
    BY <1>t, <2>2, NothingTyped, SessionStep
  <2>4. attestation' \in Attestations
    BY <1>7, <2>1 DEF Sign, Attestations
  <2> QED
    BY <1>7, <2>3, <2>4 DEF Sign, TInv, FilesTyped
<1> QED
  BY <1>1, <1>2, <1>3, <1>4, <1>5, <1>6, <1>7, <1>8

LEMMA TypeStep ==
    ASSUME TInv, [Next]_vars PROVE TInv'
<1>1. CASE UNCHANGED vars
  BY <1>1 DEF vars, files, database, counters, TInv, FilesTyped, HandsTyped
<1>2. CASE Crash
  <2>1. <<>> \in Ledgers
    BY DEF Ledgers
  <2>2. HandsTyped'
    BY <1>2, <2>1, NothingTyped DEF Crash, HandsTyped, Session, Steps
  <2>3. crashes' \in 0 .. MaxCrashes
    BY <1>2, BoundsAssumption DEF Crash, TInv, FilesTyped
  <2> QED
    BY <1>2, <2>2, <2>3 DEF Crash, files, database, TInv, FilesTyped
<1>3. ASSUME NEW c \in Clients, Serve(c) PROVE TInv'
  BY <1>3, TypeReceives, TypeAppends, TypeBuilds DEF Serve
<1>4. CASE PruneRow \/ PruneDirectory
  BY <1>4 DEF PruneRow, PruneDirectory, Runs, database, counters, TInv,
              FilesTyped, HandsTyped
<1> QED
  BY <1>1, <1>2, <1>3, <1>4 DEF Next

LEMMA TypeInit == Init => TInv
<1> SUFFICES ASSUME Init PROVE TInv
  OBVIOUS
<1>1. 1 \in 1 .. MaxEntries /\ 0 \in 0 .. MaxEntries /\ 1 \in 1 .. MaxBindings
      /\ 0 \in 0 .. MaxClock /\ 0 \in 0 .. MaxCrashes /\ 0 \in 0 .. MaxOverlaps
  BY BoundsAssumption
<1>2. row \in Rows
  BY <1>1 DEF Init, Rows, States
<1>3. [id |-> 1, after |-> 0] \in Entries
  BY <1>1 DEF Entries
<1>4. audit \in Ledgers /\ entries \in Ledgers
  BY <1>3 DEF Init, Ledgers
<1>5. FilesTyped
  BY <1>1, <1>2, <1>4 DEF Init, FilesTyped, Runs
<1>6. <<>> \in Ledgers
  BY DEF Ledgers
<1>7. HandsTyped
  BY <1>6, NothingTyped DEF Init, HandsTyped, Session, Steps
<1> QED
  BY <1>5, <1>7 DEF TInv

\* Every file, row and request is of its type, whatever runs at a time: no
\* request goes on without the row it read, nor signs a bundle or a manifest
\* that is not there.
THEOREM TypeCorrect == Spec => []TypeOK
<1>1. TInv /\ [Next]_vars => TInv'
  BY TypeStep
<1>2. TInv => TypeOK
  BY DEF TInv, FilesTyped, HandsTyped, TypeOK
<1> QED
  BY <1>1, <1>2, TypeInit, PTL DEF Spec

-----------------------------------------------------------------------------
(* One request at a time: what a request is about to do, and what it finds. *)

Alone == \A c, d \in Clients : at[c] # "idle" /\ at[d] # "idle" => c = d

\* From reading or writing the row to ending, a request holds what is there.
RowHeld == {"load", "append", "insert", "order", "ensure", "artifacts",
            "bare", "bundle", "manifest", "record"}

Hands(step, w, t) ==
    /\ step \in RowHeld => w.seen = row
    /\ step \in {"overwrite", "rebind"} =>
         w.seen.state = row.state /\ row.state # "killed"
    /\ step = "update" =>
         /\ w.seen.manifest # None =>
              /\ w.seen.manifest = row.manifest
              /\ w.seen.simulation = row.simulation
              /\ w.seen.policy = row.policy
              /\ w.seen.executed = row.executed
         /\ attestation # None =>
              /\ w.seen.manifest # None
              /\ w.seen.state \in {"release_ready", "killed"}
    /\ step = "order" => row.state = "approved"
    /\ step \in {"artifacts", "bare", "bundle", "manifest", "record"}
         => row.manifest = None
    /\ step \in {"bundle", "manifest"} => w.held.release = CopyOf(row)
    /\ step = "manifest" => bundle = w.held
    /\ step = "record" => /\ manifest = w.held /\ bundle = w.held.bundle
                          /\ bundle \in Bundles
                          /\ bundle.release = CopyOf(row)
    /\ w.op = "attest" /\ step \in {"ensure", "artifacts", "bare", "bundle",
                                   "manifest", "record"}
         => row.state = "release_ready"
    /\ step \in {"verify", "hash", "sign"}
         => row.manifest # None /\ row.state = "release_ready"
    /\ step \in {"hash", "sign"} =>
         manifest.decision = decision /\ row.executed /\ bundle.redline
    /\ step = "sign" => w.held = bundle
    /\ step \in {"append", "insert"} => t = audit

\* A manifest the row names is on disk with its bundle, about the evidence
\* the row is bound to.
BundleInv ==
    row.manifest # None =>
        /\ manifest = row.manifest /\ bundle = manifest.bundle
        /\ bundle \in Bundles
        /\ bundle.release.simulation = row.simulation
        /\ bundle.release.policy = row.policy
        /\ bundle.release.executed = row.executed

\* After an attestation the release is ready, or killed; so it neither gets
\* new evidence nor is built again.
SignInv ==
    attestation # None =>
        /\ row.manifest # None /\ row.executed
        /\ row.state \in {"release_ready", "killed"}
        /\ attestation.bundle = bundle /\ attestation.manifest = manifest
        /\ manifest.decision = decision /\ bundle.redline

Ordered(ledger) ==
    \A i, j \in DOMAIN ledger : i < j => ledger[i].id < ledger[j].id

Inserting == \E c \in Clients : at[c] = "insert"

\* The table has the file's entries in the file's order; what it lacks is on
\* its way or was lost in a stop.
TableInv ==
    /\ Ordered(audit) /\ Ordered(entries)
    /\ \A i \in DOMAIN audit : audit[i].id <= made
    /\ \A i \in DOMAIN entries :
         \E j \in DOMAIN audit : audit[j] = entries[i]
    /\ Inserting => \A i \in DOMAIN entries : entries[i].id < LastId(audit)
    /\ Len(audit) - Len(entries) - (IF Inserting THEN 1 ELSE 0) \in 0 .. crashes

SerialInv ==
    /\ Alone /\ BundleInv /\ SignInv /\ TableInv
    /\ \A c \in Clients : Hands(at[c], work[c], tail[c])

LEMMA Landed ==
    ASSUME TInv, NEW c \in Clients, NEW step, NEW w, Goto(c, step, w)
    PROVE  /\ at'[c] = step
           /\ step # "idle" => work'[c] = w
           /\ \A d \in Clients \ {c} : at'[d] = at[d]
BY DEF TInv, HandsTyped, Goto

LEMMA Others ==
    ASSUME SerialInv, NEW c \in Clients, at[c] # "idle"
    PROVE  \A d \in Clients \ {c} : at[d] = "idle"
BY DEF SerialInv, Alone

LEMMA Close ==
    ASSUME NEW c \in Clients, \A d \in Clients \ {c} : at'[d] = "idle",
           Hands(at[c], work[c], tail[c])', BundleInv', SignInv', TableInv'
    PROVE  SerialInv'
<1>1. ASSUME NEW d \in Clients PROVE Hands(at[d], work[d], tail[d])'
  <2>1. CASE d # c
    <3>1. at'[d] = "idle"
      BY <2>1
    <3> QED
      BY <3>1 DEF Hands, RowHeld
  <2> QED
    BY <2>1
<1>2. Alone'
  BY DEF Alone
<1> QED
  BY <1>1, <1>2 DEF SerialInv

LEMMA TableKept ==
    ASSUME SerialInv, NEW c \in Clients,
           \A d \in Clients \ {c} : at[d] = "idle" /\ at'[d] = "idle",
           at[c] # "insert", at'[c] # "insert",
           UNCHANGED <<audit, entries, made, crashes>>
    PROVE  TableInv'
<1>1. ~Inserting /\ ~Inserting'
  BY DEF Inserting
<1> QED
  BY <1>1 DEF SerialInv, TableInv, Ordered

LEMMA FilesKept ==
    ASSUME SerialInv, UNCHANGED <<bundle, manifest, decision, attestation>>,
           row'.manifest = row.manifest, row'.simulation = row.simulation,
           row'.policy = row.policy,
           row'.executed = row.executed, row'.state = row.state
    PROVE  BundleInv' /\ SignInv'
BY DEF SerialInv, BundleInv, SignInv

\* A request arrives at an idle service.
LEMMA SerialReceives ==
    ASSUME TInv, SerialInv, Idle, NEW c \in Clients,
           \/ Import(c) \/ BindPolicy(c) \/ Approve(c) \/ Kill(c)
           \/ Execute(c) \/ Showcase(c)
           \/ GetEvidence(c) \/ Attest(c) \/ GetAttestation(c)
    PROVE  SerialInv'
<1> USE DEF files, database, counters
<1>r. row \in Rows
  BY DEF TInv, FilesTyped
<1>0. \A d \in Clients : at[d] = "idle"
  BY DEF Idle
<1>1. ASSUME NEW what, NEW r, NEW step, NEW events,
             Receive(c, what, r, step, events)
      PROVE  /\ at'[c] = step /\ tail' = tail
             /\ \A d \in Clients \ {c} : at'[d] = "idle"
             /\ step # "idle" => work'[c].seen = r /\ work'[c].op = what
  <2> DEFINE w == [op |-> what, seen |-> r, left |-> events, held |-> None]
  <2>1. w.seen = r /\ w.op = what
    OBVIOUS
  <2>2. Goto(c, step, w) /\ tail' = tail
    BY <1>1 DEF Receive
  <2> HIDE DEF w
  <2> QED
    BY <1>0, <2>1, <2>2, Landed
<1>2. /\ row'.manifest = row.manifest /\ row'.simulation = row.simulation
      /\ row'.policy = row.policy
      /\ row'.executed = row.executed /\ row'.state = row.state
  BY <1>r DEF Import, BindPolicy, Approve, Kill, Execute, Showcase,
              GetEvidence, Attest, GetAttestation, Rows
<1>3. UNCHANGED <<audit, decision, bundle, manifest, attestation, entries,
                  made, crashes>>
  BY DEF Import, BindPolicy, Approve, Kill, Execute, Showcase, GetEvidence,
         Attest, GetAttestation
<1>4. PICK what, r, step, events : Receive(c, what, r, step, events)
  BY DEF Import, BindPolicy, Approve, Kill, Execute, Showcase, GetEvidence,
         Attest, GetAttestation
<1>5. at'[c] \in {"idle", "overwrite", "rebind", "update", "load", "ensure"}
  BY <1>1 DEF Import, BindPolicy, Approve, Kill, Execute, Showcase,
              GetEvidence, Attest, GetAttestation
<1>6. \A d \in Clients \ {c} : at[d] = "idle" /\ at'[d] = "idle"
  BY <1>0, <1>1, <1>4
<1>7. BundleInv' /\ SignInv'
  BY <1>2, <1>3, FilesKept
<1>8. TableInv'
  BY <1>0, <1>3, <1>5, <1>6, TableKept
<1>9. Hands(at[c], work[c], tail[c])'
  <2>1. CASE Import(c)
    <3>1. /\ at'[c] = "overwrite"
          /\ work'[c].seen = [row EXCEPT !.simulation = bindings']
      BY <1>1, <2>1 DEF Import
    <3>2. work'[c].seen.state = row.state /\ row'.state # "killed"
      BY <1>2, <1>r, <2>1, <3>1 DEF Import, Rows
    <3> QED
      BY <1>2, <3>1, <3>2 DEF Hands, RowHeld
  <2>5. CASE BindPolicy(c)
    <3>1. /\ at'[c] = "rebind"
          /\ work'[c].seen = [row EXCEPT !.policy = bindings']
      BY <1>1, <2>5 DEF BindPolicy
    <3>2. work'[c].seen.state = row.state /\ row'.state # "killed"
      BY <1>2, <1>r, <2>5, <3>1 DEF BindPolicy, Rows
    <3> QED
      BY <1>2, <3>1, <3>2 DEF Hands, RowHeld
  <2>2. CASE Approve(c) \/ Kill(c)
    <3>1. at'[c] = "update"
      BY <1>1, <2>2 DEF Approve, Kill
    <3>2. /\ work'[c].seen.manifest = row.manifest
          /\ work'[c].seen.simulation = row.simulation
          /\ work'[c].seen.policy = row.policy
          /\ work'[c].seen.executed = row.executed
          /\ work'[c].seen.state \in {"release_ready", "killed"}
             \/ row.state = "review_required"
      <4>1. CASE /\ row.state = "review_required"
                 /\ Receive(c, "approve", [row EXCEPT !.state = "approved",
                                                      !.approval = "granted"],
                            "update", 1)
        <5>1. work'[c].seen = [row EXCEPT !.state = "approved",
                                          !.approval = "granted"]
          BY <1>1, <4>1
        <5> QED
          BY <1>r, <4>1, <5>1 DEF Rows
      <4>2. CASE /\ row.state = "release_ready"
                 /\ Receive(c, "approve", [row EXCEPT !.showcase = TRUE],
                            "update", 1)
        <5>1. work'[c].seen = [row EXCEPT !.showcase = TRUE]
          BY <1>1, <4>2
        <5> QED
          BY <1>r, <4>2, <5>1 DEF Rows
      <4>3. CASE Kill(c)
        <5>1. work'[c].seen = [row EXCEPT !.state = "killed"]
          BY <1>1, <4>3 DEF Kill
        <5> QED
          BY <1>r, <5>1 DEF Rows
      <4> QED
        BY <2>2, <4>1, <4>2, <4>3 DEF Approve
    <3>3. attestation # None => row.manifest # None
                                /\ row.state # "review_required"
      BY DEF SerialInv, SignInv
    <3> QED
      BY <1>2, <1>3, <3>1, <3>2, <3>3 DEF Hands, RowHeld
  <2>3. CASE Execute(c) \/ Showcase(c)
    <3> DEFINE s == [row' EXCEPT !.state = "blocked_risk_policy"]
    <3>1. CASE \E n : \/ Receive(c, "execute", row', "load", n)
                      \/ Receive(c, "showcase", row', "load", n)
      <4>1. at'[c] = "load" /\ work'[c].seen = row'
        BY <1>1, <3>1
      <4> QED
        BY <4>1 DEF Hands, RowHeld
    <3>2. CASE \/ Receive(c, "execute", row', "idle", 0)
               \/ Receive(c, "showcase", row', "idle", 0)
      <4>1. at'[c] = "idle"
        BY <1>1, <3>2
      <4> QED
        BY <4>1 DEF Hands, RowHeld
    <3>3. CASE Execute(c) /\ Receive(c, "execute", s, "update", 1)
      <4>1. row' \in Rows /\ row.state = "approved"
        BY <1>r, <3>3, RowMoves DEF Execute
      <4>2. /\ s.manifest = row'.manifest /\ s.simulation = row'.simulation
            /\ s.policy = row'.policy /\ s.executed = row'.executed
        BY <4>1 DEF Rows
      <4> HIDE DEF s
      <4>3. at'[c] = "update" /\ work'[c].seen = s
        BY <1>1, <3>3
      <4>4. attestation' = None
        BY <1>3, <4>1 DEF SerialInv, SignInv
      <4> QED
        BY <4>2, <4>3, <4>4 DEF Hands, RowHeld
    <3> QED
      BY <2>3, <3>1, <3>2, <3>3 DEF Execute, Showcase
  <2>4. CASE GetEvidence(c) \/ Attest(c) \/ GetAttestation(c)
    <3>1. /\ at'[c] = "ensure" /\ work'[c].seen = row
          /\ work'[c].op = "attest" => row.state = "release_ready"
      BY <1>1, <2>4 DEF GetEvidence, Attest, GetAttestation
    <3>2. row' = row
      BY <2>4 DEF GetEvidence, Attest, GetAttestation
    <3> QED
      BY <3>1, <3>2 DEF Hands, RowHeld
  <2> QED
    BY <2>1, <2>2, <2>3, <2>4, <2>5
<1> QED
  BY <1>6, <1>7, <1>8, <1>9, Close

\* The row is written as it was computed, then the audit trail follows.
LEMMA SerialRows ==
    ASSUME TInv, SerialInv, NEW c \in Clients,
           Overwrite(c) \/ Rebind(c) \/ Update(c) \/ Order(c)
    PROVE  SerialInv'
<1> DEFINE w == work[c]
<1> USE DEF files, database, counters
<1>s. /\ Session(at[c], w, tail[c], decision, bundle, manifest) /\ w \in Works
      /\ Hands(at[c], w, tail[c])
  BY DEF TInv, HandsTyped, SerialInv
<1>r. row \in Rows
  BY DEF TInv, FilesTyped
<1>c. /\ at[c] \in {"overwrite", "rebind", "update", "order"}
      /\ UNCHANGED <<audit, bundle, manifest, decision, attestation, entries,
                     made, crashes>>
  BY DEF Overwrite, Rebind, Update, Order
<1>d. \A d \in Clients \ {c} : at[d] = "idle"
  BY <1>c, Others
<1>1. CASE Overwrite(c)
  <2> DEFINE s == [w.seen EXCEPT !.state = "review_required",
                                 !.approval = "none", !.manifest = None]
  <2>1. at[c] = "overwrite" /\ w.seen \in Rows
    BY <1>1, <1>s DEF Overwrite, Session
  <2>2. w.seen.state = row.state /\ row.state # "killed" /\ row' = row
    BY <1>1, <1>s, <2>1 DEF Overwrite, Hands
  <2>3. s \in Rows /\ s.manifest = None
    BY <2>1 DEF Rows, States
  <2>4. PICK step \in {"idle", "update"} :
          /\ Goto(c, step, [w EXCEPT !.seen = s])
          /\ step = "update" => w.seen.state # "release_ready"
    BY <1>1 DEF Overwrite
  <2> HIDE DEF s, w
  <2>5. /\ at'[c] = step
        /\ step # "idle" => work'[c] = [w EXCEPT !.seen = s]
        /\ \A d \in Clients \ {c} : at'[d] = "idle"
    BY <1>d, <2>4, Landed
  <2>6. step # "idle" => work'[c].seen.manifest = None
    <3>1. [w EXCEPT !.seen = s].seen = s
      BY <1>s, <2>3, WorkMoves
    <3> QED
      BY <2>3, <2>5, <3>1
  <2>7. step = "update" => attestation = None
    BY <2>2, <2>4 DEF SerialInv, SignInv
  <2>8. Hands(at[c], work[c], tail[c])'
    BY <1>c, <2>5, <2>6, <2>7 DEF Hands, RowHeld
  <2>9. BundleInv' /\ SignInv'
    BY <1>c, <2>2, FilesKept
  <2>10. TableInv'
    BY <1>c, <1>d, <2>5, TableKept
  <2> QED
    BY <2>5, <2>8, <2>9, <2>10, Close
<1>4. CASE Rebind(c)
  <2> DEFINE to == IF w.op = "block" THEN "blocked_risk_policy"
                   ELSE "review_required"
             s == [w.seen EXCEPT !.state = to, !.approval = "none",
                                 !.manifest = None]
  <2>1. at[c] = "rebind" /\ w.seen \in Rows
    BY <1>4, <1>s DEF Rebind, Session
  <2>2. w.seen.state = row.state /\ row.state # "killed" /\ row' = row
    BY <1>4, <1>s, <2>1 DEF Rebind, Hands
  <2>3. s \in Rows /\ s.manifest = None
    <3>1. to \in States
      BY DEF States
    <3> HIDE DEF to
    <3> QED
      BY <2>1, <3>1 DEF Rows
  <2>4. PICK step \in {"idle", "update"} :
          /\ Goto(c, step, [w EXCEPT !.seen = s])
          /\ step = "update" => w.seen.state # "release_ready"
    BY <1>4 DEF Rebind, MayBind
  <2> HIDE DEF s, w
  <2>5. /\ at'[c] = step
        /\ step # "idle" => work'[c] = [w EXCEPT !.seen = s]
        /\ \A d \in Clients \ {c} : at'[d] = "idle"
    BY <1>d, <2>4, Landed
  <2>6. step # "idle" => work'[c].seen.manifest = None
    <3>1. [w EXCEPT !.seen = s].seen = s
      BY <1>s, <2>3, WorkMoves
    <3> QED
      BY <2>3, <2>5, <3>1
  <2>7. step = "update" => attestation = None
    BY <2>2, <2>4 DEF SerialInv, SignInv
  <2>8. Hands(at[c], work[c], tail[c])'
    BY <1>c, <2>5, <2>6, <2>7 DEF Hands, RowHeld
  <2>9. BundleInv' /\ SignInv'
    BY <1>c, <2>2, FilesKept
  <2>10. TableInv'
    BY <1>c, <1>d, <2>5, TableKept
  <2> QED
    BY <2>5, <2>8, <2>9, <2>10, Close
<1>2. CASE Update(c)
  <2>1. at[c] = "update" /\ w.seen \in Rows /\ row' = w.seen
        /\ Goto(c, "load", w)
    BY <1>2, <1>s DEF Update, Session
  <2>2. /\ w.seen.manifest # None =>
             /\ w.seen.manifest = row.manifest
             /\ w.seen.simulation = row.simulation
             /\ w.seen.policy = row.policy
             /\ w.seen.executed = row.executed
        /\ attestation # None =>
             /\ w.seen.manifest # None
             /\ w.seen.state \in {"release_ready", "killed"}
    BY <1>s, <2>1 DEF Hands
  <2> HIDE DEF w
  <2>3. /\ at'[c] = "load" /\ work'[c] = w
        /\ \A d \in Clients \ {c} : at'[d] = "idle"
    BY <1>d, <2>1, Landed
  <2>4. Hands(at[c], work[c], tail[c])'
    BY <2>1, <2>3 DEF Hands, RowHeld
  <2>5. BundleInv'
    BY <1>c, <2>1, <2>2 DEF SerialInv, BundleInv
  <2>6. SignInv'
    BY <1>c, <2>1, <2>2 DEF SerialInv, SignInv
  <2>7. TableInv'
    BY <1>c, <1>d, <2>3, TableKept
  <2> QED
    BY <2>3, <2>4, <2>5, <2>6, <2>7, Close
<1>3. CASE Order(c)
  <2>1. /\ at[c] = "order" /\ w.seen = row /\ row.state = "approved"
        /\ row' = row
    BY <1>3, <1>s DEF Order, Hands, RowHeld
  <2>2. attestation = None
    BY <2>1 DEF SerialInv, SignInv
  <2>12. CASE Goto(c, "idle", Nothing)
    <3>1. at'[c] = "idle" /\ \A d \in Clients \ {c} : at'[d] = "idle"
      BY <1>d, <2>12, Landed
    <3>2. Hands(at[c], work[c], tail[c])'
      BY <3>1 DEF Hands, RowHeld
    <3>3. BundleInv' /\ SignInv'
      BY <1>c, <2>1, FilesKept
    <3>4. TableInv'
      BY <1>c, <1>d, <3>1, TableKept
    <3> QED
      BY <3>1, <3>2, <3>3, <3>4, Close
  <2> SUFFICES ASSUME ~Goto(c, "idle", Nothing) PROVE SerialInv'
    BY <2>12
  <2>3. PICK n \in {1, 2}, s \in Rows :
          /\ Goto(c, "update", [w EXCEPT !.left = n, !.seen = s])
          /\ s.manifest # None => /\ s.manifest = row.manifest
                                  /\ s.simulation = row.simulation
                                  /\ s.policy = row.policy
                                  /\ s.executed = row.executed
    <3> DEFINE p == [w.seen EXCEPT !.state = "release_ready",
                                   !.executed = TRUE, !.manifest = None]
               q == [w.seen EXCEPT !.state = "blocked_exchange_error"]
    <3>1. p \in Rows /\ p.manifest = None
      BY <1>r, <2>1 DEF Rows, States
    <3>2. /\ q \in Rows /\ q.manifest = row.manifest
          /\ q.simulation = row.simulation /\ q.policy = row.policy
          /\ q.executed = row.executed
      BY <1>r, <2>1 DEF Rows, States
    <3>3. \/ Goto(c, "update", [w EXCEPT !.left = 2, !.seen = p])
          \/ Goto(c, "update", [w EXCEPT !.left = 1, !.seen = q])
      BY <1>3 DEF Order
    <3> HIDE DEF p, q, w
    <3> QED
      BY <3>1, <3>2, <3>3
  <2> HIDE DEF w
  <2> DEFINE v == [w EXCEPT !.left = n]
  <2>4. n \in 0 .. 2
    OBVIOUS
  <2>5. v \in Works
    BY <1>s, <2>4, WorkMoves
  <2>6. Goto(c, "update", [v EXCEPT !.seen = s])
    BY <2>3
  <2> HIDE DEF v
  <2>7. [v EXCEPT !.seen = s].seen = s
    BY <2>5, WorkMoves
  <2>8. /\ at'[c] = "update" /\ work'[c].seen = s
        /\ \A d \in Clients \ {c} : at'[d] = "idle"
    <3>1. /\ at'[c] = "update" /\ work'[c] = [v EXCEPT !.seen = s]
          /\ \A d \in Clients \ {c} : at'[d] = at[d]
      BY <2>6, Landed
    <3> QED
      BY <1>d, <2>7, <3>1
  <2>9. Hands(at[c], work[c], tail[c])'
    BY <1>c, <2>1, <2>2, <2>3, <2>8 DEF Hands, RowHeld
  <2>10. BundleInv' /\ SignInv'
    BY <1>c, <2>1, FilesKept
  <2>11. TableInv'
    BY <1>c, <1>d, <2>8, TableKept
  <2> QED
    BY <2>8, <2>9, <2>10, <2>11, Close
<1> QED
  BY <1>1, <1>2, <1>3, <1>4

\* The audit trail: file first, then the table.
LEMMA SerialAppends ==
    ASSUME TInv, SerialInv, NEW c \in Clients,
           Load(c) \/ AppendEntry(c) \/ Insert(c) \/ InsertLost(c)
    PROVE  SerialInv'
<1> DEFINE w == work[c]
<1> USE DEF files, database, counters
<1>s. /\ Session(at[c], w, tail[c], decision, bundle, manifest) /\ w \in Works
      /\ Hands(at[c], w, tail[c])
  BY DEF TInv, HandsTyped, SerialInv
<1>c. /\ at[c] \in {"load", "append", "insert"}
      /\ UNCHANGED <<row, bundle, manifest, decision, attestation, crashes>>
  BY DEF Load, AppendEntry, Insert, InsertLost
<1>d. \A d \in Clients \ {c} : at[d] = "idle"
  BY <1>c, Others
<1>h. w.seen = row
  BY <1>c, <1>s DEF Hands, RowHeld
<1>f. BundleInv' /\ SignInv'
  BY <1>c, FilesKept
<1>l. /\ audit \in Seq(Entries) /\ entries \in Seq(Entries)
      /\ made \in Nat /\ crashes \in Nat
      /\ Len(audit) \in Nat /\ Len(entries) \in Nat
  BY BoundsAssumption DEF TInv, FilesTyped, Ledgers
<1>1. CASE Load(c)
  <2>1. PICK step \in {"append", "idle"} : Goto(c, step, w)
    BY <1>1 DEF Load
  <2>2. tail'[c] = audit /\ audit' = audit /\ entries' = entries /\ made' = made
    BY <1>1 DEF Load, TInv, HandsTyped
  <2> HIDE DEF w
  <2>3. /\ at'[c] = step /\ (step # "idle" => work'[c] = w)
        /\ \A d \in Clients \ {c} : at'[d] = "idle"
    BY <1>d, <2>1, Landed
  <2>4. Hands(at[c], work[c], tail[c])'
    BY <1>c, <1>h, <2>2, <2>3 DEF Hands, RowHeld
  <2>5. at[c] = "load"
    BY <1>1 DEF Load
  <2>6. TableInv'
    BY <1>c, <1>d, <2>2, <2>3, <2>5, TableKept
  <2> QED
    BY <1>f, <2>3, <2>4, <2>6, Close
<1>2. CASE AppendEntry(c)
  <2> DEFINE e == [id |-> made', after |-> LastId(tail[c])]
  <2>1. /\ at[c] = "append" /\ tail[c] = audit /\ Goto(c, "insert", w)
        /\ made' = made + 1 /\ entries' = entries
        /\ audit' = Append(audit, e) /\ tail'[c] = audit'
    BY <1>2, <1>s DEF AppendEntry, Hands, TInv, HandsTyped
  <2>2. e.id = made + 1
    BY <2>1
  <2> HIDE DEF e, w
  <2>3. /\ at'[c] = "insert" /\ work'[c] = w
        /\ \A d \in Clients \ {c} : at'[d] = "idle"
    BY <1>d, <2>1, Landed
  <2>4. Hands(at[c], work[c], tail[c])'
    BY <1>c, <1>h, <2>1, <2>3 DEF Hands, RowHeld
  <2>5. ~Inserting /\ Inserting'
    BY <1>d, <2>1, <2>3 DEF Inserting
  <2>6. /\ Len(audit') = Len(audit) + 1
        /\ DOMAIN audit = 1 .. Len(audit) /\ DOMAIN audit' = 1 .. Len(audit')
        /\ \A i \in 1 .. Len(audit) : audit'[i] = audit[i]
        /\ audit'[Len(audit')] = e
    BY <1>l, <2>1
  <2>7. \A i \in 1 .. Len(audit) : audit[i].id \in Nat /\ audit[i].id <= made
    <3>1. \A i \in 1 .. Len(audit) : audit[i].id \in Nat
      <4>1. \A i \in 1 .. Len(audit) : audit[i] \in Entries
        BY <1>l
      <4>2. \A entry \in Entries : entry.id \in Nat
        BY BoundsAssumption DEF Entries
      <4> QED
        BY <4>1, <4>2
    <3> QED
      BY <1>l, <3>1 DEF SerialInv, TableInv
  <2>8. \A i \in DOMAIN audit' : audit'[i].id <= made'
    BY <1>l, <2>1, <2>2, <2>6, <2>7
  <2>9. Ordered(audit')
    <3> SUFFICES ASSUME NEW i \in DOMAIN audit', NEW j \in DOMAIN audit', i < j
                 PROVE  audit'[i].id < audit'[j].id
      BY DEF Ordered
    <3>1. i \in 1 .. Len(audit) /\ audit'[i] = audit[i]
      BY <1>l, <2>6
    <3>2. CASE j \in 1 .. Len(audit)
      BY <2>6, <3>1, <3>2 DEF SerialInv, TableInv, Ordered
    <3>3. CASE j = Len(audit')
      BY <1>l, <2>2, <2>6, <2>7, <3>1, <3>3
    <3> QED
      BY <1>l, <2>6, <3>2, <3>3
  <2>10. \A i \in DOMAIN entries : \E j \in DOMAIN audit' : audit'[j] = entries[i]
    <3> SUFFICES ASSUME NEW i \in DOMAIN entries
                 PROVE  \E j \in DOMAIN audit' : audit'[j] = entries[i]
      OBVIOUS
    <3>1. PICK j \in DOMAIN audit : audit[j] = entries[i]
      BY DEF SerialInv, TableInv
    <3>2. j \in DOMAIN audit' /\ audit'[j] = entries[i]
      BY <1>l, <2>6, <3>1
    <3> QED
      BY <3>2
  <2>11. \A i \in DOMAIN entries : entries[i].id < LastId(audit')
    <3> SUFFICES ASSUME NEW i \in DOMAIN entries
                 PROVE  entries[i].id < LastId(audit')
      OBVIOUS
    <3>1. PICK j \in DOMAIN audit : audit[j] = entries[i]
      BY DEF SerialInv, TableInv
    <3>2. entries[i].id \in Nat /\ entries[i].id <= made
      BY <2>6, <2>7, <3>1
    <3>3. audit' # <<>>
      BY <1>l, <2>6
    <3>4. LastId(audit') = made + 1
      BY <2>2, <2>6, <3>3 DEF LastId
    <3> QED
      BY <1>l, <3>2, <3>4
  <2>12. Len(audit') - Len(entries) - 1 \in 0 .. crashes
    <3>1. Len(audit) - Len(entries) - 0 \in 0 .. crashes
      BY <2>5 DEF SerialInv, TableInv
    <3> QED
      BY <1>l, <2>6, <3>1
  <2>13. TableInv'
    BY <1>c, <2>1, <2>5, <2>8, <2>9, <2>10, <2>11, <2>12
    DEF SerialInv, TableInv, Ordered
  <2> QED
    BY <1>f, <2>3, <2>4, <2>13, Close
<1>3. CASE Insert(c)
  <2>1. /\ at[c] = "insert" /\ tail[c] = audit /\ audit # <<>>
        /\ audit' = audit /\ made' = made
        /\ entries' = Append(entries, audit[Len(audit)])
    BY <1>3, <1>s DEF Insert, Hands, Session
  <2>2. PICK step \in {"load", "order", "idle"} :
          /\ Goto(c, step, [w EXCEPT !.left = w.left - 1])
          /\ step = "order" => row.state = "approved"
    BY <1>3, <1>h DEF Insert
  <2>3. w.left \in 1 .. 2
    BY <1>s, <2>1 DEF Session
  <2> HIDE DEF w
  <2>4. w.left - 1 \in 0 .. 2
    BY <2>3
  <2>5. [w EXCEPT !.left = w.left - 1].seen = row
    BY <1>s, <1>h, <2>4, WorkMoves
  <2>6. /\ at'[c] = step /\ (step # "idle" => work'[c].seen = row)
        /\ \A d \in Clients \ {c} : at'[d] = "idle"
    <3>1. /\ at'[c] = step
          /\ step # "idle" => work'[c] = [w EXCEPT !.left = w.left - 1]
          /\ \A d \in Clients \ {c} : at'[d] = at[d]
      BY <2>2, Landed
    <3> QED
      BY <1>d, <2>5, <3>1
  <2>7. Hands(at[c], work[c], tail[c])'
    BY <1>c, <2>2, <2>6 DEF Hands, RowHeld
  <2>8. Inserting /\ ~Inserting'
    BY <2>1, <2>6 DEF Inserting
  <2> DEFINE e == audit[Len(audit)]
  <2>9. /\ Len(entries') = Len(entries) + 1
        /\ DOMAIN entries = 1 .. Len(entries)
        /\ DOMAIN entries' = 1 .. Len(entries')
        /\ \A i \in 1 .. Len(entries) : entries'[i] = entries[i]
        /\ entries'[Len(entries')] = e
    BY <1>l, <2>1
  <2>10. Len(audit) \in DOMAIN audit /\ LastId(audit) = e.id
    BY <1>l, <2>1 DEF LastId
  <2> HIDE DEF e
  <2>11. \A i \in 1 .. Len(entries) : entries[i].id < e.id
    BY <2>8, <2>9, <2>10 DEF SerialInv, TableInv
  <2>12. Ordered(entries')
    <3> SUFFICES ASSUME NEW i \in DOMAIN entries', NEW j \in DOMAIN entries',
                        i < j
                 PROVE  entries'[i].id < entries'[j].id
      BY DEF Ordered
    <3>1. i \in 1 .. Len(entries) /\ entries'[i] = entries[i]
      BY <1>l, <2>9
    <3>2. CASE j \in 1 .. Len(entries)
      BY <2>9, <3>1, <3>2 DEF SerialInv, TableInv, Ordered
    <3>3. CASE j = Len(entries')
      BY <2>9, <2>11, <3>1, <3>3
    <3> QED
      BY <1>l, <2>9, <3>2, <3>3
  <2>13. \A i \in DOMAIN entries' : \E j \in DOMAIN audit : audit[j] = entries'[i]
    <3> SUFFICES ASSUME NEW i \in DOMAIN entries'
                 PROVE  \E j \in DOMAIN audit : audit[j] = entries'[i]
      OBVIOUS
    <3>1. CASE i \in 1 .. Len(entries)
      BY <2>9, <3>1 DEF SerialInv, TableInv
    <3>2. CASE i = Len(entries')
      BY <2>9, <2>10, <3>2 DEF e
    <3> QED
      BY <1>l, <2>9, <3>1, <3>2
  <2>14. Len(audit) - Len(entries') - 0 \in 0 .. crashes
    <3>1. Len(audit) - Len(entries) - 1 \in 0 .. crashes
      BY <2>8 DEF SerialInv, TableInv
    <3> QED
      BY <1>l, <2>9, <3>1
  <2>15. TableInv'
    BY <1>c, <2>1, <2>8, <2>12, <2>13, <2>14 DEF SerialInv, TableInv, Ordered
  <2> QED
    BY <1>f, <2>6, <2>7, <2>15, Close
<1>4. CASE InsertLost(c)
  BY <1>d, <1>4 DEF InsertLost
<1> QED
  BY <1>1, <1>2, <1>3, <1>4

\* A build starts only when the row names no manifest, and nobody changes the
\* row before it does.
LEMMA SerialBuilds ==
    ASSUME TInv, SerialInv, NEW c \in Clients,
           \/ UseCached(c) \/ FindRun(c) \/ ArtifactsLost(c) \/ Collect(c)
           \/ WriteBundle(c) \/ WriteManifest(c) \/ RecordManifest(c)
    PROVE  SerialInv'
<1> DEFINE w == work[c]
<1> USE DEF files, database, counters
<1>s. /\ Session(at[c], w, tail[c], decision, bundle, manifest) /\ w \in Works
      /\ Hands(at[c], w, tail[c])
  BY DEF TInv, HandsTyped, SerialInv
<1>c. /\ at[c] \in {"ensure", "artifacts", "bare", "bundle", "manifest",
                   "record"}
      /\ UNCHANGED <<audit, attestation, entries, made, crashes>>
  BY DEF UseCached, FindRun, ArtifactsLost, Collect, WriteBundle,
         WriteManifest, RecordManifest
<1>d. \A d \in Clients \ {c} : at[d] = "idle"
  BY <1>c, Others
<1>h. /\ w.seen = row /\ row \in Rows
      /\ w.op = "attest" => row.state = "release_ready"
  BY <1>c, <1>s DEF Hands, RowHeld, TInv, FilesTyped
<1>a. row.manifest = None => attestation = None
  BY DEF SerialInv, SignInv
<1>t. ASSUME \A d \in Clients \ {c} : at'[d] = "idle", at'[c] # "insert"
      PROVE  TableInv'
  BY <1>c, <1>d, <1>t, TableKept
<1>1. CASE UseCached(c)
  <2>1. PICK step \in {"idle", "verify"} :
          /\ Goto(c, step, w)
          /\ step = "verify" => w.op = "attest"
    BY <1>1 DEF UseCached, Ensured
  <2>2. row.manifest # None /\ row' = row
    BY <1>1, <1>h DEF UseCached
  <2> HIDE DEF w
  <2>3. /\ at'[c] = step /\ (step # "idle" => work'[c] = w)
        /\ \A d \in Clients \ {c} : at'[d] = "idle"
    BY <1>d, <2>1, Landed
  <2>4. Hands(at[c], work[c], tail[c])'
    BY <1>h, <2>1, <2>2, <2>3 DEF Hands, RowHeld
  <2>5. BundleInv' /\ SignInv'
    BY <1>1, <2>2, FilesKept DEF UseCached
  <2> QED
    BY <1>t, <2>3, <2>4, <2>5, Close
<1>6. CASE FindRun(c)
  <2>1. row.manifest = None
    <3>1. row.manifest = None \/ bundle = None \/ manifest = None
      BY <1>6, <1>h DEF FindRun
    <3>2. row.manifest # None => bundle # None /\ manifest # None
      BY NoneAssumption DEF SerialInv, BundleInv
    <3> QED
      BY <3>1, <3>2
  <2>2. row' = row
    BY <1>6 DEF FindRun
  <2>3. PICK step \in {"artifacts", "bare"} : Goto(c, step, w)
    BY <1>6 DEF FindRun
  <2> HIDE DEF w
  <2>4. /\ at'[c] = step /\ work'[c] = w
        /\ \A d \in Clients \ {c} : at'[d] = "idle"
    BY <1>d, <2>3, Landed
  <2>5. Hands(at[c], work[c], tail[c])'
    BY <1>h, <2>1, <2>2, <2>4 DEF Hands, RowHeld
  <2>6. BundleInv' /\ SignInv'
    BY <1>6, <2>2, FilesKept DEF FindRun
  <2> QED
    BY <1>t, <2>4, <2>5, <2>6, Close
<1>7. CASE ArtifactsLost(c)
  <2>1. Goto(c, "idle", Nothing) /\ row' = row
    BY <1>7 DEF ArtifactsLost
  <2>2. at'[c] = "idle" /\ \A d \in Clients \ {c} : at'[d] = "idle"
    BY <1>d, <2>1, Landed
  <2>3. Hands(at[c], work[c], tail[c])'
    BY <2>2 DEF Hands, RowHeld
  <2>4. BundleInv' /\ SignInv'
    BY <1>7, <2>1, FilesKept DEF ArtifactsLost
  <2> QED
    BY <1>t, <2>2, <2>3, <2>4, Close
<1>2. CASE Collect(c)
  <2> DEFINE h == [release |-> CopyOf(w.seen), slice |-> audit,
                   decision |-> decision', redline |-> at[c] = "artifacts"]
  <2>1. /\ Goto(c, "bundle", [w EXCEPT !.held = h]) /\ row' = row
        /\ bundle' = bundle /\ manifest' = manifest
    BY <1>2 DEF Collect
  <2>2. row.manifest = None
    BY <1>2, <1>s DEF Collect, Hands
  <2>3. h.release = CopyOf(row)
    BY <1>h
  <2>4. h \in Bundles
    <3>1. TInv'
      BY <1>2, TypeBuilds
    <3>2. decision' \in Decisions
      <4>1. decision' = [release |-> CopyOf(w.seen), at |-> clock']
        BY <1>2 DEF Collect
      <4>2. CopyOf(w.seen) \in Releases
        BY <1>h, RowMoves
      <4> QED
        BY <3>1, <4>1, <4>2 DEF Decisions, TInv, FilesTyped
    <3> QED
      BY <1>h, <3>2, RowMoves DEF Bundles, TInv, FilesTyped
  <2> HIDE DEF h, w
  <2>5. /\ [w EXCEPT !.held = h].held = h
        /\ [w EXCEPT !.held = h].seen = row
        /\ [w EXCEPT !.held = h].op = w.op
    BY <1>s, <1>h, <2>4, WorkMoves
  <2>6. /\ at'[c] = "bundle" /\ work'[c] = [w EXCEPT !.held = h]
        /\ \A d \in Clients \ {c} : at'[d] = "idle"
    BY <1>d, <2>1, Landed
  <2>7. /\ work'[c].held = h /\ work'[c].seen = row /\ work'[c].op = w.op
    BY <2>5, <2>6
  <2>8. Hands(at[c], work[c], tail[c])'
    BY <1>h, <2>1, <2>2, <2>3, <2>6, <2>7 DEF Hands, RowHeld, CopyOf
  <2>9. BundleInv' /\ SignInv'
    BY <1>c, <1>a, <2>1, <2>2 DEF BundleInv, SignInv
  <2> QED
    BY <1>t, <2>6, <2>8, <2>9, Close
<1>3. CASE WriteBundle(c)
  <2>1. /\ Goto(c, "manifest", w) /\ row' = row /\ bundle' = w.held
        /\ row.manifest = None /\ w.held.release = CopyOf(row)
    BY <1>3, <1>s DEF WriteBundle, Hands
  <2> HIDE DEF w
  <2>2. /\ at'[c] = "manifest" /\ work'[c] = w
        /\ \A d \in Clients \ {c} : at'[d] = "idle"
    BY <1>d, <2>1, Landed
  <2>3. Hands(at[c], work[c], tail[c])'
    BY <1>h, <2>1, <2>2 DEF Hands, RowHeld, CopyOf
  <2>4. BundleInv' /\ SignInv'
    BY <1>c, <1>a, <2>1 DEF BundleInv, SignInv
  <2> QED
    BY <1>t, <2>2, <2>3, <2>4, Close
<1>4. CASE WriteManifest(c)
  <2>1. /\ row.manifest = None /\ w.held.release = CopyOf(row)
        /\ bundle = w.held /\ bundle \in Bundles /\ decision \in Decisions
    BY <1>4, <1>s DEF WriteManifest, Hands, Session
  <2>2. PICK step \in {"record", "idle"} :
          /\ manifest' = [bundle |-> bundle, audit |-> audit,
                          simulation |-> simulation, policy |-> policy,
                          decision |-> decision, run |-> bundle.redline]
          /\ Goto(c, step, [w EXCEPT !.held = manifest'])
    BY <1>4, <2>1 DEF WriteManifest
  <2>3. row' = row /\ bundle' = bundle
    BY <1>4 DEF WriteManifest
  <2>4. manifest' \in Manifests /\ manifest'.bundle = bundle
    <3>1. bundle.redline \in BOOLEAN
      BY <2>1 DEF Bundles
    <3> QED
      BY <2>1, <2>2, <3>1 DEF Manifests, TInv, FilesTyped
  <2> HIDE DEF w
  <2>5. /\ [w EXCEPT !.held = manifest'].held = manifest'
        /\ [w EXCEPT !.held = manifest'].seen = row
        /\ [w EXCEPT !.held = manifest'].op = w.op
    BY <1>s, <1>h, <2>4, WorkMoves
  <2>6. /\ at'[c] = step
        /\ step # "idle" => work'[c] = [w EXCEPT !.held = manifest']
        /\ \A d \in Clients \ {c} : at'[d] = "idle"
    BY <1>d, <2>2, Landed
  <2>7. step # "idle" =>
          work'[c].held = manifest' /\ work'[c].seen = row /\ work'[c].op = w.op
    BY <2>5, <2>6
  <2>8. Hands(at[c], work[c], tail[c])'
    BY <1>h, <2>1, <2>3, <2>4, <2>6, <2>7 DEF Hands, RowHeld, CopyOf
  <2>9. BundleInv' /\ SignInv'
    BY <1>c, <1>a, <2>1, <2>3 DEF BundleInv, SignInv
  <2> QED
    BY <1>t, <2>6, <2>8, <2>9, Close
<1>5. CASE RecordManifest(c)
  <2>1. /\ row.manifest = None /\ manifest = w.held /\ bundle = w.held.bundle
        /\ bundle \in Bundles /\ bundle.release = CopyOf(row)
        /\ w.held \in Manifests
    BY <1>5, <1>s DEF RecordManifest, Hands, Session
  <2>2. PICK step \in {"verify", "idle"} :
          Goto(c, step, w) /\ (step = "verify" => w.op = "attest")
    BY <1>5 DEF RecordManifest, Ensured
  <2>3. row' = [row EXCEPT !.manifest = manifest]
    BY <1>5, <1>h, <2>1 DEF RecordManifest
  <2>4. /\ row'.manifest = manifest /\ row'.state = row.state
        /\ row'.simulation = row.simulation /\ row'.policy = row.policy
        /\ row'.executed = row.executed
    BY <1>h, <2>3 DEF Rows
  <2>5. manifest # None
    BY <2>1, NoneAssumption
  <2> HIDE DEF w
  <2>6. /\ at'[c] = step /\ (step # "idle" => work'[c] = w)
        /\ \A d \in Clients \ {c} : at'[d] = "idle"
    BY <1>d, <2>2, Landed
  <2>7. Hands(at[c], work[c], tail[c])'
    BY <1>h, <2>2, <2>4, <2>5, <2>6 DEF Hands, RowHeld
  <2>8. bundle' = bundle /\ manifest' = manifest
    BY <1>5 DEF RecordManifest
  <2>9. BundleInv'
    BY <2>1, <2>4, <2>8 DEF BundleInv, CopyOf
  <2>10. SignInv'
    BY <1>c, <1>a, <2>1 DEF SignInv
  <2> QED
    BY <1>t, <2>6, <2>7, <2>9, <2>10, Close
<1> QED
  BY <1>1, <1>2, <1>3, <1>4, <1>5, <1>6, <1>7

\* What is verified, hashed and signed is one bundle and its manifest.
LEMMA SerialSigns ==
    ASSUME TInv, SerialInv, NEW c \in Clients,
           Verify(c) \/ HashBundle(c) \/ Sign(c)
    PROVE  SerialInv'
<1> DEFINE w == work[c]
<1> USE DEF files, database, counters
<1>s. /\ Session(at[c], w, tail[c], decision, bundle, manifest) /\ w \in Works
      /\ Hands(at[c], w, tail[c])
  BY DEF TInv, HandsTyped, SerialInv
<1>c. /\ at[c] \in {"verify", "hash", "sign"}
      /\ UNCHANGED <<row, audit, bundle, manifest, decision, entries, made,
                     crashes>>
  BY DEF Verify, HashBundle, Sign
<1>d. \A d \in Clients \ {c} : at[d] = "idle"
  BY <1>c, Others
<1>h. row.manifest # None /\ row.state = "release_ready"
  BY <1>c, <1>s DEF Hands
<1>t. ASSUME \A d \in Clients \ {c} : at'[d] = "idle", at'[c] # "insert"
      PROVE  TableInv'
  BY <1>c, <1>d, <1>t, TableKept
<1>1. CASE Verify(c)
  <2>1. PICK step \in {"idle", "hash"} :
          Goto(c, step, w) /\ (step = "hash" => BundleVerifies)
    BY <1>1 DEF Verify
  <2>2. step = "hash" =>
          manifest.decision = decision /\ row.executed /\ bundle.redline
    BY <1>h, <2>1
    DEF BundleVerifies, FilesAsListed, ChainLinks, SerialInv, BundleInv
  <2> HIDE DEF w
  <2>3. /\ at'[c] = step /\ \A d \in Clients \ {c} : at'[d] = "idle"
    BY <1>d, <2>1, Landed
  <2>4. Hands(at[c], work[c], tail[c])'
    BY <1>c, <1>h, <2>2, <2>3 DEF Hands, RowHeld
  <2>5. BundleInv' /\ SignInv'
    BY <1>1, <1>c, FilesKept DEF Verify
  <2> QED
    BY <1>t, <2>3, <2>4, <2>5, Close
<1>2. CASE HashBundle(c)
  <2>1. /\ Goto(c, "sign", [w EXCEPT !.held = bundle])
        /\ manifest.decision = decision /\ row.executed /\ bundle \in Bundles
        /\ bundle.redline
    BY <1>2, <1>s DEF HashBundle, Hands, Session
  <2> HIDE DEF w
  <2>2. [w EXCEPT !.held = bundle].held = bundle
    BY <1>s, <2>1, WorkMoves
  <2>3. /\ at'[c] = "sign" /\ work'[c] = [w EXCEPT !.held = bundle]
        /\ \A d \in Clients \ {c} : at'[d] = "idle"
    BY <1>d, <2>1, Landed
  <2>4. work'[c].held = bundle
    BY <2>2, <2>3
  <2>5. Hands(at[c], work[c], tail[c])'
    BY <1>c, <1>h, <2>1, <2>3, <2>4 DEF Hands, RowHeld
  <2>6. BundleInv' /\ SignInv'
    BY <1>2, <1>c, FilesKept DEF HashBundle
  <2> QED
    BY <1>t, <2>3, <2>5, <2>6, Close
<1>3. CASE Sign(c)
  <2>1. /\ Goto(c, "idle", Nothing)
        /\ attestation' = [bundle |-> bundle, manifest |-> manifest]
        /\ manifest.decision = decision /\ row.executed /\ bundle.redline
    BY <1>3, <1>s DEF Sign, Hands
  <2>2. at'[c] = "idle" /\ \A d \in Clients \ {c} : at'[d] = "idle"
    BY <1>d, <2>1, Landed
  <2>3. Hands(at[c], work[c], tail[c])'
    BY <2>2 DEF Hands, RowHeld
  <2>4. BundleInv'
    BY <1>c DEF SerialInv, BundleInv
  <2>5. SignInv'
    BY <1>c, <1>h, <2>1 DEF SignInv
  <2> QED
    BY <1>t, <2>2, <2>3, <2>4, <2>5, Close
<1> QED
  BY <1>1, <1>2, <1>3

\* A stop leaves what is on disk; an entry that was on its way is lost.
LEMMA SerialCrash ==
    ASSUME TInv, SerialInv, Crash PROVE SerialInv'
<1>1. /\ UNCHANGED <<files, database, made>> /\ crashes' = crashes + 1
      /\ at' = [c \in Clients |-> "idle"]
  BY DEF Crash
<1>2. \A c \in Clients : Hands(at[c], work[c], tail[c])'
  BY <1>1 DEF Hands, RowHeld
<1>3. Alone' /\ ~Inserting'
  BY <1>1 DEF Alone, Inserting
<1>4. BundleInv' /\ SignInv'
  BY <1>1 DEF SerialInv, BundleInv, SignInv, files, database
<1>5. Len(audit') - Len(entries') - 0 \in 0 .. crashes'
  <2>1. /\ Len(audit) \in Nat /\ Len(entries) \in Nat /\ crashes \in Nat
    BY BoundsAssumption DEF TInv, FilesTyped, Ledgers
  <2>2. Len(audit) - Len(entries) - (IF Inserting THEN 1 ELSE 0) \in 0 .. crashes
    BY DEF SerialInv, TableInv
  <2> QED
    BY <1>1, <2>1, <2>2 DEF files, database
<1>6. TableInv'
  BY <1>1, <1>3, <1>5 DEF SerialInv, TableInv, Ordered, files, database
<1> QED
  BY <1>2, <1>3, <1>4, <1>6 DEF SerialInv

LEMMA SerialStep ==
    ASSUME TInv, overlaps = 0 => SerialInv, [Next]_vars
    PROVE  overlaps' = 0 => SerialInv'
<1> SUFFICES ASSUME overlaps' = 0 PROVE SerialInv'
  OBVIOUS
<1> USE DEF files, database, counters
<1>1. CASE UNCHANGED vars
  BY <1>1 DEF vars, SerialInv, Alone, BundleInv, SignInv, TableInv, Ordered,
              Inserting, LastId, Hands, CopyOf
<1>2. CASE Crash
  BY <1>2, SerialCrash DEF Crash
<1>3. ASSUME NEW c \in Clients,
             \/ Import(c) \/ BindPolicy(c) \/ Approve(c) \/ Kill(c)
             \/ Execute(c) \/ Showcase(c) \/ GetEvidence(c) \/ Attest(c)
             \/ GetAttestation(c)
      PROVE  SerialInv'
  <2>1. overlaps \in Nat
    BY BoundsAssumption DEF TInv, FilesTyped
  <2>2. IF Idle THEN overlaps' = overlaps ELSE overlaps' = overlaps + 1
    BY <1>3 DEF Import, BindPolicy, Approve, Kill, Execute, Showcase,
                GetEvidence, Attest, GetAttestation, Receive
  <2>3. Idle /\ overlaps = 0
    BY <2>1, <2>2
  <2> QED
    BY <1>3, <2>3, SerialReceives
<1>4. ASSUME NEW c \in Clients,
             \/ Overwrite(c) \/ Rebind(c) \/ Update(c) \/ Order(c) \/ Load(c)
             \/ AppendEntry(c) \/ Insert(c) \/ InsertLost(c)
             \/ UseCached(c) \/ FindRun(c) \/ ArtifactsLost(c) \/ Collect(c)
             \/ WriteBundle(c) \/ WriteManifest(c) \/ RecordManifest(c)
             \/ Verify(c) \/ HashBundle(c) \/ Sign(c)
      PROVE  SerialInv'
  <2>1. overlaps' = overlaps
    BY <1>4 DEF Overwrite, Rebind, Update, Order, Load, AppendEntry, Insert,
                InsertLost, UseCached, FindRun, ArtifactsLost, Collect,
                WriteBundle, WriteManifest, RecordManifest, Verify,
                HashBundle, Sign
  <2> QED
    BY <1>4, <2>1, SerialRows, SerialAppends, SerialBuilds, SerialSigns
<1>5. CASE PruneRow \/ PruneDirectory
  BY <1>5 DEF PruneRow, PruneDirectory, SerialInv, Alone, BundleInv, SignInv,
              TableInv, Ordered, Inserting, LastId, Hands, CopyOf
<1> QED
  BY <1>1, <1>2, <1>3, <1>4, <1>5 DEF Next, Serve

LEMMA SerialInit == Init => (overlaps = 0 => SerialInv)
<1> SUFFICES ASSUME Init PROVE SerialInv
  OBVIOUS
<1>1. \A c \in Clients : at[c] = "idle"
  BY DEF Init
<1>2. \A c \in Clients : Hands(at[c], work[c], tail[c])
  BY <1>1 DEF Hands, RowHeld
<1>3. Alone /\ ~Inserting
  BY <1>1 DEF Alone, Inserting
<1>4. row.manifest = None /\ attestation = None
  BY DEF Init
<1>5. BundleInv /\ SignInv
  BY <1>4 DEF BundleInv, SignInv
<1>6. /\ Len(audit) = 1 /\ audit[1].id = 1 /\ entries = audit
      /\ made = 1 /\ crashes = 0 /\ DOMAIN audit = {1}
  BY DEF Init
<1>7. TableInv
  BY <1>3, <1>6 DEF TableInv, Ordered
<1> QED
  BY <1>2, <1>3, <1>5, <1>7 DEF SerialInv

\* The invariant of requests that do not overlap; once two did, nothing more is
\* said.
THEOREM SerialInductive == Spec => [](TInv /\ (overlaps = 0 => SerialInv))
<1>1. TInv /\ [Next]_vars => TInv'
  BY TypeStep
<1>2. TInv /\ (overlaps = 0 => SerialInv) /\ [Next]_vars
        => (overlaps = 0 => SerialInv)'
  BY SerialStep
<1> QED
  BY <1>1, <1>2, TypeInit, SerialInit, PTL DEF Spec

\* As long as requests do not overlap: the table of audit entries, from which
\* the trail is served, lacks nothing of the ledger file but what a stop
\* took, and has it in the file's order (TableFollowsLedger).
THEOREM TableKeepsUp == Spec => []TableFollowsLedger
<1>1. (overlaps = 0 => SerialInv) => TableFollowsLedger
  <2> SUFFICES ASSUME SerialInv PROVE
        /\ \A i, j \in DOMAIN entries : i < j => entries[i].id < entries[j].id
        /\ \A i \in DOMAIN entries :
             \E j \in DOMAIN audit : audit[j] = entries[i]
        /\ Idle => Len(audit) - Len(entries) - 0 \in 0 .. crashes
    BY DEF TableFollowsLedger
  <2>1. Idle => ~Inserting
    BY DEF Idle, Inserting
  <2> QED
    BY <2>1 DEF SerialInv, TableInv, Ordered
<1> QED
  BY <1>1, SerialInductive, PTL

\* What the row names can be served, and is about what the release rests on
\* now: no change of evidence leaves it behind (BundleTellsTheEvidence).
THEOREM BundlesAreCurrent == Spec => []BundleTellsTheEvidence
<1>1. (overlaps = 0 => SerialInv) => BundleTellsTheEvidence
  BY DEF BundleTellsTheEvidence, SerialInv, BundleInv
<1> QED
  BY <1>1, SerialInductive, PTL

\* An attestation is of the bundle and the manifest on disk, and verifies
\* until an event is appended, the evidence or the policy file replaced by a
\* refused request, or the run pruned (SignedStaysOnDisk).
THEOREM SignedBundlesStay == Spec => []SignedStaysOnDisk
<1>1. ASSUME SerialInv, AuditIsAChain, attestation # None
      PROVE  /\ AttestationMatches
             /\ \/ ChainVerifies
                \/ audit # manifest.audit
                \/ simulation # manifest.simulation
                \/ policy # manifest.policy
                \/ run = "gone"
  <2>1. /\ row.manifest # None /\ row.executed
        /\ attestation.bundle = bundle /\ attestation.manifest = manifest
        /\ manifest.decision = decision /\ bundle.redline
    BY <1>1 DEF SerialInv, SignInv
  <2>2. /\ manifest = row.manifest /\ manifest.bundle = bundle
        /\ bundle \in Bundles /\ bundle.release.executed
    BY <1>1, <2>1 DEF SerialInv, BundleInv
  <2>3. bundle # None /\ manifest # None
    BY <2>1, <2>2, NoneAssumption
  <2>4. AttestationMatches
    BY <2>1 DEF AttestationMatches
  <2>5. ASSUME audit = manifest.audit, simulation = manifest.simulation,
               policy = manifest.policy, run # "gone"
        PROVE  ChainVerifies
    <3>1. FilesAsListed
      BY <2>1, <2>2, <2>5 DEF FilesAsListed
    <3>2. ExecutionVerifies /\ ChainLinks
      BY <2>1, <2>2, <2>5 DEF ExecutionVerifies, ChainLinks
    <3>3. BundleVerifies
      BY <1>1, <2>3, <3>1, <3>2 DEF BundleVerifies, AuditIsAChain
    <3> QED
      BY <1>1, <2>3, <2>4, <3>3
      DEF ChainVerifies, BundleStatus, AttestationStatus
  <2> QED
    BY <2>4, <2>5
<1>2. (overlaps = 0 => SerialInv) /\ AuditIsAChain => SignedStaysOnDisk
  BY <1>1 DEF SignedStaysOnDisk
<1> QED
  BY <1>2, SerialInductive, AuditStaysAChain, PTL

=============================================================================
