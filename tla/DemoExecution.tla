---------------------------- MODULE DemoExecution ----------------------------
(***************************************************************************)
(* The demo order of one run: _execute_bitget_demo_order and the Bitget    *)
(* adapter it drives, against an exchange that may lose, delay or refuse   *)
(* what it is sent, and a process that may stop between any two files.     *)
(*                                                                         *)
(* The run passed and verifies: a request whose verification fails ends    *)
(* before the lock and touches nothing.  The files are those of the run's  *)
(* directory; each is replaced atomically.  make_client_oid hashes receipt *)
(* and intent, so within one run a client order id is an order intent.     *)
(***************************************************************************)
EXTENDS Naturals, Sequences, OrderRequests

CONSTANTS
    Oids,        \* client order ids, one per intent that may be asked for
    Approvals,   \* approval record hashes
    Unapproved,  \* UNAPPROVED_APPROVAL_HASH, of POST /runs/{id}/execute
    MaxRetries   \* max_retries of the adapter

ASSUME RetriesAssumption == MaxRetries \in Nat
ASSUME NoneIsNoOrder ==
    /\ Unapproved \notin Approvals
    /\ None \notin Threads
    /\ None \notin [oid: Oids, by: Approvals \cup {Unapproved}]
    /\ None \notin [oid: Oids, ok: BOOLEAN]

VARIABLES
    taken,      \* client order ids the exchange has an order for
    wire,       \* orders given up as lost that may still reach the exchange
    preflight,  \* exchange-preflight-evidence.json, or None
    ledger,     \* execution-ledger.jsonl
    evidence,   \* execution-evidence.json, or None
    status,     \* order-status-evidence.json: None, "known" or "unknown"
    lock,       \* holder of service.execution_lock, or None
    step,       \* step[t]: next step of thread t
    ask,        \* ask[t]: the order last asked for, and on whose approval
    tries,      \* tries[t]: retries spent
    answer,     \* answer[t]: what thread t last answered
    closing     \* service.closing

files == <<preflight, ledger, evidence, status>>
exchange == <<taken, wire>>
demoVars == <<taken, wire, preflight, ledger, evidence, status,
          lock, step, ask, tries, answer, closing>>

Entries == [oid: Oids, by: Approvals \cup {Unapproved}]
Steps == {"idle", "enter", "preflight", "send", "recover", "ledger",
          "evidence", "status"}
Answers == {"none", "placed", "already_placed", "rejected", "reconcile",
            "blocked"}

TypeOK ==
    /\ taken \subseteq Oids
    /\ wire \subseteq Oids
    /\ preflight \in [oid: Oids, ok: BOOLEAN] \cup {None}
    /\ ledger \in Seq(Entries)
    /\ evidence \in Entries \cup {None}
    /\ status \in {"none", "known", "unknown"}
    /\ lock \in Threads \cup {None}
    /\ step \in [Threads -> Steps]
    /\ ask \in [Threads -> Entries]
    /\ tries \in [Threads -> 0 .. MaxRetries]
    /\ answer \in [Threads -> Answers]
    /\ closing \in BOOLEAN

DemoInit ==
    /\ taken = {} /\ wire = {}
    /\ preflight = None /\ ledger = <<>> /\ evidence = None
    /\ status = "none"
    /\ lock = None
    /\ step = [t \in Threads |-> "idle"]
    /\ ask \in [Threads -> Entries]
    /\ tries = [t \in Threads |-> 0]
    /\ answer = [t \in Threads |-> "none"]
    /\ closing = FALSE

-----------------------------------------------------------------------------
\* The thread that holds the lock goes on.
Goto(t, s) ==
    /\ step' = [step EXCEPT ![t] = s]
    /\ UNCHANGED <<lock, answer>>

\* The request of t is answered; leaving the with block frees the lock.
Reply(t, a) ==
    /\ step' = [step EXCEPT ![t] = "idle"]
    /\ answer' = [answer EXCEPT ![t] = a]
    /\ lock' = None

Ask(t) ==
    /\ step[t] = "idle"
    /\ step' = [step EXCEPT ![t] = "enter"]
    /\ ask' \in [Threads -> Entries]
    /\ \A u \in Threads \ {t} : ask'[u] = ask[u]
    /\ answer' = [answer EXCEPT ![t] = "none"]
    /\ UNCHANGED <<exchange, files, lock, tries, closing>>

\* execution_ledger_has_order
LedgerHas(e) == \E i \in DOMAIN ledger : ledger[i].oid = e.oid

\* Mutant: existing evidence answers whoever asks for its order.
AnswerFromEvidenceForAnyone(e) ==
    CASE evidence.oid # e.oid -> "blocked"
      [] status = "unknown" -> "reconcile"
      [] OTHER -> "already_placed"

\* The answer to e when the run has evidence already.
AnswerFromEvidence(e) ==
    CASE \/ evidence.oid # e.oid
         \/ e.by # Unapproved /\ evidence.by # e.by -> "blocked"
      [] status = "unknown" -> "reconcile"
      [] OTHER -> "already_placed"

\* Take the lock and look at what the run has: evidence answers at once; an
\* entry in the ledger without evidence blocks.
Enter(t) ==
    /\ step[t] = "enter"
    /\ lock = None
    /\ IF evidence # None
       THEN Reply(t, AnswerFromEvidence(ask[t]))
       ELSE IF LedgerHas(ask[t])
       THEN Reply(t, "blocked")
       ELSE /\ lock' = t
            /\ step' = [step EXCEPT ![t] = "preflight"]
            /\ answer' = answer
    /\ UNCHANGED <<exchange, files, ask, tries, closing>>

\* Mutant: the file of an earlier preflight is replaced.
KeepPreflightLatest(oid, ok) == preflight' = [oid |-> oid, ok |-> ok]

\* write_exchange_preflight_evidence: the first file of an order stays.
KeepPreflight(oid, ok) ==
    preflight' = IF preflight = None THEN [oid |-> oid, ok |-> ok]
                 ELSE preflight

\* The exchange is read, the outcome of the checks written, then acted upon.
\* A file left by another order blocks for good.
Preflight(t) ==
    /\ step[t] = "preflight"
    /\ \/ Reply(t, "blocked") /\ preflight' = preflight   \* reads failed
       \/ \E ok \in BOOLEAN :
            /\ KeepPreflight(ask[t].oid, ok)
            /\ IF preflight'.oid = ask[t].oid /\ ok
               THEN Goto(t, "send")
               ELSE Reply(t, "blocked")
    /\ tries' = [tries EXCEPT ![t] = 0]
    /\ UNCHANGED <<exchange, ledger, evidence, status, ask, closing>>

-----------------------------------------------------------------------------
(* Placing the order.                                                      *)

\* The exchange gets the order: it has at most one per client order id.
Takes(oid) == taken' = taken \cup {oid} /\ wire' = wire

Loses(oid) == UNCHANGED exchange

\* Nobody has the order now, but it may arrive later.
Delays(oid) == taken' = taken /\ wire' = wire \cup {oid}

\* Mutant: the retry counter starts again when it is used up.
RetryForever(t) ==
    /\ Goto(t, "send")
    /\ tries' = [tries EXCEPT ![t] = IF @ < MaxRetries THEN @ + 1 ELSE 0]

\* A 5xx answer is retried, the last one is an answer like any other.
Retry(t) ==
    IF tries[t] < MaxRetries
    THEN /\ Goto(t, "send")
         /\ tries' = [tries EXCEPT ![t] = @ + 1]
    ELSE /\ Reply(t, "rejected")
         /\ tries' = tries

\* One attempt of _send, and what place_order makes of the response.
Send(t) ==
    /\ step[t] = "send"
    /\ LET oid == ask[t].oid IN
       \/ /\ closing                               \* cancelled
          /\ Reply(t, "blocked")
          /\ UNCHANGED <<exchange, tries>>
       \/ /\ ~closing
          /\ \/ /\ oid \notin taken               \* placed
                /\ Takes(oid)
                /\ Goto(t, "ledger") /\ tries' = tries
             \/ /\ oid \notin taken               \* placed, answer unusable
                /\ Takes(oid)
                /\ Reply(t, "blocked") /\ tries' = tries
             \/ /\ oid \in taken                  \* duplicate clientOid
                /\ UNCHANGED exchange
                /\ Goto(t, "recover") /\ tries' = tries
             \/ /\ Loses(oid) \/ Delays(oid) \/ Takes(oid)   \* no answer
                /\ Goto(t, "recover") /\ tries' = tries
             \/ /\ Loses(oid) \/ Takes(oid)        \* 5xx
                /\ Retry(t)
             \/ /\ Loses(oid)                      \* refused
                /\ Reply(t, "rejected") /\ tries' = tries
    /\ UNCHANGED <<files, ask, closing>>

\* Mutant: an order whose query fails counts as placed.
RecoverUnchecked(t) ==
    /\ step[t] = "recover"
    /\ Goto(t, "ledger")
    /\ UNCHANGED <<exchange, files, ask, tries, closing>>

\* query_order_status by clientOid decides; the query may fail as well.
Recover(t) ==
    /\ step[t] = "recover"
    /\ \/ ask[t].oid \in taken /\ Goto(t, "ledger")
       \/ Reply(t, "reconcile")
    /\ UNCHANGED <<exchange, files, ask, tries, closing>>

\* A delayed order reaches the exchange.
Arrive ==
    /\ \E oid \in wire : taken' = taken \cup {oid} /\ wire' = wire \ {oid}
    /\ UNCHANGED <<files, lock, step, ask, tries, answer, closing>>

-----------------------------------------------------------------------------
(* Recording it: ledger, evidence, status, in this order.                  *)

\* The link to the issuance ledger is resolved only now and may be missing.
WriteLedger(t) ==
    /\ step[t] = "ledger"
    /\ \/ Reply(t, "blocked") /\ ledger' = ledger
       \/ /\ evidence = None /\ ~LedgerHas(ask[t])
          /\ ledger' = Append(ledger, ask[t])
          /\ Goto(t, "evidence")
    /\ UNCHANGED <<exchange, preflight, evidence, status, ask, tries, closing>>

WriteEvidence(t) ==
    /\ step[t] = "evidence"
    /\ evidence' = ask[t]
    /\ Goto(t, "status")
    /\ UNCHANGED <<exchange, preflight, ledger, status, ask, tries, closing>>

\* write_order_status_evidence: as with the preflight, the first file stays.
KeepStatus(s) == status' = IF status = "none" THEN s ELSE status

\* The order-detail query after placement is best effort: without an answer
\* the status is unknown_reconciliation_required, and stays so.
WriteStatus(t) ==
    /\ step[t] = "status"
    /\ \/ KeepStatus("known") /\ Reply(t, "placed")
       \/ KeepStatus("unknown") /\ Reply(t, "reconcile")
    /\ UNCHANGED <<exchange, preflight, ledger, evidence, ask, tries, closing>>

-----------------------------------------------------------------------------
\* RedlineService.close
Close ==
    /\ ~closing
    /\ closing' = TRUE
    /\ UNCHANGED <<exchange, files, lock, step, ask, tries, answer>>

\* The process stops, in whatever step its threads are, and is started again.
Reboot ==
    /\ closing' = FALSE
    /\ lock' = None
    /\ step' = [t \in Threads |-> "idle"]
    /\ answer' = [t \in Threads |-> "none"]
    /\ UNCHANGED <<exchange, files, ask, tries>>

\* _execution_entry_mismatches finds none: run and receipt are fixed here.
EntryMatches(entry) == entry.oid = evidence.oid /\ entry.by = evidence.by

\* verify_execution_evidence_file, of a reader at any time: the evidence is
\* there, and its entry in the execution ledger says the same.
ExecutionVerifies ==
    evidence # None /\ \E i \in DOMAIN ledger : EntryMatches(ledger[i])

\* What the thread that holds the lock does.
Work(t) ==
    \/ Preflight(t) \/ Send(t) \/ Recover(t)
    \/ WriteLedger(t) \/ WriteEvidence(t) \/ WriteStatus(t)

DemoNext ==
    \/ \E t \in Threads : Ask(t) \/ Enter(t) \/ Work(t)
    \/ Arrive \/ Close \/ Reboot

DemoSpec == DemoInit /\ [][DemoNext]_demoVars

\* A thread that runs is scheduled: the transport has a timeout.
Fairness == \A t \in Threads : WF_demoVars(Work(t))

FairSpec == DemoSpec /\ Fairness


-----------------------------------------------------------------------------
(***************************************************************************)
(* Properties.                                                             *)
(***************************************************************************)

\* A run has at most one exchange order, whatever intents are asked for,
\* whatever is lost, repeated or late, wherever the process stops.  The
\* deterministic client order id stops a repetition of the same intent, the
\* preflight file, written before the first attempt, one of another intent.
OneOrderPerRun == \A a, b \in taken \cup wire : a = b

\* What the files of a run prove to somebody who was not there, and that it is
\* so, wherever the process stopped and however often requests are repeated:
\* the ledger has one entry at most, evidence verifies against it, and the
\* exchange has the order it is of.
EvidenceIsTrue ==
    /\ Len(ledger) <= 1
    /\ evidence # None => ExecutionVerifies /\ evidence.oid \in taken

\* Who is told that the order stands asked for exactly that order, and if it
\* was under an approval, the order was placed under that approval.
AnswersAreBacked ==
    \A t \in Threads : answer[t] \in {"placed", "already_placed"} =>
        /\ evidence # None
        /\ evidence.oid = ask[t].oid
        /\ ask[t].by \in {Unapproved, evidence.by}

\* The lock is never kept: neither retries nor errors hold up the next order.
LockIsReleased == \A t \in Threads : lock = t ~> lock # t

\* Why OneOrderPerRun holds, as an inductive invariant: no order without the
\* preflight file, and who is past the preflight owns that file and the lock.
SentOids == taken \cup wire
PastPreflight == {"send", "recover", "ledger", "evidence", "status"}

OrderInv ==
    /\ TypeOK
    /\ \A oid \in SentOids : preflight # None /\ preflight.oid = oid
    /\ \A t \in Threads : step[t] \in PastPreflight =>
         preflight # None /\ preflight.oid = ask[t].oid

\* And EvidenceIsTrue: one thread works, and each file is preceded by the next.
RecordInv ==
    /\ \A t \in Threads : step[t] \notin {"idle", "enter"} =>
         lock = t /\ (step[t] # "status" => evidence = None)
    /\ \A t \in Threads :
         /\ step[t] \in {"ledger", "evidence"} => ask[t].oid \in taken
         /\ step[t] \in {"preflight", "send", "recover"} => ~LedgerHas(ask[t])
         /\ step[t] = "evidence" => ledger = <<ask[t]>>
         /\ step[t] = "status" => evidence = ask[t]
    /\ \A i \in DOMAIN ledger : ledger[i].oid \in taken
    /\ evidence # None => ledger = <<evidence>>
    /\ Len(ledger) <= 1
    /\ AnswersAreBacked

IInv == OrderInv /\ RecordInv

=============================================================================
