---------------------------- MODULE IssuanceProofs ----------------------------
(***************************************************************************)
(* Theorems about Issuance: its invariant, that verified verdicts are the  *)
(* first ones, and that directories implement the registry.                *)
(***************************************************************************)
EXTENDS Issuance, TLAPS

-----------------------------------------------------------------------------
(* Types.                                                                  *)

LEMMA Bounds == MaxBegun \in Nat /\ MaxFaults \in Nat
BY ReceiptAssumption

LEMMA Countable ==
    ASSUME NEW m \in Nat, NEW n \in 0 .. m, n < m
    PROVE  n + 1 \in 0 .. m
OBVIOUS

LEMMA GotoTypes ==
    ASSUME TypeOK, NEW p \in Runs, NEW s \in Steps, Goto(p, s)
    PROVE  /\ at' \in [Runs -> Steps]
           /\ dir' \in [Runs -> Dirs \cup {None}]
           /\ base' \in [Runs -> Dirs \cup {None}]
           /\ work' \in [Runs -> Verdicts \cup {None}]
           /\ tail' \in [Runs -> Nat]
BY DEF TypeOK, Goto

LEMMA StopTypes ==
    ASSUME TypeOK, NEW p \in Runs, Stop(p)
    PROVE  /\ at' \in [Runs -> Steps]
           /\ dir' \in [Runs -> Dirs \cup {None}]
           /\ base' \in [Runs -> Dirs \cup {None}]
           /\ work' \in [Runs -> Verdicts \cup {None}]
           /\ tail' \in [Runs -> Nat]
BY DEF TypeOK, Stop, Steps

LEMMA TypeStep == TypeOK /\ WorkInv /\ [Next]_vars => TypeOK'
<1> SUFFICES ASSUME TypeOK, WorkInv, [Next]_vars PROVE TypeOK'
    OBVIOUS
<1>1. CASE UNCHANGED vars
    BY <1>1 DEF TypeOK, vars, files, process, history, count
<1>2. ASSUME NEW p \in Runs, Run(p) PROVE TypeOK'
    <2>1. CASE Begin(p)
        <3>1. PICK d \in Dirs, b \in Dirs \cup {None} :
                 /\ dir' = [dir EXCEPT ![p] = d]
                 /\ base' = [base EXCEPT ![p] = b]
                 /\ work' = [work EXCEPT ![p] = IF b = None THEN None
                                                ELSE IF receipt[b] = None
                                                THEN Rejected ELSE receipt[b]]
                 /\ shared' \in {shared, shared \cup {d}}
            BY <2>1 DEF Begin
        <3>2. /\ work' \in [Runs -> Verdicts \cup {None}]
              /\ dir' \in [Runs -> Dirs \cup {None}]
              /\ base' \in [Runs -> Dirs \cup {None}]
              /\ shared' \subseteq Dirs
            BY <3>1 DEF TypeOK, Verdicts
        <3>3. at' \in [Runs -> Steps] /\ begun' \in 0 .. MaxBegun
            <4>1. begun \in 0 .. MaxBegun /\ begun < MaxBegun /\ begun' = begun + 1
                BY <2>1 DEF Begin, TypeOK
            <4>2. at' \in [Runs -> Steps]
                BY <2>1 DEF Begin, TypeOK, Steps
            <4> QED
                BY <4>1, <4>2, Bounds, Countable
        <3> QED
            BY <2>1, <3>2, <3>3 DEF Begin, TypeOK, files
    <2>2. CASE Judge(p)
        BY <2>2 DEF Judge, TypeOK, files, history, count, Steps
    <2>3. CASE Check(p)
        BY <2>3, GotoTypes, StopTypes
        DEF Check, TypeOK, files, history, count, Steps
    <2>4. CASE Clear(p)
        BY <2>4, GotoTypes DEF Clear, TypeOK, history, count, Steps
    <2>5. CASE ClearRest(p)
        BY <2>5, GotoTypes DEF ClearRest, TypeOK, history, count, Steps
    <2>6. CASE WriteReport(p)
        BY <2>6, GotoTypes DEF WriteReport, TypeOK, history, count, Steps
    <2>7. CASE WriteProofs(p)
        <3>1. work[p] \in Verdicts
            BY <2>7 DEF WriteProofs, WorkInv
        <3> QED
            BY <2>7, <3>1, GotoTypes, StopTypes
            DEF WriteProofs, TypeOK, history, count, Steps
    <2>8. CASE Recheck(p)
        BY <2>8, GotoTypes, StopTypes
        DEF Recheck, TypeOK, files, history, count, Steps
    <2>9. CASE WriteReceipt(p)
        <3>1. work[p] \in Receipts
            BY <2>9 DEF WriteReceipt, WorkInv
        <3> QED
            BY <2>9, <3>1, GotoTypes DEF WriteReceipt, TypeOK, history, count, Steps
    <2>10. CASE ReadTail(p)
        <3>1. dir[p] \in Dirs
            BY <2>10 DEF ReadTail, WorkInv
        <3>2. Len(ledger[dir[p]]) \in Nat
            BY <3>1 DEF TypeOK
        <3> QED
            BY <2>10, <3>2, GotoTypes
            DEF ReadTail, TypeOK, files, history, count, Steps
    <2>11. CASE AppendLedger(p)
        <3>1. work[p] \in Receipts /\ dir[p] \in Dirs
            BY <2>11 DEF AppendLedger, WorkInv
        <3>2. [receipt |-> work[p], after |-> tail[p]] \in Entries
            BY <3>1 DEF TypeOK, Entries
        <3>3. ledger' \in [Dirs -> Seq(Entries)]
            <4>1. ledger[dir[p]] \in Seq(Entries)
                BY <3>1 DEF TypeOK
            <4>2. Append(ledger[dir[p]], [receipt |-> work[p], after |-> tail[p]])
                    \in Seq(Entries)
                BY <3>2, <4>1
            <4>3. \/ ledger' = ledger
                  \/ ledger' = [ledger EXCEPT ![dir[p]] = Append(
                        ledger[dir[p]], [receipt |-> work[p], after |-> tail[p]])]
                BY <2>11 DEF AppendLedger
            <4>4. ledger \in [Dirs -> Seq(Entries)]
                BY DEF TypeOK
            <4> QED
                BY <3>1, <4>2, <4>3, <4>4
        <3>4. verdict' \in [Dirs -> [Candidates -> Receipts \cup {None}]]
            <4> DEFINE c == work[p].candidate
            <4>1. c \in Candidates
                BY <3>1, ReceiptAssumption
            <4>2. verdict' = verdict
                  \/ verdict' = [verdict EXCEPT ![dir[p]][c] = work[p]]
                BY <2>11 DEF AppendLedger
            <4>3. verdict \in [Dirs -> [Candidates -> Receipts \cup {None}]]
                BY DEF TypeOK
            <4>4. [verdict[dir[p]] EXCEPT ![c] = work[p]]
                    \in [Candidates -> Receipts \cup {None}]
                BY <3>1, <4>1, <4>3
            <4> QED
                BY <3>1, <4>2, <4>3, <4>4
        <3> QED
            BY <2>11, <3>3, <3>4, GotoTypes DEF AppendLedger, TypeOK, count, Steps
    <2>12. CASE WriteCheckpoint(p)
        <3>1. /\ at' \in [Runs -> Steps]
              /\ dir' \in [Runs -> Dirs \cup {None}]
              /\ base' \in [Runs -> Dirs \cup {None}]
              /\ work' \in [Runs -> Verdicts \cup {None}]
              /\ tail' \in [Runs -> Nat]
            BY <2>12, GotoTypes, StopTypes DEF WriteCheckpoint, Steps
        <3>2. ledger[dir[p]] \in Seq(Entries) \/ ~Readable(dir[p])
            BY <2>12 DEF TypeOK, WorkInv, WriteCheckpoint, Readable
        <3>3. checkpoint' \in [Dirs -> Seq(Entries) \cup {None}]
            <4>1. CASE Readable(dir[p])
                <5>1. checkpoint' = [checkpoint EXCEPT
                                        ![dir[p]] = ledger[dir[p]]]
                    BY <2>12, <4>1 DEF WriteCheckpoint
                <5> QED
                    BY <3>2, <4>1, <5>1 DEF TypeOK
            <4>2. CASE ~Readable(dir[p])
                BY <2>12, <4>2 DEF WriteCheckpoint, TypeOK
            <4> QED
                BY <4>1, <4>2
        <3> QED
            BY <2>12, <3>1, <3>3 DEF WriteCheckpoint, TypeOK, history, count
    <2>13. CASE Unlink(p)
        BY <2>13, StopTypes DEF Unlink, TypeOK, history, count
    <2>14. CASE Raise(p)
        <3>1. dir[p] \in Dirs
            BY <2>14 DEF Raise, WorkInv
        <3>2. torn' \subseteq Dirs
            BY <2>14, <3>1 DEF Raise, Tear, TypeOK
        <3>3. faults \in 0 .. MaxFaults /\ faults < MaxFaults /\ faults' = faults + 1
            BY <2>14 DEF Raise, TypeOK
        <3>4. faults' \in 0 .. MaxFaults
            BY <3>3, Bounds, Countable
        <3> QED
            BY <2>14, <3>2, <3>4, GotoTypes, StopTypes DEF Raise, Tear, TypeOK, history, Steps
    <2>15. CASE Crash(p)
        <3>1. dir[p] \in Dirs
            BY <2>15 DEF Crash, WorkInv
        <3>2. torn' \subseteq Dirs
            BY <2>15, <3>1 DEF Crash, Tear, TypeOK
        <3>3. faults \in 0 .. MaxFaults /\ faults < MaxFaults /\ faults' = faults + 1
            BY <2>15 DEF Crash, TypeOK
        <3>4. faults' \in 0 .. MaxFaults
            BY <3>3, Bounds, Countable
        <3> QED
            BY <2>15, <3>2, <3>4, StopTypes DEF Crash, Tear, TypeOK, history
    <2> QED
        BY <1>2, <2>1, <2>2, <2>3, <2>4, <2>5, <2>6, <2>7, <2>8, <2>9, <2>10,
           <2>11, <2>12, <2>13, <2>14, <2>15 DEF Run
<1>3. ASSUME NEW d \in Dirs, Sign(d) PROVE TypeOK'
    BY <1>3 DEF Sign, TypeOK, files, process, history, count
<1>4. ASSUME NEW d \in Dirs, Attach(d) PROVE TypeOK'
    BY <1>4 DEF Attach, TypeOK, process, history, count
<1> QED
    BY <1>1, <1>2, <1>3, <1>4 DEF Next

-----------------------------------------------------------------------------
(* What a step does to ledgers, and to the process that takes it.          *)

Appends(p) == AppendLedger(p) /\ dir[p] \notin torn

\* Signatures and shared directories are never taken back.
LEMMA Grows ==
    ASSUME [Next]_vars
    PROVE  /\ signed \subseteq signed' /\ shared \subseteq shared'
           /\ \/ ledger' = ledger /\ verdict' = verdict
              \/ \E p \in Runs : Appends(p)
<1>1. CASE UNCHANGED vars
    BY <1>1 DEF vars, files, history
<1>2. ASSUME NEW p \in Runs, Run(p)
      PROVE  /\ signed' = signed /\ shared \subseteq shared'
             /\ (ledger' = ledger /\ verdict' = verdict) \/ Appends(p)
    <2>1. CASE Begin(p)
        BY <2>1 DEF Begin, files
    <2>2. CASE AppendLedger(p)
        BY <2>2 DEF AppendLedger, Appends
    <2>3. CASE Raise(p) \/ Crash(p)
        BY <2>3 DEF Raise, Crash, Tear, history
    <2>4. CASE \/ Judge(p) \/ Check(p) \/ Recheck(p) \/ ReadTail(p)
        BY <2>4 DEF Judge, Check, Recheck, ReadTail, files, history
    <2>5. CASE \/ Clear(p) \/ ClearRest(p) \/ WriteReport(p) \/ WriteProofs(p)
               \/ WriteReceipt(p) \/ WriteCheckpoint(p) \/ Unlink(p)
        BY <2>5 DEF Clear, ClearRest, WriteReport, WriteProofs, WriteReceipt,
                    WriteCheckpoint, Unlink, history
    <2> QED
        BY <1>2, <2>1, <2>2, <2>3, <2>4, <2>5 DEF Run
<1>3. ASSUME NEW d \in Dirs, Sign(d) \/ Attach(d)
      PROVE  /\ signed \subseteq signed' /\ shared' = shared
             /\ ledger' = ledger /\ verdict' = verdict
    BY <1>3 DEF Sign, Attach, files, history
<1> QED
    BY <1>1, <1>2, <1>3 DEF Next

LEMMA Appended ==
    ASSUME TypeOK, WorkInv, NEW p \in Runs, Appends(p)
    PROVE  /\ at[p] = "append" /\ work[p] \in Receipts /\ dir[p] \in Dirs
           /\ work[p].candidate \in Candidates
           /\ DOMAIN ledger'[dir[p]] =
                DOMAIN ledger[dir[p]] \cup {Len(ledger[dir[p]]) + 1}
           /\ Len(ledger[dir[p]]) + 1 \notin DOMAIN ledger[dir[p]]
           /\ ledger'[dir[p]][Len(ledger[dir[p]]) + 1].receipt = work[p]
           /\ \A i \in DOMAIN ledger[dir[p]] :
                ledger'[dir[p]][i] = ledger[dir[p]][i]
           /\ \A d \in Dirs \ {dir[p]} :
                ledger'[d] = ledger[d] /\ verdict'[d] = verdict[d]
           /\ \A c \in Candidates :
                verdict'[dir[p]][c] =
                  IF c = work[p].candidate /\ verdict[dir[p]][c] = None
                  THEN work[p] ELSE verdict[dir[p]][c]
<1> DEFINE d == dir[p]
           r == work[p]
           e == [receipt |-> r, after |-> tail[p]]
<1>1. at[p] = "append" /\ r \in Receipts /\ d \in Dirs
    BY DEF Appends, AppendLedger, WorkInv
<1>2. r.candidate \in Candidates
    BY <1>1, ReceiptAssumption
<1>3. /\ ledger' = [ledger EXCEPT ![d] = Append(ledger[d], e)]
      /\ verdict' = IF verdict[d][r.candidate] # None THEN verdict
                    ELSE [verdict EXCEPT ![d][r.candidate] = r]
    BY DEF Appends, AppendLedger
<1>4. /\ ledger \in [Dirs -> Seq(Entries)]
      /\ verdict \in [Dirs -> [Candidates -> Receipts \cup {None}]]
    BY DEF TypeOK
<1>5. e \in Entries
    BY <1>1 DEF TypeOK, Entries
<1>6. ledger'[d] = Append(ledger[d], e) /\ ledger[d] \in Seq(Entries)
    BY <1>1, <1>3, <1>4
<1>7. /\ DOMAIN ledger'[d] = DOMAIN ledger[d] \cup {Len(ledger[d]) + 1}
      /\ Len(ledger[d]) + 1 \notin DOMAIN ledger[d]
      /\ ledger'[d][Len(ledger[d]) + 1] = e
      /\ \A i \in DOMAIN ledger[d] : ledger'[d][i] = ledger[d][i]
    BY <1>5, <1>6
<1>8. \A x \in Dirs \ {d} : ledger'[x] = ledger[x] /\ verdict'[x] = verdict[x]
    BY <1>1, <1>3, <1>4
<1>9. ASSUME NEW c \in Candidates
      PROVE  verdict'[d][c] = IF c = r.candidate /\ verdict[d][c] = None
                              THEN r ELSE verdict[d][c]
    BY <1>1, <1>2, <1>3, <1>4
<1> QED
    BY <1>1, <1>2, <1>7, <1>8, <1>9

\* A process moves only itself.
LEMMA OthersStay ==
    ASSUME TypeOK, NEW p \in Runs, Run(p), NEW q \in Runs \ {p}
    PROVE  /\ at'[q] = at[q] /\ dir'[q] = dir[q]
           /\ base'[q] = base[q] /\ work'[q] = work[q]
<1>0. /\ at \in [Runs -> Steps] /\ dir \in [Runs -> Dirs \cup {None}]
      /\ base \in [Runs -> Dirs \cup {None}]
      /\ work \in [Runs -> Verdicts \cup {None}]
    BY DEF TypeOK
<1>1. CASE Begin(p) \/ Judge(p)
    BY <1>0, <1>1 DEF Begin, Judge
<1>2. CASE (\E s \in Steps : Goto(p, s)) \/ Stop(p)
    BY <1>0, <1>2 DEF Goto, Stop
<1>3. CASE ReadTail(p)
    BY <1>0, <1>3 DEF ReadTail, Goto
<1>4. CASE \/ Check(p) \/ Clear(p) \/ ClearRest(p) \/ WriteReport(p)
           \/ WriteProofs(p) \/ Recheck(p) \/ WriteReceipt(p)
           \/ AppendLedger(p) \/ WriteCheckpoint(p) \/ Unlink(p)
           \/ Raise(p) \/ Crash(p)
    <2>1. (\E s \in Steps : Goto(p, s)) \/ Stop(p)
        BY <1>4 DEF Check, Clear, ClearRest, WriteReport, WriteProofs,
           Recheck, WriteReceipt, AppendLedger, WriteCheckpoint, Unlink,
           Raise, Crash, Steps
    <2> QED
        BY <1>2, <2>1
<1> QED
    BY <1>1, <1>3, <1>4 DEF Run

LEMMA Others ==
    ASSUME TypeOK, [Next]_vars
    PROVE  \/ UNCHANGED process
           \/ \E p \in Runs :
                /\ Run(p)
                /\ \A q \in Runs \ {p} : /\ at'[q] = at[q] /\ dir'[q] = dir[q]
                                         /\ base'[q] = base[q] /\ work'[q] = work[q]
<1>1. CASE UNCHANGED vars
    BY <1>1 DEF vars
<1>2. CASE \E p \in Runs : Run(p)
    BY <1>2, OthersStay
<1>3. ASSUME NEW d \in Dirs, Sign(d) \/ Attach(d) PROVE UNCHANGED process
    BY <1>3 DEF Sign, Attach
<1> QED
    BY <1>1, <1>2, <1>3 DEF Next

-----------------------------------------------------------------------------
(* The registry in the ledger.                                             *)

LEMMA OfAppended ==
    ASSUME TypeOK, WorkInv, NEW p \in Runs, Appends(p),
           NEW d \in Dirs, NEW c \in Candidates
    PROVE  Of(d, c)' = IF d = dir[p] /\ c = work[p].candidate
                       THEN Of(d, c) \cup {Len(ledger[d]) + 1} ELSE Of(d, c)
<1>1. CASE d = dir[p]
    <2> DEFINE n == Len(ledger[d]) + 1
    <2>1. /\ DOMAIN ledger'[d] = DOMAIN ledger[d] \cup {n}
          /\ n \notin DOMAIN ledger[d] /\ ledger'[d][n].receipt = work[p]
          /\ \A i \in DOMAIN ledger[d] : ledger'[d][i] = ledger[d][i]
        BY <1>1, Appended
    <2> HIDE DEF n
    <2>2. Of(d, c)' = {i \in DOMAIN ledger[d] \cup {n} :
                          ledger'[d][i].receipt.candidate = c}
        BY <2>1 DEF Of
    <2>3. Of(d, c)' = IF c = work[p].candidate THEN Of(d, c) \cup {n} ELSE Of(d, c)
        BY <2>1, <2>2 DEF Of
    <2> QED
        BY <1>1, <2>3 DEF n
<1>2. CASE d # dir[p]
    BY <1>2, Appended DEF Of
<1> QED
    BY <1>1, <1>2

\* The first verdict on a candidate stands.
LEMMA VerdictStands ==
    ASSUME TypeOK, WorkInv, [Next]_vars, NEW d \in Dirs, NEW c \in Candidates,
           verdict[d][c] # None
    PROVE  verdict'[d][c] = verdict[d][c]
<1>1. ASSUME NEW p \in Runs, Appends(p) PROVE verdict'[d][c] = verdict[d][c]
    BY <1>1, Appended
<1> QED
    BY <1>1, Grows

LEMMA VerdictStep == TypeOK /\ WorkInv /\ VerdictInv /\ [Next]_vars => VerdictInv'
<1> SUFFICES ASSUME TypeOK, WorkInv, VerdictInv, [Next]_vars,
                    NEW d \in Dirs, NEW c \in Candidates
             PROVE  \/ verdict'[d][c] = None /\ Of(d, c)' = {}
                    \/ \E i \in Of(d, c)' : ledger'[d][i].receipt = verdict'[d][c]
    BY DEF VerdictInv
<1>1. CASE ledger' = ledger /\ verdict' = verdict
    BY <1>1 DEF VerdictInv, Of
<1>2. ASSUME NEW p \in Runs, Appends(p)
      PROVE  \/ verdict'[d][c] = None /\ Of(d, c)' = {}
             \/ \E i \in Of(d, c)' : ledger'[d][i].receipt = verdict'[d][c]
    <2>0. \/ verdict[d][c] = None /\ Of(d, c) = {}
          \/ \E i \in Of(d, c) : ledger[d][i].receipt = verdict[d][c]
        BY DEF VerdictInv
    <2>1. CASE d # dir[p]
        BY <1>2, <2>0, <2>1, Appended, OfAppended
    <2>2. CASE d = dir[p] /\ c # work[p].candidate
        <3>1. Of(d, c)' = Of(d, c) /\ verdict'[d][c] = verdict[d][c]
            BY <1>2, <2>2, Appended, OfAppended
        <3>2. \A i \in Of(d, c) : ledger'[d][i] = ledger[d][i]
            BY <1>2, <2>2, Appended DEF Of
        <3> QED
            BY <2>0, <3>1, <3>2
    <2>3. CASE d = dir[p] /\ c = work[p].candidate
        <3> DEFINE n == Len(ledger[d]) + 1
        <3>1. Of(d, c)' = Of(d, c) \cup {n} /\ ledger'[d][n].receipt = work[p]
            BY <1>2, <2>3, Appended, OfAppended
        <3>2. \A i \in Of(d, c) : ledger'[d][i] = ledger[d][i]
            BY <1>2, <2>3, Appended DEF Of
        <3>3. CASE verdict[d][c] = None
            <4>1. verdict'[d][c] = work[p]
                BY <1>2, <2>3, <3>3, Appended
            <4> HIDE DEF n
            <4> QED
                BY <3>1, <4>1
        <3>4. CASE verdict[d][c] # None
            <4>1. verdict'[d][c] = verdict[d][c]
                BY <3>4, VerdictStands
            <4> HIDE DEF n
            <4> QED
                BY <2>0, <3>1, <3>2, <3>4, <4>1
        <3> QED
            BY <3>3, <3>4
    <2> QED
        BY <2>1, <2>2, <2>3
<1> QED
    BY <1>1, <1>2, Grows

\* A receipt that a ledger records is the verdict on its candidate.
LEMMA RecordedIsVerdict ==
    ASSUME VerdictInv, NEW d \in Dirs, NEW r \in Receipts, Records(d, r)
    PROVE  r.candidate \in Candidates /\ verdict[d][r.candidate] = r
<1>1. r.candidate \in Candidates
    BY ReceiptAssumption
<1>2. PICK i \in DOMAIN ledger[d] :
         ledger[d][i].receipt = r /\ Of(d, r.candidate) = {i}
    BY DEF Records
<1> QED
    BY <1>1, <1>2 DEF VerdictInv

-----------------------------------------------------------------------------
(* What verdicts build on.                                                 *)

LEMMA GroundedStays ==
    ASSUME TypeOK, WorkInv, [Next]_vars, NEW r \in Receipts, Grounded(r)
    PROVE  Grounded(r)'
<1>1. Registry!Issued \subseteq Registry!Issued'
    <2> SUFFICES ASSUME NEW d \in Dirs, NEW c \in Candidates,
                        verdict[d][c] # None
                 PROVE  verdict[d][c] \in Registry!Issued'
        BY DEF Registry!Issued
    <2>1. verdict'[d][c] = verdict[d][c]
        BY VerdictStands
    <2> QED
        BY <2>1 DEF Registry!Issued
<1>2. signed \subseteq signed'
    BY Grows
<1> QED
    BY <1>1, <1>2 DEF Grounded, Registry!Founded, SignedFor

\* What a run may build on was issued, and somebody signed for it.
LEMMA ChainedIsGrounded ==
    ASSUME TypeOK, VerdictInv, LedgerInv, NEW b \in Dirs, NEW r \in Receipts,
           Trusted(b, r)
    PROVE  r \in Registry!Issued /\ SignedFor(r)
<1>1. r.candidate \in Candidates /\ verdict[b][r.candidate] = r
    BY RecordedIsVerdict DEF Trusted
<1>2. r # None
    BY ReceiptAssumption
<1>3. r \in Registry!Issued
    BY <1>1, <1>2 DEF Registry!Issued
<1>4. ledger[b] \in signed
    BY DEF Trusted, Current, Attested, LedgerInv
<1>5. \E i \in DOMAIN ledger[b] : ledger[b][i].receipt = r
    BY DEF Trusted, Records
<1> QED
    BY <1>3, <1>4, <1>5 DEF SignedFor

LEMMA LedgerStep == TypeOK /\ WorkInv /\ LedgerInv /\ [Next]_vars => LedgerInv'
<1> SUFFICES ASSUME TypeOK, WorkInv, LedgerInv, [Next]_vars, NEW d \in Dirs
             PROVE  /\ \A i \in DOMAIN ledger'[d] : Grounded(ledger[d][i].receipt)'
                    /\ attestation'[d] # None => attestation'[d] \in signed'
    BY DEF LedgerInv
<1>1. ASSUME NEW i \in DOMAIN ledger'[d] PROVE Grounded(ledger[d][i].receipt)'
    <2>1. ASSUME NEW r \in Receipts, Grounded(r), ledger'[d][i].receipt = r
          PROVE  Grounded(ledger[d][i].receipt)'
        <3>1. Grounded(r)'
            BY <2>1, GroundedStays
        <3> QED
            BY <2>1, <3>1 DEF Grounded, Registry!Founded, SignedFor
    <2>2. ASSUME i \in DOMAIN ledger[d], ledger'[d][i] = ledger[d][i]
          PROVE  Grounded(ledger[d][i].receipt)'
        <3>1. ledger[d] \in Seq(Entries)
            BY DEF TypeOK
        <3>2. ledger[d][i] \in Entries
            BY <2>2, <3>1
        <3>5. ledger[d][i].receipt \in Receipts
            BY <3>2 DEF Entries
        <3>3. Grounded(ledger[d][i].receipt)
            BY <2>2 DEF LedgerInv
        <3>4. ledger'[d][i].receipt = ledger[d][i].receipt
            BY <2>2
        <3> QED
            BY <2>1, <3>5, <3>3, <3>4
    <2>3. ASSUME NEW p \in Runs, Appends(p)
          PROVE  Grounded(ledger[d][i].receipt)'
        <3>1. Grounded(work[p]) /\ work[p] \in Receipts
            BY <2>3, Appended DEF WorkInv
        <3>2. CASE i \in DOMAIN ledger[d]
            <4>1. ledger'[d][i] = ledger[d][i]
                BY <2>3, <3>2, Appended
            <4> QED
                BY <2>2, <3>2, <4>1
        <3>3. CASE i \notin DOMAIN ledger[d]
            <4>1. ledger'[d][i].receipt = work[p]
                BY <2>3, <3>3, Appended
            <4> QED
                BY <2>1, <3>1, <4>1
        <3> QED
            BY <3>2, <3>3
    <2> QED
        BY <2>2, <2>3, Grows
<1>2. attestation'[d] # None => attestation'[d] \in signed'
    <2>0. attestation \in [Dirs -> Seq(Entries) \cup {None}]
        BY DEF TypeOK
    <2>1. ASSUME NEW p \in Runs, Run(p)
          PROVE  attestation'[d] \in {attestation[d], None}
        <3>1. CASE ClearRest(p)
            BY <2>0, <3>1 DEF ClearRest
        <3>2. CASE ~ClearRest(p)
            BY <2>1, <3>2 DEF Run, Begin, Judge, Check, Clear, WriteReport,
               WriteProofs, Recheck, WriteReceipt, ReadTail, AppendLedger,
               WriteCheckpoint, Unlink, Raise, Crash, Tear, files
        <3> QED
            BY <3>1, <3>2
    <2>2. ASSUME NEW x \in Dirs, Sign(x) \/ Attach(x)
          PROVE  attestation'[d] \in {attestation[d]} \cup signed
        BY <2>0, <2>2 DEF Sign, Attach, files
    <2>3. UNCHANGED vars => attestation'[d] = attestation[d]
        BY DEF vars, files
    <2> QED
        BY <2>1, <2>2, <2>3, Grows DEF Next, LedgerInv
<1> QED
    BY <1>1, <1>2


LEMMA WorkStep ==
    TypeOK /\ VerdictInv /\ LedgerInv /\ WorkInv /\ [Next]_vars => WorkInv'
<1> DEFINE Good(a, d, b, w) ==
        /\ a = "idle" => d = None
        /\ a # "idle" => d \in Dirs
        /\ a = "judge" => (b = None <=> w = None)
        /\ a \notin {"idle", "judge"} => w \in Verdicts
        /\ a \notin {"idle", "judge", "check", "clear", "clear rest",
                     "report", "proofs"} => w \in Receipts
<1> SUFFICES ASSUME TypeOK, VerdictInv, LedgerInv, WorkInv, [Next]_vars,
                    NEW q \in Runs
             PROVE  /\ Good(at'[q], dir'[q], base'[q], work'[q])
                    /\ at'[q] \notin {"idle", "judge"} /\ work'[q] \in Receipts =>
                         Grounded(work[q])'
    BY DEF WorkInv
<1>1. /\ Good(at[q], dir[q], base[q], work[q])
      /\ at[q] \notin {"idle", "judge"} /\ work[q] \in Receipts => Grounded(work[q])
    BY DEF WorkInv
<1>2. ASSUME NEW r \in Receipts, Grounded(r), work'[q] = r
      PROVE  Grounded(work[q])'
    <2>1. Grounded(r)'
        BY <1>2, GroundedStays
    <2> QED
        BY <1>2, <2>1 DEF Grounded, Registry!Founded, SignedFor
<1>3. CASE /\ at'[q] = at[q] /\ dir'[q] = dir[q]
           /\ base'[q] = base[q] /\ work'[q] = work[q]
    BY <1>1, <1>2, <1>3
<1>4. CASE Run(q)
    <2>0. /\ at \in [Runs -> Steps] /\ dir \in [Runs -> Dirs \cup {None}]
          /\ base \in [Runs -> Dirs \cup {None}]
          /\ work \in [Runs -> Verdicts \cup {None}]
          /\ receipt \in [Dirs -> Receipts \cup {None}]
        BY DEF TypeOK
    <2>1. CASE Stop(q)
        BY <2>0, <2>1 DEF Stop
    <2>2. ASSUME NEW s \in Steps, Goto(q, s), at[q] \notin {"idle", "judge"},
                 \/ s \in {"clear", "clear rest", "report", "proofs"}
                 \/ work[q] \in Receipts /\ s \notin {"idle", "judge"}
          PROVE  /\ Good(at'[q], dir'[q], base'[q], work'[q])
                 /\ work'[q] \in Receipts => Grounded(work[q])'
        <3>1. /\ at'[q] = s /\ dir'[q] = dir[q]
              /\ base'[q] = base[q] /\ work'[q] = work[q]
            BY <2>0, <2>2 DEF Goto
        <3>2. Good(at'[q], dir'[q], base'[q], work'[q])
            BY <1>1, <2>2, <3>1
        <3> QED
            BY <1>1, <1>2, <2>2, <3>1, <3>2
    <2>3. CASE Begin(q)
        <3>1. PICK d \in Dirs, b \in Dirs \cup {None} :
                 /\ dir' = [dir EXCEPT ![q] = d]
                 /\ base' = [base EXCEPT ![q] = b]
                 /\ work' = [work EXCEPT ![q] = IF b = None THEN None
                                                ELSE IF receipt[b] = None
                                                THEN Rejected ELSE receipt[b]]
            BY <2>3 DEF Begin
        <3>2. at'[q] = "judge"
            BY <2>0, <2>3 DEF Begin
        <3>3. dir'[q] \in Dirs /\ (base'[q] = None <=> work'[q] = None)
            BY <2>0, <3>1, ReceiptAssumption
        <3> QED
            BY <3>2, <3>3
    <2>4. CASE Judge(q)
        <3>1. PICK v \in Verdicts : /\ v # Rejected => Chained(q) /\ v.prev = work[q]
                                    /\ work' = [work EXCEPT ![q] = v]
            BY <2>4 DEF Judge
        <3>2. /\ at[q] = "judge" /\ at'[q] = "check" /\ dir'[q] = dir[q]
              /\ base'[q] = base[q] /\ work'[q] = v
            BY <2>0, <2>4, <3>1 DEF Judge
        <3>3. Good(at'[q], dir'[q], base'[q], work'[q])
            BY <1>1, <3>2
        <3>4. ASSUME v \in Receipts PROVE Grounded(v)
            <4>1. CASE base[q] = None
                BY <1>1, <3>1, <3>2, <3>4, <4>1, ReceiptAssumption
                DEF Grounded, Registry!Founded
            <4>2. CASE base[q] # None
                <5>1. /\ work[q] \in Receipts /\ base[q] \in Dirs
                      /\ work[q].status = "pass" /\ Trusted(base[q], work[q])
                    BY <1>1, <2>0, <3>1, <3>2, <3>4, <4>2, ReceiptAssumption
                    DEF Chained, Verdicts
                <5>2. work[q] \in Registry!Issued /\ SignedFor(work[q])
                    BY <5>1, ChainedIsGrounded
                <5> QED
                    BY <3>1, <3>4, <5>1, <5>2, ReceiptAssumption
                    DEF Grounded, Registry!Founded
            <4> QED
                BY <4>1, <4>2
        <3> QED
            BY <1>2, <3>2, <3>3, <3>4
    <2>5. CASE Check(q) \/ Clear(q) \/ ClearRest(q) \/ WriteReport(q)
        <3>1. \/ Stop(q)
              \/ \E s \in {"clear", "clear rest", "report", "proofs"} : Goto(q, s)
            BY <2>5 DEF Check, Clear, ClearRest, WriteReport
        <3>2. at[q] \notin {"idle", "judge"}
            BY <2>5 DEF Check, Clear, ClearRest, WriteReport
        <3> QED
            BY <2>1, <2>2, <3>1, <3>2 DEF Steps
    <2>6. CASE WriteProofs(q)
        <3>1. /\ at[q] = "proofs"
              /\ IF work[q] = Rejected THEN Stop(q) ELSE Goto(q, "recheck")
            BY <2>6 DEF WriteProofs
        <3>2. work[q] # Rejected => work[q] \in Receipts
            BY <1>1, <3>1 DEF Verdicts
        <3> QED
            BY <2>1, <2>2, <3>1, <3>2 DEF Steps
    <2>7. CASE \/ Recheck(q) \/ WriteReceipt(q) \/ ReadTail(q) \/ AppendLedger(q)
               \/ WriteCheckpoint(q) \/ Unlink(q) \/ Crash(q)
               \/ Raise(q) /\ at[q] \in {"tail", "append", "checkpoint"}
        <3>1. CASE ReadTail(q)
            <4>1. at[q] = "tail" /\ work[q] \in Receipts
                BY <1>1, <3>1 DEF ReadTail
            <4>2. /\ at'[q] \in {"append", "unlink"} /\ dir'[q] = dir[q]
                  /\ base'[q] = base[q] /\ work'[q] = work[q]
                BY <2>0, <3>1 DEF ReadTail, Goto
            <4> QED
                BY <1>1, <1>2, <4>1, <4>2
        <3>2. CASE ~ReadTail(q)
            <4>1. \/ Stop(q)
                  \/ /\ at[q] \in {"recheck", "receipt", "tail", "append",
                                   "checkpoint"}
                     /\ \E s \in {"receipt", "tail", "checkpoint", "unlink"} :
                          Goto(q, s)
                BY <2>7, <3>2 DEF Recheck, WriteReceipt, AppendLedger,
                   WriteCheckpoint, Unlink, Crash, Raise
            <4> QED
                BY <1>1, <2>1, <2>2, <4>1 DEF Steps
        <3> QED
            BY <3>1, <3>2
    <2>8. CASE Raise(q) /\ at[q] \notin {"tail", "append", "checkpoint"}
        BY <2>1, <2>8 DEF Raise
    <2> QED
        BY <1>4, <2>3, <2>4, <2>5, <2>6, <2>7, <2>8 DEF Run
<1>5. UNCHANGED process => /\ at'[q] = at[q] /\ dir'[q] = dir[q]
                           /\ base'[q] = base[q] /\ work'[q] = work[q]
    BY DEF process
<1> QED
    BY <1>3, <1>4, <1>5, Others


-----------------------------------------------------------------------------
(* Directories that one run writes at a time.                              *)

\* Before the ledger entry, after the check.
Checked == {"clear", "clear rest", "report", "proofs", "recheck", "receipt",
            "tail", "append"}

\* Whoever begins in a directory in use marks it as shared.
LEMMA DirMoves ==
    ASSUME TypeOK, NEW p \in Runs, Run(p)
    PROVE  \/ dir'[p] \in {dir[p], None}
           \/ /\ dir'[p] \in Dirs /\ at'[p] = "judge"
              /\ (\E q \in Runs : dir[q] = dir'[p]) => dir'[p] \in shared'
<1>0. dir \in [Runs -> Dirs \cup {None}] /\ at \in [Runs -> Steps]
    BY DEF TypeOK
<1>1. CASE Begin(p)
    BY <1>0, <1>1 DEF Begin
<1>2. CASE (\E s \in Steps : Goto(p, s)) \/ Stop(p) \/ Judge(p) \/ ReadTail(p)
    BY <1>0, <1>2 DEF Goto, Stop, Judge, ReadTail
<1>3. CASE \/ Check(p) \/ Clear(p) \/ ClearRest(p) \/ WriteReport(p)
           \/ WriteProofs(p) \/ Recheck(p) \/ WriteReceipt(p)
           \/ AppendLedger(p) \/ WriteCheckpoint(p) \/ Unlink(p)
           \/ Raise(p) \/ Crash(p)
    <2>1. (\E s \in Steps : Goto(p, s)) \/ Stop(p)
        BY <1>3 DEF Check, Clear, ClearRest, WriteReport, WriteProofs, Recheck,
           WriteReceipt, AppendLedger, WriteCheckpoint, Unlink, Raise, Crash, Steps
    <2> QED
        BY <1>2, <2>1
<1> QED
    BY <1>1, <1>2, <1>3 DEF Run

LEMMA CheckedMoves ==
    ASSUME TypeOK, NEW p \in Runs, Run(p), at'[p] \in Checked
    PROVE  /\ dir'[p] = dir[p] /\ work'[p] = work[p]
           /\ \/ at[p] \in Checked /\ ~ AppendLedger(p)
              \/ work[p] = Rejected
              \/ Of(dir[p], work[p].candidate) = {}
<1>0. /\ at \in [Runs -> Steps] /\ dir \in [Runs -> Dirs \cup {None}]
      /\ work \in [Runs -> Verdicts \cup {None}]
    BY DEF TypeOK
<1>1. ASSUME NEW s \in Steps, Goto(p, s)
      PROVE  at'[p] = s /\ dir'[p] = dir[p] /\ work'[p] = work[p]
    BY <1>0, <1>1 DEF Goto
<1>2. Stop(p) => at'[p] = "idle"
    BY <1>0 DEF Stop
<1>3. CASE Begin(p) \/ Judge(p)
    BY <1>0, <1>3 DEF Begin, Judge, Checked
<1>4. CASE Check(p)
    BY <1>1, <1>2, <1>4 DEF Check, Conflict, Checked, Steps
<1>5. CASE AppendLedger(p)
    BY <1>1, <1>5 DEF AppendLedger, Checked, Steps
<1>6. CASE ReadTail(p)
    BY <1>0, <1>6 DEF ReadTail, Goto, Checked, AppendLedger
<1>7. CASE \/ Clear(p) \/ ClearRest(p) \/ WriteReport(p) \/ WriteProofs(p)
           \/ Recheck(p) \/ WriteReceipt(p) \/ WriteCheckpoint(p) \/ Unlink(p)
           \/ Raise(p) \/ Crash(p)
    <2>1. \/ Stop(p)
          \/ /\ at[p] \in {"clear", "clear rest", "report", "proofs",
                           "recheck", "receipt"}
             /\ \E s \in Steps : Goto(p, s)
          \/ Goto(p, "unlink")
        BY <1>7 DEF Clear, ClearRest, WriteReport, WriteProofs, Recheck,
           WriteReceipt, WriteCheckpoint, Unlink, Raise, Crash, Steps
    <2> QED
        BY <1>1, <1>2, <2>1 DEF Checked, Steps, AppendLedger
<1> QED
    BY <1>3, <1>4, <1>5, <1>6, <1>7 DEF Run

LEMMA AloneStep ==
    TypeOK /\ WorkInv /\ AloneInv /\ [Next]_vars => AloneInv'
<1> SUFFICES ASSUME TypeOK, WorkInv, AloneInv, [Next]_vars,
                    NEW p \in Runs, dir'[p] \in Dirs \ shared'
             PROVE  /\ \A q \in Runs : dir'[q] = dir'[p] => q = p
                    /\ at'[p] \in Checked /\ work'[p] \in Receipts =>
                         Of(dir[p], work[p].candidate)' = {}
    BY DEF AloneInv, Checked
<1>0. dir'[p] \notin shared /\ dir'[p] # None
    BY Grows, ReceiptAssumption
<1>1. ASSUME NEW q \in Runs, dir'[q] = dir'[p] PROVE q = p
    <2>1. ASSUME q # p, dir[q] = dir[p], dir[p] = dir'[p] PROVE FALSE
        BY <1>0, <2>1 DEF AloneInv
    <2>2. CASE UNCHANGED process
        BY <1>1, <2>1, <2>2 DEF process
    <2>3. ASSUME NEW x \in Runs, Run(x),
                 \A y \in Runs \ {x} : dir'[y] = dir[y]
          PROVE  q = p
        <3>1. CASE dir'[x] \in {dir[x], None}
            BY <1>0, <1>1, <2>1, <2>3, <3>1
        <3>2. CASE (\E y \in Runs : dir[y] = dir'[x]) => dir'[x] \in shared'
            BY <1>1, <2>1, <2>3, <3>2
        <3> QED
            BY <2>3, <3>1, <3>2, DirMoves
    <2> QED
        BY <2>2, <2>3, Others
<1>2. ASSUME at'[p] \in Checked, work'[p] \in Receipts
      PROVE  Of(dir[p], work[p].candidate)' = {}
    <2> DEFINE d == dir'[p]
               c == work'[p].candidate
    <2>1. c \in Candidates /\ work'[p] # Rejected
        BY <1>2, ReceiptAssumption
    <2>2. Of(dir[p], work[p].candidate)' = {i \in DOMAIN ledger'[d] :
                                              ledger'[d][i].receipt.candidate = c}
        BY DEF Of
    <2>3. ASSUME Of(d, c) = {}, ledger'[d] = ledger[d]
          PROVE  Of(dir[p], work[p].candidate)' = {}
        BY <2>2, <2>3 DEF Of
    <2>4. /\ dir'[p] = dir[p] /\ work'[p] = work[p]
          /\ Of(d, c) = {}
          /\ ~ Appends(p)
        <3>1. CASE Run(p)
            <4>1. /\ dir'[p] = dir[p] /\ work'[p] = work[p]
                  /\ \/ at[p] \in Checked /\ ~ AppendLedger(p)
                     \/ Of(d, c) = {}
                BY <1>2, <2>1, <3>1, CheckedMoves
            <4>2. at[p] \in Checked => Of(d, c) = {}
                BY <1>0, <1>2, <4>1 DEF AloneInv, Checked
            <4>3. Appends(p) => at'[p] = "checkpoint"
                BY DEF Appends, AppendLedger, Goto, TypeOK
            <4> QED
                BY <1>2, <4>1, <4>2, <4>3 DEF Checked
        <3>2. CASE /\ at'[p] = at[p] /\ dir'[p] = dir[p] /\ work'[p] = work[p]
                   /\ ~ Run(p)
            BY <1>0, <1>2, <3>2 DEF AloneInv, Checked, Appends, Run
        <3> QED
            BY <3>1, <3>2, Others DEF process
    <2>5. ledger'[d] = ledger[d]
        <3>1. ASSUME NEW x \in Runs, Appends(x) PROVE ledger'[d] = ledger[d]
            <4>1. x # p
                BY <2>4, <3>1
            <4>2. dir[x] # d
                BY <1>0, <2>4, <4>1 DEF AloneInv
            <4> QED
                BY <3>1, <4>2, Appended
        <3> QED
            BY <3>1, Grows
    <2> QED
        BY <2>3, <2>4, <2>5
<1> QED
    BY <1>1, <1>2


LEMMA OneEntryStep ==
    TypeOK /\ WorkInv /\ AloneInv /\ OneEntryEach /\ [Next]_vars => OneEntryEach'
<1> SUFFICES ASSUME TypeOK, WorkInv, AloneInv, OneEntryEach, [Next]_vars,
                    NEW d \in Dirs \ shared',
                    NEW i \in DOMAIN ledger'[d], NEW j \in DOMAIN ledger'[d],
                    ledger'[d][i].receipt.candidate =
                      ledger'[d][j].receipt.candidate
             PROVE  i = j
    BY DEF OneEntryEach
<1>0. d \notin shared
    BY Grows
<1>1. CASE ledger'[d] = ledger[d]
    BY <1>0, <1>1 DEF OneEntryEach
<1>2. ASSUME NEW p \in Runs, Appends(p), d = dir[p] PROVE i = j
    <2> DEFINE n == Len(ledger[d]) + 1
    <2>1. /\ DOMAIN ledger'[d] = DOMAIN ledger[d] \cup {n}
          /\ n \notin DOMAIN ledger[d] /\ ledger'[d][n].receipt = work[p]
          /\ \A k \in DOMAIN ledger[d] : ledger'[d][k] = ledger[d][k]
        BY <1>2, Appended
    <2>2. \A k \in DOMAIN ledger[d] :
            ledger[d][k].receipt.candidate # work[p].candidate
        BY <1>0, <1>2, Appended DEF AloneInv, Of
    <2> HIDE DEF n
    <2> QED
        BY <1>0, <2>1, <2>2 DEF OneEntryEach
<1>3. ASSUME NEW p \in Runs, Appends(p), d # dir[p] PROVE ledger'[d] = ledger[d]
    BY <1>3, Appended
<1> QED
    BY <1>1, <1>2, <1>3, Grows

\* A run touches only its own directory.
LEMMA FilesOfOthers ==
    ASSUME TypeOK, WorkInv, NEW p \in Runs, Run(p), NEW d \in Dirs, d # dir[p]
    PROVE  receipt'[d] = receipt[d] /\ report'[d] = report[d] /\ proofs'[d] = proofs[d]
<1>0. /\ receipt \in [Dirs -> Receipts \cup {None}]
      /\ report \in [Dirs -> Verdicts \cup {None}]
      /\ proofs \in [Dirs -> SUBSET Verdicts]
    BY DEF TypeOK
<1>1. CASE \/ Begin(p) \/ Judge(p) \/ Check(p) \/ Recheck(p) \/ ReadTail(p)
           \/ AppendLedger(p) \/ WriteCheckpoint(p) \/ Raise(p) \/ Crash(p)
    BY <1>1 DEF Begin, Judge, Check, Recheck, ReadTail, AppendLedger,
       WriteCheckpoint, Raise, Crash, Tear, files
<1>2. CASE \/ Clear(p) \/ ClearRest(p) \/ WriteReport(p) \/ WriteProofs(p)
           \/ WriteReceipt(p) \/ Unlink(p)
    BY <1>0, <1>2 DEF Clear, ClearRest, WriteReport, WriteProofs, WriteReceipt, Unlink
<1> QED
    BY <1>1, <1>2 DEF Run


\* ArtifactInv of a run, and ArtifactsAreOfOneRun of its directory.
Kept(a, w, rc, rp, pf) ==
    /\ a = "clear rest" => rp = None
    /\ a \in {"report", "proofs", "recheck", "receipt"} => rc = None
    /\ a \in {"report", "proofs"} => pf = {}
    /\ a \in {"proofs", "recheck", "receipt"} => rp = w
    /\ a \in {"recheck", "receipt"} => pf = {w}

Whole(rc, rp, pf) == rc # None => rp \in {None, rc} /\ pf = {rc}

LEMMA ActorKeeps ==
    ASSUME TypeOK, WorkInv, NEW p \in Runs, Run(p), NEW d \in Dirs, d = dir[p],
           Kept(at[p], work[p], receipt[d], report[d], proofs[d]),
           Whole(receipt[d], report[d], proofs[d])
    PROVE  /\ Whole(receipt'[d], report'[d], proofs'[d])
           /\ dir'[p] = d =>
                Kept(at'[p], work'[p], receipt'[d], report'[d], proofs'[d])
<1>0. /\ receipt \in [Dirs -> Receipts \cup {None}]
      /\ report \in [Dirs -> Verdicts \cup {None}]
      /\ proofs \in [Dirs -> SUBSET Verdicts]
      /\ at \in [Runs -> Steps] /\ dir \in [Runs -> Dirs \cup {None}]
      /\ work \in [Runs -> Verdicts \cup {None}]
    BY DEF TypeOK
<1>1. ASSUME NEW s \in Steps, Goto(p, s)
      PROVE  at'[p] = s /\ dir'[p] = dir[p] /\ work'[p] = work[p]
    BY <1>0, <1>1 DEF Goto
<1>2. Stop(p) => dir'[p] # d
    BY <1>0, ReceiptAssumption DEF Stop
<1>3. CASE Begin(p)
    BY <1>3, ReceiptAssumption DEF Begin, WorkInv
<1>4. CASE \/ Judge(p) \/ Check(p) \/ Recheck(p) \/ ReadTail(p)
           \/ AppendLedger(p) \/ WriteCheckpoint(p) \/ Raise(p) \/ Crash(p)
    <2>1. receipt' = receipt /\ report' = report /\ proofs' = proofs
        BY <1>4 DEF Judge, Check, Recheck, ReadTail, AppendLedger,
           WriteCheckpoint, Raise, Crash, Tear, files
    <2>2. CASE Judge(p)
        BY <1>0, <2>1, <2>2 DEF Judge, Kept
    <2>3. CASE ReadTail(p)
        <3>1. at'[p] \in {"append", "unlink"}
            BY <1>0, <2>3 DEF ReadTail, Goto
        <3> QED
            BY <2>1, <3>1 DEF Kept
    <2>4. CASE ~Judge(p) /\ ~ReadTail(p)
        <3>1. \/ Stop(p)
              \/ \E s \in {"clear", "unlink", "checkpoint"} : Goto(p, s)
              \/ at[p] = "recheck" /\ Goto(p, "receipt")
            <4>1. CASE Check(p) \/ Recheck(p)
                BY <4>1 DEF Check, Recheck
            <4>2. CASE AppendLedger(p)
                BY <4>2 DEF AppendLedger
            <4>3. CASE WriteCheckpoint(p) \/ Raise(p) \/ Crash(p)
                BY <4>3 DEF WriteCheckpoint, Raise, Crash
            <4> QED
                BY <1>4, <2>4, <4>1, <4>2, <4>3
        <3> QED
            BY <1>1, <1>2, <2>1, <3>1 DEF Kept, Steps
    <2> QED
        BY <2>2, <2>3, <2>4
<1>5. CASE Clear(p)
    <2>1. report'[d] = None /\ receipt' = receipt /\ proofs' = proofs
          /\ at'[p] = "clear rest"
        BY <1>0, <1>1, <1>5 DEF Clear, Steps
    <2> QED
        BY <2>1 DEF Kept, Whole
<1>6. CASE ClearRest(p)
    <2>1. report' = report /\ receipt'[d] = None /\ proofs'[d] = {}
          /\ at'[p] = "report"
        BY <1>0, <1>1, <1>6 DEF ClearRest, Steps
    <2> QED
        BY <2>1 DEF Kept, Whole
<1>7. CASE WriteReport(p)
    <2>1. report'[d] = work'[p] /\ receipt' = receipt /\ proofs' = proofs
          /\ at[p] = "report" /\ at'[p] = "proofs"
        BY <1>0, <1>1, <1>7 DEF WriteReport, Steps
    <2> QED
        BY <2>1 DEF Kept, Whole
<1>8. CASE WriteProofs(p)
    <2>1. report' = report /\ receipt' = receipt
          /\ proofs'[d] = proofs[d] \cup {work[p]} /\ at[p] = "proofs"
        BY <1>0, <1>8 DEF WriteProofs
    <2>2. Stop(p) \/ Goto(p, "recheck")
        BY <1>8 DEF WriteProofs
    <2> QED
        BY <1>1, <1>2, <2>1, <2>2 DEF Kept, Whole, Steps
<1>9. CASE WriteReceipt(p)
    <2>1. report' = report /\ receipt'[d] = work[p] /\ proofs' = proofs
          /\ at[p] = "receipt" /\ at'[p] = "tail"
        BY <1>0, <1>1, <1>9 DEF WriteReceipt, Steps
    <2> QED
        BY <2>1 DEF Kept, Whole
<1>10. CASE Unlink(p)
    <2>1. receipt'[d] = None /\ Stop(p)
        BY <1>0, <1>10 DEF Unlink
    <2> QED
        BY <1>2, <2>1 DEF Whole
<1> QED
    BY <1>3, <1>4, <1>5, <1>6, <1>7, <1>8, <1>9, <1>10 DEF Run

LEMMA ArtifactStep ==
    /\ TypeOK /\ WorkInv /\ AloneInv /\ ArtifactInv /\ ArtifactsAreOfOneRun
    /\ [Next]_vars
    => ArtifactInv' /\ ArtifactsAreOfOneRun'
<1> SUFFICES ASSUME TypeOK, WorkInv, AloneInv, ArtifactInv,
                    ArtifactsAreOfOneRun, [Next]_vars
             PROVE  ArtifactInv' /\ ArtifactsAreOfOneRun'
    OBVIOUS
<1>1. /\ \A d \in Dirs \ shared : Whole(receipt[d], report[d], proofs[d])
      /\ \A p \in Runs : dir[p] \in Dirs \ shared =>
           Kept(at[p], work[p], receipt[dir[p]], report[dir[p]], proofs[dir[p]])
    BY DEF ArtifactInv, ArtifactsAreOfOneRun, Kept, Whole
<1>2. shared \subseteq shared'
    BY Grows
<1>3. ASSUME NEW d \in Dirs \ shared'
      PROVE  Whole(receipt'[d], report'[d], proofs'[d])
    <2>1. CASE \E p \in Runs : Run(p) /\ dir[p] = d
        BY <1>1, <1>2, <2>1, ActorKeeps
    <2>2. CASE \E p \in Runs : Run(p) /\ dir[p] # d
        BY <1>1, <1>2, <2>2, FilesOfOthers
    <2>3. CASE UNCHANGED <<receipt, report, proofs>>
        BY <1>1, <1>2, <2>3
    <2> QED
        BY <2>1, <2>2, <2>3 DEF Next, Sign, Attach, vars, files
<1>4. ASSUME NEW p \in Runs, dir'[p] \in Dirs \ shared'
      PROVE  Kept(at'[p], work'[p], receipt'[dir'[p]], report'[dir'[p]],
                  proofs'[dir'[p]])
    <2>1. CASE Run(p) /\ dir'[p] = dir[p]
        BY <1>1, <1>2, <1>4, <2>1, ActorKeeps
    <2>2. CASE Run(p) /\ dir'[p] # dir[p]
        <3>1. at'[p] = "judge" \/ dir'[p] = None
            BY <2>2, DirMoves
        <3> QED
            BY <1>4, <3>1, ReceiptAssumption DEF Kept
    <2>3. ASSUME NEW q \in Runs \ {p}, Run(q)
          PROVE  Kept(at'[p], work'[p], receipt'[dir'[p]], report'[dir'[p]],
                      proofs'[dir'[p]])
        <3>1. at'[p] = at[p] /\ dir'[p] = dir[p] /\ work'[p] = work[p]
            BY <2>3, OthersStay
        <3>2. dir[q] # dir[p]
            BY <1>2, <1>4, <3>1 DEF AloneInv
        <3> QED
            BY <1>1, <1>2, <1>4, <2>3, <3>1, <3>2, FilesOfOthers
    <2>4. CASE UNCHANGED <<receipt, report, proofs>> /\ UNCHANGED process
        BY <1>1, <1>2, <1>4, <2>4 DEF process
    <2> QED
        BY <2>1, <2>2, <2>3, <2>4 DEF Next, Sign, Attach, vars, files
<1> QED
    BY <1>3, <1>4 DEF ArtifactInv, ArtifactsAreOfOneRun, Kept, Whole


-----------------------------------------------------------------------------
(* Theorems.                                                               *)

\* The invariant holds for any directories, runs, receipts and faults.
THEOREM Inductive == Spec => []IInv
<1>1. Init => IInv
    <2> SUFFICES ASSUME Init PROVE IInv
        OBVIOUS
    <2>1. /\ \A d \in Dirs : ledger[d] = <<>> /\ attestation[d] = None
          /\ \A d \in Dirs, c \in Candidates : verdict[d][c] = None
          /\ \A p \in Runs : at[p] = "idle" /\ dir[p] = None
          /\ \A d \in Dirs : receipt[d] = None
        BY DEF Init
    <2>2. TypeOK
        <3>1. <<>> \in Seq(Entries) /\ 0 \in 0 .. MaxBegun /\ 0 \in 0 .. MaxFaults
            BY Bounds
        <3> QED
            BY <3>1 DEF Init, TypeOK, Steps
    <2>3. \A d \in Dirs : DOMAIN ledger[d] = {}
        BY <2>1
    <2>4. VerdictInv /\ LedgerInv /\ OneEntryEach
        BY <2>1, <2>3 DEF VerdictInv, Of, LedgerInv, OneEntryEach
    <2>5. WorkInv /\ AloneInv /\ ArtifactInv /\ ArtifactsAreOfOneRun
        BY <2>1, ReceiptAssumption
        DEF WorkInv, AloneInv, ArtifactInv, ArtifactsAreOfOneRun
    <2> QED
        BY <2>2, <2>4, <2>5 DEF IInv
<1>2. IInv /\ [Next]_vars => IInv'
    BY TypeStep, VerdictStep, LedgerStep, WorkStep, AloneStep, OneEntryStep,
       ArtifactStep DEF IInv
<1> QED
    BY <1>1, <1>2, PTL DEF Spec

\* Nobody can be shown a second verdict on a candidate.
THEOREM FirstVerdictOnly == Spec => []VerifiedIsFirst
<1>1. IInv => VerifiedIsFirst
    <2> SUFFICES ASSUME IInv, NEW d \in Dirs, receipt[d] # None,
                        Records(d, receipt[d])
                 PROVE  verdict[d][receipt[d].candidate] = receipt[d]
        BY DEF VerifiedIsFirst, Verified
    <2>1. receipt[d] \in Receipts
        BY DEF IInv, TypeOK
    <2> QED
        BY <2>1, RecordedIsVerdict DEF IInv
<1> QED
    BY <1>1, Inductive, PTL

\* Every chain of verdicts is signed for, link by link.
THEOREM SignedChains == Spec => []ChainsAreSigned
<1>1. IInv => ChainsAreSigned
    BY DEF IInv, LedgerInv, ChainsAreSigned, Grounded, Registry!Founded
<1> QED
    BY <1>1, Inductive, PTL

\* A directory that runs do not share has one entry for a candidate, however
\* often its run is repeated or stopped (OneEntryEach).
THEOREM OneRunOneStory == Spec => []OneEntryEach
<1>1. IInv => OneEntryEach
    BY DEF IInv
<1> QED
    BY <1>1, Inductive, PTL

\* Nor does such a directory show a receipt beside the report or the proofs of
\* another verdict, also after a stop in the middle of a run that follows one
\* that ended (ArtifactsAreOfOneRun).
THEOREM ReceiptsMatchArtifacts == Spec => []ArtifactsAreOfOneRun
<1>1. IInv => ArtifactsAreOfOneRun
    BY DEF IInv
<1> QED
    BY <1>1, Inductive, PTL

\* Directories implement the registry of verdicts, though runs race, raise
\* and stop at any step.
THEOREM Implements == Spec => RegistrySpec
<1>1. Init => Registry!Init
    BY DEF Init, Registry!Init
<1>2. IInv /\ [Next]_vars => [Registry!Next]_verdict
    <2> SUFFICES ASSUME IInv, NEW p \in Runs, Appends(p), verdict' # verdict
                 PROVE  Registry!Next
        BY Grows
    <2>1. work[p] \in Receipts /\ dir[p] \in Dirs /\ at[p] = "append"
        BY Appended DEF IInv
    <2>2. Registry!Founded(work[p])
        BY <2>1 DEF IInv, WorkInv, Grounded
    <2>3. /\ verdict[dir[p]][work[p].candidate] = None
          /\ verdict' = [verdict EXCEPT ![dir[p]][work[p].candidate] = work[p]]
        BY DEF Appends, AppendLedger
    <2> QED
        BY <2>1, <2>2, <2>3 DEF Registry!Next, Registry!Issue
<1> QED
    BY <1>1, <1>2, Inductive, PTL DEF Spec, RegistrySpec, Registry!Spec


=============================================================================
