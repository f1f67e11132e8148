--------------------------- MODULE VerdictRegistry ---------------------------
(***************************************************************************)
(* What an issuance ledger is for: the first verdict on a candidate stands,*)
(* and a verdict that builds on another builds on a PASS issued before.    *)
(***************************************************************************)
CONSTANTS Dirs, Receipts, Candidates, None

VARIABLE verdict   \* verdict[d][c]: the receipt issued for c in d, or None

Init == verdict = [d \in Dirs |-> [c \in Candidates |-> None]]

Issued == {verdict[d][c] : d \in Dirs, c \in Candidates} \ {None}

\* r builds on nothing, or on a PASS issued before.
Founded(r) ==
    r.prev # None => r.prev \in Issued /\ r.prev.status = "pass"

Issue(d, r) ==
    /\ verdict[d][r.candidate] = None
    /\ Founded(r)
    /\ verdict' = [verdict EXCEPT ![d][r.candidate] = r]

Next == \E d \in Dirs, r \in Receipts : Issue(d, r)

Spec == Init /\ [][Next]_verdict

=============================================================================
