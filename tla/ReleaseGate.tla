----------------------------- MODULE ReleaseGate -----------------------------
(***************************************************************************)
(* What a release promises about exchange orders, whatever it is asked in  *)
(* whatever order and wherever the process stops, as long as requests wait *)
(* for each other: an order spends an approval of the evidence under       *)
(* review, each approval pays for one order, and what is closed stays      *)
(* closed.  There are no handlers, no rows in flight and no files here.    *)
(***************************************************************************)
EXTENDS Naturals

CONSTANTS
    Evidence,  \* what a reviewer signs: values of the evidence fingerprint
    Nonces,    \* approval nonces
    None

VARIABLES
    stage,     \* "open" for evidence, "approved", "ready" or "closed"
    evidence,  \* the evidence under review
    approval,  \* nonce of the approval in force, or None
    spent,     \* it is used up
    granted,   \* nonces handed out
    orders     \* orders[n]: exchange orders that rest on n; None: on nothing

vars == <<stage, evidence, approval, spent, granted, orders>>

Init ==
    /\ stage = "open" /\ evidence \in Evidence
    /\ approval = None /\ spent = FALSE /\ granted = {}
    /\ orders = [n \in Nonces \cup {None} |-> 0]

\* The approval in force is dropped.
Void == approval' = None /\ spent' = FALSE

\* The evidence is bound anew, if only as it was: the review starts again.
Revise ==
    /\ stage # "ready"
    /\ stage' \in {"open", "closed"} /\ (stage = "closed" => stage' = stage)
    /\ evidence' \in Evidence /\ Void
    /\ UNCHANGED <<granted, orders>>

Grant ==
    /\ \E n \in Nonces \ granted : granted' = granted \cup {n}
    /\ UNCHANGED <<stage, evidence, approval, spent, orders>>

\* An approval comes into force: one that was granted, is another than the
\* one in force and pays for no order yet.
Approve ==
    /\ stage # "closed"
    /\ stage' = IF stage = "ready" THEN "ready" ELSE "approved"
    /\ approval' \in granted \ {approval} /\ orders[approval'] = 0
    /\ spent' = FALSE
    /\ UNCHANGED <<evidence, granted, orders>>

Spend ==
    /\ stage \in {"approved", "ready"}
    /\ approval # None /\ ~spent /\ spent' = TRUE
    /\ UNCHANGED <<stage, evidence, approval, granted, orders>>

Order ==
    /\ stage \in {"approved", "ready"}
    /\ approval # None /\ spent /\ orders[approval] = 0
    /\ orders' = [orders EXCEPT ![approval] = 1]
    /\ UNCHANGED <<stage, evidence, approval, spent, granted>>

\* The first order stands.
Finish ==
    /\ stage = "approved" /\ stage' = "ready"
    /\ approval # None /\ orders[approval] = 1
    /\ UNCHANGED <<evidence, approval, spent, granted, orders>>

\* A rejection, a kill, or an execution that breached the policy or failed.
Close ==
    /\ stage' = "closed" /\ (Void \/ UNCHANGED <<approval, spent>>)
    /\ UNCHANGED <<evidence, granted, orders>>

Next == Revise \/ Grant \/ Approve \/ Spend \/ Order \/ Finish \/ Close

Spec == Init /\ [][Next]_vars

=============================================================================
