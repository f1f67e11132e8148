------------------------------ MODULE MCIssuance ------------------------------
(***************************************************************************)
(* Issuance with receipts for TLC: verdicts that build on nothing, and     *)
(* verdicts on the second candidate that build on a PASS of the first.     *)
(***************************************************************************)
EXTENDS Issuance, TLC

Genesis == [candidate : Candidates, status : {"pass", "withheld"}, prev : {None}]

Successors ==
    [candidate : Candidates, status : {"pass"}, prev : Genesis]

AllReceipts ==
    Genesis \cup {r \in Successors : r.candidate # r.prev.candidate}

Symmetry == Permutations(Dirs) \cup Permutations(Candidates) \cup Permutations(Runs)

=============================================================================
