------------------------- MODULE MCReleaseLifecycle -------------------------
(* ReleaseLifecycle for TLC: the risk policies worth telling apart, and the *)
(* symmetry of threads, nonces and evidence.                                *)
EXTENDS ReleaseLifecycle, TLC

Policy(blocks, simulation, demo) ==
    [blocks |-> blocks, requireSimulation |-> simulation,
     requireApproval |-> TRUE, requireDemo |-> demo]

\* The default policy and one that waives simulation and demo execution.
TwoPolicies == {Policy(FALSE, TRUE, TRUE), Policy(FALSE, FALSE, FALSE)}

\* The same and a breaching one.
ThreePolicies == TwoPolicies \cup {Policy(TRUE, TRUE, TRUE)}

Symmetry == Permutations(Threads) \cup Permutations(Nonces)
                \cup Permutations(Simulations) \cup Permutations(Runs)

=============================================================================
