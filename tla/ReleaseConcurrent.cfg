SPECIFICATION Spec
CONSTANTS
    None = None
    Runs = {r1}
    Simulations = {s1, s2}
    Policies <- ThreePolicies
    Nonces = {n1, n2}
    Threads = {t1, t2}
SYMMETRY Symmetry
INVARIANT ApprovalBindsEvidence
INVARIANT ReviewedIsComplete
INVARIANT ReadyIsBacked
