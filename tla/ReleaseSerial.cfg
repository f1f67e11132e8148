SPECIFICATION Spec
CONSTANTS
    None = None
    Runs = {r1, r2}
    Simulations = {s1, s2}
    Policies <- ThreePolicies
    Nonces = {n1, n2, n3}
    Threads = {t1}
SYMMETRY Symmetry
INVARIANT OrdersNeedApproval
PROPERTY TerminalIsFinal
PROPERTY OrdersOnlyWhileLive
PROPERTY GateSpec
