\* One run and three requests, two of which may race to resume what the third
\* asked for, under crashes and lock timeouts.
CONSTANTS
    Runs = {r1}
    Requests = {q1, q2, q3}
    Resets = {}
    Tools = {edit, checkout}
    Protected = {checkout}
    Args = {a1, a2}
    States = {s0, s1}
    Seed = s0
    None = None
    Deciders = 2
    RunCeiling = 10
    ArtifactRoom = 5
    Faults = {"crash", "lock_timeout"}
SYMMETRY Symmetry
SPECIFICATION Spec
INVARIANTS ConsentBound ApprovedOnce RunSettled
PROPERTIES ImplementsApproveOnce
CHECK_DEADLOCK FALSE
