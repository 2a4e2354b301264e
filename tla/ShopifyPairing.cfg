SPECIFICATION Spec
SYMMETRY Interchangeable
CONSTANTS
    Pairings = {p1, p2}
    Ordinary = {o1}
    Requests = {q1, q2, q3, q4, q5}
    Carts = {empty, filled}
    Empty = empty
    PairingCeiling = 2
    RunCeiling = 3
    ArtifactRoom = 2
    None = None
INVARIANTS OneLivePairing OneSession OneMoment StatusBacked
PROPERTIES CaptureInTime ResetReachesTab
