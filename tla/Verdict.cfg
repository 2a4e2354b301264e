\* Two calls, under contracts that between them hold every kind of term.
CONSTANTS
    None = None
    CheckOrder <- MCCheckOrder
    Contracts <- MCContracts
    Tools <- MCTools
    EffectMap <- MCEffects
    States <- MCStates
    Surfaces <- MCSurfaces
    Seed <- S0
    Armed <- MCArmed
    Reports = {"success", "already_applied"}
    Requests = {1, 2}
    Calls = {c1, c2}
    MaxEdits = 1
    MaxCaptures = 2
    Disturbed = FALSE
CONSTRAINT Focus
SYMMETRY Symmetry
SPECIFICATION Spec
INVARIANTS PassIsEarned BlameIsEarned RowMatchesReport
CHECK_DEADLOCK FALSE
