CONSTANTS
    None = None
    Canonical = "canonical"
    Flagged = {"flagged"}
    Unprintable = {"blank"}
    MaxTrials = 2
    MaxVariants = 2
    MaxBatch = 2
    MaxReps = 2
    MaxEvals = 2
    Runs = {r1, r2}
    Requests = {q1, q2}
    Reports <- MCReports
    Proposals <- MCProposals
CONSTRAINT Focus
SYMMETRY Symmetry
SPECIFICATION Spec
INVARIANTS OutcomesBacked RepetitionsSound MatrixHolds
PROPERTIES SealedStays
