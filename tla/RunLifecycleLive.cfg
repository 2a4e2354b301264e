\* Two runs in turn, a reset with its late reseed and two requests, no faults, under the
\* fairness of the handlers.
CONSTANTS
    Runs = {r1, r2}
    Requests = {q1, q2}
    Resets = {z1}
    Tools = {checkout}
    Protected = {checkout}
    Args = {a1}
    States = {s0, s1}
    Seed = s0
    None = None
    Deciders = 1
    RunCeiling = 10
    ArtifactRoom = 5
    Faults = {}
SPECIFICATION FairSpec
INVARIANTS OneLiveRun
PROPERTIES VerdictsFinal DecisionArrives VerificationEnds DispatchReported
CHECK_DEADLOCK FALSE
