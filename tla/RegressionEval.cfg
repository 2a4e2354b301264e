CONSTANTS
    None = None
    CheckOrder <- MCCheckOrder
    Contracts <- MCContracts
    Tools <- MCTools
    ReadOnly = {"look"}
    EffectMap <- MCEffects
    SourceScenarios = {"post_fix", "applied_twice", "unconsented", "undeclared", "false_success"}
    PostFix = "post_fix"
    Seed <- MCSeed
    Beginnings <- MCBeginnings
    Kinds = {"removed", "description_change"}
    RequestIds = {1}
    Behave <- MCBehave
    MaxCalls = 3
    MaxSurface = 2
    Evals = {e1, e2}
CONSTRAINT Focus
SYMMETRY Symmetry
SPECIFICATION EvalSpec
INVARIANTS GreenIsEarned Reproduces
CHECK_DEADLOCK FALSE
