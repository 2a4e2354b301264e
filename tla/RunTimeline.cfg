\* A ceiling small enough to be reached by a few calls, three of them at a time.
CONSTANTS
    EVENTS_PER_RUN = 24
    Assertions = 2
    Policies = 1
    Calls = 3
    CaptureLimit = 3
SPECIFICATION TimelineSpec
INVARIANTS OverrunBounded GuidanceCurrent
CHECK_DEADLOCK TRUE
