\* Three requests for one lock; a sweep, a restart and a repeated import.
CONSTANTS
    w1 = w1
    w2 = w2
    r1 = r1
    r2 = r2
    r3 = r3
    o1 = o1
    o2 = o2
    o3 = o3
    d1 = d1
    none = none
    Ids = {w1, w2}
    Requests = {r1, r2, r3}
    LockObjects = {o1, o2, o3}
    Docs = {d1}
    MaxAudits = 1
    ARTIFACTS_PER_WORKSPACE = 2
    TTL = 1
    CREATIONS = 1
    BUCKET_IDLE = 1
    MaxNow = 2
    MaxCrashes = 1
SPECIFICATION Spec
INVARIANTS TypeOK OneHolder SealedReadable CreationsBounded
CONSTRAINT Focus
SYMMETRY Symmetric
CHECK_DEADLOCK TRUE
