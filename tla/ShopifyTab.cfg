SPECIFICATION TabSpec
SYMMETRY Interchangeable
CONSTANTS
    t1 = t1
    t2 = t2
    c1 = c1
    c2 = c2
    Pairings = {p1}
    Ordinary = {}
    Tabs <- TwoTabs
    Calls <- TwoCalls
    Requests <- RequestsOfTabs
    Documents <- EveryBody
    Carts <- CartsOfDocuments
    Empty <- EmptyCart
    Lossy = TRUE
    TestVariant = "test"
    ExpectedCurrency = "USD"
    Upper <- UpperCase
    Warning = {}
    Absent = Absent
    PairingCeiling = 1
    RunCeiling = 1
    ArtifactRoom = 1
    None = None
INVARIANTS ShownIsTrue
CHECK_DEADLOCK FALSE
