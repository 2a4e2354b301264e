\* Two requests at a time, two runs, both kinds of target.
CONSTANTS
    exact_cart = exact_cart
    shopify_cart = shopify_cart
    store = store
    shopify = shopify
    pre_fix = pre_fix
    post_fix = post_fix
    external_current = external_current
    discount = discount
    unbuilt = unbuilt
    none = none
    Contracts = {exact_cart, shopify_cart}
    Targets = {store, shopify}
    Managed = {store}
    TargetOf <- MCTargetOf
    Strict = {exact_cart}
    Modes <- MCModes
    Profiles = {discount, unbuilt}
    Injectable <- MCInjectable
    DemoOnly = {unbuilt}
    Defective = {pre_fix}
    Shipped = post_fix
    Requests = {q1, q2}
    RunIds = {r1, r2}
    OUTCOME_RUNS_PER_WORKSPACE = 2
SPECIFICATION Spec
SYMMETRY Symmetry
INVARIANTS InputsFixed RunWellFounded
PROPERTIES SelectionPrepared
