\* One product, one key for each tool, two confirmations, and a dispatch that races
\* the page.
CONSTANTS
    Products = {mug}
    MAX_LINE_QUANTITY = 2
    Keys = {k1}
    Confs = {c1, c2}
    Calls = {a1}
    Profiles = {"duplicate_on_retry", "discount_reported_but_not_applied", "undeclared_side_effect"}
    MaxVersion = 3
    None = None
SYMMETRY Symmetry
SPECIFICATION Spec
INVARIANTS OrderConsented OneOrderPerKey StateEarned
PROPERTIES AnswerTrue
