------------------------------- MODULE ShopifyCart -------------------------------
(***************************************************************************)
(* What the harness makes of a submitted cart.js body: the normalisation of *)
(* integrations/shopify/audit.py and observation.py, and the exact-cart     *)
(* contract of templates.py that judges the result.                         *)
(*                                                                          *)
(* Money stays in minor units: cart_amount divides an integer by a hundred  *)
(* in exact decimals, so two amounts are equal exactly when their minor     *)
(* units are.  A key that the body does not have is Absent; a value of a    *)
(* type that the normaliser refuses is None.                                *)
(***************************************************************************)
EXTENDS Absence, Integers, Sequences, FiniteSetsExt

CONSTANTS
    TestVariant,       \* ShopifySettings.test_variant_id
    ExpectedCurrency,  \* ShopifySettings.expected_currency
    Upper,             \* the spellings of three-letter codes, with their upper case
    Warning,           \* the terms that the paired contract weighs as warnings
    Absent             \* a key the body does not carry

----------------------------------------------------------------------------
\* Refusals

\* _count
usable_count(value) == value # None /\ value # Absent /\ value >= 0

\* cart_amount: integer minor units, of either sign
usable_amount(value) == value # None /\ value # Absent

\* _currency: three letters, in either case
usable_currency(code) == code \in DOMAIN Upper

\* payload.get(key, default)
get(value, default) == IF value = Absent THEN default ELSE value

\* _require_cart_resource: read from cart.js, and from nowhere that is forbidden
require_cart_resource(d) == d.capture_path = "cart.js"

\* _SELF_REPORT_MARKERS: the body is a cart.js read and no tool result
session_read(d) == d.items # Absent /\ d.item_count # Absent /\ ~ d.tool_result

line_usable(line) ==
    /\ line.variant # None
    /\ usable_count(line.quantity)
    /\ usable_amount(line.price)
    /\ usable_amount(get(line.line_price, line.price))

\* _confirmed_origin: silent about its store, or naming the configured one
confirmed_origin(d) == d.page # Absent => d.page.store_origin \in {Absent, "configured"}

\* _checkout_navigation: stated, and a boolean
checkout_stated(d) == d.page # Absent /\ d.page.checkout \in {"stayed", "left"}

usable(d) ==
    /\ session_read(d)
    /\ \A i \in DOMAIN d.items : line_usable(d.items[i])
    /\ usable_count(d.item_count)
    /\ \A amount \in {get(d.total, 0), get(d.subtotal, get(d.total, 0)), get(d.discount, 0)} :
           usable_amount(amount)
    /\ usable_currency(d.currency)
    /\ confirmed_origin(d)
    /\ checkout_stated(d)

----------------------------------------------------------------------------
\* normalize_cart and project_cart

\* keyed by variant: of two lines of one variant the later replaces the earlier
normalize_cart(d) ==
    LET variants == {d.items[i].variant : i \in DOMAIN d.items}
        last(v) == CHOOSE i \in DOMAIN d.items :
                      /\ d.items[i].variant = v
                      /\ \A j \in DOMAIN d.items : d.items[j].variant = v => j <= i
    IN  [items      |-> [v \in variants |->
                           LET line == d.items[last(v)] IN
                           [quantity   |-> line.quantity,
                            unit_price |-> line.price,
                            line_total |-> get(line.line_price, line.price)]],
         item_count |-> d.item_count,
         subtotal   |-> get(d.subtotal, get(d.total, 0)),
         total      |-> get(d.total, 0),
         currency   |-> Upper[d.currency]]

\* slip: the lines are compared with the subtotal and the discount is not
LinesAgree(items, subtotal, discount, total) ==
    MapThenSumSet(LAMBDA v : items[v].line_total, DOMAIN items) = subtotal

\* _totals_agree: three identities of the cart's own numbers
totals_agree(items, subtotal, discount, total) ==
    /\ \A v \in DOMAIN items : items[v].line_total = items[v].unit_price * items[v].quantity
    /\ MapThenSumSet(LAMBDA v : items[v].line_total, DOMAIN items) = subtotal
    /\ subtotal - discount = total

\* the configured variant's line is the one named test_variant
project_cart(d) ==
    LET cart == normalize_cart(d)
        discount == get(d.discount, 0)
    IN  [items             |-> cart.items,
         item_count        |-> cart.item_count,
         subtotal          |-> cart.subtotal,
         discount_total    |-> discount,
         total             |-> cart.total,
         currency          |-> cart.currency,
         totals_consistent |-> totals_agree(cart.items, cart.subtotal, discount, cart.total),
         checkout          |-> d.page.checkout]

\* _observe: the observation, or None where the submission is refused
observe(d) == IF require_cart_resource(d) /\ usable(d) THEN project_cart(d) ELSE None

\* _require_empty_cart
empty_cart(cart) == DOMAIN cart.items = {}

----------------------------------------------------------------------------
\* The shopify_exact_cart contract

\* _EXACT_CART: the terms that do not depend on the configuration
EXACT_CART(cart) ==
    [ exactly_one_cart_line            |-> Cardinality(DOMAIN cart.items) = 1,
      test_variant_quantity_is_one     |-> /\ TestVariant \in DOMAIN cart.items
                                           /\ cart.items[TestVariant].quantity = 1,
      cart_holds_one_item              |-> cart.item_count = 1,
      totals_are_internally_consistent |-> cart.totals_consistent,
      no_checkout_navigation           |-> cart.checkout = "stayed" ]

\* the two terms that expand adds from it
expand(cart) ==
    [ the_configured_test_variant |-> TestVariant \in DOMAIN cart.items,
      the_expected_currency       |-> cart.currency = ExpectedCurrency ]

Unmet(cart) ==
    {t \in DOMAIN EXACT_CART(cart) : ~ EXACT_CART(cart)[t]} \cup
    {t \in DOMAIN expand(cart) : ~ expand(cart)[t]}

\* aggregate: a critical term that fails, failing that one of the warnings
verdict(cart) ==
    IF Unmet(cart) \ Warning # {} THEN "failed"
    ELSE IF Unmet(cart) # {} THEN "passed_with_warnings"
    ELSE "passed"

----------------------------------------------------------------------------
\* What the contract is for, said of the cart.js body itself

\* the configured variant, once, for what it costs, and nothing else in the cart
HoldsExactlyTheVariant(d) ==
    /\ Len(d.items) = 1
    /\ d.items[1].variant = TestVariant
    /\ d.items[1].quantity = 1
    /\ get(d.total, 0) + get(d.discount, 0) = d.items[1].price
    /\ Upper[d.currency] = ExpectedCurrency
==================================================================================
