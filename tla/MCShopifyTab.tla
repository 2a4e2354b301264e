------------------------------ MODULE MCShopifyTab ------------------------------
(***************************************************************************)
(* ShopifyTab for TLC: one launch link, and the carts a storefront could    *)
(* serve.                                                                   *)
(***************************************************************************)
EXTENDS ShopifyTab, TLC

CONSTANTS t1, t2, c1, c2

Item(variant, quantity, price) ==
    [variant |-> variant, quantity |-> quantity, price |-> price, line_price |-> quantity * price]

\* a coherent body: the count is of units and the subtotal of lines
Body(items, count, subtotal, currency) ==
    [capture_path |-> "cart.js", tool_result |-> FALSE, items |-> items, item_count |-> count,
     subtotal |-> subtotal, discount |-> 0, total |-> subtotal, currency |-> currency,
     page |-> Absent]

EmptyBody == Body(<<>>, 0, 0, "USD")

OneVariant == Body(<<Item("test", 1, 2)>>, 1, 2, "usd")

\* the variant on two lines, as when each has properties of its own
TwoLines == Body(<<Item("test", 1, 2), Item("test", 1, 2)>>, 2, 4, "USD")

Unasked == Body(<<Item("test", 1, 2), Item("other", 1, 1)>>, 2, 3, "USD")

Foreign == Body(<<Item("test", 1, 2)>>, 1, 2, "EUR")

\* a total that the discount does not explain
Overcharged == [OneVariant EXCEPT !.total = 3]

Discounted == [OneVariant EXCEPT !.discount = 1, !.total = 1]

\* money that is not in minor units
Unusable == [OneVariant EXCEPT !.subtotal = None]

TwoTabs == {t1, t2}
TwoCalls == {c1, c2}
EveryBody == {EmptyBody, OneVariant, TwoLines, Unasked, Foreign, Overcharged, Discounted, Unusable}

\* derived from the choices above, as TabAssumption asks
RequestsOfTabs == Tabs \X ({"redeem", "before"} \cup Calls)
CartsOfDocuments == {observe(cartObservation(d)) : d \in Documents} \ {None}
EmptyCart == observe(cartObservation(EmptyBody))
UpperCase == [s \in {"USD", "usd", "EUR"} |-> IF s = "EUR" THEN "EUR" ELSE "USD"]

\* the launch link's tabs differ in nothing but their names, and so do a tab's calls
Interchangeable == Permutations(Tabs) \cup Permutations(Calls)
================================================================================
