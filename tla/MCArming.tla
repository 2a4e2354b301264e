-------------------------------- MODULE MCArming --------------------------------
(***************************************************************************)
(* Arming with the two kinds of target the service ships: the demo store,    *)
(* which is driven and injects one of the two recognised faults, and a        *)
(* Shopify store, which is only observed.                                    *)
(***************************************************************************)
EXTENDS Arming, TLC

CONSTANTS exact_cart, shopify_cart, store, shopify, pre_fix, post_fix, external_current,
          discount, unbuilt

MCTargetOf == (exact_cart :> store) @@ (shopify_cart :> shopify)

MCModes == (store :> {pre_fix, post_fix}) @@ (shopify :> {external_current})

MCInjectable == (store :> {discount}) @@ (shopify :> {})

Symmetry == Permutations(Requests) \cup Permutations(RunIds)
=============================================================================
