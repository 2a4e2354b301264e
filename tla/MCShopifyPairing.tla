--------------------------- MODULE MCShopifyPairing ---------------------------
(***************************************************************************)
(* ShopifyPairing for TLC.                                                  *)
(***************************************************************************)
EXTENDS ShopifyPairing, TLC

\* requests differ in nothing but their names, and so do pairings
Interchangeable == Permutations(Requests) \cup Permutations(Pairings)
===============================================================================
