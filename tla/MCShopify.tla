------------------------------ MODULE MCShopify ------------------------------
(***************************************************************************)
(* Small instances of ShopifyMarketing.                                    *)
(***************************************************************************)
EXTENDS ShopifyMarketing, TLC

\* Handlers are interchangeable, and so are products and customers.
Symmetry == Permutations(Handlers) \cup Permutations(Products) \cup Permutations(Customers)

=============================================================================
