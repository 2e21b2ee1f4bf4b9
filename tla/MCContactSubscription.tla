----------------------- MODULE MCContactSubscription -----------------------
EXTENDS ContactSubscription, TLC

\* Requests are interchangeable.
Symmetry == Permutations(Requests)

=============================================================================
