-------------------------- MODULE MCEmailDelivery --------------------------
EXTENDS EmailDelivery, TLC

\* Slots and clients are interchangeable.
Symmetry == Permutations(Workers) \cup Permutations(Clients)

=============================================================================
