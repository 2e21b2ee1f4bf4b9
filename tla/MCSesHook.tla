----------------------------- MODULE MCSesHook -----------------------------
EXTENDS SesHook, TLC

\* Hooks are interchangeable.
Symmetry == Permutations(Hooks)

=============================================================================
