--------------------------- MODULE MCIdempotency ---------------------------
(***************************************************************************)
(* Small instances of Idempotency.                                         *)
(***************************************************************************)
EXTENDS Idempotency, TLC

Interchangeable == Permutations(Requests) \cup Permutations(Bodies)
=============================================================================
