--------------------------- MODULE MCTokenBucket ---------------------------
(* Instances of TokenBucket for TLC. *)
EXTENDS TokenBucket, TLC

\* Callers are interchangeable, and so are keys.
Symmetry == Permutations(Callers) \cup Permutations(Keys)
=============================================================================
