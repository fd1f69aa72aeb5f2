--------------------------- MODULE MCDataChannel ---------------------------
(* Instances of DataChannel for TLC. *)
EXTENDS DataChannel, TLC

\* Writers are interchangeable.
Symmetry == Permutations(Writer)
=============================================================================
