--------------------------- MODULE MCConnChannels ---------------------------
(* Instances of ConnChannels for TLC. *)
EXTENDS ConnChannels, TLC

Symmetry == Permutations(Channel)
=============================================================================
