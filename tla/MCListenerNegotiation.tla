----------------------- MODULE MCListenerNegotiation -----------------------
(* Instances of ListenerNegotiation for TLC. *)
EXTENDS ListenerNegotiation, TLC

\* Negotiators and callers are interchangeable; keys are not (Init chooses).
Symmetry == Permutations(Neg) \cup Permutations(Caller)
=============================================================================
