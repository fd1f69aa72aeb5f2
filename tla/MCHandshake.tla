---------------------------- MODULE MCHandshake ----------------------------
(* Two dials and two negotiations, and one candidate that cannot be         *)
(* signaled.  Connection IDs are interchangeable, so the first dial has the *)
(* first of them.  Dials with IDs of their own never take a signal of one   *)
(* another, so the order of signals is varied for dials that share one.     *)
(* And the descriptions that offers and answers carry.                      *)
EXTENDS Handshake

CONSTANTS i1, i2
IDs == {i1, i2}

MCInit == Init /\ id[1] = i1 /\ (id[2] = i1 \/ ordered)
MCSpec == MCInit /\ [][Next]_vars /\ Fairness

\* Errors of trickleCandidate are explored where signals keep their order: the
\* exceptions for a Signaling that reorders leave little to find.
TricklesInOrder == ordered \/ UNCHANGED <<dialTrickle, negTrickle>>
=============================================================================
