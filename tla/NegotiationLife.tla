-------------------------- MODULE NegotiationLife --------------------------
(***************************************************************************)
(* What a listenerNegotiator and its Conn look like from the other side of *)
(* the Signaling: an answer at most once, a Conn only if nothing has ended *)
(* the negotiation before it is accepted, and a reply to a failure, after  *)
(* which the negotiation is over.  What trickleCandidate signals meanwhile *)
(* is left out: the negotiation does not wait for it.                      *)
(***************************************************************************)
CONSTANT Neg

VARIABLE life  \* how far a negotiation has come

Init == life = [n \in Neg |-> "idle"]

\* One that is "canceled" has lost its offer and may answer it all the same,
\* one that is "failing" may signal its reply, and neither can be accepted.
After ==
    [idle     |-> {"working"},
     working  |-> {"canceled", "answered", "failing"},
     canceled |-> {"failing", "over"},
     answered |-> {"failing", "open"},
     failing  |-> {"over"},
     open     |-> {"over"},
     over     |-> {}]

Step(n, l) ==
    /\ l \in After[life[n]]
    /\ life' = [life EXCEPT ![n] = l]

Next == \E n \in Neg : \E l \in After[life[n]] : Step(n, l)

Spec == Init /\ [][Next]_life
=============================================================================
