--------------------------- MODULE MCEndpointClient ---------------------------
(* Instances of EndpointClient, and with it of EndpointHandler, for TLC. *)
EXTENDS EndpointClient, TLC

Symmetry == Permutations(Client) \cup Permutations(Listener)

\* Of the troubles that are independent of each other a behaviour has one: the
\* second Listener, the end of the server, or a dial that gives up.
SecondListener == \A l \in Listener : closed[l] # "new"
DialGaveUp == \E r \in Request : call[r] = "gaveUp"
OneTrouble ==
    /\ SecondListener => serving /\ ~DialGaveUp
    /\ ~serving => ~DialGaveUp
=============================================================================
