------------------------------ MODULE Pairing ------------------------------
(***************************************************************************)
(* What a Dialer and a Listener promise together, without signals, errors  *)
(* or identifiers: a dial connects with at most one negotiation and a      *)
(* negotiation with at most one dial, a Conn is accepted only after that,  *)
(* no end comes back, and neither end of a connection outlives the other.  *)
(***************************************************************************)
EXTENDS Naturals

CONSTANTS Dial, Neg, None

VARIABLES
    dialEnd,  \* the end of the connection at each dial
    negEnd,   \* the end of the connection at each negotiation
    link      \* the negotiation a dial has connected with

vars == <<dialEnd, negEnd, link>>

Init ==
    /\ dialEnd = [d \in Dial |-> "none"]
    /\ negEnd = [n \in Neg |-> "none"]
    /\ link = [d \in Dial |-> None]

Connect(d, n) ==
    /\ dialEnd[d] = "none"
    /\ \A e \in Dial : link[e] # n
    /\ dialEnd' = [dialEnd EXCEPT ![d] = "open"]
    /\ link' = [link EXCEPT ![d] = n]
    /\ UNCHANGED negEnd

Accept(n) ==
    /\ negEnd[n] = "none"
    /\ \E d \in Dial : link[d] = n
    /\ negEnd' = [negEnd EXCEPT ![n] = "open"]
    /\ UNCHANGED <<dialEnd, link>>

EndDial(d) ==
    /\ dialEnd[d] # "over"
    /\ dialEnd' = [dialEnd EXCEPT ![d] = "over"]
    /\ UNCHANGED <<negEnd, link>>

EndNeg(n) ==
    /\ negEnd[n] # "over"
    /\ negEnd' = [negEnd EXCEPT ![n] = "over"]
    /\ UNCHANGED <<dialEnd, link>>

Next ==
    \/ \E d \in Dial, n \in Neg : Connect(d, n)
    \/ \E d \in Dial : EndDial(d)
    \/ \E n \in Neg : Accept(n) \/ EndNeg(n)

\* The other end of the connection has ended.
NegGone(d) == \E n \in Neg : link[d] = n /\ negEnd[n] = "over"
DialGone(n) == \E d \in Dial : link[d] = n /\ dialEnd[d] = "over"

Safe == Init /\ [][Next]_vars
Fairness ==
    /\ \A d \in Dial : WF_vars(NegGone(d) /\ EndDial(d))
    /\ \A n \in Neg : WF_vars(DialGone(n) /\ EndNeg(n))

Spec == Safe /\ Fairness
=============================================================================
