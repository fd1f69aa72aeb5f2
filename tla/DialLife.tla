------------------------------ MODULE DialLife ------------------------------
(***************************************************************************)
(* What a call of DialContext and the Conn it returns look like from the   *)
(* other side of the Signaling: an offer, at most one answer accepted, a   *)
(* connection, an end that is final, and an error owed only by a call that *)
(* has not returned a Conn.  What trickleCandidate signals is left out.    *)
(***************************************************************************)
CONSTANT Dial

VARIABLES
    life,  \* how far a dial has come
    owed   \* an error may still be signaled for it

vars == <<life, owed>>

Init ==
    /\ life = [d \in Dial |-> "idle"]
    /\ owed = [d \in Dial |-> FALSE]

GoesTo(d, l) ==
    /\ life' = [life EXCEPT ![d] = l]
    /\ UNCHANGED owed

Offer(d) == life[d] = "idle" /\ GoesTo(d, "offered")
AcceptAnswer(d) == life[d] = "offered" /\ GoesTo(d, "starting")
Connect(d) == life[d] = "starting" /\ GoesTo(d, "conn")

\* A call that fails before its offer has nobody to tell.
NeverOffers(d) == life[d] = "idle" /\ GoesTo(d, "over")

\* It may have to tell the peer that it has failed, unless it has returned.
Fail(d) ==
    /\ life[d] \in {"offered", "starting"}
    /\ life' = [life EXCEPT ![d] = "over"]
    /\ \E o \in BOOLEAN : owed' = [owed EXCEPT ![d] = o]

Close(d) == life[d] = "conn" /\ GoesTo(d, "over")

\* The error is signaled, or will not be.
Settle(d) ==
    /\ owed[d]
    /\ owed' = [owed EXCEPT ![d] = FALSE]
    /\ UNCHANGED life

Next ==
    \E d \in Dial :
        \/ Offer(d) \/ AcceptAnswer(d) \/ Connect(d) \/ NeverOffers(d)
        \/ Fail(d) \/ Close(d) \/ Settle(d)

Spec == Init /\ [][Next]_vars
=============================================================================
