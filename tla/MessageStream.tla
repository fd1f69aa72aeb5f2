--------------------------- MODULE MessageStream ---------------------------
(***************************************************************************)
(* What a data channel promises to the two ends of a connection, without   *)
(* segments, locks or callbacks: what is received was sent, whole, once,   *)
(* and in the order it was sent where the channel is ordered.              *)
(***************************************************************************)
EXTENDS Naturals, Sequences

CONSTANT
    Packet     \* what an application sends; no packet is sent twice

VARIABLES
    ordered,   \* the reliable data channel, as opposed to the unreliable one
    sent,      \* the packets sent, in the order the channel takes them
    received   \* the packets received

vars == <<ordered, sent, received>>

Among(p, s) == \E i \in DOMAIN s : s[i] = p

Init == ordered \in BOOLEAN /\ sent = <<>> /\ received = <<>>

Send(p) ==
    /\ ~Among(p, sent)
    /\ sent' = Append(sent, p)
    /\ UNCHANGED <<ordered, received>>

Receive(p) ==
    /\ IF ordered
         THEN Len(received) < Len(sent) /\ p = sent[Len(received) + 1]
         ELSE Among(p, sent) /\ ~Among(p, received)
    /\ received' = Append(received, p)
    /\ UNCHANGED <<ordered, sent>>

Next == \E p \in Packet : Send(p) \/ Receive(p)

Spec == Init /\ [][Next]_vars
=============================================================================
