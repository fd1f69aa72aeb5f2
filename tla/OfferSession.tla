---------------------------- MODULE OfferSession ----------------------------
(***************************************************************************)
(* What the Listener promises for the offers it admits, without goroutines,*)
(* contexts, Conns or locks: a bounded number of offers is being worked on,*)
(* a key belongs to one session until that session has said its last word, *)
(* and every session ends established or failed.                           *)
(***************************************************************************)
EXTENDS Naturals, FiniteSets

CONSTANTS Key, Session, NoSession, MaxNegotiations

VARIABLES
    holder,   \* the session a key belongs to
    slots,    \* the sessions that count against MaxNegotiations
    stage     \* how far a session has come

vars == <<holder, slots, stage>>

Stage == {"new", "negotiating", "replying", "failed", "established"}

Init ==
    /\ holder = [k \in Key |-> NoSession]
    /\ slots = {}
    /\ stage = [s \in Session |-> "new"]

Admit(s, k) ==
    /\ stage[s] = "new"
    /\ holder[k] = NoSession
    /\ Cardinality(slots) < MaxNegotiations
    /\ holder' = [holder EXCEPT ![k] = s]
    /\ slots' = slots \cup {s}
    /\ stage' = [stage EXCEPT ![s] = "negotiating"]

\* A failure is reported while the key is still reserved for the session, so
\* the report cannot be taken for the failure of a replacement.
StartReply(s) ==
    /\ stage[s] = "negotiating"
    /\ \E k \in Key : holder[k] = s
    /\ stage' = [stage EXCEPT ![s] = "replying"]
    /\ UNCHANGED <<holder, slots>>

Fail(s) ==
    /\ stage[s] \in {"negotiating", "replying"}
    /\ \E k \in Key : holder[k] = s
    /\ stage' = [stage EXCEPT ![s] = "failed"]
    /\ UNCHANGED <<holder, slots>>

Establish(s) ==
    /\ stage[s] = "negotiating"
    /\ \E k \in Key : holder[k] = s
    /\ stage' = [stage EXCEPT ![s] = "established"]
    /\ UNCHANGED <<holder, slots>>

\* The key is free again, and only now.
Forget(s, k) ==
    /\ stage[s] \in {"failed", "established"}
    /\ holder[k] = s
    /\ holder' = [holder EXCEPT ![k] = NoSession]
    /\ UNCHANGED <<slots, stage>>

\* A failed session gives its slot back only after its key.
ReleaseSlot(s) ==
    /\ stage[s] = "established" \/ (stage[s] = "failed"
                                    /\ \A k \in Key : holder[k] # s)
    /\ s \in slots
    /\ slots' = slots \ {s}
    /\ UNCHANGED <<holder, stage>>

Next ==
    \E s \in Session :
        \/ \E k \in Key : Admit(s, k) \/ Forget(s, k)
        \/ StartReply(s) \/ Fail(s) \/ Establish(s) \/ ReleaseSlot(s)

Spec == Init /\ [][Next]_vars
=============================================================================
