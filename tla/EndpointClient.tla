---------------------------- MODULE EndpointClient ----------------------------
(***************************************************************************)
(* The Client of package endpoint as the Signaling of several dials, and   *)
(* the Handler it talks to.  A request carries the offer of one dial, so   *)
(* it stands for the dial as well; the requests of one client are those of *)
(* the dials that share a Client.  Signal returns only when the answer has *)
(* been handed to the notifiers: there is no other way back, and an error  *)
(* that a dial signals goes nowhere.                                       *)
(***************************************************************************)
EXTENDS EndpointHandler

VARIABLES
    call,       \* where the dial, and its Signal with the offer, are
    notifiers,  \* c.notifiers: the dials whose notifier is registered
    copied,     \* the copy of them that notifySignal goes through
    heard       \* history: the negotiations whose answer a notifier has had

client == <<call, notifiers, copied, heard>>
clientVars == <<vars, client>>

ClientTypeOK ==
    /\ TypeOK
    /\ call \in [Request -> {"idle", "posted", "notifying", "returned",
                             "failed", "gaveUp"}]
    /\ notifiers \subseteq Request
    /\ copied \in [Request -> SUBSET Request]
    /\ heard \in [Request -> SUBSET Request]

ClientInit ==
    /\ Init
    /\ call = [r \in Request |-> "idle"]
    /\ notifiers = {}
    /\ copied = [r \in Request |-> {}]
    /\ heard = [r \in Request |-> {}]

-----------------------------------------------------------------------------
(* Dialer.DialContext and Client.Signal *)

Moves(r, from, to) == call[r] \in from /\ call' = [call EXCEPT ![r] = to]

\* A dial registers its notifier before it signals the offer.  (Faulty
\* variant: once Signal has returned.)
NotYetRegistered(r) == notifiers
Registered(r) == notifiers \cup {r}

\* The offer is posted.
Post(r) ==
    /\ Moves(r, {"idle"}, "posted")
    /\ notifiers' = Registered(r)
    /\ UNCHANGED <<vars, copied, heard>>

\* The context of the dial ends, the connection breaks, or the body of the
\* response cannot be used: Signal fails whatever becomes of the request.
GiveUp(r) ==
    /\ Moves(r, {"posted"}, "gaveUp")
    /\ UNCHANGED <<vars, notifiers, copied, heard>>

\* Any other response than an answer is an error.
ReadFailure(r) ==
    /\ pc[r] = "done" /\ status[r] # "answer"
    /\ Moves(r, {"posted"}, "failed")
    /\ UNCHANGED <<vars, notifiers, copied, heard>>

\* notifySignal copies the notifiers of this Client under the lock.
ReadAnswer(r) ==
    /\ pc[r] = "done" /\ status[r] = "answer"
    /\ Moves(r, {"posted"}, "notifying")
    /\ copied' = [copied EXCEPT ![r] = {q \in notifiers : q[1] = r[1]}]
    /\ UNCHANGED <<vars, notifiers, heard>>

\* A notifier takes what has the connection ID of its dial.  (Faulty variant:
\* every answer of the server it dials.)
ForServer(q, r) == TRUE
ForDial(q, r) == q = r

\* Without the lock it calls one after the other, also those that have been
\* stopped since, and Signal returns.
NotifyDials(r) ==
    /\ Moves(r, {"notifying"}, "returned")
    /\ heard' = [q \in Request |->
                   IF q \in copied[r] /\ ForDial(q, r)
                     THEN heard[q] \cup {result[r]} ELSE heard[q]]
    /\ copied' = [copied EXCEPT ![r] = {}]
    /\ UNCHANGED <<vars, notifiers>>

\* A dial that fails stops its notifier, and so does the Conn of one that does
\* not, when it closes.
StopDial(r) ==
    /\ call[r] \in {"returned", "failed", "gaveUp"}
    /\ r \in notifiers
    /\ notifiers' = notifiers \ {r}
    /\ UNCHANGED <<vars, call, copied, heard>>

\* The server handles what has been posted.
Serve ==
    /\ Next
    /\ \A r \in Request : call[r] = "idle" => pc'[r] = "new"
    /\ UNCHANGED client

ClientNext ==
    \/ \E r \in Request :
         \/ Post(r) \/ GiveUp(r) \/ ReadFailure(r) \/ ReadAnswer(r)
         \/ NotifyDials(r) \/ StopDial(r)
    \/ Serve

ClientSpec == ClientInit /\ [][ClientNext]_clientVars

-----------------------------------------------------------------------------
\* From end to end: a dial gets no answer but that of the negotiation of its
\* own offer; when its Signal has returned without an error it has got it, and
\* the Listener has not been told that nobody waits; and an answer that
\* Handler.Signal took is lost to a Signal that fails only when its request has
\* run out or the client has given up.
AnswerReaches ==
    \A r \in Request :
        /\ heard[r] \subseteq {r}
        /\ call[r] = "returned" => r \in heard[r] /\ ~canceled[r]
        /\ neg[r] = "answered" /\ call[r] = "failed" => ctx[r] # "live"
=============================================================================
