----------------------------- MODULE Handshake -----------------------------
(***************************************************************************)
(* Dialer and Listener together, over a Signaling that may lose, repeat    *)
(* and reorder what it carries.  DialContext and negotiate are reduced to  *)
(* the signals they send and take and to the ends of their Conns; modules  *)
(* Dialer and ListenerNegotiation have the rest.  Candidates are left out: *)
(* a Conn without one fails like any other.                                *)
(*                                                                         *)
(* A connection ID is chosen by the application when Dialer.ConnectionID   *)
(* is set, so several dials may have the same one, in turn or at once.     *)
(* What is in offers and answers is in SessionDescription.                 *)
(***************************************************************************)
EXTENDS SessionDescription

CONSTANTS
    MaxDials,     \* calls of DialContext, numbered in the order they offer
    MaxNegs,      \* listenerNegotiator objects, numbered as they are admitted
    MaxTrickles,  \* candidates that cannot be signaled, one of a Conn at most
    ID            \* connection IDs; one network ID at each side

ASSUME HandshakeAssumption ==
    /\ MaxDials \in Nat
    /\ MaxNegs \in Nat
    /\ MaxTrickles \in Nat

Dial == 1..MaxDials
Neg == 1..MaxNegs
None == 0

VARIABLES
    id,          \* Dialer.ConnectionID of each dial
    ordered,     \* the Signaling keeps the order of the signals it delivers
    upLog,       \* what the dials have signaled to the Listener
    downLog,     \* what the negotiations have signaled to the dials
    upAt,        \* the place in upLog that the Listener has reached
    downAt,      \* the place in downLog that each dial has reached
    dial,        \* how far a dial has come
    peer,        \* the negotiation whose answer a dial has accepted
    link,        \* the negotiation its transports have connected with
    blame,       \* history: the negotiation whose error has ended a dial
    owed,        \* the goroutine of Dialer.signalError has yet to signal
    overlap,     \* history: another dial with this ID was not quite over
    dialTrickle, \* the goroutine of a candidate of the dial's Conn
    neg,         \* how far a negotiation has come
    offer,       \* the dial whose offer it negotiates
    canceledBy,  \* history: the dial whose error has canceled it
    negTrickle,  \* the goroutine of a candidate of the negotiation's Conn
    negOverlap   \* history: another's candidate could still signal an error

network == <<id, ordered>>
up == <<upLog, upAt>>
down == <<downLog, downAt>>
dials == <<dial, peer, link, blame, owed, overlap, dialTrickle>>
negs == <<neg, offer, canceledBy, negTrickle, negOverlap>>
vars == <<network, up, down, dials, negs>>

UpSignals == [type : {"offer", "error"}, from : Dial]
DownSignals == [type : {"answer", "error"}, from : Neg]

\* "starting" has an accepted answer, "conn" has its transports up.
DialStages == {"idle", "offered", "starting", "conn", "over"}
\* "canceled" is working on an offer it has lost, "failing" may have a reply to
\* signal, and a negotiation keeps its key until it is over.  An offer is
\* refused for that key without a word, as if it were lost: the key is given
\* back in the last step that another side can see.
NegStages ==
    {"idle", "working", "canceled", "answered", "open", "failing", "over"}
EndedStages == {"canceled", "failing", "over"}
Ended(n) == neg[n] \in EndedStages

\* A candidate could not be signaled: Signal is called for an error, which may
\* be carried at any time until the call is over, and conn.close comes next.
TrickleStages == {"none", "failing", "closing"}

TypeOK ==
    /\ id \in [Dial -> ID]
    /\ ordered \in BOOLEAN
    /\ upLog \in Seq(UpSignals)
    /\ downLog \in Seq(DownSignals)
    /\ upAt \in Nat \ {0}
    /\ downAt \in [Dial -> Nat \ {0}]
    /\ dial \in [Dial -> DialStages]
    /\ peer \in [Dial -> Neg \cup {None}]
    /\ link \in [Dial -> Neg \cup {None}]
    /\ blame \in [Dial -> Neg \cup {None}]
    /\ owed \in [Dial -> BOOLEAN]
    /\ overlap \in [Dial -> BOOLEAN]
    /\ dialTrickle \in [Dial -> TrickleStages]
    /\ neg \in [Neg -> NegStages]
    /\ offer \in [Neg -> Dial \cup {None}]
    /\ canceledBy \in [Neg -> Dial \cup {None}]
    /\ negTrickle \in [Neg -> TrickleStages]
    /\ negOverlap \in [Neg -> BOOLEAN]

Init ==
    /\ id \in [Dial -> ID]
    /\ ordered \in BOOLEAN
    /\ upLog = <<>> /\ downLog = <<>>
    /\ upAt = 1 /\ downAt = [d \in Dial |-> 1]
    /\ dial = [d \in Dial |-> "idle"]
    /\ peer = [d \in Dial |-> None]
    /\ link = [d \in Dial |-> None]
    /\ blame = [d \in Dial |-> None]
    /\ owed = [d \in Dial |-> FALSE]
    /\ overlap = [d \in Dial |-> FALSE]
    /\ dialTrickle = [d \in Dial |-> "none"]
    /\ neg = [n \in Neg |-> "idle"]
    /\ offer = [n \in Neg |-> None]
    /\ canceledBy = [n \in Neg |-> None]
    /\ negTrickle = [n \in Neg |-> "none"]
    /\ negOverlap = [n \in Neg |-> FALSE]

-----------------------------------------------------------------------------
(* The Signaling                                                            *)

\* The places a receiver at place p may be given next: all of them, or those
\* from p on.  Skipping one loses it, staying at p repeats it.
Deliverable(log, p) == {i \in 1..Len(log) : ordered => p <= i}
Reached(p, i) == IF ordered THEN i ELSE p

SignalUp(d, t) == upLog' = Append(upLog, [type |-> t, from |-> d])
SignalDown(n, t) == downLog' = Append(downLog, [type |-> t, from |-> n])

\* A notifier is given the signals with its own connection ID.  (Faulty
\* variant: those of its remote network.)
IsForAny(d, n) == TRUE
IsFor(d, n) == id[d] = id[offer[n]]

\* Another candidate may fail to be signaled.  (A bound of the model.)
MayTrickle ==
    Cardinality({d \in Dial : dialTrickle[d] # "none"})
      + Cardinality({n \in Neg : negTrickle[n] # "none"}) < MaxTrickles

-----------------------------------------------------------------------------
(* DialContext                                                              *)

\* e may still signal an error.
Lingers(e) ==
    dial[e] \notin {"idle", "over"} \/ owed[e] \/ dialTrickle[e] = "failing"

\* The dial registers its notifier and signals its offer.
Offer(d) ==
    /\ dial[d] = "idle"
    /\ \A e \in Dial : e < d => dial[e] # "idle"
    /\ dial' = [dial EXCEPT ![d] = "offered"]
    /\ overlap' = [overlap EXCEPT ![d] =
                     \E e \in Dial \ {d} : id[e] = id[d] /\ Lingers(e)]
    /\ SignalUp(d, "offer")
    /\ UNCHANGED <<network, upAt, down, peer, link, blame, owed, dialTrickle,
                   negs>>

\* The signal at place i of downLog reaches d, by way of its channel.
Takes(d, i, t) ==
    /\ i \in Deliverable(downLog, downAt[d])
    /\ downLog[i].type = t
    /\ IsFor(d, downLog[i].from)
    /\ downAt' = [downAt EXCEPT ![d] = Reached(@, i)]
    /\ UNCHANGED downLog

\* The first answer is accepted, or refused; the later ones find handleConn,
\* which does not look at answers.
TakeAnswer(d, i) ==
    /\ dial[d] = "offered"
    /\ Takes(d, i, "answer")
    /\ dial' = [dial EXCEPT ![d] = "starting"]
    /\ peer' = [peer EXCEPT ![d] = downLog[i].from]
    /\ UNCHANGED <<network, up, link, blame, owed, overlap, dialTrickle, negs>>

\* An answer is refused: it does not parse, or the server's identity is not
\* allowed.  An error is signaled by a goroutine that outlives DialContext.
RefuseAnswer(d, i) ==
    /\ dial[d] = "offered"
    /\ Takes(d, i, "answer")
    /\ dial' = [dial EXCEPT ![d] = "over"]
    /\ owed' = [owed EXCEPT ![d] = TRUE]
    /\ UNCHANGED <<network, up, peer, link, blame, overlap, dialTrickle, negs>>

\* Only a dial whose DialContext has yet to return owes an error: select may
\* prefer its deadline to whatever else has happened.
MayOwe(d) == IF dial[d] = "conn" THEN {FALSE} ELSE BOOLEAN

\* A remote error cancels the Conn at any stage.
TakeError(d, i) ==
    /\ dial[d] \in {"offered", "starting", "conn"}
    /\ Takes(d, i, "error")
    /\ dial' = [dial EXCEPT ![d] = "over"]
    /\ blame' = [blame EXCEPT ![d] = downLog[i].from]
    /\ \E o \in MayOwe(d) : owed' = [owed EXCEPT ![d] = o]
    /\ UNCHANGED <<network, up, peer, link, overlap, dialTrickle, negs>>

\* DialContext fails on its context, the Signaling, a candidate or a transport.
DialFails(d) ==
    /\ dial[d] \in {"offered", "starting"}
    /\ dial' = [dial EXCEPT ![d] = "over"]
    /\ \E o \in MayOwe(d) : owed' = [owed EXCEPT ![d] = o]
    /\ UNCHANGED <<network, up, down, peer, link, blame, overlap,
                   dialTrickle, negs>>

\* startTransports: the ICE credentials and the fingerprint are those of the
\* negotiation of this very offer, or the transports do not connect.
Connect(d) ==
    /\ dial[d] = "starting"
    /\ offer[peer[d]] = d
    /\ dial' = [dial EXCEPT ![d] = "conn"]
    /\ link' = [link EXCEPT ![d] = peer[d]]
    /\ UNCHANGED <<network, up, down, peer, blame, owed, overlap,
                   dialTrickle, negs>>

\* The Conn closes: the application closes it, or a transport has ended.
DialEnds(d) ==
    /\ dial[d] = "conn"
    /\ dial' = [dial EXCEPT ![d] = "over"]
    /\ UNCHANGED <<network, up, down, peer, link, blame, owed, overlap,
                   dialTrickle, negs>>

DialTrickleGoes(d, t) ==
    /\ dialTrickle' = [dialTrickle EXCEPT ![d] = t]
    /\ UNCHANGED <<network, upAt, down, dial, peer, link, blame, owed,
                   overlap, negs>>

\* trickleCandidate cannot signal a candidate and calls Signal for an error,
\* while the Conn is open: later, its context is done, and a Signal that begins
\* then carries nothing.  Meanwhile the dial goes on, or ends.
DialTrickleFails(d) ==
    /\ dial[d] \in {"offered", "starting", "conn"}
    /\ dialTrickle[d] = "none"
    /\ MayTrickle
    /\ DialTrickleGoes(d, "failing")
    /\ UNCHANGED upLog

\* The error is carried; one that Signal cannot carry is lost.  conn.close
\* comes after that: it is DialFails or DialEnds, or finds the dial over.
DialTrickleSends(d) ==
    /\ dialTrickle[d] = "failing"
    /\ SignalUp(d, "error")
    /\ DialTrickleGoes(d, "closing")

\* The goroutine of Dialer.signalError, within SignalErrorTimeout or in vain.
SendError(d) ==
    /\ owed[d]
    /\ owed' = [owed EXCEPT ![d] = FALSE]
    /\ SignalUp(d, "error")
    /\ UNCHANGED <<network, upAt, down, dial, peer, link, blame, overlap,
                   dialTrickle, negs>>

AbandonError(d) ==
    /\ owed[d]
    /\ owed' = [owed EXCEPT ![d] = FALSE]
    /\ UNCHANGED <<network, up, down, dial, peer, link, blame, overlap,
                   dialTrickle, negs>>

DialNext(d) ==
    \/ Offer(d) \/ DialFails(d) \/ Connect(d) \/ DialEnds(d)
    \/ DialTrickleFails(d) \/ DialTrickleSends(d)
    \/ SendError(d) \/ AbandonError(d)
    \/ \E i \in 1..Len(downLog) :
          TakeAnswer(d, i) \/ RefuseAnswer(d, i) \/ TakeError(d, i)

-----------------------------------------------------------------------------
(* NotifySignal and negotiate                                               *)

\* n is in the map of the Listener: from its admission until its reply has
\* been sent and its Conn is closed.  (Faulty variant: until it fails.)
HoldsUntilFailure(n) ==
    neg[n] \in {"working", "canceled", "answered", "open"}
Holds(n) == neg[n] \notin {"idle", "over"}

\* The signal at place i of upLog reaches the Listener.
Heard(i, t) ==
    /\ i \in Deliverable(upLog, upAt)
    /\ upLog[i].type = t
    /\ upAt' = Reached(upAt, i)
    /\ UNCHANGED upLog

\* An offer for a free key starts a negotiation; a duplicate is refused
\* without a word, as if it were lost.
Admit(n, i) ==
    LET d == upLog[i].from
    IN  /\ neg[n] = "idle"
        /\ \A m \in Neg : m < n => neg[m] # "idle"
        /\ Heard(i, "offer")
        /\ \A m \in Neg : Holds(m) => ~IsFor(d, m)
        /\ neg' = [neg EXCEPT ![n] = "working"]
        /\ offer' = [offer EXCEPT ![n] = d]
        /\ negOverlap' = [negOverlap EXCEPT ![n] =
                            \E m \in Neg : negTrickle[m] = "failing"
                                           /\ IsFor(d, m)]
        /\ UNCHANGED <<network, down, dials, canceledBy, negTrickle>>

NegGoesTo(n, s) ==
    /\ neg' = [neg EXCEPT ![n] = s]
    /\ UNCHANGED <<network, up, downAt, dials, offer, canceledBy, negTrickle,
                   negOverlap>>

\* A Conn that has been accepted closes; one that has not ends handleOffer,
\* which may reply.
EndOf(n) ==
    [working |-> "canceled", answered |-> "failing", open |-> "over"][neg[n]]

\* An error cancels the owner of its key unless that one is closed already.
\* handleOffer may be about to signal an answer.
TakeCancel(n, i) ==
    LET d == upLog[i].from
    IN  /\ neg[n] \in {"working", "answered", "open"}
        /\ Heard(i, "error")
        /\ IsFor(d, n)
        /\ neg' = [neg EXCEPT ![n] = EndOf(n)]
        /\ canceledBy' = [canceledBy EXCEPT ![n] = d]
        /\ UNCHANGED <<network, down, dials, offer, negTrickle, negOverlap>>

Answer(n) ==
    /\ neg[n] \in {"working", "canceled"}
    /\ SignalDown(n, "answer")
    /\ NegGoesTo(n, IF neg[n] = "working" THEN "answered" ELSE "failing")

GiveUp(n) ==
    neg[n] = "canceled" /\ NegGoesTo(n, "over") /\ UNCHANGED downLog

\* handleOffer fails.
NegFails(n) ==
    /\ neg[n] \in {"working", "answered"}
    /\ NegGoesTo(n, "failing")
    /\ UNCHANGED downLog

\* reportError has a code to reply; finish and close remove the owner.
Reply(n) ==
    /\ neg[n] = "failing"
    /\ SignalDown(n, "error")
    /\ NegGoesTo(n, "over")

NoReply(n) ==
    neg[n] = "failing" /\ NegGoesTo(n, "over") /\ UNCHANGED downLog

\* The dial has opened both data channels and Accept has returned the Conn.
Accept(n) ==
    /\ neg[n] = "answered"
    /\ link[offer[n]] = n
    /\ NegGoesTo(n, "open")
    /\ UNCHANGED downLog

\* The Conn closes: the Listener or the application closes it, or a transport
\* has ended.
CloseNeg(n) ==
    /\ neg[n] \in {"answered", "open"}
    /\ NegGoesTo(n, EndOf(n))
    /\ UNCHANGED downLog

NegTrickleGoes(n, t) ==
    /\ negTrickle' = [negTrickle EXCEPT ![n] = t]
    /\ UNCHANGED <<network, up, downAt, dials, neg, offer, canceledBy,
                   negOverlap>>

\* trickleCandidate, as above; candidates follow the answer, and a negotiation
\* that fails has yet to close its Conn.  Neither finish nor close waits for
\* the error.
NegTrickleFails(n) ==
    /\ neg[n] \in {"answered", "open", "failing"}
    /\ \E i \in 1..Len(downLog) :
          downLog[i] = [type |-> "answer", from |-> n]
    /\ negTrickle[n] = "none"
    /\ MayTrickle
    /\ NegTrickleGoes(n, "failing")
    /\ UNCHANGED downLog

\* conn.close comes after that: it is CloseNeg, or finds the Conn closed.
NegTrickleSends(n) ==
    /\ negTrickle[n] = "failing"
    /\ SignalDown(n, "error")
    /\ NegTrickleGoes(n, "closing")

NegNext(n) ==
    \/ Answer(n) \/ GiveUp(n) \/ NegFails(n) \/ Reply(n) \/ NoReply(n)
    \/ Accept(n) \/ CloseNeg(n)
    \/ NegTrickleFails(n) \/ NegTrickleSends(n)
    \/ \E i \in 1..Len(upLog) : Admit(n, i) \/ TakeCancel(n, i)

-----------------------------------------------------------------------------
Next ==
    \/ \E d \in Dial : DialNext(d)
    \/ \E n \in Neg : NegNext(n)

Safe == Init /\ [][Next]_vars

\* handleTransports reports the end of the other side.  (Faulty variant: to a
\* negotiation only once its Conn has been accepted.)
NegGone(d) == link[d] # None /\ Ended(link[d])
DialGoneAfterAccept(n) ==
    neg[n] = "open" /\ \E d \in Dial : link[d] = n /\ dial[d] = "over"
DialGone(n) == \E d \in Dial : link[d] = n /\ dial[d] = "over"

\* The transports of an end notice that the other one has ended; nothing else
\* has to happen.
Fairness ==
    /\ \A d \in Dial : WF_vars(NegGone(d) /\ DialEnds(d))
    /\ \A n \in Neg : WF_vars(DialGone(n) /\ CloseNeg(n))

Spec == Safe /\ Fairness

-----------------------------------------------------------------------------
(* Properties *)

\* Over, or about to be: trickleCandidate closes the Conn once its Signal has
\* returned, and the other side may have handled the error before that.
Doomed(d) == dial[d] = "over" \/ dialTrickle[d] # "none"
NegDoomed(n) == Ended(n) \/ negTrickle[n] # "none"

\* The errors of a dial are signaled by goroutines that outlive DialContext
\* (Dialer.signalError) or run while it goes on (trickleCandidate), under an ID
\* the application may use again.  They come from a dial that is over or about
\* to be, and so is the dial whose negotiation they cancel, unless the
\* Signaling reorders or one of the two dials was started while the other
\* could still signal.
CancelsOwnDial ==
    \A n \in Neg :
        LET d == canceledBy[n]
        IN  d # None =>
              /\ Doomed(d)
              /\ id[d] = id[offer[n]]
              /\ \/ Doomed(offer[n])
                 \/ ~ordered \/ overlap[d] \/ overlap[offer[n]]

\* The comments of listenerNegotiator.close and on duplicates: a failure reply
\* does not reach the replacement of its connection, and a duplicate does not
\* close the original.  Over a Signaling that keeps the order, a dial that is
\* ended by an error, its own negotiation's or another's of the same ID, has
\* lost the negotiation whose answer it took before the error came, or is
\* about to.  An error of trickleCandidate may be carried after finish: no
\* comment speaks of it, and it is excepted.
ReplacementSafe ==
    \A d \in Dial :
        blame[d] # None =>
            /\ NegDoomed(blame[d])
            /\ ordered /\ peer[d] # None =>
                 \/ NegDoomed(peer[d])
                 \/ negOverlap[peer[d]] \/ negOverlap[blame[d]]

\* A dial that has taken an answer and the negotiation that has sent it have
\* read the other's description as it was meant, and their transports fit.
PeersUnderstand == \A d \in Dial : peer[d] # None => DescriptionsAgree

\* The promise kept: a dial and a negotiation connect with each other only,
\* and neither end of a connection outlives the other.
DialEnd(d) ==
    IF dial[d] \in {"conn", "over"}
      THEN IF dial[d] = "conn" THEN "open" ELSE "over"
      ELSE "none"
NegEnd(n) ==
    IF neg[n] = "open" THEN "open" ELSE IF Ended(n) THEN "over" ELSE "none"

Pair == INSTANCE Pairing WITH
    dialEnd <- [d \in Dial |-> DialEnd(d)],
    negEnd <- [n \in Neg |-> NegEnd(n)]
ImplementsPairing == Pair!Spec
=============================================================================
