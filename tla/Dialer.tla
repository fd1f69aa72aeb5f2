------------------------------- MODULE Dialer -------------------------------
(***************************************************************************)
(* One call of Dialer.DialContext: the notifier it registers, the signals   *)
(* it buffers, the Conn it negotiates, the goroutine that handles signals   *)
(* once there is an answer, and what it releases when it fails.             *)
(***************************************************************************)
EXTENDS Naturals, Sequences

CONSTANTS
    Capacity,    \* the capacity of dialerNotifier.signals (64)
    MaxSignals,  \* how many signals the signaling delivers (a bound)
    Kinds        \* the kinds of these

\* An answer or an offer, a candidate, one that handleSignal does not accept,
\* an error, and what is not for this dial or does not validate.
AllKinds == {"answer", "candidate", "bad", "error", "other"}

ASSUME DialerAssumption ==
    /\ Capacity \in Nat \ {0}
    /\ MaxSignals \in Nat
    /\ Kinds \subseteq AllKinds

VARIABLES
    \* the call
    pc,         \* where DialContext is
    result,     \* what it returns
    dctx,       \* its context
    reply,      \* the code signalError sends, in a goroutine
    \* the signaling and the notifier
    down,       \* signaling.Context() is done
    notifier,   \* registered, its context canceled, stopped
    arriving,   \* the signal NotifySignal is called with
    arrivals,   \* how many there were
    signals,    \* notifier.signals
    \* the Conn
    cctx,       \* conn.ctx
    asked,      \* somebody calls conn.close or will
    close,      \* the progress of conn.close
    candidateReceived,
    handler,    \* the goroutine that runs handleConn
    \* history
    peerError,  \* NotifySignal returned true for an error
    promised    \* and for a candidate

call == <<pc, result, reply>>
queue == <<arriving, arrivals, signals>>
conn == <<cctx, asked, close, candidateReceived>>
history == <<peerError, promised>>
vars == <<call, dctx, down, notifier, queue, conn, handler, history>>

NoSignal == "none"

TypeOK ==
    /\ pc \in {"credentials", "notify", "conn", "prepare", "offer", "trickle",
               "wait", "answer", "candidate", "transports", "close", "stop",
               "returned"}
    /\ result \in {"none", "conn", "error"}
    /\ dctx \in {"live", "deadline", "canceled"}
    /\ reply \in {"none", "WaitingForResponse", "InactivityTimeout",
                  "FailedToSetRemoteDescription", "IdentityNotAllowed",
                  "IncomingConnectionIgnored"}
    /\ down \in BOOLEAN
    /\ notifier \in {"none", "on", "canceled", "off"}
    /\ arriving \in Kinds \cup {NoSignal}
    /\ arrivals \in 0 .. MaxSignals
    /\ signals \in Seq(Kinds \ {"other"}) /\ Len(signals) <= Capacity
    /\ cctx \in {"none", "live", "done"}
    /\ asked \in BOOLEAN
    /\ close \in {"open", "handle", "transports", "closed"}
    /\ candidateReceived \in BOOLEAN
    /\ handler \in {"none", "running", "ended"}
    /\ peerError \in BOOLEAN
    /\ promised \in BOOLEAN

Init ==
    /\ pc = "credentials" /\ result = "none" /\ dctx = "live"
    /\ reply = "none" /\ down = FALSE /\ notifier = "none"
    /\ arriving = NoSignal /\ arrivals = 0 /\ signals = <<>>
    /\ cctx = "none" /\ asked = FALSE /\ close = "open"
    /\ candidateReceived = FALSE /\ handler = "none"
    /\ peerError = FALSE /\ promised = FALSE

-----------------------------------------------------------------------------
(* DialContext up to its first select *)

\* What a return with an error leads to: the deferred conn.close, if there is
\* a Conn, and the deferred stop, if the notifier is registered.  (Faulty
\* variant: stop is not deferred until there is a Conn.)
DeferredTooLate ==
    IF cctx # "none" THEN "close" ELSE "returned"
Deferred ==
    IF cctx # "none" THEN "close"
    ELSE IF notifier # "none" THEN "stop" ELSE "returned"

\* DialContext returns an error, and tells the peer so, or not.
FailWith(code) ==
    /\ pc' = Deferred
    /\ result' = "error"
    /\ reply' = code
    /\ asked' = (asked \/ cctx # "none")

\* The stages that succeed without changing anything else: the credentials, the
\* identity with the gathering of a non-trickle offer, the delivery of the
\* offer, and the start of the gathering.
NextStage == [credentials |-> "notify", prepare |-> "offer",
              offer |-> "trickle", trickle |-> "wait"]

StagePass ==
    /\ pc \in DOMAIN NextStage
    /\ pc' = NextStage[pc]
    /\ UNCHANGED <<result, reply, dctx, down, notifier, queue, conn, handler,
                   history>>

StageFail ==
    /\ pc \in DOMAIN NextStage \cup {"conn"}
    /\ FailWith("none")
    /\ UNCHANGED <<dctx, down, notifier, queue, cctx, close,
                   candidateReceived, handler, history>>

\* notifySignals: from here on signals are buffered.
NotifySignals ==
    /\ pc = "notify"
    /\ notifier' = "on"
    /\ pc' = "conn"
    /\ UNCHANGED <<result, reply, dctx, down, queue, conn, handler, history>>

NewConn ==
    /\ pc = "conn"
    /\ cctx' = "live"
    /\ pc' = "prepare"
    /\ UNCHANGED <<result, reply, dctx, down, notifier, queue, asked, close,
                   candidateReceived, handler, history>>

-----------------------------------------------------------------------------
(* Conn.handleSignal, of DialContext and of handleConn *)

\* What a candidate and an error do to a Conn that is live; nothing to another.
HandleSignal(k) ==
    /\ candidateReceived' =
         (candidateReceived \/ (k = "candidate" /\ cctx = "live"))
    /\ cctx' = IF k = "error" THEN "done" ELSE cctx
    /\ UNCHANGED close

\* It returns an error for what it does not accept.
Refused(k) == k = "bad" \/ cctx = "done"

-----------------------------------------------------------------------------
(* The first select of DialContext, and the answer *)

\* The Conn is closed, the caller gives up, or the signaling is down.
WaitEnds ==
    /\ pc = "wait"
    /\ \/ (cctx = "done" \/ down) /\ FailWith("none")
       \/ dctx = "canceled" /\ FailWith("none")
       \/ dctx = "deadline" /\ FailWith("WaitingForResponse")
    /\ UNCHANGED <<dctx, down, notifier, queue, cctx, close,
                   candidateReceived, handler, history>>

WaitTakes ==
    /\ pc = "wait"
    /\ signals # <<>>
    /\ LET k == Head(signals)
       IN  \/ /\ k = "answer"
              /\ pc' = "answer"
              /\ UNCHANGED <<result, reply, conn>>
           \/ /\ k # "answer" /\ ~Refused(k)
              /\ HandleSignal(k)
              /\ asked' = (asked \/ k = "error")
              /\ UNCHANGED call
           \/ /\ k # "answer" /\ Refused(k)
              /\ FailWith("IncomingConnectionIgnored")
              /\ UNCHANGED <<cctx, close, candidateReceived>>
    /\ signals' = Tail(signals)
    /\ UNCHANGED <<dctx, down, notifier, arriving, arrivals, handler, history>>

\* The answer does not parse, or its identity is not accepted.
AnswerRefused ==
    /\ pc = "answer"
    /\ \E code \in {"FailedToSetRemoteDescription", "IdentityNotAllowed"} :
         FailWith(code)
    /\ UNCHANGED <<dctx, down, notifier, queue, cctx, close,
                   candidateReceived, handler, history>>

\* What the goroutine that DialContext starts then is.  (Faulty variant: it is
\* not started before the transports are.)
NoHandler == "none"
StartedHandler == "running"

\* It is accepted, with candidates of its own or without.
AnswerAccepted ==
    /\ pc = "answer"
    /\ \E bundled \in BOOLEAN :
         candidateReceived' = (candidateReceived \/ bundled)
    /\ handler' = StartedHandler
    /\ pc' = "candidate"
    /\ UNCHANGED <<result, reply, dctx, down, notifier, queue, cctx, asked,
                   close, history>>

-----------------------------------------------------------------------------
(* The second select, and the transports *)

\* (Faulty variant: the context of the dial is not waited for.)
CandidateEndsWithConn ==
    /\ pc = "candidate"
    /\ cctx = "done" /\ FailWith("none")
    /\ UNCHANGED <<dctx, down, notifier, queue, cctx, close,
                   candidateReceived, handler, history>>
CandidateEnds ==
    /\ pc = "candidate"
    /\ \/ (cctx = "done" \/ dctx = "canceled") /\ FailWith("none")
       \/ dctx = "deadline" /\ FailWith("InactivityTimeout")
    /\ UNCHANGED <<dctx, down, notifier, queue, cctx, close,
                   candidateReceived, handler, history>>

CandidateReceived ==
    /\ pc = "candidate"
    /\ candidateReceived
    /\ pc' = "transports"
    /\ UNCHANGED <<result, reply, dctx, down, notifier, queue, conn, handler,
                   history>>

TransportsFail ==
    /\ pc = "transports"
    /\ \/ FailWith("none")
       \/ dctx = "deadline" /\ FailWith("InactivityTimeout")
    /\ UNCHANGED <<dctx, down, notifier, queue, cctx, close,
                   candidateReceived, handler, history>>

\* They start unless conn.close has stopped them; what has happened to the
\* contexts meanwhile is not looked at.
TransportsStarted ==
    /\ pc = "transports"
    /\ close # "closed"
    /\ pc' = "returned"
    /\ result' = "conn"
    /\ UNCHANGED <<reply, dctx, down, notifier, queue, conn, handler, history>>

-----------------------------------------------------------------------------
(* The deferred functions *)

DeferredClose ==
    /\ pc = "close"
    /\ close = "closed"
    /\ pc' = "stop"
    /\ UNCHANGED <<result, reply, dctx, down, notifier, queue, conn, handler,
                   history>>

DeferredStop ==
    /\ pc = "stop"
    /\ notifier = "off"
    /\ pc' = "returned"
    /\ UNCHANGED <<result, reply, dctx, down, notifier, queue, conn, handler,
                   history>>

\* The function notifySignals returns, called by dialerConn.handleClose or
\* deferred: it cancels the context of the notifier, then has it removed.
Stop ==
    /\ pc = "stop" \/ close = "handle"
    /\ \/ notifier = "on" /\ notifier' = "canceled"
       \/ notifier = "canceled" /\ notifier' = "off"
    /\ UNCHANGED <<call, dctx, down, queue, conn, handler, history>>

-----------------------------------------------------------------------------
(* Conn.close *)

\* A transport fails, the peer opens a data channel, a candidate cannot be
\* signaled, or the application closes the Conn it got.
Ask ==
    /\ cctx # "none" /\ ~asked
    /\ asked' = TRUE
    /\ UNCHANGED <<call, dctx, down, notifier, queue, cctx, close,
                   candidateReceived, handler, history>>

\* The context first, then handleClose.  (Faulty variant: the context is
\* not canceled.)
CloseUncanceled ==
    /\ asked /\ close = "open"
    /\ close' = "handle"
    /\ UNCHANGED <<call, dctx, down, notifier, queue, cctx, asked,
                   candidateReceived, handler, history>>
CloseBegin ==
    /\ asked /\ close = "open"
    /\ cctx' = "done"
    /\ close' = "handle"
    /\ UNCHANGED <<call, dctx, down, notifier, queue, asked,
                   candidateReceived, handler, history>>

CloseHandled ==
    /\ close = "handle" /\ notifier = "off"
    /\ close' = "transports"
    /\ UNCHANGED <<call, dctx, down, notifier, queue, cctx, asked,
                   candidateReceived, handler, history>>

CloseTransports ==
    /\ close = "transports"
    /\ close' = "closed"
    /\ UNCHANGED <<call, dctx, down, notifier, queue, cctx, asked,
                   candidateReceived, handler, history>>

-----------------------------------------------------------------------------
(* handleConn *)

\* Whether it handles such a signal.  (Faulty variant: candidates only.)
OnlyCandidates(k) == k = "candidate"
Handles(k) == k \in {"candidate", "bad", "error"}

HandlerTakes ==
    /\ handler = "running"
    /\ signals # <<>>
    /\ LET k == Head(signals)
       IN  IF Handles(k) /\ ~Refused(k)
             THEN HandleSignal(k) /\ asked' = (asked \/ k = "error")
             ELSE UNCHANGED conn
    /\ signals' = Tail(signals)
    /\ UNCHANGED <<call, dctx, down, notifier, arriving, arrivals, handler,
                   history>>

\* What it waits for besides signals.  (Faulty variant: the signaling.)
HandlerDoneWithSignaling == down
HandlerDone == cctx = "done"

HandlerEnds ==
    /\ handler = "running"
    /\ HandlerDone
    /\ handler' = "ended"
    /\ UNCHANGED <<call, dctx, down, notifier, queue, conn, history>>

-----------------------------------------------------------------------------
(* The signaling, and dialerNotifier.NotifySignal *)

\* The signaling calls the notifier while it is registered; the call may be
\* under way when it is stopped.
Arrive ==
    /\ arriving = NoSignal
    /\ notifier \in {"on", "canceled"}
    /\ ~down
    /\ arrivals < MaxSignals
    /\ \E k \in Kinds : arriving' = k
    /\ arrivals' = arrivals + 1
    /\ UNCHANGED <<call, dctx, down, notifier, signals, conn, handler, history>>

\* Whether notifier.signals has room.  (Faulty variant: for one too many.)
RoomForOneMore == Len(signals) <= Capacity
Room == Len(signals) < Capacity

\* The select of NotifySignal can buffer a signal whenever there is room.
NotifySignal ==
    /\ arriving \notin {NoSignal, "other"}
    /\ Room
    /\ signals' = Append(signals, arriving)
    /\ peerError' = (peerError \/ arriving = "error")
    /\ promised' = (promised \/ arriving = "candidate")
    /\ arriving' = NoSignal
    /\ UNCHANGED <<call, dctx, down, notifier, arrivals, conn, handler>>

\* It returns false for a signal that is not its own, if its context is done,
\* or if there is no room.
NotifyRefuses ==
    /\ arriving # NoSignal
    /\ \/ arriving = "other"
       \/ notifier # "on"
       \/ ~Room
    /\ arriving' = NoSignal
    /\ UNCHANGED <<call, dctx, down, notifier, arrivals, signals, conn,
                   handler, history>>

-----------------------------------------------------------------------------
(* The contexts *)

ContextEnds ==
    /\ dctx = "live"
    /\ dctx' \in {"deadline", "canceled"}
    /\ UNCHANGED <<call, down, notifier, queue, conn, handler, history>>

SignalingDown ==
    /\ ~down
    /\ down' = TRUE
    /\ UNCHANGED <<call, dctx, notifier, queue, conn, handler, history>>

-----------------------------------------------------------------------------
\* What DialContext can do by itself, and the calls it waits for.
CallStep ==
    \/ NotifySignals \/ NewConn \/ WaitEnds \/ WaitTakes \/ CandidateEnds
    \/ CandidateReceived \/ DeferredClose \/ DeferredStop
Blocking ==
    \/ StagePass \/ StageFail \/ AnswerAccepted \/ AnswerRefused
    \/ TransportsStarted \/ TransportsFail

CloseStep == CloseBegin \/ CloseHandled \/ CloseTransports

Next ==
    \/ CallStep \/ Blocking \/ Stop \/ Ask \/ CloseStep
    \/ HandlerTakes \/ HandlerEnds
    \/ Arrive \/ NotifySignal \/ NotifyRefuses
    \/ ContextEnds \/ SignalingDown

Spec == Init /\ [][Next]_vars

\* Goroutines run; a call that takes the context of the dial returns once that
\* is done.
Fairness ==
    /\ WF_vars(CallStep) /\ WF_vars(Blocking /\ dctx # "live")
    /\ WF_vars(Stop) /\ WF_vars(CloseStep)
    /\ WF_vars(HandlerTakes) /\ WF_vars(HandlerEnds)

FairSpec == Spec /\ Fairness

\* These calls return in any case.
Returning == WF_vars(Blocking)
ReturningSpec == FairSpec /\ Returning

-----------------------------------------------------------------------------
\* DialContext that fails leaves nothing behind: the notifier is stopped and
\* the Conn closed when it returns (the deferred functions of DialContext).
NothingLeft ==
    pc = "returned" /\ result = "error" =>
      notifier \in {"none", "off"} /\ (cctx = "none" \/ close = "closed")

\* The notifier of a Conn that is negotiated or established stays registered
\* until conn.close runs.
ListensWhileLive ==
    cctx = "live" => notifier = "on"

\* Under FairSpec DialContext returns once its context is done, and handleConn,
\* which goes on after it, once that of the Conn is.
DialEnds ==
    /\ dctx # "live" ~> pc = "returned"
    /\ cctx = "done" ~> handler # "running"

\* If the calls return, a signal NotifySignal accepted takes effect, whether it
\* comes before the answer, while that is verified, or later: an error ends the
\* Conn or the dial, and a candidate reaches the Conn unless one of them ends.
SignalsServed ==
    LET Over == cctx = "done" \/ result = "error" IN
    Returning => /\ peerError ~> Over
                 /\ promised ~> candidateReceived \/ Over

\* What the comment on Signaling.Context says: it is used by the Dialer so that
\* it can no longer dial for a connection that is no longer notified.
SignalingEndsDial == down ~> pc = "returned"
=============================================================================
