---------------------------- MODULE DialerProofs ----------------------------
(***************************************************************************)
(* Proofs about one dial: the types, and that a dial which fails has        *)
(* removed its notifier and closed its Conn, for every capacity of the      *)
(* buffer and any number of signals of every kind.                          *)
(***************************************************************************)
EXTENDS Dialer, TLAPS

\* What DialContext has done by the time it is at a place of its body.
BeforeConn == pc \in {"credentials", "notify", "conn"} => cctx = "none"
WithConn ==
    pc \in {"prepare", "offer", "trickle", "wait", "answer", "candidate",
            "transports", "close"} => cctx # "none"
Registered == pc = "conn" => notifier = "on"
Released == pc = "stop" => cctx = "none" \/ close = "closed"

\* Without a Conn nothing can close it or handle its signals; conn.close
\* cancels its context before anything else and has the notifier stopped
\* before it stops the transports.
NoConn == cctx = "none" => close = "open" /\ ~asked /\ handler = "none"
Canceled == cctx = "live" => close = "open"
Unregistered == close \in {"transports", "closed"} => notifier = "off"

DialInv ==
    /\ BeforeConn /\ WithConn /\ Registered /\ Released
    /\ NoConn /\ Canceled /\ Unregistered
    /\ ListensWhileLive /\ NothingLeft

-----------------------------------------------------------------------------
\* Taking a signal from the buffer or adding one keeps its type.
LEMMA BufferTypes ==
    ASSUME NEW S, NEW q \in Seq(S)
    PROVE  /\ q # <<>> => /\ Head(q) \in S
                          /\ Tail(q) \in Seq(S)
                          /\ Len(Tail(q)) = Len(q) - 1
           /\ \A k \in S : /\ Append(q, k) \in Seq(S)
                           /\ Len(Append(q, k)) = Len(q) + 1
           /\ Len(q) \in Nat
  OBVIOUS

\* The codes of signal.go that DialContext signals, or none.
Codes == {"none", "WaitingForResponse", "InactivityTimeout",
          "FailedToSetRemoteDescription", "IdentityNotAllowed",
          "IncomingConnectionIgnored"}

\* A return with an error keeps the types of what it changes.
LEMMA FailTypes ==
    ASSUME NEW code \in Codes, FailWith(code)
    PROVE  /\ pc' \in {"close", "stop", "returned"}
           /\ result' = "error"
           /\ reply' \in Codes
           /\ asked' \in BOOLEAN
<1>1. pc' \in {"close", "stop", "returned"} /\ result' = "error"
      /\ reply' \in Codes
  BY DEF FailWith, Deferred
<1>2. asked' \in BOOLEAN
  BY DEF FailWith
<1> QED
  BY <1>1, <1>2

\* Every step keeps the types, the buffer's capacity among them
\* (dialerNotifier.NotifySignal).
THEOREM DialTypeCorrect == Spec => []TypeOK
<1>1. Init => TypeOK
  <2> SUFFICES ASSUME Init PROVE TypeOK
    OBVIOUS
  <2>1. /\ down \in BOOLEAN /\ asked \in BOOLEAN
        /\ candidateReceived \in BOOLEAN /\ peerError \in BOOLEAN
        /\ promised \in BOOLEAN
    BY DEF Init
  <2>2. signals \in Seq(Kinds \ {"other"}) /\ Len(signals) <= Capacity
    BY DialerAssumption DEF Init
  <2>3. arrivals \in 0 .. MaxSignals /\ arriving \in Kinds \cup {NoSignal}
    BY DialerAssumption DEF Init, NoSignal
  <2> QED
    BY <2>1, <2>2, <2>3 DEF Init, TypeOK
<1>2. ASSUME TypeOK, [Next]_vars PROVE TypeOK'
  <2> USE <1>2 DEF TypeOK
  <2>1. CASE StagePass
    BY <2>1 DEF StagePass, NextStage, call, queue, conn, history
  <2>2. CASE StageFail
    <3>1. /\ pc' \in {"close", "stop", "returned"} /\ result' = "error"
          /\ reply' \in Codes /\ asked' \in BOOLEAN
      BY <2>2, FailTypes DEF StageFail, Codes
    <3>2. UNCHANGED <<dctx, down, notifier, queue, cctx, close,
                      candidateReceived, handler, history>>
      BY <2>2 DEF StageFail
    <3> QED
      BY <3>1, <3>2 DEF Codes, queue, history
  <2>3. CASE NotifySignals
    BY <2>3 DEF NotifySignals, call, queue, conn, history
  <2>4. CASE NewConn
    BY <2>4 DEF NewConn, call, queue, conn, history
  <2>5. CASE WaitEnds
    <3>1. /\ pc' \in {"close", "stop", "returned"} /\ result' = "error"
          /\ reply' \in Codes /\ asked' \in BOOLEAN
      BY <2>5, FailTypes DEF WaitEnds, Codes
    <3>2. UNCHANGED <<dctx, down, notifier, queue, cctx, close,
                      candidateReceived, handler, history>>
      BY <2>5 DEF WaitEnds
    <3> QED
      BY <3>1, <3>2 DEF Codes, queue, history
  <2>6. CASE WaitTakes
    <3>1. Head(signals) \in Kinds \ {"other"}
          /\ Tail(signals) \in Seq(Kinds \ {"other"})
          /\ Len(Tail(signals)) <= Capacity
      BY <2>6, BufferTypes, DialerAssumption DEF WaitTakes
    <3>2. asked' \in BOOLEAN /\ candidateReceived' \in BOOLEAN
      <4>1. CASE UNCHANGED conn
        BY <4>1 DEF conn
      <4>2. CASE HandleSignal(Head(signals))
                 /\ asked' = (asked \/ Head(signals) = "error")
        BY <4>2 DEF HandleSignal
      <4>3. CASE FailWith("IncomingConnectionIgnored")
                 /\ UNCHANGED candidateReceived
        BY <4>3, FailTypes DEF Codes
      <4> QED
        BY <2>6, <4>1, <4>2, <4>3 DEF WaitTakes
    <3>3. cctx' \in {"none", "live", "done"} /\ UNCHANGED close
      BY <2>6 DEF WaitTakes, HandleSignal, conn
    <3>4. /\ pc' \in {pc, "answer", "close", "stop", "returned"}
          /\ result' \in {result, "error"}
          /\ reply' \in {reply, "IncomingConnectionIgnored"}
      BY <2>6 DEF WaitTakes, FailWith, Deferred, call
    <3>5. /\ signals' = Tail(signals)
          /\ UNCHANGED <<dctx, down, notifier, arriving, arrivals, handler,
                         history>>
      BY <2>6 DEF WaitTakes
    <3> QED
      BY <3>1, <3>2, <3>3, <3>4, <3>5 DEF history
  <2>7. CASE AnswerRefused
    <3>1. /\ pc' \in {"close", "stop", "returned"} /\ result' = "error"
          /\ reply' \in Codes /\ asked' \in BOOLEAN
      BY <2>7, FailTypes DEF AnswerRefused, Codes
    <3>2. UNCHANGED <<dctx, down, notifier, queue, cctx, close,
                      candidateReceived, handler, history>>
      BY <2>7 DEF AnswerRefused
    <3> QED
      BY <3>1, <3>2 DEF Codes, queue, history
  <2>8. CASE AnswerAccepted
    <3>1. candidateReceived' \in BOOLEAN
      BY <2>8 DEF AnswerAccepted
    <3>2. pc' = "candidate" /\ handler' = "running"
      BY <2>8 DEF AnswerAccepted, StartedHandler
    <3>3. UNCHANGED <<result, reply, dctx, down, notifier, queue, cctx, asked,
                      close, history>>
      BY <2>8 DEF AnswerAccepted
    <3> QED
      BY <3>1, <3>2, <3>3 DEF queue, history
  <2>9. CASE CandidateEnds
    <3>1. /\ pc' \in {"close", "stop", "returned"} /\ result' = "error"
          /\ reply' \in Codes /\ asked' \in BOOLEAN
      BY <2>9, FailTypes DEF CandidateEnds, Codes
    <3>2. UNCHANGED <<dctx, down, notifier, queue, cctx, close,
                      candidateReceived, handler, history>>
      BY <2>9 DEF CandidateEnds
    <3> QED
      BY <3>1, <3>2 DEF Codes, queue, history
  <2>10. CASE CandidateReceived
    BY <2>10 DEF CandidateReceived, call, queue, conn, history
  <2>11. CASE TransportsFail
    <3>1. /\ pc' \in {"close", "stop", "returned"} /\ result' = "error"
          /\ reply' \in Codes /\ asked' \in BOOLEAN
      BY <2>11, FailTypes DEF TransportsFail, Codes
    <3>2. UNCHANGED <<dctx, down, notifier, queue, cctx, close,
                      candidateReceived, handler, history>>
      BY <2>11 DEF TransportsFail
    <3> QED
      BY <3>1, <3>2 DEF Codes, queue, history
  <2>12. CASE TransportsStarted
    BY <2>12 DEF TransportsStarted, call, queue, conn, history
  <2>13. CASE DeferredClose
    BY <2>13 DEF DeferredClose, call, queue, conn, history
  <2>14. CASE DeferredStop
    BY <2>14 DEF DeferredStop, call, queue, conn, history
  <2>15. CASE Stop
    BY <2>15 DEF Stop, call, queue, conn, history
  <2>16. CASE Ask
    BY <2>16 DEF Ask, call, queue, conn, history
  <2>17. CASE CloseBegin
    BY <2>17 DEF CloseBegin, call, queue, conn, history
  <2>18. CASE CloseHandled
    BY <2>18 DEF CloseHandled, call, queue, conn, history
  <2>19. CASE CloseTransports
    BY <2>19 DEF CloseTransports, call, queue, conn, history
  <2>20. CASE HandlerTakes
    <3>1. Head(signals) \in Kinds \ {"other"}
          /\ Tail(signals) \in Seq(Kinds \ {"other"})
          /\ Len(Tail(signals)) <= Capacity
      BY <2>20, BufferTypes, DialerAssumption DEF HandlerTakes
    <3>2. asked' \in BOOLEAN /\ candidateReceived' \in BOOLEAN
      <4>1. CASE UNCHANGED conn
        BY <4>1 DEF conn
      <4>2. CASE HandleSignal(Head(signals))
                 /\ asked' = (asked \/ Head(signals) = "error")
        BY <4>2 DEF HandleSignal
      <4>3. CASE FailWith("IncomingConnectionIgnored")
                 /\ UNCHANGED candidateReceived
        BY <4>3, FailTypes DEF Codes
      <4> QED
        BY <2>20, <4>1, <4>2, <4>3 DEF HandlerTakes
    <3>3. cctx' \in {"none", "live", "done"} /\ UNCHANGED close
      BY <2>20 DEF HandlerTakes, HandleSignal, conn
    <3>4. /\ pc' \in {pc, "answer", "close", "stop", "returned"}
          /\ result' \in {result, "error"}
          /\ reply' \in {reply, "IncomingConnectionIgnored"}
      BY <2>20 DEF HandlerTakes, FailWith, Deferred, call
    <3>5. /\ signals' = Tail(signals)
          /\ UNCHANGED <<dctx, down, notifier, arriving, arrivals, handler,
                         history>>
      BY <2>20 DEF HandlerTakes
    <3> QED
      BY <3>1, <3>2, <3>3, <3>4, <3>5 DEF history
  <2>21. CASE HandlerEnds
    BY <2>21 DEF HandlerEnds, HandlerDone, call, queue, conn, history
  <2>22. CASE Arrive
    BY <2>22, DialerAssumption DEF Arrive, NoSignal, call, queue, conn, history
  <2>23. CASE NotifySignal
    <3>1. /\ Append(signals, arriving) \in Seq(Kinds \ {"other"})
          /\ Len(Append(signals, arriving)) <= Capacity
      BY <2>23, BufferTypes, DialerAssumption DEF NotifySignal, Room, NoSignal
    <3> QED
      BY <2>23, <3>1 DEF NotifySignal, Room, NoSignal, call, queue, conn, history
  <2>24. CASE NotifyRefuses
    BY <2>24 DEF NotifyRefuses, Room, NoSignal, call, queue, conn, history
  <2>25. CASE ContextEnds
    BY <2>25 DEF ContextEnds, call, queue, conn, history
  <2>26. CASE SignalingDown
    BY <2>26 DEF SignalingDown, call, queue, conn, history
  <2>27. CASE UNCHANGED vars
    BY <2>27 DEF vars, call, queue, conn, history
  <2> QED
    BY <1>2, <2>1, <2>2, <2>3, <2>4, <2>5, <2>6, <2>7, <2>8, <2>9, <2>10, <2>11, <2>12, <2>13, <2>14, <2>15, <2>16, <2>17, <2>18, <2>19, <2>20, <2>21, <2>22, <2>23, <2>24, <2>25, <2>26, <2>27
    DEF Next, CallStep, Blocking, CloseStep
<1> QED
  BY <1>1, <1>2, PTL DEF Spec

-----------------------------------------------------------------------------
\* Initially there is neither a notifier nor a Conn.
LEMMA DialInvInit == Init => DialInv
  BY DEF Init, DialInv, BeforeConn, WithConn, Registered, Released, NoConn,
         Canceled, Unregistered, ListensWhileLive, NothingLeft

\* A step of DialContext, of conn.close or of a handler keeps the invariant.
LEMMA DialInvStep == TypeOK /\ DialInv /\ [Next]_vars => DialInv'
<1> SUFFICES ASSUME TypeOK, DialInv, [Next]_vars PROVE DialInv'
  OBVIOUS
<1> USE DEF DialInv, BeforeConn, WithConn, Registered, Released, NoConn,
            Canceled, Unregistered, ListensWhileLive, NothingLeft
<1>1. CASE StagePass
  BY <1>1 DEF StagePass, NextStage, call, queue, conn, history, TypeOK
<1>2. CASE StageFail
  BY <1>2 DEF StageFail, FailWith, Deferred, NextStage, call, queue, conn, history, TypeOK
<1>3. CASE NotifySignals
  BY <1>3 DEF NotifySignals, call, queue, conn, history, TypeOK
<1>4. CASE NewConn
  BY <1>4 DEF NewConn, call, queue, conn, history, TypeOK
<1>5. CASE WaitEnds
  BY <1>5 DEF WaitEnds, FailWith, Deferred, call, queue, conn, history, TypeOK
<1>6. CASE WaitTakes
  BY <1>6 DEF WaitTakes, FailWith, Deferred, HandleSignal, Refused, call, queue, conn, history, TypeOK
<1>7. CASE AnswerRefused
  BY <1>7 DEF AnswerRefused, FailWith, Deferred, call, queue, conn, history, TypeOK
<1>8. CASE AnswerAccepted
  BY <1>8 DEF AnswerAccepted, StartedHandler, call, queue, conn, history, TypeOK
<1>9. CASE CandidateEnds
  BY <1>9 DEF CandidateEnds, FailWith, Deferred, call, queue, conn, history, TypeOK
<1>10. CASE CandidateReceived
  BY <1>10 DEF CandidateReceived, call, queue, conn, history, TypeOK
<1>11. CASE TransportsFail
  BY <1>11 DEF TransportsFail, FailWith, Deferred, call, queue, conn, history, TypeOK
<1>12. CASE TransportsStarted
  BY <1>12 DEF TransportsStarted, call, queue, conn, history, TypeOK
<1>13. CASE DeferredClose
  BY <1>13 DEF DeferredClose, call, queue, conn, history, TypeOK
<1>14. CASE DeferredStop
  BY <1>14 DEF DeferredStop, call, queue, conn, history, TypeOK
<1>15. CASE Stop
  BY <1>15 DEF Stop, call, queue, conn, history, TypeOK
<1>16. CASE Ask
  BY <1>16 DEF Ask, call, queue, conn, history, TypeOK
<1>17. CASE CloseBegin
  BY <1>17 DEF CloseBegin, call, queue, conn, history, TypeOK
<1>18. CASE CloseHandled
  BY <1>18 DEF CloseHandled, call, queue, conn, history, TypeOK
<1>19. CASE CloseTransports
  BY <1>19 DEF CloseTransports, call, queue, conn, history, TypeOK
<1>20. CASE HandlerTakes
  BY <1>20 DEF HandlerTakes, HandleSignal, Refused, Handles, call, queue, conn, history, TypeOK
<1>21. CASE HandlerEnds
  BY <1>21 DEF HandlerEnds, HandlerDone, call, queue, conn, history, TypeOK
<1>22. CASE Arrive
  BY <1>22 DEF Arrive, NoSignal, call, queue, conn, history, TypeOK
<1>23. CASE NotifySignal
  BY <1>23 DEF NotifySignal, Room, NoSignal, call, queue, conn, history, TypeOK
<1>24. CASE NotifyRefuses
  BY <1>24 DEF NotifyRefuses, Room, NoSignal, call, queue, conn, history, TypeOK
<1>25. CASE ContextEnds
  BY <1>25 DEF ContextEnds, call, queue, conn, history, TypeOK
<1>26. CASE SignalingDown
  BY <1>26 DEF SignalingDown, call, queue, conn, history, TypeOK
<1>27. CASE UNCHANGED vars
  BY <1>27 DEF vars, call, queue, conn, history
<1> QED
  BY <1>1, <1>2, <1>3, <1>4, <1>5, <1>6, <1>7, <1>8, <1>9, <1>10, <1>11, <1>12, <1>13, <1>14, <1>15, <1>16, <1>17, <1>18, <1>19, <1>20, <1>21, <1>22, <1>23, <1>24, <1>25, <1>26, <1>27
  DEF Next, CallStep, Blocking, CloseStep

\* A dial that returns an error has stopped its notifier and closed its Conn,
\* whichever stage failed and whatever closed the Conn meanwhile (the deferred
\* functions of DialContext).
THEOREM DialLeavesNothing == Spec => []NothingLeft
<1>1. DialInv => NothingLeft
  BY DEF DialInv
<1> QED
  BY <1>1, DialInvInit, DialInvStep, DialTypeCorrect, PTL DEF Spec

\* A Conn whose context is live has its notifier registered (dialerConn's
\* handleClose runs after conn.cancel).
THEOREM DialAlwaysListens == Spec => []ListensWhileLive
<1>1. DialInv => ListensWhileLive
  BY DEF DialInv
<1> QED
  BY <1>1, DialInvInit, DialInvStep, DialTypeCorrect, PTL DEF Spec
-----------------------------------------------------------------------------
(* The dial as Handshake sees it.                                           *)

\* An offer is made once Signal is called with it, whatever has happened to
\* the Conn, and a dial whose Conn is closed is over although DialContext has
\* yet to find out.
LifeStage ==
    IF result = "error" THEN "over"
    ELSE IF pc \in {"credentials", "notify", "conn", "prepare"} THEN "idle"
    ELSE IF pc = "offer" THEN "offered"
    ELSE IF cctx = "done" THEN "over"
    ELSE IF result = "conn" THEN "conn"
    ELSE IF pc \in {"candidate", "transports"} THEN "starting"
    ELSE "offered"

\* A dial that is over may signal an error until DialContext has returned, and
\* then if it has started the goroutine of signalError.
MaySignal == LifeStage = "over" /\ (result = "none" \/ reply # "none")

TheDial == {"dial"}
Life == INSTANCE DialLife WITH
    Dial <- TheDial,
    life <- [d \in TheDial |-> LifeStage],
    owed <- [d \in TheDial |-> MaySignal]

\* DialContext has a result when it unwinds, and a code only with an error.
ResultInv ==
    /\ result = "none" <=> pc \notin {"close", "stop", "returned"}
    /\ result = "conn" => pc = "returned" /\ cctx # "none"
    /\ reply # "none" => result = "error"

\* The life of the dial goes on by one step of DialLife, or does not change.
LifeStep ==
    \/ LifeStage' = LifeStage /\ (MaySignal' = MaySignal \/ ~MaySignal')
    \/ /\ MaySignal' = MaySignal
       /\ \/ LifeStage = "idle" /\ LifeStage' \in {"offered", "over"}
          \/ LifeStage = "offered" /\ LifeStage' = "starting"
          \/ LifeStage = "starting" /\ LifeStage' = "conn"
          \/ LifeStage = "conn" /\ LifeStage' = "over"
    \/ LifeStage \in {"offered", "starting"} /\ LifeStage' = "over"

LEMMA LifeStepRefines ==
    ASSUME LifeStep
    PROVE  [Life!Next]_(Life!vars)
<1> DEFINE l == [d \in TheDial |-> LifeStage]
           o == [d \in TheDial |-> MaySignal]
           d == "dial"
<1>1. /\ d \in TheDial /\ l[d] = LifeStage /\ o[d] = MaySignal
      /\ l' = [l EXCEPT ![d] = LifeStage']
      /\ o' = [o EXCEPT ![d] = MaySignal']
      /\ LifeStage' = LifeStage => l' = l
      /\ MaySignal' = MaySignal => o' = o
      /\ MaySignal \in BOOLEAN /\ MaySignal' \in BOOLEAN
  BY DEF TheDial, MaySignal
<1> HIDE DEF l, o, d
<1>2. CASE LifeStage' = LifeStage /\ MaySignal' = MaySignal
  BY <1>1, <1>2 DEF Life!vars, l, o
<1>3. CASE LifeStage' = LifeStage /\ ~MaySignal' /\ MaySignal' # MaySignal
  <2>1. Life!Settle(d)
    BY <1>1, <1>3 DEF Life!Settle, l, o
  <2>2. QED
    BY <1>1, <2>1 DEF Life!Next
<1>4. CASE LifeStage = "idle" /\ LifeStage' = "offered"
           /\ MaySignal' = MaySignal
  <2>1. Life!Offer(d)
    BY <1>1, <1>4 DEF Life!Offer, Life!GoesTo, l, o
  <2>2. QED
    BY <1>1, <2>1 DEF Life!Next
<1>5. CASE LifeStage = "idle" /\ LifeStage' = "over"
           /\ MaySignal' = MaySignal
  <2>1. Life!NeverOffers(d)
    BY <1>1, <1>5 DEF Life!NeverOffers, Life!GoesTo, l, o
  <2>2. QED
    BY <1>1, <2>1 DEF Life!Next
<1>6. CASE LifeStage = "offered" /\ LifeStage' = "starting"
           /\ MaySignal' = MaySignal
  <2>1. Life!AcceptAnswer(d)
    BY <1>1, <1>6 DEF Life!AcceptAnswer, Life!GoesTo, l, o
  <2>2. QED
    BY <1>1, <2>1 DEF Life!Next
<1>7. CASE LifeStage = "starting" /\ LifeStage' = "conn"
           /\ MaySignal' = MaySignal
  <2>1. Life!Connect(d)
    BY <1>1, <1>7 DEF Life!Connect, Life!GoesTo, l, o
  <2>2. QED
    BY <1>1, <2>1 DEF Life!Next
<1>8. CASE LifeStage = "conn" /\ LifeStage' = "over"
           /\ MaySignal' = MaySignal
  <2>1. Life!Close(d)
    BY <1>1, <1>8 DEF Life!Close, Life!GoesTo, l, o
  <2>2. QED
    BY <1>1, <2>1 DEF Life!Next
<1>9. CASE LifeStage \in {"offered", "starting"} /\ LifeStage' = "over"
  <2>1. Life!Fail(d)
    BY <1>1, <1>9 DEF Life!Fail, l, o
  <2>2. QED
    BY <1>1, <2>1 DEF Life!Next
<1>10. QED
  BY <1>1, <1>2, <1>3, <1>4, <1>5, <1>6, <1>7, <1>8, <1>9 DEF LifeStep

\* Every step of the dial keeps ResultInv and is a step of its life.
LEMMA DialLives ==
    TypeOK /\ DialInv /\ ResultInv /\ [Next]_vars => ResultInv' /\ LifeStep
<1> SUFFICES ASSUME TypeOK, DialInv, ResultInv, [Next]_vars
             PROVE  ResultInv' /\ LifeStep
  OBVIOUS
<1> USE DEF ResultInv, LifeStep, LifeStage, MaySignal, call, queue, conn,
            history
<1>1. cctx \in {"none", "live", "done"} /\ result \in {"none", "conn", "error"}
      /\ WithConn /\ NoConn
  BY DEF TypeOK, DialInv
<1> USE <1>1 DEF WithConn, NoConn
<1>2. CASE StagePass
  BY <1>2 DEF StagePass, NextStage
<1>3. CASE StageFail
  BY <1>3 DEF StageFail, FailWith, Deferred, NextStage
<1>4. CASE NotifySignals \/ NewConn
  BY <1>4 DEF NotifySignals, NewConn
<1>5. CASE WaitEnds \/ AnswerRefused \/ CandidateEnds \/ TransportsFail
  <2>1. CASE WaitEnds
    BY <2>1 DEF WaitEnds, FailWith, Deferred
  <2>2. CASE AnswerRefused
    BY <2>2 DEF AnswerRefused, FailWith, Deferred
  <2>3. CASE CandidateEnds
    BY <2>3 DEF CandidateEnds, FailWith, Deferred
  <2>4. CASE TransportsFail
    BY <2>4 DEF TransportsFail, FailWith, Deferred
  <2>5. QED
    BY <1>5, <2>1, <2>2, <2>3, <2>4
<1>6. CASE WaitTakes
  BY <1>6 DEF WaitTakes, FailWith, Deferred, HandleSignal, Refused
<1>7. CASE AnswerAccepted \/ CandidateReceived \/ TransportsStarted
  BY <1>7 DEF AnswerAccepted, CandidateReceived, TransportsStarted
<1>8. CASE DeferredClose \/ DeferredStop \/ Stop \/ Ask
  BY <1>8 DEF DeferredClose, DeferredStop, Stop, Ask
<1>9. CASE CloseBegin \/ CloseHandled \/ CloseTransports
  BY <1>9 DEF CloseBegin, CloseHandled, CloseTransports
<1>10. CASE HandlerTakes \/ HandlerEnds
  BY <1>10 DEF HandlerTakes, HandleSignal, Refused, Handles, HandlerEnds
<1>11. CASE Arrive \/ NotifySignal \/ NotifyRefuses
  BY <1>11 DEF Arrive, NotifySignal, NotifyRefuses
<1>12. CASE ContextEnds \/ SignalingDown \/ UNCHANGED vars
  BY <1>12 DEF ContextEnds, SignalingDown, vars
<1>13. QED
  BY <1>2, <1>3, <1>4, <1>5, <1>6, <1>7, <1>8, <1>9, <1>10, <1>11, <1>12
     DEF Next, CallStep, Blocking, CloseStep

\* A dial offers at most once, accepts at most one answer, connects after that
\* only, is over for good, and signals an error only if its call has failed:
\* what Handshake knows of it (DialContext, Conn.close, Dialer.signalError).
THEOREM DialerRefinesLife == Spec => Life!Spec
<1>1. Init => ResultInv /\ Life!Init
  BY DEF Init, ResultInv, Life!Init, LifeStage, MaySignal
<1>2. TypeOK /\ DialInv /\ ResultInv /\ [Next]_vars
        => [Life!Next]_(Life!vars)
  BY DialLives, LifeStepRefines
<1>3. QED
  BY <1>1, <1>2, DialLives, DialInvInit, DialInvStep, DialTypeCorrect, PTL
     DEF Spec, Life!Spec
=============================================================================
