------------------------ MODULE EndpointHandlerProofs ------------------------
(***************************************************************************)
(* Proofs about the HTTP endpoint, for any number of clients, requests and *)
(* Listeners: a request gets the reply to its own offer, the table of      *)
(* pending requests is exact, client and Listener agree on the outcome,    *)
(* and the answer that a dial gets is the one to its own offer.            *)
(***************************************************************************)
EXTENDS EndpointClient, SequenceTheorems, TLAPS

\* A sequence of at most one element, before and after it is sent or taken.
LEMMA OneElement ==
    ASSUME NEW S, NEW q \in Seq(S), NEW m \in S
    PROVE  /\ q = <<>> => /\ Append(q, m) \in Seq(S)
                         /\ Len(Append(q, m)) = 1
                         /\ Append(q, m) # <<>>
                         /\ Head(Append(q, m)) = m
           /\ q # <<>> /\ Len(q) <= 1 => /\ Head(q) \in S
                                       /\ Tail(q) = <<>>
<1>1. /\ Append(q, m) \in Seq(S)
      /\ q = <<>> => Len(Append(q, m)) = 1
      /\ Append(q, m) # <<>>
  OBVIOUS
<1>2. q = <<>> => Head(Append(q, m)) = m
  OBVIOUS
<1>3. ASSUME q # <<>>, Len(q) <= 1 PROVE Head(q) \in S /\ Tail(q) = <<>>
  <2>1. Head(q) \in S /\ Tail(q) \in Seq(S) /\ Len(Tail(q)) = Len(q) - 1
    BY <1>3, HeadTailProperties
  <2>2. Len(q) \in Nat /\ Len(Tail(q)) \in Nat
    BY <2>1
  <2>3. Len(Tail(q)) = 0
    BY <1>3, <2>1, <2>2
  <2> QED
    BY <2>1, <2>3, EmptySeq
<1> QED
  BY <1>1, <1>2, <1>3

\* Initially no channel holds a signal.
LEMMA EndpointTypeInit == Init => TypeOK
<1> SUFFICES ASSUME Init PROVE TypeOK
  OBVIOUS
<1>1. <<>> \in Seq(Message) /\ Len(<<>>) = 0
  OBVIOUS
<1>2. channel \in [Request -> Seq(Message)]
      /\ \A r \in Request : Len(channel[r]) <= 1
  BY <1>1 DEF Init
<1> QED
  BY <1>2 DEF Init, TypeOK

\* A channel is sent to when it is empty, and taken from when it is not.
LEMMA EndpointTypeStep == TypeOK /\ [Next]_vars => TypeOK'
<1> SUFFICES ASSUME TypeOK, [Next]_vars PROVE TypeOK'
  OBVIOUS
<1> USE DEF TypeOK
<1>1. ASSUME NEW r \in Request, Receive(r) PROVE TypeOK'
  BY <1>1 DEF Receive, Goes, handling, listening, negotiating
<1>2. ASSUME NEW r \in Request, Refuse(r) PROVE TypeOK'
  BY <1>2 DEF Refuse, Goes, Answers, handling, listening, negotiating
<1>3. ASSUME NEW r \in Request, FindNone(r) PROVE TypeOK'
  BY <1>3 DEF FindNone, Goes, Answers, handling, listening, negotiating
<1>4. ASSUME NEW r \in Request, FindListener(r) PROVE TypeOK'
  BY <1>4 DEF FindListener, Goes, handling, listening, negotiating
<1>5. ASSUME NEW r \in Request, Register(r) PROVE TypeOK'
  BY <1>5 DEF Register, Goes, Key, handling, listening, negotiating
<1>6. ASSUME NEW r \in Request, Admitted(r) PROVE TypeOK'
  BY <1>6 DEF Admitted, Goes, Hears, handling, listening, negotiating
<1>7. ASSUME NEW r \in Request, NotAdmitted(r) PROVE TypeOK'
  BY <1>7 DEF NotAdmitted, Goes, Answers, RemovesPending, handling, listening, negotiating
<1>8. ASSUME NEW r \in Request, TakeResult(r) PROVE TypeOK'
  <2>1. /\ channel[r] \in Seq(Message) /\ channel[r] # <<>>
        /\ Len(channel[r]) <= 1
    BY <1>8 DEF TakeResult
  <2>2. Head(channel[r]) \in Message /\ Tail(channel[r]) = <<>>
    BY <2>1, OneElement
  <2>3. <<>> \in Seq(Message) /\ Len(<<>>) = 0
    OBVIOUS
  <2>4. channel' \in [Request -> Seq(Message)]
        /\ \A q \in Request : Len(channel'[q]) <= 1
    BY <1>8, <2>2, <2>3 DEF TakeResult
  <2>5. /\ Head(channel[r]).type \in {"answer", "error"}
        /\ Head(channel[r]).from \in Request
    BY <2>2 DEF Message
  <2> QED
    BY <1>8, <2>4, <2>5 DEF TakeResult, Goes, Answers, handling, listening, negotiating
<1>9. ASSUME NEW r \in Request, ContextDone(r) PROVE TypeOK'
  BY <1>9 DEF ContextDone, Goes, handling, listening, negotiating
<1>10. ASSUME NEW r \in Request, Cancel(r) PROVE TypeOK'
  BY <1>10 DEF Cancel, Goes, Answers, Cancels, Hears, handling, listening, negotiating
<1>11. ASSUME NEW r \in Request, Delete(r) PROVE TypeOK'
  BY <1>11 DEF Delete, Goes, Key, handling, listening, negotiating
<1>12. ASSUME NEW r \in Request, ContextEnds(r) PROVE TypeOK'
  BY <1>12 DEF ContextEnds, handling, listening, negotiating
<1>13. ASSUME NEW r \in Request, Progress(r) PROVE TypeOK'
  BY <1>13 DEF Progress, Becomes, handling, listening, negotiating
<1>14. ASSUME NEW r \in Request, SignalFinds(r) PROVE TypeOK'
  BY <1>14 DEF SignalFinds, Key, Becomes, handling, listening, negotiating
<1>15. ASSUME NEW r \in Request, SignalSends(r) PROVE TypeOK'
  <2> DEFINE m == [type |-> IF neg[r] = "answering" THEN "answer" ELSE "error",
                    from |-> r]
  <2>1. m \in Message
    BY DEF Message
  <2>2. channel' = [channel EXCEPT ![target[r]] = Append(@, m)]
    BY <1>15 DEF SignalSends
  <2>3. CASE target[r] \in Request
    <3>1. Append(channel[target[r]], m) \in Seq(Message)
          /\ Len(Append(channel[target[r]], m)) = 1
      BY <1>15, <2>1, <2>3, OneElement DEF SignalSends, Full
    <3> HIDE DEF m
    <3>2. channel' \in [Request -> Seq(Message)]
          /\ \A q \in Request : Len(channel'[q]) <= 1
      BY <2>2, <2>3, <3>1
    <3> QED
      BY <1>15, <3>2 DEF SignalSends, Full, Becomes, handling, listening, negotiating
  <2>4. CASE target[r] \notin Request
    <3> HIDE DEF m
    <3>1. channel' = channel
      BY <2>2, <2>4
    <3> QED
      BY <1>15, <3>1 DEF SignalSends, Full, Becomes, handling, listening, negotiating
  <2> QED
    BY <2>3, <2>4
<1>16. ASSUME NEW r \in Request, SignalFails(r) PROVE TypeOK'
  BY <1>16 DEF SignalFails, Key, Full, Hears, Becomes, handling, listening, negotiating
<1>17. ASSUME NEW l \in Listener, Notify(l) PROVE TypeOK'
  BY <1>17 DEF Notify, handling, listening, negotiating
<1>18. ASSUME NEW l \in Listener, CloseListener(l) PROVE TypeOK'
  BY <1>18 DEF CloseListener, handling, listening, negotiating
<1>19. ASSUME NEW l \in Listener, Stop(l) PROVE TypeOK'
  BY <1>19 DEF Stop, handling, listening, negotiating
<1>20. CASE CloseServer
  BY <1>20 DEF CloseServer, handling, listening, negotiating
<1>21. CASE UNCHANGED vars
  BY <1>21 DEF vars, handling, listening, negotiating
<1> QED
  BY <1>1, <1>2, <1>3, <1>4, <1>5, <1>6, <1>7, <1>8, <1>9, <1>10, <1>11, <1>12, <1>13, <1>14, <1>15, <1>16, <1>17, <1>18, <1>19, <1>20, <1>21
  DEF Next, HandlerStep, NegotiationStep

\* Every step keeps the types; a channel holds at most one signal.
THEOREM EndpointTypeCorrect == Spec => []TypeOK
BY EndpointTypeInit, EndpointTypeStep, PTL DEF Spec

-----------------------------------------------------------------------------
\* What is true of one request.  Before it waits there is no negotiation and
\* no status; it has read a Listener that had called Notify.
Before(q) ==
    /\ pc[q] \in {"new", "lookup", "register", "notify"} => neg[q] = "none"
    /\ pc[q] \in {"new", "lookup", "register", "notify", "wait", "cancel"} =>
         status[q] = "none" /\ ~canceled[q]
    /\ pc[q] \notin {"new", "lookup"} /\ used[q] \notin Listener =>
         pc[q] = "done" /\ neg[q] = "none"
    /\ used[q] \in Listener => closed[used[q]] # "new"
    /\ pc[q] = "cancel" => ctx[q] # "live"

\* A negotiation signals the channel of its request, and what that holds comes
\* from it.
Own(q) ==
    /\ neg[q] \in {"answering", "replying"} => target[q] = q
    /\ channel[q] # <<>> =>
         /\ Head(channel[q]).from = q
         /\ Head(channel[q]).type = "error" => neg[q] = "over"
    /\ result[q] \in {q, NoRequest}
    /\ status[q] = "answer" => result[q] = q

\* How it ends, from the moment on at which that is decided.
Ending(q) ==
    /\ status[q] = "answer" => ~canceled[q]
    /\ pc[q] \in {"delete", "done"} /\ neg[q] # "none"
         /\ status[q] # "answer" =>
         canceled[q] \/ neg[q] = "over" \/ ~Hears(used[q])
    /\ pc[q] \in {"delete", "done"} /\ neg[q] \notin {"none", "over"} =>
         status[q] = "answer" \/ ctx[q] # "live"
    /\ neg[q] = "answered" =>
         \/ ctx[q] # "live" \/ status[q] = "answer"
         \/ pc[q] = "wait" /\ channel[q] # <<>>
            /\ Head(channel[q]).type = "answer"

InPending(q) ==
    pending[q] = IF pc[q] \in {"notify", "wait", "cancel", "delete"}
                   THEN q ELSE NoRequest

RegisteredOpened == notifier \in Listener => closed[notifier] # "new"

RequestInv(q) == Before(q) /\ Own(q) /\ Ending(q) /\ InPending(q)
EndpointInv == RegisteredOpened /\ \A q \in Request : RequestInv(q)

\* Initially there are neither requests nor Listeners.
LEMMA EndpointInvInit == Init => EndpointInv
<1> SUFFICES ASSUME Init PROVE EndpointInv
  OBVIOUS
<1> USE EndpointAssumption DEF Init
<1>1. RegisteredOpened
  BY DEF RegisteredOpened
<1>2. ASSUME NEW q \in Request PROVE RequestInv(q)
  <2>1. Before(q) /\ Own(q) /\ InPending(q)
    BY DEF Before, Own, InPending
  <2>2. Ending(q)
    BY DEF Ending
  <2> QED
    BY <2>1, <2>2 DEF RequestInv
<1> QED
  BY <1>1, <1>2 DEF EndpointInv

\* A step of a request, of a negotiation or of a Listener keeps the invariant.
LEMMA EndpointInvStep == TypeOK /\ EndpointInv /\ [Next]_vars => EndpointInv'
<1> SUFFICES ASSUME TypeOK, EndpointInv, [Next]_vars PROVE EndpointInv'
  OBVIOUS
<1> USE EndpointAssumption DEF EndpointInv, RegisteredOpened
<1>1. ASSUME NEW r \in Request, Receive(r) PROVE EndpointInv'
  <2>1. RegisteredOpened'
    BY <1>1 DEF Receive, Goes, handling, listening, negotiating
  <2>2. ASSUME NEW q \in Request PROVE RequestInv(q)'
    <3> USE <1>1 DEF RequestInv
    <3>1. Before(q)'
      BY DEF Receive, Goes, handling, listening, negotiating, TypeOK, Before, Hears
    <3>2. Own(q)'
      BY DEF Receive, Goes, handling, listening, negotiating, TypeOK, Own, Hears
    <3>3. Ending(q)'
      BY DEF Receive, Goes, handling, listening, negotiating, TypeOK, Ending, Hears, Before
    <3>4. InPending(q)'
      BY DEF Receive, Goes, handling, listening, negotiating, TypeOK, InPending, Hears
    <3> QED
      BY <3>1, <3>2, <3>3, <3>4
  <2> QED
    BY <2>1, <2>2
<1>2. ASSUME NEW r \in Request, Refuse(r) PROVE EndpointInv'
  <2>1. RegisteredOpened'
    BY <1>2 DEF Refuse, Goes, Answers, handling, listening, negotiating
  <2>2. ASSUME NEW q \in Request PROVE RequestInv(q)'
    <3> USE <1>2 DEF RequestInv
    <3>1. Before(q)'
      BY DEF Refuse, Goes, Answers, handling, listening, negotiating, TypeOK, Before, Hears
    <3>2. Own(q)'
      BY DEF Refuse, Goes, Answers, handling, listening, negotiating, TypeOK, Own, Hears
    <3>3. Ending(q)'
      BY DEF Refuse, Goes, Answers, handling, listening, negotiating, TypeOK, Ending, Hears, Before
    <3>4. InPending(q)'
      BY DEF Refuse, Goes, Answers, handling, listening, negotiating, TypeOK, InPending, Hears
    <3> QED
      BY <3>1, <3>2, <3>3, <3>4
  <2> QED
    BY <2>1, <2>2
<1>3. ASSUME NEW r \in Request, FindNone(r) PROVE EndpointInv'
  <2>1. RegisteredOpened'
    BY <1>3 DEF FindNone, Goes, Answers, handling, listening, negotiating
  <2>2. ASSUME NEW q \in Request PROVE RequestInv(q)'
    <3> USE <1>3 DEF RequestInv
    <3>1. Before(q)'
      BY DEF FindNone, Goes, Answers, handling, listening, negotiating, TypeOK, Before, Hears
    <3>2. Own(q)'
      BY DEF FindNone, Goes, Answers, handling, listening, negotiating, TypeOK, Own, Hears
    <3>3. Ending(q)'
      BY DEF FindNone, Goes, Answers, handling, listening, negotiating, TypeOK, Ending, Hears, Before
    <3>4. InPending(q)'
      BY DEF FindNone, Goes, Answers, handling, listening, negotiating, TypeOK, InPending, Hears
    <3> QED
      BY <3>1, <3>2, <3>3, <3>4
  <2> QED
    BY <2>1, <2>2
<1>4. ASSUME NEW r \in Request, FindListener(r) PROVE EndpointInv'
  <2>1. RegisteredOpened'
    BY <1>4 DEF FindListener, Goes, handling, listening, negotiating
  <2>2. ASSUME NEW q \in Request PROVE RequestInv(q)'
    <3> USE <1>4 DEF RequestInv
    <3>1. Before(q)'
      BY DEF FindListener, Goes, handling, listening, negotiating, TypeOK, Before, Hears
    <3>2. Own(q)'
      BY DEF FindListener, Goes, handling, listening, negotiating, TypeOK, Own, Hears
    <3>3. Ending(q)'
      BY DEF FindListener, Goes, handling, listening, negotiating, TypeOK, Ending, Hears, Before
    <3>4. InPending(q)'
      BY DEF FindListener, Goes, handling, listening, negotiating, TypeOK, InPending, Hears
    <3> QED
      BY <3>1, <3>2, <3>3, <3>4
  <2> QED
    BY <2>1, <2>2
<1>5. ASSUME NEW r \in Request, Register(r) PROVE EndpointInv'
  <2>1. RegisteredOpened'
    BY <1>5 DEF Register, Goes, Key, handling, listening, negotiating
  <2>2. ASSUME NEW q \in Request PROVE RequestInv(q)'
    <3> USE <1>5 DEF RequestInv
    <3>1. Before(q)'
      BY DEF Register, Goes, Key, handling, listening, negotiating, TypeOK, Before, Hears
    <3>2. Own(q)'
      BY DEF Register, Goes, Key, handling, listening, negotiating, TypeOK, Own, Hears
    <3>3. Ending(q)'
      BY DEF Register, Goes, Key, handling, listening, negotiating, TypeOK, Ending, Hears, Before
    <3>4. InPending(q)'
      BY DEF Register, Goes, Key, handling, listening, negotiating, TypeOK, InPending, Hears
    <3> QED
      BY <3>1, <3>2, <3>3, <3>4
  <2> QED
    BY <2>1, <2>2
<1>6. ASSUME NEW r \in Request, Admitted(r) PROVE EndpointInv'
  <2>1. RegisteredOpened'
    BY <1>6 DEF Admitted, Goes, Hears, handling, listening, negotiating
  <2>2. ASSUME NEW q \in Request PROVE RequestInv(q)'
    <3> USE <1>6 DEF RequestInv
    <3>1. Before(q)'
      BY DEF Admitted, Goes, Hears, handling, listening, negotiating, TypeOK, Before
    <3>2. Own(q)'
      BY DEF Admitted, Goes, Hears, handling, listening, negotiating, TypeOK, Own, Before
    <3>3. Ending(q)'
      BY DEF Admitted, Goes, Hears, handling, listening, negotiating, TypeOK, Ending, Before
    <3>4. InPending(q)'
      BY DEF Admitted, Goes, Hears, handling, listening, negotiating, TypeOK, InPending
    <3> QED
      BY <3>1, <3>2, <3>3, <3>4
  <2> QED
    BY <2>1, <2>2
<1>7. ASSUME NEW r \in Request, NotAdmitted(r) PROVE EndpointInv'
  <2>1. RegisteredOpened'
    BY <1>7 DEF NotAdmitted, Goes, Answers, RemovesPending, handling, listening, negotiating
  <2>2. ASSUME NEW q \in Request PROVE RequestInv(q)'
    <3> USE <1>7 DEF RequestInv
    <3>1. Before(q)'
      BY DEF NotAdmitted, Goes, Answers, RemovesPending, handling, listening, negotiating, TypeOK, Before, Hears
    <3>2. Own(q)'
      BY DEF NotAdmitted, Goes, Answers, RemovesPending, handling, listening, negotiating, TypeOK, Own, Hears
    <3>3. Ending(q)'
      BY DEF NotAdmitted, Goes, Answers, RemovesPending, handling, listening, negotiating, TypeOK, Ending, Hears, Before
    <3>4. InPending(q)'
      BY DEF NotAdmitted, Goes, Answers, RemovesPending, handling, listening, negotiating, TypeOK, InPending, Hears
    <3> QED
      BY <3>1, <3>2, <3>3, <3>4
  <2> QED
    BY <2>1, <2>2
<1>8. ASSUME NEW r \in Request, TakeResult(r) PROVE EndpointInv'
  <2>1. RegisteredOpened'
    BY <1>8 DEF TakeResult, Goes, Answers, handling, listening, negotiating
  <2>2. ASSUME NEW q \in Request PROVE RequestInv(q)'
    <3> USE <1>8 DEF RequestInv
    <3>0. channel[r] \in Seq(Message) /\ channel[r] # <<>> /\ Len(channel[r]) <= 1
      BY DEF TakeResult, TypeOK
    <3>a. Head(channel[r]) \in Message /\ Tail(channel[r]) = <<>>
      BY <3>0, OneElement
    <3>b. /\ q = r => channel'[q] = <<>>
          /\ q # r => channel'[q] = channel[q]
      BY <3>a DEF TakeResult, TypeOK
    <3>c. Head(channel[r]).type \in {"answer", "error"}
      BY <3>a DEF Message
    <3>1. Before(q)'
      BY <3>b, <3>c DEF TakeResult, Goes, Answers, handling, listening, negotiating, TypeOK, Before, Hears
    <3>d. result'[r] = r
          /\ (q # r => result'[q] = result[q] /\ status'[q] = status[q])
      BY DEF TakeResult, Answers, TypeOK, Own
    <3>2. Own(q)'
      <4>1. CASE q = r
        BY <3>b, <3>d, <4>1 DEF TakeResult, negotiating, Own
      <4>2. CASE q # r
        BY <3>b, <3>d, <4>2 DEF TakeResult, negotiating, Own
      <4> QED
        BY <4>1, <4>2
    <3>3. Ending(q)'
      BY <3>b, <3>c DEF TakeResult, Goes, Answers, handling, listening, negotiating, TypeOK, Ending, Hears, Before, Own
    <3>4. InPending(q)'
      BY <3>b, <3>c DEF TakeResult, Goes, Answers, handling, listening, negotiating, TypeOK, InPending, Hears
    <3> QED
      BY <3>1, <3>2, <3>3, <3>4
  <2> QED
    BY <2>1, <2>2
<1>9. ASSUME NEW r \in Request, ContextDone(r) PROVE EndpointInv'
  <2>1. RegisteredOpened'
    BY <1>9 DEF ContextDone, Goes, handling, listening, negotiating
  <2>2. ASSUME NEW q \in Request PROVE RequestInv(q)'
    <3> USE <1>9 DEF RequestInv
    <3>1. Before(q)'
      BY DEF ContextDone, Goes, handling, listening, negotiating, TypeOK, Before, Hears
    <3>2. Own(q)'
      BY DEF ContextDone, Goes, handling, listening, negotiating, TypeOK, Own, Hears
    <3>3. Ending(q)'
      BY DEF ContextDone, Goes, handling, listening, negotiating, TypeOK, Ending, Hears, Before
    <3>4. InPending(q)'
      BY DEF ContextDone, Goes, handling, listening, negotiating, TypeOK, InPending, Hears
    <3> QED
      BY <3>1, <3>2, <3>3, <3>4
  <2> QED
    BY <2>1, <2>2
<1>10. ASSUME NEW r \in Request, Cancel(r) PROVE EndpointInv'
  <2>1. RegisteredOpened'
    BY <1>10 DEF Cancel, Goes, Answers, Cancels, Hears, handling, listening, negotiating
  <2>2. ASSUME NEW q \in Request PROVE RequestInv(q)'
    <3> USE <1>10 DEF RequestInv
    <3>1. Before(q)'
      BY DEF Cancel, Goes, Answers, Cancels, Hears, handling, listening, negotiating, TypeOK, Before
    <3>2. Own(q)'
      BY DEF Cancel, Goes, Answers, Cancels, Hears, handling, listening, negotiating, TypeOK, Own
    <3>3. Ending(q)'
      BY DEF Cancel, Goes, Answers, Cancels, Hears, handling, listening, negotiating, TypeOK, Ending, Before
    <3>4. InPending(q)'
      BY DEF Cancel, Goes, Answers, Cancels, Hears, handling, listening, negotiating, TypeOK, InPending
    <3> QED
      BY <3>1, <3>2, <3>3, <3>4
  <2> QED
    BY <2>1, <2>2
<1>11. ASSUME NEW r \in Request, Delete(r) PROVE EndpointInv'
  <2>1. RegisteredOpened'
    BY <1>11 DEF Delete, Goes, Key, handling, listening, negotiating
  <2>2. ASSUME NEW q \in Request PROVE RequestInv(q)'
    <3> USE <1>11 DEF RequestInv
    <3>1. Before(q)'
      BY DEF Delete, Goes, Key, handling, listening, negotiating, TypeOK, Before, Hears
    <3>2. Own(q)'
      BY DEF Delete, Goes, Key, handling, listening, negotiating, TypeOK, Own, Hears
    <3>3. Ending(q)'
      BY DEF Delete, Goes, Key, handling, listening, negotiating, TypeOK, Ending, Hears, Before
    <3>4. InPending(q)'
      BY DEF Delete, Goes, Key, handling, listening, negotiating, TypeOK, InPending, Hears
    <3> QED
      BY <3>1, <3>2, <3>3, <3>4
  <2> QED
    BY <2>1, <2>2
<1>12. ASSUME NEW r \in Request, ContextEnds(r) PROVE EndpointInv'
  <2>1. RegisteredOpened'
    BY <1>12 DEF ContextEnds, handling, listening, negotiating
  <2>2. ASSUME NEW q \in Request PROVE RequestInv(q)'
    <3> USE <1>12 DEF RequestInv
    <3>1. Before(q)'
      BY DEF ContextEnds, handling, listening, negotiating, TypeOK, Before, Hears
    <3>2. Own(q)'
      BY DEF ContextEnds, handling, listening, negotiating, TypeOK, Own, Hears
    <3>3. Ending(q)'
      BY DEF ContextEnds, handling, listening, negotiating, TypeOK, Ending, Hears, Before
    <3>4. InPending(q)'
      BY DEF ContextEnds, handling, listening, negotiating, TypeOK, InPending, Hears
    <3> QED
      BY <3>1, <3>2, <3>3, <3>4
  <2> QED
    BY <2>1, <2>2
<1>13. ASSUME NEW r \in Request, Progress(r) PROVE EndpointInv'
  <2>1. RegisteredOpened'
    BY <1>13 DEF Progress, Becomes, handling, listening, negotiating
  <2>2. ASSUME NEW q \in Request PROVE RequestInv(q)'
    <3> USE <1>13 DEF RequestInv
    <3>1. Before(q)'
      BY DEF Progress, Becomes, handling, listening, negotiating, TypeOK, Before, Hears
    <3>2. Own(q)'
      BY DEF Progress, Becomes, handling, listening, negotiating, TypeOK, Own, Hears
    <3>3. Ending(q)'
      BY DEF Progress, Becomes, handling, listening, negotiating, TypeOK, Ending, Hears, Before
    <3>4. InPending(q)'
      BY DEF Progress, Becomes, handling, listening, negotiating, TypeOK, InPending, Hears
    <3> QED
      BY <3>1, <3>2, <3>3, <3>4
  <2> QED
    BY <2>1, <2>2
<1>14. ASSUME NEW r \in Request, SignalFinds(r) PROVE EndpointInv'
  <2>1. RegisteredOpened'
    BY <1>14 DEF SignalFinds, Key, Becomes, handling, listening, negotiating
  <2>2. ASSUME NEW q \in Request PROVE RequestInv(q)'
    <3> USE <1>14 DEF RequestInv
    <3>1. Before(q)'
      BY DEF SignalFinds, Key, Becomes, handling, listening, negotiating, TypeOK, Before, Hears, InPending
    <3>2. Own(q)'
      BY DEF SignalFinds, Key, Becomes, handling, listening, negotiating, TypeOK, Own, Hears, InPending
    <3>3. Ending(q)'
      BY DEF SignalFinds, Key, Becomes, handling, listening, negotiating, TypeOK, Ending, Hears, Before, InPending
    <3>4. InPending(q)'
      BY DEF SignalFinds, Key, Becomes, handling, listening, negotiating, TypeOK, InPending, Hears
    <3> QED
      BY <3>1, <3>2, <3>3, <3>4
  <2> QED
    BY <2>1, <2>2
<1>15. ASSUME NEW r \in Request, SignalSends(r) PROVE EndpointInv'
  <2>1. RegisteredOpened'
    BY <1>15 DEF SignalSends, Full, Becomes, handling, listening, negotiating
  <2>2. ASSUME NEW q \in Request PROVE RequestInv(q)'
    <3> USE <1>15 DEF RequestInv
    <3> DEFINE m == [type |-> IF neg[r] = "answering" THEN "answer" ELSE "error",
                      from |-> r]
    <3>0. target[r] = r /\ m \in Message
      BY DEF SignalSends, Becomes, TypeOK, Own, Message
    <3>a. channel' = [channel EXCEPT ![r] = Append(@, m)]
      BY <3>0 DEF SignalSends
    <3>b. channel[r] = <<>> /\ channel[r] \in Seq(Message)
      BY <3>0 DEF SignalSends, Full, TypeOK
    <3>c. Append(channel[r], m) # <<>> /\ Head(Append(channel[r], m)) = m
      BY <3>0, <3>b, OneElement
    <3>d. /\ q = r => channel'[q] # <<>> /\ Head(channel'[q]) = m
          /\ q # r => channel'[q] = channel[q]
      BY <3>a, <3>c DEF TypeOK
    <3>e. m.from = r
          /\ m.type = IF neg[r] = "answering" THEN "answer" ELSE "error"
      OBVIOUS
    <3> HIDE DEF m
    <3>1. Before(q)'
      BY <3>0, <3>d, <3>e DEF SignalSends, Full, Becomes, handling, listening, negotiating, TypeOK, Before, Hears
    <3>2. Own(q)'
      BY <3>0, <3>d, <3>e DEF SignalSends, Full, Becomes, handling, listening, negotiating, TypeOK, Own, Hears
    <3>3. Ending(q)'
      BY <3>0, <3>d, <3>e DEF SignalSends, Full, Becomes, handling, listening, negotiating, TypeOK, Ending, Hears, Before
    <3>4. InPending(q)'
      BY <3>0, <3>d, <3>e DEF SignalSends, Full, Becomes, handling, listening, negotiating, TypeOK, InPending, Hears
    <3> QED
      BY <3>1, <3>2, <3>3, <3>4
  <2> QED
    BY <2>1, <2>2
<1>16. ASSUME NEW r \in Request, SignalFails(r) PROVE EndpointInv'
  <2>1. RegisteredOpened'
    BY <1>16 DEF SignalFails, Key, Full, Hears, Becomes, handling, listening, negotiating
  <2>2. ASSUME NEW q \in Request PROVE RequestInv(q)'
    <3> USE <1>16 DEF RequestInv
    <3>1. Before(q)'
      BY DEF SignalFails, Key, Full, Hears, Becomes, handling, listening, negotiating, TypeOK, Before
    <3>2. Own(q)'
      BY DEF SignalFails, Key, Full, Hears, Becomes, handling, listening, negotiating, TypeOK, Own, InPending
    <3>3. Ending(q)'
      BY DEF SignalFails, Key, Full, Hears, Becomes, handling, listening, negotiating, TypeOK, Ending, Before
    <3>4. InPending(q)'
      BY DEF SignalFails, Key, Full, Hears, Becomes, handling, listening, negotiating, TypeOK, InPending
    <3> QED
      BY <3>1, <3>2, <3>3, <3>4
  <2> QED
    BY <2>1, <2>2
<1>17. ASSUME NEW l \in Listener, Notify(l) PROVE EndpointInv'
  <2>1. RegisteredOpened'
    BY <1>17 DEF Notify, handling, listening, negotiating, TypeOK
  <2>2. ASSUME NEW q \in Request PROVE RequestInv(q)'
    <3> USE <1>17 DEF RequestInv
    <3>1. Before(q)'
      BY DEF Notify, handling, listening, negotiating, TypeOK, Before, Hears
    <3>2. Own(q)'
      BY DEF Notify, handling, listening, negotiating, TypeOK, Own, Hears
    <3>3. Ending(q)'
      BY DEF Notify, handling, listening, negotiating, TypeOK, Ending, Hears, Before
    <3>4. InPending(q)'
      BY DEF Notify, handling, listening, negotiating, TypeOK, InPending, Hears
    <3> QED
      BY <3>1, <3>2, <3>3, <3>4
  <2> QED
    BY <2>1, <2>2
<1>18. ASSUME NEW l \in Listener, CloseListener(l) PROVE EndpointInv'
  <2>1. RegisteredOpened'
    BY <1>18 DEF CloseListener, handling, listening, negotiating, TypeOK
  <2>2. ASSUME NEW q \in Request PROVE RequestInv(q)'
    <3> USE <1>18 DEF RequestInv
    <3>1. Before(q)'
      BY DEF CloseListener, handling, listening, negotiating, TypeOK, Before, Hears
    <3>2. Own(q)'
      BY DEF CloseListener, handling, listening, negotiating, TypeOK, Own, Hears
    <3>3. Ending(q)'
      BY DEF CloseListener, handling, listening, negotiating, TypeOK, Ending, Hears, Before
    <3>4. InPending(q)'
      BY DEF CloseListener, handling, listening, negotiating, TypeOK, InPending, Hears
    <3> QED
      BY <3>1, <3>2, <3>3, <3>4
  <2> QED
    BY <2>1, <2>2
<1>19. ASSUME NEW l \in Listener, Stop(l) PROVE EndpointInv'
  <2>1. RegisteredOpened'
    BY <1>19 DEF Stop, handling, listening, negotiating, TypeOK
  <2>2. ASSUME NEW q \in Request PROVE RequestInv(q)'
    <3> USE <1>19 DEF RequestInv
    <3>1. Before(q)'
      BY DEF Stop, handling, listening, negotiating, TypeOK, Before, Hears
    <3>2. Own(q)'
      BY DEF Stop, handling, listening, negotiating, TypeOK, Own, Hears
    <3>3. Ending(q)'
      BY DEF Stop, handling, listening, negotiating, TypeOK, Ending, Hears, Before
    <3>4. InPending(q)'
      BY DEF Stop, handling, listening, negotiating, TypeOK, InPending, Hears
    <3> QED
      BY <3>1, <3>2, <3>3, <3>4
  <2> QED
    BY <2>1, <2>2
<1>20. CASE CloseServer
  <2> SUFFICES ASSUME NEW q \in Request PROVE RequestInv(q)'
    BY <1>20 DEF CloseServer, listening
  <2> QED
    BY <1>20 DEF CloseServer, handling, listening, negotiating, RequestInv, Before, Own, Ending,
                   InPending, Hears
<1>21. CASE UNCHANGED vars
  <2> SUFFICES ASSUME NEW q \in Request PROVE RequestInv(q)'
    BY <1>21 DEF vars, listening
  <2> QED
    BY <1>21 DEF vars, handling, listening, negotiating, RequestInv, Before, Own, Ending,
                   InPending, Hears
<1> QED
  BY <1>1, <1>2, <1>3, <1>4, <1>5, <1>6, <1>7, <1>8, <1>9, <1>10, <1>11, <1>12, <1>13, <1>14, <1>15, <1>16, <1>17, <1>18, <1>19, <1>20, <1>21
  DEF Next, HandlerStep, NegotiationStep

\* A request is answered with what was signaled for its own offer (the key of
\* h.pending has the connection ID).
THEOREM RepliesOwn == Spec => []OwnReply
<1>1. EndpointInv => OwnReply
  BY DEF EndpointInv, RequestInv, Own, OwnReply
<1> QED
  BY <1>1, EndpointInvInit, EndpointInvStep, EndpointTypeCorrect, PTL DEF Spec

\* h.pending holds the requests that wait, no more and no less.
THEOREM PendingAlwaysExact == Spec => []PendingExact
<1>1. EndpointInv => PendingExact
  BY DEF EndpointInv, RequestInv, InPending, PendingExact
<1> QED
  BY <1>1, EndpointInvInit, EndpointInvStep, EndpointTypeCorrect, PTL DEF Spec

\* A request that ends without an answer leaves no negotiation behind that the
\* Listener was not told to cancel; one with an answer has not been canceled.
THEOREM OutcomeAgreed == Spec => []Settled
<1>1. EndpointInv => Settled
  BY DEF EndpointInv, RequestInv, Ending, Settled
<1> QED
  BY <1>1, EndpointInvInit, EndpointInvStep, EndpointTypeCorrect, PTL DEF Spec

\* An answer Handler.Signal took reaches the client unless its request ended.
THEOREM AnswersServed == Spec => []AnswerServed
<1>1. EndpointInv => AnswerServed
  BY DEF EndpointInv, RequestInv, Ending, AnswerServed
<1> QED
  BY <1>1, EndpointInvInit, EndpointInvStep, EndpointTypeCorrect, PTL DEF Spec
-----------------------------------------------------------------------------
(* The Client *)

\* A request that is over is not answered again.
LEMMA DoneStays ==
    ASSUME TypeOK, [Next]_vars, NEW q \in Request, pc[q] = "done"
    PROVE  pc'[q] = "done" /\ status'[q] = status[q]
<1>1. ASSUME NEW r \in Request, Receive(r) PROVE pc'[q] = "done" /\ status'[q] = status[q]
  BY <1>1 DEF Receive, Goes, Answers, RemovesPending, Becomes, handling, TypeOK
<1>2. ASSUME NEW r \in Request, Refuse(r) PROVE pc'[q] = "done" /\ status'[q] = status[q]
  BY <1>2 DEF Refuse, Goes, Answers, RemovesPending, Becomes, handling, TypeOK
<1>3. ASSUME NEW r \in Request, FindNone(r) PROVE pc'[q] = "done" /\ status'[q] = status[q]
  BY <1>3 DEF FindNone, Goes, Answers, RemovesPending, Becomes, handling, TypeOK
<1>4. ASSUME NEW r \in Request, FindListener(r) PROVE pc'[q] = "done" /\ status'[q] = status[q]
  BY <1>4 DEF FindListener, Goes, Answers, RemovesPending, Becomes, handling, TypeOK
<1>5. ASSUME NEW r \in Request, Register(r) PROVE pc'[q] = "done" /\ status'[q] = status[q]
  BY <1>5 DEF Register, Goes, Answers, RemovesPending, Becomes, handling, TypeOK
<1>6. ASSUME NEW r \in Request, Admitted(r) PROVE pc'[q] = "done" /\ status'[q] = status[q]
  BY <1>6 DEF Admitted, Goes, Answers, RemovesPending, Becomes, handling, TypeOK
<1>7. ASSUME NEW r \in Request, NotAdmitted(r) PROVE pc'[q] = "done" /\ status'[q] = status[q]
  BY <1>7 DEF NotAdmitted, Goes, Answers, RemovesPending, Becomes, handling, TypeOK
<1>8. ASSUME NEW r \in Request, TakeResult(r) PROVE pc'[q] = "done" /\ status'[q] = status[q]
  BY <1>8 DEF TakeResult, Goes, Answers, RemovesPending, Becomes, handling, TypeOK
<1>9. ASSUME NEW r \in Request, ContextDone(r) PROVE pc'[q] = "done" /\ status'[q] = status[q]
  BY <1>9 DEF ContextDone, Goes, Answers, RemovesPending, Becomes, handling, TypeOK
<1>10. ASSUME NEW r \in Request, Cancel(r) PROVE pc'[q] = "done" /\ status'[q] = status[q]
  BY <1>10 DEF Cancel, Goes, Answers, RemovesPending, Becomes, handling, TypeOK
<1>11. ASSUME NEW r \in Request, Delete(r) PROVE pc'[q] = "done" /\ status'[q] = status[q]
  BY <1>11 DEF Delete, Goes, Answers, RemovesPending, Becomes, handling, TypeOK
<1>12. ASSUME NEW r \in Request, ContextEnds(r) PROVE pc'[q] = "done" /\ status'[q] = status[q]
  BY <1>12 DEF ContextEnds, Goes, Answers, RemovesPending, Becomes, handling, TypeOK
<1>13. ASSUME NEW r \in Request, Progress(r) PROVE pc'[q] = "done" /\ status'[q] = status[q]
  BY <1>13 DEF Progress, Goes, Answers, RemovesPending, Becomes, handling, TypeOK
<1>14. ASSUME NEW r \in Request, SignalFinds(r) PROVE pc'[q] = "done" /\ status'[q] = status[q]
  BY <1>14 DEF SignalFinds, Goes, Answers, RemovesPending, Becomes, handling, TypeOK
<1>15. ASSUME NEW r \in Request, SignalSends(r) PROVE pc'[q] = "done" /\ status'[q] = status[q]
  BY <1>15 DEF SignalSends, Goes, Answers, RemovesPending, Becomes, handling, TypeOK
<1>16. ASSUME NEW r \in Request, SignalFails(r) PROVE pc'[q] = "done" /\ status'[q] = status[q]
  BY <1>16 DEF SignalFails, Goes, Answers, RemovesPending, Becomes, handling, TypeOK
<1>17. ASSUME NEW l \in Listener, Notify(l) \/ CloseListener(l) \/ Stop(l)
       PROVE  pc' = pc /\ status' = status
  BY <1>17 DEF Notify, CloseListener, Stop, handling
<1>18. ASSUME CloseServer \/ UNCHANGED vars PROVE pc' = pc /\ status' = status
  BY <1>18 DEF CloseServer, vars, handling
<1> QED
  BY <1>1, <1>2, <1>3, <1>4, <1>5, <1>6, <1>7, <1>8, <1>9, <1>10, <1>11, <1>12, <1>13, <1>14, <1>15, <1>16, <1>17, <1>18
  DEF Next, HandlerStep, NegotiationStep

\* To the Handler, a step of a Client is a step of its server or none.
LEMMA ClientStepServes == [ClientNext]_clientVars => [Next]_vars
BY DEF ClientNext, clientVars, Serve, Post, GiveUp, ReadFailure, ReadAnswer,
       NotifyDials, StopDial

\* Whatever dials do with a Client, the server they talk to is the Handler as
\* it is specified on its own, so that what is proved of that holds here too.
THEOREM ClientImplementsHandler == ClientSpec => Spec
<1>1. ClientInit => Init
  BY DEF ClientInit
<1> QED
  BY <1>1, ClientStepServes, PTL DEF ClientSpec, Spec

\* What is true of one dial: its notifier is registered while its Signal waits
\* and is among those that are notified; what Signal makes of the response is
\* what the request was answered with; and no answer is another's.
ClientInv(q) ==
    /\ call[q] = "posted" => q \in notifiers
    /\ call[q] = "notifying" => q \in copied[q]
    /\ call[q] = "returned" => q \in heard[q]
    /\ call[q] \in {"notifying", "returned"} =>
         pc[q] = "done" /\ status[q] = "answer"
    /\ call[q] = "failed" => pc[q] = "done" /\ status[q] # "answer"
    /\ heard[q] \subseteq {q}

EndToEndInv == ClientTypeOK /\ EndpointInv /\ \A q \in Request : ClientInv(q)

\* Initially nothing has been posted.
LEMMA EndToEndInit == ClientInit => EndToEndInv
<1> SUFFICES ASSUME ClientInit PROVE EndToEndInv
  OBVIOUS
<1>1. EndpointInv
  BY EndpointInvInit DEF ClientInit
<1>2. TypeOK
  <2>1. Init => TypeOK
    BY EndpointTypeInit
  <2> QED
    BY <2>1 DEF ClientInit
<1>3. ClientTypeOK
  BY <1>2 DEF ClientTypeOK, ClientInit
<1>4. ASSUME NEW q \in Request PROVE ClientInv(q)
  BY DEF ClientInit, ClientInv
<1> QED
  BY <1>1, <1>3, <1>4 DEF EndToEndInv

\* Neither a step of a dial nor one of the server breaks it.
LEMMA EndToEndStep == EndToEndInv /\ [ClientNext]_clientVars => EndToEndInv'
<1> SUFFICES ASSUME EndToEndInv, [ClientNext]_clientVars PROVE EndToEndInv'
  OBVIOUS
<1>1. [Next]_vars
  BY ClientStepServes
<1>2. TypeOK' /\ EndpointInv'
  BY <1>1, EndpointTypeStep, EndpointInvStep DEF EndToEndInv, ClientTypeOK
<1>3. \A q \in Request : ClientInv(q)
  BY DEF EndToEndInv
<1> USE DEF ClientInv
<1>4. ASSUME NEW r \in Request, Post(r)
       PROVE  ClientTypeOK' /\ \A q \in Request : ClientInv(q)'
  <2>1. ClientTypeOK'
    BY <1>4, <1>2 DEF Post, Registered, Moves, EndToEndInv, ClientTypeOK
  <2>2. ASSUME NEW q \in Request PROVE ClientInv(q)'
    BY <1>4, <1>3 DEF Post, Registered, Moves, EndToEndInv, ClientTypeOK, vars,
                      handling
  <2> QED
    BY <2>1, <2>2
<1>5. ASSUME NEW r \in Request, GiveUp(r)
       PROVE  ClientTypeOK' /\ \A q \in Request : ClientInv(q)'
  <2>1. ClientTypeOK'
    BY <1>5, <1>2 DEF GiveUp, Moves, EndToEndInv, ClientTypeOK
  <2>2. ASSUME NEW q \in Request PROVE ClientInv(q)'
    BY <1>5, <1>3 DEF GiveUp, Moves, EndToEndInv, ClientTypeOK, vars,
                      handling
  <2> QED
    BY <2>1, <2>2
<1>6. ASSUME NEW r \in Request, ReadFailure(r)
       PROVE  ClientTypeOK' /\ \A q \in Request : ClientInv(q)'
  <2>1. ClientTypeOK'
    BY <1>6, <1>2 DEF ReadFailure, Moves, EndToEndInv, ClientTypeOK
  <2>2. ASSUME NEW q \in Request PROVE ClientInv(q)'
    BY <1>6, <1>3 DEF ReadFailure, Moves, EndToEndInv, ClientTypeOK, vars,
                      handling
  <2> QED
    BY <2>1, <2>2
<1>7. ASSUME NEW r \in Request, ReadAnswer(r)
       PROVE  ClientTypeOK' /\ \A q \in Request : ClientInv(q)'
  <2>1. ClientTypeOK'
    BY <1>7, <1>2 DEF ReadAnswer, Moves, EndToEndInv, ClientTypeOK
  <2>2. ASSUME NEW q \in Request PROVE ClientInv(q)'
    BY <1>7, <1>3 DEF ReadAnswer, Moves, EndToEndInv, ClientTypeOK, vars,
                      handling
  <2> QED
    BY <2>1, <2>2
<1>8. ASSUME NEW r \in Request, NotifyDials(r)
       PROVE  ClientTypeOK' /\ \A q \in Request : ClientInv(q)'
  <2>1. /\ result[r] = r /\ r \in copied[r]
        /\ pc[r] = "done" /\ status[r] = "answer"
    BY <1>8, <1>3
    DEF EndToEndInv, EndpointInv, RequestInv, Own, NotifyDials, Moves
  <2>2. \A q \in Request :
          heard'[q] = IF q \in copied[r] /\ q = r
                        THEN heard[q] \cup {r} ELSE heard[q]
    BY <1>8, <2>1 DEF NotifyDials, ForDial
  <2>3. heard'[r] = heard[r] \cup {r}
        /\ \A q \in Request \ {r} : heard'[q] = heard[q]
    BY <2>1, <2>2
  <2>4. heard' \in [Request -> SUBSET Request]
    BY <1>8, <2>1 DEF NotifyDials, ForDial, EndToEndInv, ClientTypeOK
  <2>5. ClientTypeOK'
    BY <1>8, <1>2, <2>4 DEF NotifyDials, Moves, EndToEndInv, ClientTypeOK
  <2>6. ASSUME NEW q \in Request PROVE ClientInv(q)'
    BY <1>8, <1>3, <2>1, <2>3
    DEF NotifyDials, Moves, EndToEndInv, ClientTypeOK, vars, handling
  <2> QED
    BY <2>5, <2>6
<1>9. ASSUME NEW r \in Request, StopDial(r)
       PROVE  ClientTypeOK' /\ \A q \in Request : ClientInv(q)'
  <2>1. ClientTypeOK'
    BY <1>9, <1>2 DEF StopDial, Moves, EndToEndInv, ClientTypeOK
  <2>2. ASSUME NEW q \in Request PROVE ClientInv(q)'
    BY <1>9, <1>3 DEF StopDial, Moves, EndToEndInv, ClientTypeOK, vars,
                      handling
  <2> QED
    BY <2>1, <2>2
<1>10. ASSUME Serve \/ UNCHANGED clientVars
       PROVE  ClientTypeOK' /\ \A q \in Request : ClientInv(q)'
  <2>1. UNCHANGED client
    BY <1>10 DEF Serve, clientVars
  <2>2. ClientTypeOK'
    BY <1>2, <2>1 DEF client, EndToEndInv, ClientTypeOK
  <2>3. ASSUME NEW q \in Request PROVE ClientInv(q)'
    <3>1. pc[q] = "done" => pc'[q] = "done" /\ status'[q] = status[q]
      BY <1>1, DoneStays DEF EndToEndInv, ClientTypeOK
    <3> QED
      BY <1>3, <2>1, <3>1 DEF client
  <2> QED
    BY <2>2, <2>3
<1>11. ClientTypeOK' /\ \A q \in Request : ClientInv(q)'
  BY <1>4, <1>5, <1>6, <1>7, <1>8, <1>9, <1>10 DEF ClientNext
<1> QED
  BY <1>2, <1>11 DEF EndToEndInv

\* End to end, for any number of clients and dials: a dial gets the answer to
\* its own offer and no other, has it when Signal returns without an error, and
\* misses one that Handler.Signal took only when it or its request has ended.
THEOREM AnswersReach == ClientSpec => []AnswerReaches
<1>1. EndToEndInv => AnswerReaches
  <2> SUFFICES ASSUME EndToEndInv, NEW r \in Request
               PROVE  /\ heard[r] \subseteq {r}
                      /\ call[r] = "returned" => r \in heard[r] /\ ~canceled[r]
                      /\ neg[r] = "answered" /\ call[r] = "failed" =>
                           ctx[r] # "live"
    BY DEF AnswerReaches
  <2>1. ClientInv(r) /\ Ending(r)
    BY DEF EndToEndInv, EndpointInv, RequestInv
  <2> QED
    BY <2>1 DEF ClientInv, Ending
<1> QED
  BY <1>1, EndToEndInit, EndToEndStep, PTL DEF ClientSpec
=============================================================================
