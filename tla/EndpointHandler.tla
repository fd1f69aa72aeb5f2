--------------------------- MODULE EndpointHandler ---------------------------
(***************************************************************************)
(* The HTTP endpoint of package endpoint as a Signaling: a request carries  *)
(* an offer, waits for what the Listener signals for it, and is answered    *)
(* with that; the Listener is told when nobody waits for its answer.        *)
(***************************************************************************)
EXTENDS Naturals, Sequences

CONSTANTS
    Client,       \* the network IDs in the paths of requests
    MaxRequests,  \* how many requests each of them makes (a bound)
    Listener,     \* those that call Handler.Notify, one after the other
    NoListener, NoRequest

\* Every offer gets a connection ID of its own (rand.Uint64).
Request == Client \X (1 .. MaxRequests)

ASSUME EndpointAssumption ==
    /\ MaxRequests \in Nat
    /\ NoListener \notin Listener
    /\ NoRequest \notin Request

VARIABLES
    \* the requests
    pc,        \* where handleOffer and negotiate are
    ctx,       \* the context of the negotiation
    used,      \* the notifier that negotiate has read
    status,    \* what the request is answered with
    result,    \* the request whose negotiation signaled that
    \* the Handler
    serving,   \* the HTTP server has not been closed
    pending,   \* h.pending
    channel,   \* the channels in it: what they hold, and from whom
    notifier,  \* h.notifier
    \* the Listeners and their negotiations
    closed,    \* l.closed
    neg,       \* the progress of negotiate
    target,    \* the request whose channel Handler.Signal has found
    canceled   \* NotifySignal was told that nobody waits any more

handling == <<pc, used, status, result>>
listening == <<notifier, closed>>
negotiating == <<neg, target>>
vars == <<handling, ctx, serving, pending, channel, listening, negotiating,
          canceled>>

Message == [type : {"answer", "error"}, from : Request]

\* connectionKey.  (Faulty variant: without the connection ID.)
KeyOfClient(r) == <<r[1], 1>>
Key(r) == r

TypeOK ==
    /\ pc \in [Request -> {"new", "lookup", "register", "notify", "wait",
                           "cancel", "delete", "done"}]
    /\ ctx \in [Request -> {"live", "deadline", "canceled"}]
    /\ used \in [Request -> Listener \cup {NoListener}]
    /\ status \in [Request -> {"none", "answer", "error", "unavailable",
                               "timeout", "failed", "bad"}]
    /\ result \in [Request -> Request \cup {NoRequest}]
    /\ serving \in BOOLEAN
    /\ pending \in [Request -> Request \cup {NoRequest}]
    /\ channel \in [Request -> Seq(Message)]
    /\ \A r \in Request : Len(channel[r]) <= 1
    /\ notifier \in Listener \cup {NoListener}
    /\ closed \in [Listener -> {"new", "open", "closing", "closed"}]
    /\ neg \in [Request -> {"none", "working", "answer", "answering",
                            "answered", "reply", "replying", "over"}]
    /\ target \in [Request -> Request \cup {NoRequest}]
    /\ canceled \in [Request -> BOOLEAN]

Init ==
    /\ pc = [r \in Request |-> "new"]
    /\ ctx = [r \in Request |-> "live"]
    /\ used = [r \in Request |-> NoListener]
    /\ status = [r \in Request |-> "none"]
    /\ result = [r \in Request |-> NoRequest]
    /\ serving = TRUE
    /\ pending = [r \in Request |-> NoRequest]
    /\ channel = [r \in Request |-> <<>>]
    /\ notifier = NoListener
    /\ closed = [l \in Listener |-> "new"]
    /\ neg = [r \in Request |-> "none"]
    /\ target = [r \in Request |-> NoRequest]
    /\ canceled = [r \in Request |-> FALSE]

-----------------------------------------------------------------------------
(* Handler.handleOffer and Handler.negotiate *)

Goes(r, from, to) == pc[r] = from /\ pc' = [pc EXCEPT ![r] = to]
Answers(r, s) == status' = [status EXCEPT ![r] = s]

\* The path or the body is not accepted; or it is, and the time for the
\* negotiation starts.
Refuse(r) ==
    /\ serving
    /\ Goes(r, "new", "done") /\ Answers(r, "bad")
    /\ UNCHANGED <<used, result, ctx, serving, pending, channel, listening,
                   negotiating, canceled>>
Receive(r) ==
    /\ serving
    /\ Goes(r, "new", "lookup")
    /\ UNCHANGED <<used, status, result, ctx, serving, pending, channel,
                   listening, negotiating, canceled>>

FindNone(r) ==
    /\ notifier = NoListener
    /\ Goes(r, "lookup", "done") /\ Answers(r, "failed")
    /\ UNCHANGED <<used, result, ctx, serving, pending, channel, listening,
                   negotiating, canceled>>
FindListener(r) ==
    /\ notifier # NoListener
    /\ Goes(r, "lookup", "register")
    /\ used' = [used EXCEPT ![r] = notifier]
    /\ UNCHANGED <<status, result, ctx, serving, pending, channel, listening,
                   negotiating, canceled>>

Register(r) ==
    /\ Goes(r, "register", "notify")
    /\ pending' = [pending EXCEPT ![Key(r)] = r]
    /\ UNCHANGED <<used, status, result, ctx, serving, channel, listening,
                   negotiating, canceled>>

\* Whether Listener.NotifySignal still takes signals.
Hears(l) == closed[l] = "open" /\ serving

Admitted(r) ==
    /\ Goes(r, "notify", "wait") /\ Hears(used[r])
    /\ neg' = [neg EXCEPT ![r] = "working"]
    /\ UNCHANGED <<used, status, result, ctx, serving, pending, channel,
                   listening, target, canceled>>

\* Where negotiate goes when the offer is not admitted: the entry in h.pending
\* is removed by a deferred function.  (Faulty variant: only after waiting.)
LeavesPending == "done"
RemovesPending == "delete"

\* The Listener may have no slot for it.
NotAdmitted(r) ==
    /\ Goes(r, "notify", RemovesPending) /\ Answers(r, "unavailable")
    /\ UNCHANGED <<used, result, ctx, serving, pending, channel, listening,
                   negotiating, canceled>>

TakeResult(r) ==
    /\ channel[r] # <<>>
    /\ Goes(r, "wait", "delete") /\ Answers(r, Head(channel[r]).type)
    /\ result' = [result EXCEPT ![r] = Head(channel[r]).from]
    /\ channel' = [channel EXCEPT ![r] = Tail(@)]
    /\ UNCHANGED <<used, ctx, serving, pending, listening, negotiating,
                   canceled>>

\* The context ends the wait, also when there is a result.
ContextDone(r) ==
    /\ ctx[r] # "live"
    /\ Goes(r, "wait", "cancel")
    /\ UNCHANGED <<used, status, result, ctx, serving, pending, channel,
                   listening, negotiating, canceled>>

\* What the error that negotiate notifies does.  (Faulty variant: it notifies
\* none.)
CancelsNothing(r) == canceled[r]
Cancels(r) == canceled[r] \/ (Hears(used[r]) /\ neg[r] # "over")

Cancel(r) ==
    /\ Goes(r, "cancel", "delete")
    /\ canceled' = [canceled EXCEPT ![r] = Cancels(r)]
    /\ Answers(r, IF ctx[r] = "deadline" THEN "timeout" ELSE "failed")
    /\ UNCHANGED <<used, result, ctx, serving, pending, channel, listening,
                   negotiating>>

Delete(r) ==
    /\ Goes(r, "delete", "done")
    /\ pending' = [pending EXCEPT ![Key(r)] = NoRequest]
    /\ UNCHANGED <<used, status, result, ctx, serving, channel, listening,
                   negotiating, canceled>>

\* NegotiationContext runs out, the client goes away, the server is closed.
ContextEnds(r) ==
    /\ pc[r] \notin {"new", "done"}
    /\ ctx[r] = "live"
    /\ \E how \in {"deadline", "canceled"} : ctx' = [ctx EXCEPT ![r] = how]
    /\ UNCHANGED <<handling, serving, pending, channel, listening, negotiating,
                   canceled>>

-----------------------------------------------------------------------------
(* listenerNegotiator.negotiate, as far as it signals *)

Becomes(r, from, to) == neg[r] \in from /\ neg' = [neg EXCEPT ![r] = to]

\* The offer is answered, or fails: with an error for the peer, or without one
\* when the owner is closed or canceled.
Progress(r) ==
    /\ \/ Becomes(r, {"working"}, "answer")
       \/ Becomes(r, {"working", "answered"}, "reply") /\ ~canceled[r]
       \/ Becomes(r, {"working", "answered"}, "over")
    /\ UNCHANGED <<handling, ctx, serving, pending, channel, listening, target,
                   canceled>>

\* Whether the channel of a request, of capacity 1, is full.  (Faulty variant:
\* it has room for an error after the answer.)
FullWithTwo(q) == Len(channel[q]) = 2
Full(q) == channel[q] # <<>>

\* Handler.Signal reads the channel under the lock.
SignalFinds(r) ==
    /\ \/ Becomes(r, {"answer"}, "answering")
       \/ Becomes(r, {"reply"}, "replying")
    /\ pending[Key(r)] # NoRequest
    /\ target' = [target EXCEPT ![r] = pending[Key(r)]]
    /\ UNCHANGED <<handling, ctx, serving, pending, channel, listening,
                   canceled>>

\* And sends to it after that.
SignalSends(r) ==
    /\ \/ Becomes(r, {"answering"}, "answered")
       \/ Becomes(r, {"replying"}, "over")
    /\ ~Full(target[r])
    /\ channel' = [channel EXCEPT ![target[r]] = Append(@,
         [type |-> IF neg[r] = "answering" THEN "answer" ELSE "error",
          from |-> r])]
    /\ UNCHANGED <<handling, ctx, serving, pending, listening, target, canceled>>

\* It fails if there is none, if that is full, or if the context of the
\* Listener is done; then the Listener tries to signal an error, once.
SignalFails(r) ==
    /\ \/ Becomes(r, {"answer", "answering"}, "reply") /\ ~canceled[r]
       \/ Becomes(r, {"answer", "answering"}, "over") /\ canceled[r]
       \/ Becomes(r, {"reply", "replying"}, "over")
    /\ \/ neg[r] \in {"answer", "reply"} /\ pending[Key(r)] = NoRequest
       \/ neg[r] \in {"answering", "replying"} /\ Full(target[r])
       \/ canceled[r] \/ ~Hears(used[r])
    /\ UNCHANGED <<handling, ctx, serving, pending, channel, listening, target,
                   canceled>>

-----------------------------------------------------------------------------
(* Handler.Notify, its stop function, and closing *)

\* It panics while another Listener is registered.
Notify(l) ==
    /\ closed[l] = "new" /\ notifier = NoListener
    /\ notifier' = l
    /\ closed' = [closed EXCEPT ![l] = "open"]
    /\ UNCHANGED <<handling, ctx, serving, pending, channel, negotiating,
                   canceled>>

CloseListener(l) ==
    /\ closed[l] = "open"
    /\ closed' = [closed EXCEPT ![l] = "closing"]
    /\ UNCHANGED <<handling, ctx, serving, pending, channel, notifier,
                   negotiating, canceled>>

Stop(l) ==
    /\ closed[l] = "closing"
    /\ closed' = [closed EXCEPT ![l] = "closed"]
    /\ notifier' = NoListener
    /\ UNCHANGED <<handling, ctx, serving, pending, channel, negotiating,
                   canceled>>

CloseServer ==
    /\ serving
    /\ serving' = FALSE
    /\ UNCHANGED <<handling, ctx, pending, channel, listening, negotiating,
                   canceled>>

-----------------------------------------------------------------------------
HandlerStep(r) ==
    \/ FindNone(r) \/ FindListener(r) \/ Register(r) \/ Admitted(r)
    \/ NotAdmitted(r) \/ TakeResult(r) \/ ContextDone(r) \/ Cancel(r)
    \/ Delete(r)
NegotiationStep(r) ==
    Progress(r) \/ SignalFinds(r) \/ SignalSends(r) \/ SignalFails(r)

Next ==
    \/ \E r \in Request :
         Receive(r) \/ Refuse(r) \/ HandlerStep(r) \/ ContextEnds(r)
         \/ NegotiationStep(r)
    \/ \E l \in Listener : Notify(l) \/ CloseListener(l) \/ Stop(l)
    \/ CloseServer

Spec == Init /\ [][Next]_vars

-----------------------------------------------------------------------------
\* A request is answered with what was signaled for its own offer, also when
\* the client tries again while an earlier negotiation is still answering.
OwnReply == \A r \in Request : result[r] \in {r, NoRequest}

\* The entries of h.pending are those of the requests that may still be
\* signaled: none is missing and none is left (negotiate).
PendingExact ==
    \A r \in Request :
      pending[r] = IF pc[r] \in {"notify", "wait", "cancel", "delete"}
                     THEN r ELSE NoRequest

\* When a request is over, client and Listener agree: with an answer the
\* negotiation was not canceled; without one it was, or has ended, or its
\* Listener closes.
Settled ==
    \A r \in Request :
      pc[r] = "done" /\ neg[r] # "none" =>
        IF status[r] = "answer" THEN ~canceled[r]
        ELSE canceled[r] \/ neg[r] = "over" \/ ~Hears(used[r])

\* An answer that Handler.Signal took is what the client gets, unless the
\* context of the request is done.
AnswerServed ==
    \A r \in Request :
      neg[r] = "answered" /\ pc[r] = "done" =>
        status[r] = "answer" \/ ctx[r] # "live"
=============================================================================
