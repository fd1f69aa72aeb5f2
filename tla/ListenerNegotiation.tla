------------------------ MODULE ListenerNegotiation ------------------------
(***************************************************************************)
(* The Listener of the nethernet package: admission of offers, the         *)
(* goroutine that negotiates each of them, the owner a key is routed to    *)
(* until its last reply, remote candidates and errors delivered by the     *)
(* Signaling, and the shutdown of one negotiation or of the whole Listener.*)
(*                                                                         *)
(* Every goroutine has a program counter.  A step is the code between two  *)
(* points where another goroutine can observe or change shared state: one  *)
(* critical section, one channel operation, one call that blocks.          *)
(***************************************************************************)
EXTENDS Naturals, Sequences, FiniteSets

CONSTANTS
    Key,              \* negotiationKey: network ID and connection ID
    Neg,              \* listenerNegotiator objects; each is allocated once
    NoNeg,            \* a nil *listenerNegotiator
    Incoming,         \* the kinds of signals the Signaling delivers
    Caller,           \* goroutines in which the Signaling calls NotifySignal
    MaxNegotiations,  \* maxListenerNegotiations (64)
    MaxPending,       \* maxPendingSignalsPerNegotiation (32)
    TrickleICE        \* the negated result of shouldDisableTrickleICE

ASSUME ListenerAssumption ==
    /\ NoNeg \notin Neg
    /\ MaxNegotiations \in Nat \ {0}
    /\ MaxPending \in Nat
    /\ TrickleICE \in BOOLEAN
    /\ IsFiniteSet(Neg)
    /\ Key # {}

VARIABLES
    lst,             \* l.closed and the progress of Close
    lstAt,           \* the owner whose close Listener.Close is waiting for
    toClose,         \* the owners Close has yet to visit
    signalingUp,     \* signaling.Context() is not done
    owner,           \* l.negotiations
    sem,             \* who holds a slot of l.sem
    key,             \* n.key
    once,            \* n.once and n.closed: how far n.close has come
    finished,        \* n.finished
    remoteCanceled,  \* n.remoteCanceled
    deferred,        \* n.deferred
    published,       \* n.conn # nil
    pc,              \* where the goroutine running n.negotiate is
    ctx,             \* NegotiationContext, then ConnContext
    code,            \* code of the signalError handleOffer returns, if any
    backlog,         \* the local copy of n.deferred that handleOffer replays
    conn,            \* the Conn: its context and the progress of conn.close
    candidate,       \* conn.candidateReceived is closed
    trickle,         \* the goroutine that signals a local candidate
    call,            \* what each Caller is doing
    accepted,        \* history: Accept has returned the Conn
    peerCanceled,    \* history: NotifySignal returned true for a remote error
    promised         \* history: it returned true for a well-formed candidate

shutdown == <<lst, lstAt, toClose, signalingUp>>
registry == <<owner, sem, key>>
ownership == <<once, finished, remoteCanceled, deferred, published>>
offering == <<pc, ctx, code, backlog>>
transport == <<conn, candidate, trickle>>
history == <<accepted, peerCanceled, promised>>
vars == <<shutdown, registry, ownership, offering, transport, call, history>>

-----------------------------------------------------------------------------
(* Types *)

\* Signals that pass Signal.validate, as the Listener tells them apart; the
\* data of a "badCandidate" does not parse.
Candidates == {"candidate", "badCandidate"}
Signals == Candidates \cup {"offer", "error"}

\* The code of a signalError: of the stage of handleOffer that failed, or
\* ErrorCodeNegotiationTimeoutWaitingForAccept.
NoCode == "none"
Codes == {NoCode, "stage", "timeout"}

\* The stage handleOffer goes on to; identity is the verification of the
\* client's identity and the issue of the server's.
NextStage ==
    [parse       |-> "credentials",
     credentials |-> "newConn",
     newConn     |-> IF TrickleICE THEN "inline" ELSE "gather",
     gather      |-> "inline",
     inline      |-> "identity",
     identity    |-> "answer",
     answer      |-> IF TrickleICE THEN "trickle" ELSE "publish",
     trickle     |-> "publish"]
Stages == DOMAIN NextStage
\* Stages that pass their context to a function that may block.
BlockingStages == {"credentials", "gather", "identity", "answer"}

Finalising == {"await", "start", "channels", "deliver"}
\* handleOffer has not returned yet.
Handling == Stages \cup {"publish", "replay", "closeConn"} \cup Finalising
\* negotiate has not reached its deferred finish.
Unfinished == Handling \cup {"closeSelf", "report", "reply", "finish"}
Running == Unfinished \cup {"unregister", "release"}
Locations == Running \cup {"idle", "done"}

ConnStates ==
    {"none", "open", "canceled", "closing", "stopping", "closed"}
OnceStates == {"open", "closed", "unregister", "done"}
ASSUME IncomingAssumption == Incoming \subseteq Signals

\* What a Caller is doing, with which negotiator and signal.
NoCall == [at |-> "idle", neg |-> NoNeg, sig |-> "offer"]
Calls ==
    {NoCall}
    \cup [at : {"handle"}, neg : Neg, sig : Signals]
    \cup [at : {"error", "closeOwner", "connError"}, neg : Neg,
          sig : {"error"}]
    \cup [at : {"candidate", "connCandidate"}, neg : Neg, sig : Candidates]

TypeOK ==
    /\ lst \in {"open", "closing", "closed"}
    /\ lstAt \in Neg \cup {NoNeg}
    /\ toClose \subseteq Neg
    /\ signalingUp \in BOOLEAN
    /\ owner \in [Key -> Neg \cup {NoNeg}]
    /\ sem \subseteq Neg
    /\ key \in [Neg -> Key]
    /\ once \in [Neg -> OnceStates]
    /\ finished \in [Neg -> BOOLEAN]
    /\ remoteCanceled \in [Neg -> BOOLEAN]
    /\ deferred \in [Neg -> Seq(Candidates)]
    /\ published \in [Neg -> BOOLEAN]
    /\ pc \in [Neg -> Locations]
    /\ ctx \in [Neg -> {"live", "expired", "canceled"}]
    /\ code \in [Neg -> Codes]
    /\ backlog \in [Neg -> Seq(Candidates)]
    /\ conn \in [Neg -> ConnStates]
    /\ candidate \in [Neg -> BOOLEAN]
    /\ trickle \in [Neg -> {"none", "sending", "failing"}]
    /\ call \in [Caller -> Calls]
    /\ accepted \in [Neg -> BOOLEAN]
    /\ peerCanceled \in [Neg -> BOOLEAN]
    /\ promised \in [Neg -> BOOLEAN]

Init ==
    /\ lst = "open" /\ lstAt = NoNeg /\ toClose = {} /\ signalingUp = TRUE
    /\ owner = [k \in Key |-> NoNeg]
    /\ sem = {}
    /\ key = [n \in Neg |-> CHOOSE k \in Key : TRUE]
    /\ once = [n \in Neg |-> "open"]
    /\ finished = [n \in Neg |-> FALSE]
    /\ remoteCanceled = [n \in Neg |-> FALSE]
    /\ deferred = [n \in Neg |-> <<>>]
    /\ published = [n \in Neg |-> FALSE]
    /\ pc = [n \in Neg |-> "idle"]
    /\ ctx = [n \in Neg |-> "live"]
    /\ code = [n \in Neg |-> NoCode]
    /\ backlog = [n \in Neg |-> <<>>]
    /\ conn = [n \in Neg |-> "none"]
    /\ candidate = [n \in Neg |-> FALSE]
    /\ trickle = [n \in Neg |-> "none"]
    /\ call = [t \in Caller |-> NoCall]
    /\ accepted = [n \in Neg |-> FALSE]
    /\ peerCanceled = [n \in Neg |-> FALSE]
    /\ promised = [n \in Neg |-> FALSE]

\* <-n.closed, <-conn.ctx.Done() and <-ctx.Done() would not block.
Closed(n) == once[n] # "open"
ConnDone(n) == conn[n] \notin {"none", "open"}
CtxDone(n) == ctx[n] # "live"

-----------------------------------------------------------------------------
(* NotifySignal, called by the Signaling in a goroutine of its own.        *)
(* A call that returns false without touching anything is a stutter.       *)

\* Both checks of NotifySignal.  (Faulty variant: only the second.)
NotifiesUntilSignalingDone == signalingUp
Notifies == lst = "open" /\ signalingUp

\* l.sem <- struct{}{} does not block.  (Faulty variant: one too many.)
OneSlotTooMany == Cardinality(sem) <= MaxNegotiations
SlotFree == Cardinality(sem) < MaxNegotiations

\* An offer for a free key takes a slot and an owner, or is refused when no
\* slot is left: the whole branch runs under negotiationsMu.
Admit(k) ==
    /\ Notifies
    /\ owner[k] = NoNeg
    /\ SlotFree
    /\ \E n \in Neg :
        /\ pc[n] = "idle"
        /\ owner' = [owner EXCEPT ![k] = n]
        /\ key' = [key EXCEPT ![n] = k]
        /\ sem' = sem \cup {n}
        /\ pc' = [pc EXCEPT ![n] = "parse"]
    /\ UNCHANGED <<shutdown, ownership, ctx, code, backlog, transport, call,
                   history>>

\* A signal for a key in use leaves negotiationsMu before it reaches the owner.
Route(t, k, sig) ==
    /\ Notifies
    /\ call[t].at = "idle"
    /\ owner[k] # NoNeg
    /\ call' = [call EXCEPT ![t] =
                  [at |-> "handle", neg |-> owner[k], sig |-> sig]]
    /\ UNCHANGED <<shutdown, registry, ownership, offering, transport,
                   history>>

CallAt(t, l) ==
    call' = [call EXCEPT ![t] =
               [at |-> l, neg |-> call[t].neg, sig |-> call[t].sig]]
Return(t) == call' = [call EXCEPT ![t] = NoCall]

\* The branch of listenerNegotiator.handleSignal for a kind of signal.
\* (Faulty variant: everything but an offer is a candidate.)
BranchWithoutErrors(sig) == IF sig = "offer" THEN "refuse" ELSE "candidate"
Branch(sig) ==
    IF sig = "offer" THEN "refuse"
    ELSE IF sig = "error" THEN "error" ELSE "candidate"

\* handleSignal up to its first lock: a closed owner and a duplicate offer
\* are refused.
HandleSignal(t) ==
    LET n == call[t].neg
        branch == Branch(call[t].sig)
    IN  /\ call[t].at = "handle"
        /\ IF Closed(n) \/ branch = "refuse"
             THEN Return(t)
             ELSE CallAt(t, branch)
        /\ UNCHANGED <<shutdown, registry, ownership, offering, transport,
                       history>>

\* A remote error, under n.mu: it cancels the Conn if there is one, and the
\* owner otherwise.
HandleError(t) ==
    LET n == call[t].neg
    IN  /\ call[t].at = "error"
        /\ remoteCanceled' = [remoteCanceled EXCEPT ![n] = TRUE]
        /\ CallAt(t, IF published[n] THEN "connError" ELSE "closeOwner")
        /\ UNCHANGED <<shutdown, registry, once, finished, deferred,
                       published, offering, transport, history>>

\* The remote error returns true once n.close has.
OwnerClosed(t) ==
    LET n == call[t].neg
    IN  /\ call[t].at = "closeOwner"
        /\ once[n] = "done"
        /\ Return(t)
        /\ peerCanceled' = [peerCanceled EXCEPT ![n] = TRUE]
        /\ UNCHANGED <<shutdown, registry, ownership, offering, transport,
                       accepted, promised>>

\* Conn.handleSignal with an error: false for a Conn already done; otherwise
\* cancel the context, and leave the rest of the closure to a goroutine.
ConnError(t) ==
    LET n == call[t].neg
        ok == ~ConnDone(n)
    IN  /\ call[t].at = "connError"
        /\ Return(t)
        /\ \/ /\ ok
              /\ conn' = [conn EXCEPT ![n] = "canceled"]
              /\ peerCanceled' = [peerCanceled EXCEPT ![n] = TRUE]
           \/ ~ok /\ UNCHANGED <<conn, peerCanceled>>
        /\ UNCHANGED <<shutdown, registry, ownership, offering, candidate,
                       trickle, accepted, promised>>

\* The owner takes a candidate: the check of n.closed repeated under n.mu.
\* (Faulty variant: the check before the lock is trusted.)
TakesCandidateUnchecked(n) == TRUE
TakesCandidate(n) == ~Closed(n)

\* A remote candidate, under n.mu: refused by a closed owner, handed to a
\* published Conn, deferred while there is room.
HandleCandidate(t) ==
    LET n == call[t].neg
        full == Len(deferred[n]) >= MaxPending
        takes == TakesCandidate(n)
    IN  /\ call[t].at = "candidate"
        /\ \/ /\ takes /\ published[n]
              /\ CallAt(t, "connCandidate")
              /\ UNCHANGED <<deferred, promised>>
           \/ /\ takes /\ ~published[n] /\ ~full
              /\ Return(t)
              /\ deferred' =
                   [deferred EXCEPT ![n] = Append(@, call[t].sig)]
              /\ promised' =
                   [promised EXCEPT ![n] = @ \/ call[t].sig = "candidate"]
           \/ /\ ~takes \/ (~published[n] /\ full)
              /\ Return(t)
              /\ UNCHANGED <<deferred, promised>>
        /\ UNCHANGED <<shutdown, registry, once, finished, remoteCanceled,
                       published, offering, transport, accepted,
                       peerCanceled>>

\* Conn.handleSignal with a candidate; the first one that parses closes
\* conn.candidateReceived.
ConnCandidate(t) ==
    LET n == call[t].neg
        ok == ~ConnDone(n) /\ call[t].sig = "candidate"
    IN  /\ call[t].at = "connCandidate"
        /\ Return(t)
        /\ candidate' = [candidate EXCEPT ![n] = @ \/ ok]
        /\ promised' = [promised EXCEPT ![n] = @ \/ ok]
        /\ UNCHANGED <<shutdown, registry, ownership, offering, conn,
                       trickle, accepted, peerCanceled>>

CallStep(t) ==
    \/ HandleSignal(t) \/ HandleError(t) \/ OwnerClosed(t) \/ ConnError(t)
    \/ HandleCandidate(t) \/ ConnCandidate(t)

-----------------------------------------------------------------------------
(* negotiate: handleOffer, then the deferred finish.                       *)

At(n, l) == pc' = [pc EXCEPT ![n] = l]

\* A failing handleOffer closes the Conn it created, if any, then returns to
\* negotiate; either way its context is canceled.
Unwind(n) ==
    /\ At(n, IF conn[n] = "none" THEN "closeSelf" ELSE "closeConn")
    /\ ctx' = [ctx EXCEPT ![n] = "canceled"]

\* A stage succeeds.  parse is followed by the creation of the context,
\* newConn creates the Conn, inline may add a first remote candidate, and
\* trickle starts the goroutine that signals local ones.
StagePass(n) ==
    /\ pc[n] \in Stages
    /\ At(n, NextStage[pc[n]])
    /\ conn' = [conn EXCEPT ![n] = IF pc[n] = "newConn" THEN "open" ELSE @]
    /\ \E inline \in (IF pc[n] = "inline" THEN BOOLEAN ELSE {FALSE}) :
          candidate' = [candidate EXCEPT ![n] = @ \/ inline]
    /\ trickle' =
         [trickle EXCEPT ![n] = IF pc[n] = "trickle" THEN "sending" ELSE @]
    /\ UNCHANGED <<shutdown, registry, ownership, ctx, code, backlog, call,
                   history>>

\* A stage fails with a code of its own.
StageFail(n) ==
    /\ pc[n] \in Stages
    /\ code' = [code EXCEPT ![n] = "stage"]
    /\ Unwind(n)
    /\ UNCHANGED <<shutdown, registry, ownership, backlog, transport, call,
                   history>>

\* The Conn may be published: the owner is open, and no remote error has
\* claimed it without having closed it yet.  (Faulty variant: the latter is
\* not looked at.)
MayPublishUnclosed(n) == ~Closed(n)
MayPublish(n) == ~Closed(n) /\ ~remoteCanceled[n]

\* What handleOffer has to replay.  (Faulty variant: nothing.)
NothingToReplay(n) == <<>>
ToReplay(n) == deferred[n]

\* Publication of the Conn under n.mu.
Publish(n) ==
    /\ pc[n] = "publish"
    /\ \/ /\ MayPublish(n)
          /\ published' = [published EXCEPT ![n] = TRUE]
          /\ backlog' = [backlog EXCEPT ![n] = ToReplay(n)]
          /\ deferred' = [deferred EXCEPT ![n] = <<>>]
          /\ At(n, "replay")
          /\ UNCHANGED ctx
       \/ /\ ~MayPublish(n)
          /\ Unwind(n)
          /\ UNCHANGED <<published, backlog, deferred>>
    /\ UNCHANGED <<shutdown, registry, once, finished, remoteCanceled, code,
                   transport, call, history>>

\* One deferred candidate goes through handleSignal, its result ignored.
Replay(n) ==
    /\ pc[n] = "replay"
    /\ backlog[n] # <<>>
    /\ backlog' = [backlog EXCEPT ![n] = Tail(@)]
    /\ candidate' =
         [candidate EXCEPT ![n] =
            @ \/ (/\ Head(backlog[n]) = "candidate"
                  /\ ~Closed(n) /\ ~ConnDone(n))]
    /\ UNCHANGED <<shutdown, registry, ownership, pc, ctx, code, conn,
                   trickle, call, history>>

\* finaliseConn begins with the context of ConnContext.
Finalise(n) ==
    /\ pc[n] = "replay"
    /\ backlog[n] = <<>>
    /\ At(n, "await")
    /\ ctx' = [ctx EXCEPT ![n] = "live"]
    /\ UNCHANGED <<shutdown, registry, ownership, code, backlog, transport,
                   call, history>>

\* finaliseConn starts the transports after the first remote candidate,
CandidateReceived(n) ==
    /\ pc[n] = "await"
    /\ candidate[n]
    /\ At(n, "start")
    /\ UNCHANGED <<shutdown, registry, ownership, ctx, code, backlog,
                   transport, call, history>>

\* which cannot succeed on transports that conn.close has stopped,
TransportsStarted(n) ==
    /\ pc[n] = "start"
    /\ conn[n] \in {"open", "canceled", "closing"}
    /\ At(n, "channels")
    /\ UNCHANGED <<shutdown, registry, ownership, ctx, code, backlog,
                   transport, call, history>>

\* waits for the remote peer to open both data channels,
ChannelsReady(n) ==
    /\ pc[n] = "channels"
    /\ At(n, "deliver")
    /\ UNCHANGED <<shutdown, registry, ownership, ctx, code, backlog,
                   transport, call, history>>

\* and hands the Conn to an Accept over l.incoming.
Accept(n) ==
    /\ pc[n] = "deliver"
    /\ At(n, "finish")
    /\ accepted' = [accepted EXCEPT ![n] = TRUE]
    /\ ctx' = [ctx EXCEPT ![n] = "canceled"]
    /\ UNCHANGED <<shutdown, registry, ownership, code, backlog, transport,
                   call, peerCanceled, promised>>

\* finaliseConn fails: one of the events it selects on, or a transport that
\* does not start.  Only a deadline that has passed carries a code.
FinaliseFail(n) ==
    /\ pc[n] \in Finalising
    /\ pc[n] = "start" \/ CtxDone(n) \/ ConnDone(n) \/ Closed(n)
    /\ code' = [code EXCEPT ![n] =
                  IF ctx[n] = "expired" THEN "timeout" ELSE NoCode]
    /\ Unwind(n)
    /\ UNCHANGED <<shutdown, registry, ownership, backlog, transport, call,
                   history>>

\* conn.close has returned, in this goroutine or in the one that has begun it.
\* (Faulty variant: it returns at once to the second caller.)
ConnCloseBegun(n) == conn[n] \in {"closing", "stopping", "closed"}
ConnCloseReturns(n) == conn[n] = "closed"

\* The deferred c.Close of a failing handleOffer: begin conn.close, or wait
\* for the goroutine that has begun it.
CloseConn(n) ==
    /\ pc[n] = "closeConn"
    /\ \/ /\ conn[n] \in {"open", "canceled"}
          /\ conn' = [conn EXCEPT ![n] = "closing"]
          /\ UNCHANGED pc
       \/ /\ ConnCloseReturns(n)
          /\ At(n, "closeSelf")
          /\ UNCHANGED conn
    /\ UNCHANGED <<shutdown, registry, ownership, ctx, code, backlog,
                   candidate, trickle, call, history>>

\* negotiate waits for n.close, which it calls whatever the error is.
CloseSelf(n) ==
    /\ pc[n] = "closeSelf"
    /\ once[n] = "done"
    /\ At(n, "report")
    /\ UNCHANGED <<shutdown, registry, ownership, ctx, code, backlog,
                   transport, call, history>>

\* reportError replies to a failure that has a code, unless the remote peer
\* has canceled.
Report(n) ==
    /\ pc[n] = "report"
    /\ At(n, IF remoteCanceled[n] \/ code[n] = NoCode
               THEN "finish" ELSE "reply")
    /\ UNCHANGED <<shutdown, registry, ownership, ctx, code, backlog,
                   transport, call, history>>

\* The Signal call that carries the reply returns.
Replied(n) ==
    /\ pc[n] = "reply"
    /\ At(n, "finish")
    /\ UNCHANGED <<shutdown, registry, ownership, ctx, code, backlog,
                   transport, call, history>>

\* finish removes the owner if it is closed.  (Faulty variants: it leaves that
\* to close; it removes an open one too.)
LeavesToClose(n) == "release"
AlwaysUnregister(n) == "unregister"
AfterFinish(n) == IF Closed(n) THEN "unregister" ELSE "release"

\* finish, under n.mu: whoever comes second of finish and close removes the
\* owner.  The error of handleOffer is no longer in use.
Finish(n) ==
    /\ pc[n] = "finish"
    /\ finished' = [finished EXCEPT ![n] = TRUE]
    /\ At(n, AfterFinish(n))
    /\ code' = [code EXCEPT ![n] = NoCode]
    /\ UNCHANGED <<shutdown, registry, once, remoteCanceled, deferred,
                   published, ctx, backlog, transport, call, history>>

\* The map without n, left alone when another owner holds its key.  (Faulty
\* variant: whoever holds it is removed.)
UnregisteredKey(n) == [owner EXCEPT ![key[n]] = NoNeg]
Unregistered(n) ==
    IF owner[key[n]] = n THEN [owner EXCEPT ![key[n]] = NoNeg] ELSE owner

Unregister(n) ==
    /\ pc[n] = "unregister"
    /\ owner' = Unregistered(n)
    /\ At(n, "release")
    /\ UNCHANGED <<shutdown, sem, key, ownership, ctx, code, backlog,
                   transport, call, history>>

\* <-n.sem  (Faulty variant: the slot is not given back.)
ReleaseForgotten(n) ==
    /\ pc[n] = "release"
    /\ At(n, "done")
    /\ UNCHANGED <<shutdown, owner, sem, key, ownership, ctx, code, backlog,
                   transport, call, history>>

Release(n) ==
    /\ pc[n] = "release"
    /\ sem' = sem \ {n}
    /\ At(n, "done")
    /\ UNCHANGED <<shutdown, owner, key, ownership, ctx, code, backlog,
                   transport, call, history>>

Negotiate(n) ==
    \/ StagePass(n) \/ StageFail(n) \/ Publish(n) \/ Replay(n) \/ Finalise(n)
    \/ CandidateReceived(n) \/ TransportsStarted(n) \/ ChannelsReady(n)
    \/ Accept(n) \/ FinaliseFail(n) \/ CloseConn(n) \/ CloseSelf(n)
    \/ Report(n) \/ Replied(n) \/ Finish(n) \/ Unregister(n) \/ Release(n)

-----------------------------------------------------------------------------
(* Contexts: a deadline passes, or the closure of the owner reaches a       *)
(* context derived from n.Context().                                        *)

\* (Faulty variant: no deadline for the transports and for Accept.)
HasOfferContext(n) == pc[n] \in (Stages \ {"parse"})
HasContext(n) == pc[n] \in (Handling \ {"parse", "closeConn"})

Expire(n) ==
    /\ HasContext(n)
    /\ ~CtxDone(n)
    /\ ctx' = [ctx EXCEPT ![n] = "expired"]
    /\ UNCHANGED <<shutdown, registry, ownership, pc, code, backlog,
                   transport, call, history>>

CancelContext(n) ==
    /\ HasContext(n)
    /\ ~CtxDone(n)
    /\ Closed(n)
    /\ ctx' = [ctx EXCEPT ![n] = "canceled"]
    /\ UNCHANGED <<shutdown, registry, ownership, pc, code, backlog,
                   transport, call, history>>

-----------------------------------------------------------------------------
(* n.close: its body runs once, in the first of the goroutines that call    *)
(* it; the others wait until it is done.                                    *)

CallsClose(n) ==
    \/ pc[n] = "closeSelf"
    \/ conn[n] = "closing"
    \/ lstAt = n
    \/ \E t \in Caller : call[t].at = "closeOwner" /\ call[t].neg = n

\* close(n.closed)
OwnerClose(n) ==
    /\ once[n] = "open"
    /\ CallsClose(n)
    /\ once' = [once EXCEPT ![n] = "closed"]
    /\ UNCHANGED <<shutdown, registry, finished, remoteCanceled, deferred,
                   published, offering, transport, call, history>>

\* close removes the owner if its offer is finished.  (Faulty variant: at
\* once, whatever reply is still under way.)
ForgetAtOnce(n) == "unregister"
AfterClear(n) == IF finished[n] THEN "unregister" ELSE "done"

\* Under n.mu: drop the deferred signals and read finished.  (Faulty variant:
\* wait until the offer is finished.)
OwnerClearWhenFinished(n) ==
    /\ once[n] = "closed"
    /\ finished[n]
    /\ deferred' = [deferred EXCEPT ![n] = <<>>]
    /\ once' = [once EXCEPT ![n] = "unregister"]
    /\ UNCHANGED <<shutdown, registry, finished, remoteCanceled, published,
                   offering, transport, call, history>>
OwnerClear(n) ==
    /\ once[n] = "closed"
    /\ deferred' = [deferred EXCEPT ![n] = <<>>]
    /\ once' = [once EXCEPT ![n] = AfterClear(n)]
    /\ UNCHANGED <<shutdown, registry, finished, remoteCanceled, published,
                   offering, transport, call, history>>

OwnerUnregister(n) ==
    /\ once[n] = "unregister"
    /\ owner' = Unregistered(n)
    /\ once' = [once EXCEPT ![n] = "done"]
    /\ UNCHANGED <<shutdown, sem, key, finished, remoteCanceled, deferred,
                   published, offering, transport, call, history>>

OwnerCloseStep(n) == OwnerClose(n) \/ OwnerClear(n) \/ OwnerUnregister(n)

-----------------------------------------------------------------------------
(* conn.close: cancel the context, handleClose (which calls n.close), close *)
(* the data channels, stop the transports.                                  *)

SetConn(n, c) ==
    /\ conn' = [conn EXCEPT ![n] = c]
    /\ UNCHANGED <<shutdown, registry, ownership, offering, candidate,
                   trickle, call, history>>

\* A transport fails, a data channel is refused or closed, the application
\* closes a Conn it has from ConnContext or Accept.
ConnFail(n) ==
    /\ conn[n] = "open"
    /\ published[n]
    /\ pc[n] # "replay"
    /\ SetConn(n, "closing")

\* The goroutine that handleSignal starts after canceling the context.
\* (Faulty variant: it is not started.)
ConnCloseForgotten(n) == FALSE
ConnClose(n) == conn[n] = "canceled" /\ SetConn(n, "closing")
ConnOwnerClosed(n) ==
    conn[n] = "closing" /\ once[n] = "done" /\ SetConn(n, "stopping")
ConnStopped(n) == conn[n] = "stopping" /\ SetConn(n, "closed")

ConnCloseStep(n) == ConnClose(n) \/ ConnOwnerClosed(n) \/ ConnStopped(n)

-----------------------------------------------------------------------------
(* trickleCandidate: signal a local candidate; when that fails, signal an   *)
(* error, then close the Conn.                                              *)

TrickleSend(n) ==
    /\ trickle[n] = "sending"
    /\ \E t \in {"none", "failing"} : trickle' = [trickle EXCEPT ![n] = t]
    /\ UNCHANGED <<shutdown, registry, ownership, offering, conn, candidate,
                   call, history>>

TrickleFailed(n) ==
    /\ trickle[n] = "failing"
    /\ trickle' = [trickle EXCEPT ![n] = "none"]
    /\ conn' = [conn EXCEPT ![n] =
                  IF @ \in {"open", "canceled"} THEN "closing" ELSE @]
    /\ UNCHANGED <<shutdown, registry, ownership, offering, candidate, call,
                   history>>

TrickleStep(n) == TrickleSend(n) \/ TrickleFailed(n)

-----------------------------------------------------------------------------
(* Shutdown of the Listener.                                                *)

SignalingDone ==
    /\ Notifies
    /\ signalingUp' = FALSE
    /\ UNCHANGED <<lst, lstAt, toClose, registry, ownership, offering,
                   transport, call, history>>

\* Close, called by the application or by monitorSignaling: under
\* negotiationsMu it closes l.closed and copies the owners.
Close ==
    /\ lst = "open"
    /\ lst' = "closing"
    /\ toClose' = {owner[k] : k \in Key} \ {NoNeg}
    /\ UNCHANGED <<lstAt, signalingUp, registry, ownership, offering,
                   transport, call, history>>

\* Outside the lock it calls n.close for one owner after the other.
CloseNext ==
    /\ lst = "closing"
    /\ lstAt # NoNeg => once[lstAt] = "done"
    /\ \/ \E n \in toClose :
            /\ lstAt' = n
            /\ toClose' = toClose \ {n}
            /\ UNCHANGED lst
       \/ /\ toClose = {}
          /\ lstAt' = NoNeg
          /\ lst' = "closed"
          /\ UNCHANGED toClose
    /\ UNCHANGED <<signalingUp, registry, ownership, offering, transport,
                   call, history>>

-----------------------------------------------------------------------------
Next ==
    \/ \E k \in Key : Admit(k)
    \/ \E t \in Caller, k \in Key, sig \in Incoming : Route(t, k, sig)
    \/ \E t \in Caller : CallStep(t)
    \/ \E n \in Neg :
        \/ Negotiate(n) \/ Expire(n) \/ CancelContext(n) \/ OwnerCloseStep(n)
        \/ ConnFail(n) \/ ConnCloseStep(n) \/ TrickleStep(n)
    \/ SignalingDone \/ Close \/ CloseNext

Spec == Init /\ [][Next]_vars

\* The steps negotiate does take.  A function it hands a context to returns
\* once that context is done, and a reply within SignalErrorTimeout; nothing
\* obliges the remote peer to open its channels, or the application to Accept.
Prompt(n) ==
    /\ Negotiate(n)
    /\ pc[n] \in BlockingStages \cup {"start"} => CtxDone(n)
    /\ pc[n] \in {"channels", "deliver"} =>
            CtxDone(n) \/ ConnDone(n) \/ Closed(n)

Fairness ==
    /\ \A n \in Neg :
        /\ WF_vars(Prompt(n))
        /\ WF_vars(Expire(n)) /\ WF_vars(CancelContext(n))
        /\ WF_vars(OwnerCloseStep(n)) /\ WF_vars(ConnCloseStep(n))
        /\ WF_vars(TrickleStep(n))
    /\ \A t \in Caller : WF_vars(CallStep(t))
    /\ WF_vars(Close /\ ~signalingUp) /\ WF_vars(CloseNext)

FairSpec == Spec /\ Fairness

-----------------------------------------------------------------------------
(* Safety *)

\* The key of an offer stays with its owner until negotiate has finished, its
\* failure reply included, and an open connection keeps it beyond that for
\* later signals (finish and close, which race to unregister).
KeyReserved ==
    \A n \in Neg :
        \/ pc[n] \in Unfinished
        \/ pc[n] \in {"release", "done"} /\ once[n] = "open"
        => owner[key[n]] = n

\* No closed owner outlives its negotiation in the map, whichever of finish
\* and close comes second: the map does not leak.
ClosedOwnerRemoved ==
    \A n \in Neg :
        pc[n] \in {"release", "done"} /\ once[n] = "done"
        => owner[key[n]] # n

\* At most MaxNegotiations goroutines run negotiate, a slow failure reply
\* included (the slot is released after it).
AdmissionBound ==
    Cardinality({n \in Neg : pc[n] \in Running}) <= MaxNegotiations

\* NotifySignal returned true for a remote error: no Conn of that negotiation
\* is in use from then on, even when the error raced its publication.
PeerErrorEndsConn ==
    \A n \in Neg :
        peerCanceled[n] /\ (published[n] \/ accepted[n]) => ConnDone(n)

\* NotifySignal returned true for a candidate: a negotiation that is still
\* going on when it waits for the remote peer has that candidate, whether it
\* arrived before, during or after the publication of the Conn.
CandidateKept ==
    \A n \in Neg :
        /\ promised[n] /\ pc[n] \in Finalising
        /\ ~Closed(n) /\ ~ConnDone(n)
        => candidate[n]

\* Nothing is deferred for a goroutine that will not replay it: neither after
\* publication nor after n.close has dropped the deferred signals.
NothingStranded ==
    \A n \in Neg :
        /\ Len(deferred[n]) <= MaxPending
        /\ published[n] \/ once[n] \in {"unregister", "done"}
           => deferred[n] = <<>>

\* A failed offer has released its transports before negotiate replies and
\* gives up its slot, whoever closed the Conn.
FailedConnReleased ==
    \A n \in Neg :
        /\ pc[n] \in {"closeSelf", "report", "reply"}
             \cup {"finish", "unregister", "release", "done"}
        /\ ~accepted[n]
        => conn[n] \in {"none", "closed"}

\* Listener.Close has returned: every owner ever admitted is closed, the one
\* admitted while Close began included.
ShutdownComplete ==
    lst = "closed" => \A n \in Neg : pc[n] # "idle" => Closed(n)

\* What the comment on ListenConfig.NegotiationContext says: a negotiation
\* that exceeds the deadline of that context is reported to the remote peer
\* with ErrorCodeNegotiationTimeoutWaitingForAccept.  handleOffer gives the
\* failure the code of the stage that was waiting.
NegotiationTimeoutSignaled ==
    [][\A n \in Neg :
         pc[n] \in Stages /\ ctx[n] = "expired" /\ code'[n] # code[n]
         => code'[n] = "timeout"]_vars

-----------------------------------------------------------------------------
(* Liveness, under FairSpec *)

\* Every admitted offer gives its slot back, and its key as well once its owner
\* is closed, before its negotiation ends or after.
Released ==
    \A n \in Neg :
        pc[n] \in Running \/ Closed(n)
        ~> pc[n] = "done" /\ n \notin sem /\ (Closed(n) => owner[key[n]] # n)

\* No call of NotifySignal blocks for ever, on n.once in particular.
CallReturns == \A t \in Caller : call[t].at # "idle" ~> call[t].at = "idle"

\* A closure that has begun ends: Listener.Close once the signaling is down, and
\* conn.close once the context of the Conn is done. Each waits for n.close.
ClosureEnds ==
    /\ ~signalingUp ~> lst = "closed"
    /\ \A n \in Neg : ConnDone(n) ~> conn[n] = "closed"

-----------------------------------------------------------------------------
(* The promise kept: each session is a negotiator. *)

StageOf(n) ==
    IF accepted[n] THEN "established"
    ELSE IF pc[n] = "idle" THEN "new"
    ELSE IF pc[n] = "reply" THEN "replying"
    ELSE IF pc[n] \in Unfinished \ {"finish"} THEN "negotiating"
    ELSE "failed"

Session == INSTANCE OfferSession WITH
    Session <- Neg, NoSession <- NoNeg,
    holder <- owner, slots <- sem, stage <- [n \in Neg |-> StageOf(n)]

ImplementsSession == Session!Spec
=============================================================================
