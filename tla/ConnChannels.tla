---------------------------- MODULE ConnChannels ----------------------------
(***************************************************************************)
(* The data channels of a Conn: how a Dialer creates them and a Listener    *)
(* accepts them while the transports start, and how conn.close, started by  *)
(* whatever fails meanwhile, closes them.                                   *)
(***************************************************************************)
EXTENDS Naturals, FiniteSets

CONSTANTS
    Channel,      \* MessageReliability
    Invalid,      \* a channel that is Valid for none of them
    Roles,        \* whose Conn it may be, of {"Dialer", "Listener"}
    MaxOpenings,  \* how many channels the peer opens (a bound)
    MaxFires      \* how often OnOpen calls back for one of them (a bound)

ASSUME ChannelsAssumption ==
    /\ IsFiniteSet(Channel)
    /\ Invalid \notin Channel
    /\ Roles \subseteq {"Dialer", "Listener"}
    /\ MaxOpenings \in Nat
    /\ MaxFires \in Nat

VARIABLES
    role,      \* DialContext or handleOffer
    opener,    \* where startTransports and its caller are
    creating,  \* the channel startTransports of the Dialer creates
    sctp,      \* the SCTP transport
    callback,  \* whether OnDataChannel runs, with a lock of the transport held
    label,     \* the channel it runs for
    openings,  \* how many channels the peer has opened
    fires,     \* how often OnOpen has called back
    opened,    \* opened
    stored,    \* conn.channels
    ctx,       \* conn.ctx
    asked,     \* a goroutine that calls conn.close has been started
    close,     \* the progress of conn.close
    snapshot,  \* the channels it has still to close
    shut,      \* the channels on which Close was called
    exposed    \* history: the application got the Conn with its context live

negotiation == <<opener, creating>>
peer == <<callback, label, openings>>
counting == <<fires, opened>>
closing == <<close, snapshot, shut>>
vars == <<role, negotiation, sctp, peer, counting, stored, ctx, asked,
          closing, exposed>>

Dialing == role = "Dialer"

TypeOK ==
    /\ role \in Roles
    /\ opener \in {"start", "create", "store", "wait", "ready", "returned",
                   "failed"}
    /\ creating \in Channel \cup {Invalid}
    /\ sctp \in {"new", "up", "stopped"}
    /\ callback \in {"idle", "handler"}
    /\ label \in Channel \cup {Invalid}
    /\ openings \in 0 .. MaxOpenings
    /\ fires \in [Channel -> 0 .. MaxFires]
    /\ opened \in 0 .. Cardinality(Channel)
    /\ stored \subseteq Channel
    /\ ctx \in {"live", "done"}
    /\ asked \in BOOLEAN
    /\ close \in {"open", "canceled", "channels", "closed"}
    /\ snapshot \subseteq Channel
    /\ shut \subseteq Channel
    /\ exposed \in BOOLEAN

Init ==
    /\ role \in Roles
    /\ opener = "start" /\ creating = Invalid
    /\ sctp = "new"
    /\ callback = "idle" /\ label = Invalid /\ openings = 0
    /\ fires = [r \in Channel |-> 0] /\ opened = 0
    /\ stored = {}
    /\ ctx = "live" /\ asked = FALSE
    /\ close = "open" /\ snapshot = {} /\ shut = {}
    /\ exposed = FALSE

-----------------------------------------------------------------------------
(* startTransports, of the Dialer and of the Listener *)

\* ICE, DTLS and SCTP start, unless they fail, are stopped or run out of time.
Start ==
    /\ opener = "start"
    /\ sctp = "new"
    /\ sctp' = "up"
    /\ opener' = IF Dialing THEN "create" ELSE "wait"
    /\ UNCHANGED <<role, creating, peer, counting, stored, ctx, asked, closing,
                   exposed>>

\* Whatever fails, a deadline included, the caller closes the Conn.  What has
\* started all channels of a Dialer cannot fail any more.
Fail ==
    /\ opener \in {"start", "create", "wait"} \/ (opener = "ready" /\ ~Dialing)
    /\ opener' = "failed"
    /\ asked' = TRUE
    /\ UNCHANGED <<role, creating, sctp, peer, counting, stored, ctx, closing,
                   exposed>>

\* NewDataChannel, which needs the transport.
Create(r) ==
    /\ opener = "create"
    /\ r \notin stored
    /\ sctp = "up"
    /\ creating' = r
    /\ opener' = "store"
    /\ UNCHANGED <<role, sctp, peer, counting, stored, ctx, asked, closing,
                   exposed>>

\* Whether these are the channels of every MessageReliability.  (Faulty variant:
\* one is missing.)
CompleteEarly(s) == Cardinality(s) + 1 >= Cardinality(Channel)
Complete(s) == s = Channel

\* storeChannel.
Store ==
    /\ opener = "store"
    /\ stored' = stored \cup {creating}
    /\ opener' = IF Complete(stored') THEN "ready" ELSE "create"
    /\ UNCHANGED <<role, creating, sctp, peer, counting, ctx, asked, closing,
                   exposed>>

\* waitForChannelsReady.
ChannelsReady ==
    /\ opener = "wait"
    /\ opened = Cardinality(Channel)
    /\ opener' = "ready"
    /\ UNCHANGED <<role, creating, sctp, peer, counting, stored, ctx, asked,
                   closing, exposed>>

\* DialContext returns the Conn, or Accept does.
Return ==
    /\ opener = "ready"
    /\ opener' = "returned"
    /\ exposed' = (ctx = "live")
    /\ UNCHANGED <<role, creating, sctp, peer, counting, stored, ctx, asked,
                   closing>>

-----------------------------------------------------------------------------
(* sctp.OnDataChannel and channel.OnOpen *)

Announce ==
    /\ sctp = "up"
    /\ callback = "idle"
    /\ openings < MaxOpenings
    /\ \E l \in Channel \cup {Invalid} : label' = l
    /\ callback' = "handler"
    /\ openings' = openings + 1
    /\ UNCHANGED <<role, negotiation, sctp, counting, stored, ctx, asked,
                   closing, exposed>>

\* Whether the callback is over once it has run.  (Faulty variant: it calls
\* conn.close itself, not in a goroutine.)
CallbackCloses(rejects) == IF rejects THEN "handler" ELSE "idle"
CallbackOver(rejects) == "idle"

\* A Dialer accepts no channel; a Listener one of each reliability.
OnDataChannel ==
    /\ callback = "handler"
    /\ LET rejects == Dialing \/ label \notin Channel \/ label \in stored
       IN  /\ asked' = (asked \/ rejects)
           /\ stored' = IF rejects THEN stored ELSE stored \cup {label}
           /\ callback' = CallbackOver(rejects)
    /\ UNCHANGED <<role, negotiation, sctp, label, openings, counting, ctx,
                   closing, exposed>>

\* What a call of OnOpen's function counts, after this many others.  (Faulty
\* variant: without sync.OnceFunc.)
CountsAlways(n) == 1
CountsOnce(n) == IF n = 0 THEN 1 ELSE 0

OnOpen(r) ==
    /\ ~Dialing
    /\ r \in stored
    /\ fires[r] < MaxFires
    /\ fires' = [fires EXCEPT ![r] = @ + 1]
    /\ opened' = opened + CountsOnce(fires[r])
    /\ UNCHANGED <<role, negotiation, sctp, peer, stored, ctx, asked, closing,
                   exposed>>

-----------------------------------------------------------------------------
(* conn.close *)

\* A transport fails, the application closes the Conn it has got.
Ask ==
    /\ ~asked
    /\ sctp = "up" \/ opener = "returned"
    /\ asked' = TRUE
    /\ UNCHANGED <<role, negotiation, sctp, peer, counting, stored, ctx,
                   closing, exposed>>

\* The peer reports an error: handleSignal cancels the context by itself.
PeerError ==
    /\ ctx = "live"
    /\ ctx' = "done"
    /\ asked' = TRUE
    /\ UNCHANGED <<role, negotiation, sctp, peer, counting, stored, closing,
                   exposed>>

\* The context first, and what the negotiator keeps.  (Faulty variant: the
\* context is not canceled.)
CloseUncanceled ==
    /\ asked
    /\ close = "open"
    /\ close' = "canceled"
    /\ UNCHANGED <<role, negotiation, sctp, peer, counting, stored, ctx, asked,
                   snapshot, shut, exposed>>
CloseBegin ==
    /\ asked
    /\ close = "open"
    /\ ctx' = "done"
    /\ close' = "canceled"
    /\ UNCHANGED <<role, negotiation, sctp, peer, counting, stored, asked,
                   snapshot, shut, exposed>>

CloseSnapshot ==
    /\ close = "canceled"
    /\ snapshot' = stored
    /\ close' = "channels"
    /\ UNCHANGED <<role, negotiation, sctp, peer, counting, stored, ctx, asked,
                   shut, exposed>>

CloseChannel(r) ==
    /\ close = "channels"
    /\ r \in snapshot
    /\ shut' = shut \cup {r}
    /\ snapshot' = snapshot \ {r}
    /\ UNCHANGED <<role, negotiation, sctp, peer, counting, stored, ctx, asked,
                   close, exposed>>

\* Stopping the transport takes the lock a callback runs under.
CloseStop ==
    /\ close = "channels"
    /\ snapshot = {}
    /\ callback = "idle"
    /\ sctp' = "stopped"
    /\ close' = "closed"
    /\ UNCHANGED <<role, negotiation, peer, counting, stored, ctx, asked,
                   snapshot, shut, exposed>>

-----------------------------------------------------------------------------
CloseStep ==
    CloseBegin \/ CloseSnapshot \/ (\E r \in Channel : CloseChannel(r))
    \/ CloseStop

Next ==
    \/ Start \/ Fail \/ Store \/ ChannelsReady \/ Return
    \/ Announce \/ OnDataChannel
    \/ \E r \in Channel : Create(r) \/ OnOpen(r)
    \/ Ask \/ PeerError
    \/ CloseStep

Spec == Init /\ [][Next]_vars

\* The callback's goroutine and the one that closes run.
FairSpec == Spec /\ WF_vars(OnDataChannel) /\ WF_vars(CloseStep)

-----------------------------------------------------------------------------
\* An application that has a Conn has its data channels: Send and Receive do
\* not look whether there is one (conn.go, Conn.Send).
ReadyHasChannels == opener \in {"ready", "returned"} => stored = Channel

\* conn.close closes the data channels of every Conn that an application got
\* before it was closed, so that nobody waits on them.
ExposedClosed == exposed /\ close = "closed" => shut = Channel

\* conn.close ends although it may be started from a callback that holds a
\* lock which the transport's Stop takes.
CloseEnds == asked ~> close = "closed"

\* What the comment on Conn.Close says: it closes the 'ReliableDataChannel' and
\* the 'UnreliableDataChannel', here those that the Conn has.
ClosesChannels == close = "closed" => stored \subseteq shut
=============================================================================
