----------------------------- MODULE Discovery -----------------------------
(***************************************************************************)
(* The Listener of LAN discovery: the goroutine that reads packets, the    *)
(* addresses and worlds it has heard of and when they expire, the Notifiers *)
(* it calls, and its closure.                                              *)
(***************************************************************************)
EXTENDS DiscoveryCodec

CONSTANTS
    NetworkID,        \* of the peers
    Local, Zero,      \* conf.NetworkID, and the ID 0
    Place,            \* UDP addresses
    Notifier,         \* each is registered once
    Caller,           \* goroutines that call Responses
    None,             \* nil, and no time
    AddressLifetime,  \* addressLifetime
    ResponseLifetime, \* responseLifetime
    Stall,            \* how long a goroutine may take from one step to another
    MaxTime           \* when the clock stops (a bound)

ASSUME DiscoveryAssumption ==
    /\ Local # Zero /\ Local \notin NetworkID /\ Zero \notin NetworkID
    /\ None \notin Notifier /\ None \notin Int
    /\ AddressLifetime \in Nat /\ ResponseLifetime \in Nat /\ Stall \in Nat
    /\ ResponseLifetime + 2 * Stall < AddressLifetime
    /\ MaxTime \in Nat

VARIABLES
    now,         \* the clock
    \* the goroutine that runs listen
    pc,          \* where it is
    packet,      \* the packet it handles
    at,          \* when it began to
    silent,      \* history: the notifiers that were stopped by then
    targets,     \* the notifiers it has still to call
    called,      \* the one whose NotifySignal it is in
    want,        \* what that calls in turn
    \* the tables
    addresses,   \* l.addresses
    responses,   \* l.responses
    listing,     \* when each caller has called Responses
    \* the notifiers
    notifyCount, \* l.notifyCount
    notifiers,   \* l.notifiers
    index,       \* the i of each call of Notify
    stopped,     \* those whose stop has returned
    \* closure
    close,       \* the progress of Close
    background   \* the goroutine that runs background

handling == <<packet, at, silent>>
calling == <<targets, called, want>>
tables == <<addresses, responses>>
registry == <<notifyCount, notifiers, index, stopped>>
vars == <<now, pc, handling, calling, tables, listing, registry, close,
          background>>

-----------------------------------------------------------------------------
\* A message may be a signal for this network, or one that calls nobody: for
\* another network, a ping, or one that does not parse.
Kinds == {"request", "response", "signal", "ping"}
Senders == NetworkID \cup {Local, Zero}
Packets == [kind : Kinds, from : Senders, place : Place]
Time == 0 .. MaxTime
Addresses == [place : Place, t : Time]

TypeOK ==
    /\ now \in Time
    /\ pc \in {"read", "address", "handle", "copy", "notify", "close", "ended"}
    /\ packet \in Packets \cup {None}
    /\ at \in (0 .. now) \cup {None}
    /\ targets \subseteq Notifier
    /\ called \in Notifier \cup {None}
    /\ want \in {"nothing", "stop", "notify", "close"}
    /\ DOMAIN addresses \subseteq NetworkID
    /\ \A i \in DOMAIN addresses : addresses[i] \in Addresses
    /\ DOMAIN responses \subseteq NetworkID \cup {Zero}
    /\ \A i \in DOMAIN responses : responses[i] \in Time
    /\ listing \in [Caller -> Time \cup {None}]
    /\ notifyCount \in Nat
    /\ \A i \in DOMAIN notifiers : i \in 0 .. notifyCount - 1
                                   /\ notifiers[i] \in Notifier
    /\ index \in [Notifier -> Nat \cup {None}]
    /\ stopped \subseteq Notifier
    /\ silent \subseteq Notifier
    /\ close \in {"open", "conn", "clear", "closed"}
    /\ background \in {"running", "ended"}

Init ==
    /\ now = 0
    /\ pc = "read" /\ packet = None /\ at = None
    /\ targets = {} /\ called = None /\ want = "nothing"
    /\ addresses = [i \in {} |-> None] /\ responses = [i \in {} |-> None]
    /\ listing = [c \in Caller |-> None]
    /\ notifyCount = 0 /\ notifiers = [i \in {} |-> None]
    /\ index = [n \in Notifier |-> None]
    /\ stopped = {} /\ silent = {}
    /\ close = "open" /\ background = "running"

-----------------------------------------------------------------------------
(* The tables *)

\* deleteInactiveAddressesLocked keeps these.
Active(time) ==
    {i \in DOMAIN addresses : time - addresses[i].t < AddressLifetime}
DeleteInactive(time) == [i \in Active(time) |-> addresses[i]]

\* The entry a packet leaves in the table.  (Faulty variant: the first one.)
FirstEntry(i, entry) ==
    IF i \in DOMAIN addresses THEN addresses[i] ELSE entry
Entry(i, entry) == entry

\* responsesAt keeps these.
Listed(time) ==
    {i \in DOMAIN responses : time - responses[i] <= ResponseLifetime}

-----------------------------------------------------------------------------
(* listen and handlePacket *)

\* A packet this Listener has sent itself is ignored.
Own(p) == p.from = Local

\* Only responses and messages from a non-zero sender locate a peer.
Locates(p) == p.kind # "request" /\ p.from # Zero

ConnOpen == close \in {"open", "conn"}

Read ==
    /\ pc = "read"
    /\ ConnOpen
    /\ packet' \in {p \in Packets : ~Own(p)}
    /\ at' = now
    /\ silent' = stopped
    /\ pc' = IF Locates(packet') THEN "address" ELSE "handle"
    /\ UNCHANGED <<now, calling, tables, listing, registry, close, background>>

\* The next packet is read.
Handled ==
    pc' = "read" /\ packet' = None /\ at' = None /\ silent' = {}

\* With addressesMu locked.
RecordAddress ==
    /\ pc = "address"
    /\ addresses' =
         [i \in Active(at) \cup {packet.from} |->
            IF i = packet.from
              THEN Entry(i, [place |-> packet.place, t |-> at])
              ELSE addresses[i]]
    /\ pc' = "handle"
    /\ UNCHANGED <<now, handling, calling, responses, listing, registry,
                   close, background>>

\* handleResponse
HandleResponse ==
    /\ pc = "handle"
    /\ packet.kind = "response"
    /\ responses' = [i \in DOMAIN responses \cup {packet.from} |->
                       IF i = packet.from THEN now ELSE responses[i]]
    /\ Handled
    /\ UNCHANGED <<now, calling, addresses, listing, registry, close,
                   background>>

\* handleRequest answers with the pong data; handleMessage calls nobody.
HandleOther ==
    /\ pc = "handle"
    /\ packet.kind \in {"request", "ping"}
    /\ Handled
    /\ UNCHANGED <<now, calling, tables, listing, registry, close, background>>

\* handleMessage of a signal: with notifiersMu locked for reading,
HandleSignal ==
    /\ pc = "handle"
    /\ packet.kind = "signal"
    /\ pc' = "copy"
    /\ UNCHANGED <<now, handling, calling, tables, listing, registry, close,
                   background>>

\* l.notifiersMu is locked for reading.  (Faulty variant: during the calls.)
ReadingAndCalling == pc \in {"copy", "notify"}
Reading == pc = "copy"

\* the notifiers are copied,
Copy == {notifiers[i] : i \in DOMAIN notifiers}

CopyNotifiers ==
    /\ pc = "copy"
    /\ targets' = Copy
    /\ pc' = "notify"
    /\ UNCHANGED <<now, handling, called, want, tables, listing, registry,
                   close, background>>

\* and called one after the other.  A call may stop its notifier, register those
\* that are left or close the Listener before it returns.
Call ==
    /\ pc = "notify"
    /\ called = None
    /\ called' \in targets
    /\ targets' = targets \ {called'}
    /\ want' \in {"nothing", "stop", "notify", "close"}
    /\ UNCHANGED <<now, pc, handling, tables, listing, registry, close,
                   background>>

Return ==
    /\ called # None
    /\ want = "stop" => called \in stopped
    /\ want = "notify" => \A n \in Notifier : index[n] # None
    /\ want = "close" => close = "closed"
    /\ called' = None /\ want' = "nothing"
    /\ UNCHANGED <<now, pc, handling, targets, tables, listing, registry,
                   close, background>>

Notified ==
    /\ pc = "notify"
    /\ called = None /\ targets = {}
    /\ Handled
    /\ UNCHANGED <<now, calling, tables, listing, registry, close, background>>

\* ReadFrom fails, at the latest when the conn is closed: listen calls Close.
ReadFails ==
    /\ pc = "read"
    /\ pc' = "close"
    /\ UNCHANGED <<now, handling, calling, tables, listing, registry, close,
                   background>>

ListenEnds ==
    /\ pc = "close"
    /\ close = "closed"
    /\ pc' = "ended"
    /\ UNCHANGED <<now, handling, calling, tables, listing, registry, close,
                   background>>

Listen ==
    \/ Read \/ RecordAddress \/ HandleResponse \/ HandleOther \/ HandleSignal
    \/ CopyNotifiers \/ Call \/ Return \/ Notified \/ ReadFails \/ ListenEnds

-----------------------------------------------------------------------------
(* Calls of the application *)

\* Signal looks up an address and, in doing so, drops what has expired.  (It
\* may have looked at l.closed before Close.)
Signal ==
    /\ addresses' = DeleteInactive(now)
    /\ UNCHANGED <<now, pc, handling, calling, responses, listing, registry,
                   close, background>>

\* Responses reads the clock,
ResponsesStart(c) ==
    /\ listing[c] = None
    /\ listing' = [listing EXCEPT ![c] = now]
    /\ UNCHANGED <<now, pc, handling, calling, tables, registry, close,
                   background>>

\* and with responsesMu locked drops what has expired and returns the rest.
Responses(c) ==
    /\ listing[c] # None
    /\ responses' = [i \in Listed(listing[c]) |-> responses[i]]
    /\ listing' = [listing EXCEPT ![c] = None]
    /\ UNCHANGED <<now, pc, handling, calling, addresses, registry, close,
                   background>>

\* The index of a new notifier.  (Faulty variant: how many there are.)
NotifierCount == Cardinality(DOMAIN notifiers)
NextIndex == notifyCount

Notify(n) ==
    /\ index[n] = None
    /\ ~Reading
    /\ index' = [index EXCEPT ![n] = NextIndex]
    /\ notifiers' = [i \in DOMAIN notifiers \cup {NextIndex} |->
                       IF i = NextIndex THEN n ELSE notifiers[i]]
    /\ notifyCount' = notifyCount + 1
    /\ UNCHANGED <<now, pc, handling, calling, tables, listing, stopped,
                   close, background>>

\* What stop deletes.  (Faulty variant: the counter after Notify.)
IndexAfter(n) == index[n] + 1
IndexOf(n) == index[n]

Stop(n) ==
    /\ index[n] # None
    /\ n \notin stopped
    /\ ~Reading
    /\ notifiers' = [i \in DOMAIN notifiers \ {IndexOf(n)} |-> notifiers[i]]
    /\ stopped' = stopped \cup {n}
    /\ UNCHANGED <<now, pc, handling, calling, tables, listing, notifyCount,
                   index, close, background>>

\* Close closes l.closed,
Close ==
    /\ close = "open"
    /\ close' = "conn"
    /\ UNCHANGED <<now, pc, handling, calling, tables, listing, registry,
                   background>>

\* the conn
CloseConn ==
    /\ close = "conn"
    /\ close' = "clear"
    /\ UNCHANGED <<now, pc, handling, calling, tables, listing, registry,
                   background>>

\* and forgets the notifiers.
CloseClear ==
    /\ close = "clear"
    /\ ~Reading
    /\ notifiers' = [i \in {} |-> None]
    /\ close' = "closed"
    /\ UNCHANGED <<now, pc, handling, calling, tables, listing, notifyCount,
                   index, stopped, background>>

BackgroundEnds ==
    /\ background = "running"
    /\ close # "open"
    /\ background' = "ended"
    /\ UNCHANGED <<now, pc, handling, calling, tables, listing, registry,
                   close>>

\* Time passes, but a goroutine that has read the clock goes on within Stall.
Tick ==
    /\ now < MaxTime
    /\ pc \in {"address", "handle"} => now - at < Stall
    /\ \A c \in Caller : listing[c] # None => now - listing[c] < Stall
    /\ now' = now + 1
    /\ UNCHANGED <<pc, handling, calling, tables, listing, registry, close,
                   background>>

-----------------------------------------------------------------------------
Next ==
    \/ Listen
    \/ Signal
    \/ \E c \in Caller : ResponsesStart(c) \/ Responses(c)
    \/ \E n \in Notifier : Notify(n) \/ Stop(n)
    \/ Close \/ CloseConn \/ CloseClear \/ BackgroundEnds
    \/ Tick

Spec == Init /\ [][Next]_vars

\* What Close has been called for: listen ends, or a notifier calls it.
CloseCalled == pc = "close" \/ (called # None /\ want = "close")

\* Goroutines run, NotifySignal returns, and a read of a closed conn fails.
Fairness ==
    /\ WF_vars(RecordAddress \/ HandleResponse \/ HandleOther \/ HandleSignal
               \/ CopyNotifiers \/ Call \/ Return \/ Notified \/ ListenEnds)
    /\ WF_vars(ReadFails /\ ~ConnOpen)
    /\ \A n \in Notifier : WF_vars(Stop(n) /\ called = n /\ want = "stop")
    /\ \A n \in Notifier :
          WF_vars(Notify(n) /\ called # None /\ want = "notify")
    /\ WF_vars(Close /\ CloseCalled)
    /\ WF_vars(CloseConn \/ CloseClear) /\ WF_vars(BackgroundEnds)

FairSpec == Spec /\ Fairness

-----------------------------------------------------------------------------
(* Properties *)

\* A world that Responses lists can be signaled: its address is recorded
\* before it is listed and outlives its place in the list, although the two
\* tables expire separately.  (Not so the network 0, which has no address.)
ListedReachable ==
    [][\A c \in Caller :
         Responses(c) => DOMAIN responses' \ {Zero} \subseteq Active(now)]_vars

\* Until the Listener forgets them, l.notifiers has the notifiers that were
\* registered and not stopped; afterwards it has no others.
Registered == {n \in Notifier : index[n] # None} \ stopped
NotifiersExact ==
    /\ Copy \subseteq Registered
    /\ close # "closed" => Registered \subseteq Copy

\* A notifier whose stop has returned is not called for a signal that is read
\* later.
StoppedSilent == (targets \cup {called}) \cap silent = {}

\* The packet that listen handles is the one that its sender has written:
\* Unmarshal reads numbers, worlds and lengths as Marshal has put them down.
PacketRead == packet # None => WireKept

\* A call of Close ends, and so do the goroutines of the Listener, although the
\* Notifiers they call may stop themselves, register others and call Close.
CloseEnds ==
    close # "open"
      ~> close = "closed" /\ pc = "ended" /\ background = "ended"
=============================================================================
