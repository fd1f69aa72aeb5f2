# go-nethernet in TLA+

TLA+ models of the Go package `nethernet` (WebRTC connections negotiated over a
signaling channel), of its LAN signaling `discovery` and of its HTTP signaling
`endpoint`; TLC checks them on small instances and TLAPS proves the results that
matter most for every value of the constants.

## The system

| Part | State | Operations | Talks to |
| --- | --- | --- | --- |
| **Listener** (`listener.go`) | `negotiations` (map under `negotiationsMu`), `sem`, `closed`; per offer a `listenerNegotiator`: `deferred`, `conn`, `finished` (under `mu`), `closed`/`once`, `remoteCanceled` | `NotifySignal`, `negotiate`/`handleOffer`/`finaliseConn`, `finish`, `close`, `unregister`, `Accept`, `Close`, `monitorSignaling` | called back by Signaling; owns Conns; sends answers, candidates and errors through Signaling |
| **Conn** (`conn.go`) | context with cause, `once`, `candidates`, `channels` (under `channelsMu`), `readBuf` | `handleSignal`, `Send`, `Receive`, `Read`, `close`, `trickleCandidate` | callbacks of the WebRTC transports; `handleClose` of its negotiator |
| **Data channel** (`message.go`) | the partial message under `messageMu`, `packets`, `close`/`once`, the `write` lock | `handleMessage`, `Send` segments, `Close` | the SCTP transport, readers and writers of the Conn |
| **Dialer** (`dial.go`) | a buffered channel of signals, a context, the Conn | `DialContext`, `startTransports`, `handleConn`, `NotifySignal`, `signalError` | Signaling, the Listener at the other end |
| **Signals** (`signal.go`) | none | `UnmarshalText`, `validate`, `decimalPrefix` | every Signaling |
| **Discovery** (`discovery/`) | `addresses`, `notifiers`, `responses`, the pong data | `Signal`, `Notify`, `listen`, `handlePacket`, `background`, `Close` | UDP broadcast; Notifiers |
| **Endpoint handler** (`endpoint/handler.go`) | `pending` (under `pendingMu`): a channel for one signal per request; `notifier` | `handleOffer`, `negotiate`, `Signal`, `Notify`, `Close` | HTTP clients; the Listener |
| **Endpoint client** (`endpoint/client.go`) | `notifiers` | `Signal`, `Notify`, `notifySignal` | HTTP; the Dialer |
| Identity, credentials, SDP text, status | none that lasts | signatures, conversions | called by the Dialer and the Listener |

What makes this code hard: one goroutine per offer, per trickled candidate and
per failing transport; a map, a `sync.Once` and a mutex whose critical sections
are deliberately short, so that another goroutine can act between any two of
them; contexts whose deadlines race answers; a signaling channel that may call
back at any time and on any goroutine.

What makes each part correct:

* Listener: an identifier names one negotiation until its last reply; closed
  negotiations do not stay in the map; at most 64 negotiations run; an
  acknowledged error ends the Conn it was meant for; an acknowledged candidate
  reaches it; shutdown closes everything and terminates.
* Conn and data channel: a received packet is a packet that was sent, whole and
  in order; nothing blocks for ever once the Conn is done; closing closes what
  was opened.
* Dialer: a failed dial leaves nothing registered or open; a late signal does
  not reach a Conn that is gone.
* Dialer and Listener together: a dial and a negotiation connect with each other
  only and end together; the error of one attempt does not end another; offers
  and answers are read as they were meant.
* Discovery: a world that is listed can be signaled; a notifier whose stop has
  returned is not called for a later signal; closing ends; what one Listener
  writes another reads.
* Endpoint: an HTTP request is answered with what was signaled for its own offer;
  the dial that made it hears that answer and no other before `Signal` returns;
  the Listener knows whether its answer was used by the Handler.

## Modules

| Module | Models | Proofs | State |
| --- | --- | --- | --- |
| `ListenerNegotiation`, `OfferSession` | `listener.go`, `handleSignal`, `trickleCandidate` | `ListenerProofs` | done |
| `DataChannel`, `MessageStream` | `message.go`, `Conn.Send/Receive/Read` | `DataChannelProofs` | done |
| `ConnChannels` | the channels of a Conn, their callbacks, `Conn.close` | `ConnChannelsProofs` | done |
| `Dialer` | `dial.go` | `DialerProofs` | done |
| `DialLife`, `NegotiationLife` | what a dial and a negotiation look like from the other side of the Signaling | `DialerProofs`, `ListenerProofs`, `HandshakeProofs` | done |
| `Handshake`, `Pairing` | a Dialer and a Listener over a signaling channel that loses, repeats and reorders, and what they promise together | `HandshakeProofs` | done |
| `SessionDescription` | the attributes of a `Description` (`conn.go`), the roles of the two peers, `defaultCandidate` | `HandshakeProofs` | done |
| `EndpointHandler`, `EndpointClient` | `endpoint/handler.go` as a Signaling, and `endpoint/client.go` talking to it | `EndpointHandlerProofs` | done |
| `Discovery` | `discovery/listener.go` | `DiscoveryProofs` | done, but for the pong data |
| `DiscoveryCodec` | `binary.go`, `ServerData` and the lengths of packets of `discovery/` | `DiscoveryProofs` | done |
| `Induction` | nothing: what the proofs about loops need of the natural numbers | its own | done |

`Handshake` and `EndpointClient` compose. `EndpointClient` extends
`EndpointHandler`, steps included, and its `ClientSpec` implements that module's
`Spec` as it stands. `Handshake` composes the outcomes of `Dialer` and
`ListenerNegotiation`, not their steps, so that two dials and two negotiations
can be explored; `DialLife` and `NegotiationLife` say what is left of them, and
each is implemented by the detailed module as well as by `Handshake`.

What is left of the plan: the pong data of `discovery` and of `endpoint`; and
two places where a comment and the code should be compared, the "10,000 bytes" at `conn.go:178` and
`conn.go:185` against the size of a segment, and "Any notifiers registered to the
Listener will be stopped" (`discovery/listener.go:399`) against a Notifier that
was copied before `Close` and is called after it.

## ListenerNegotiation

One module models the whole life of an offer. Each goroutine has a program
counter; a step is the code between two points at which another goroutine can
see or change shared state.

| Code | Model |
| --- | --- |
| `l.negotiations`, `l.sem`, `n.key` | `owner`, `sem`, `key` |
| `n.once` with `n.closed` | `once`: open, closed, unregister (the tail of `close`), done |
| `n.finished`, `n.remoteCanceled`, `n.deferred`, `n.conn != nil` | `finished`, `remoteCanceled`, `deferred`, `published` |
| the goroutine running `negotiate` | `pc`, `ctx` (the context it is in), `code` (the signalError it returns), `backlog` (its copy of `deferred`) |
| the Conn | `conn`: context live or canceled, and the progress of `conn.close`; `candidate` for `candidateReceived` |
| `trickleCandidate` | `trickle` |
| calls of `NotifySignal` | `call[t]`, one per goroutine of the Signaling |
| `l.closed`, `Listener.Close` | `lst`, `toClose`, `lstAt` |

`NotifySignal` is `Admit` (a new key: the whole branch is one critical section)
or `Route` and then the steps of `handleSignal`; `HandleError` and
`HandleCandidate` are its sections under `n.mu`. The stages of `handleOffer` up
to publication differ only in the order, in the context they may block on and in
what succeeding does, so they are `StagePass` and `StageFail` over `NextStage`;
`Publish`, `Replay`, `Finalise`, `CandidateReceived`, `TransportsStarted`,
`ChannelsReady`, `Accept` and `FinaliseFail` are the rest of it, `CloseConn`,
`CloseSelf`, `Report`, `Replied`, `Finish`, `Unregister`, `Release` its ways out.
`n.close` and `conn.close` have steps of their own, taken by whichever goroutine
got there first; the others wait until the `sync.Once` is done.

Three history variables record what the outside was told: `accepted`,
`peerCanceled` (true was returned for a remote error) and `promised` (true was
returned for a candidate that parses).

Abstracted: what is in an offer, an answer or a candidate, other than whether it
parses; the WebRTC transports, which start, fail or are stopped; which codes the
stages carry.

`OfferSession` is what a user of the Listener may rely on: a bounded number of
sessions, a key held by one session from its admission until after its outcome
and its failure reply, one outcome per session, a slot given back after the key.
`ImplementsSession` maps a session's holder to `owner`, its slots to `sem` and
its stage to the location of its goroutine.

### Runs

| Run | Instance | What it shows |
| --- | --- | --- |
| `listener_offers` | one key, one slot, two offers in turn, errors, no trickle | an owner, its closure and its replacement; release of the transports; shutdown; refinement of `OfferSession` |
| `listener_signals` | one offer, candidates and errors, trickle, one deferred signal, `FairSpec` | signals against publication and closure; slots, keys and calls come back, closures end |
| `listener_timeout_doc` | one offer | a deadline of `NegotiationContext` is not reported as documented |

Two negotiators suffice for a replacement to meet a predecessor. A Signaling that
delivers with one goroutine reaches every order of a signal and the negotiation;
two deliveries at once, more than one deferred signal and several keys that
contend for the slots multiply the states without adding a property, and are
left to the theorems, which hold for any number of callers, keys and deferred
signals. `MaxPending` 1 reaches the bound, since a second signal finds it full.
A negotiator is used once, as in the code, which bounds the behaviours; the
system then stops, so deadlock is not checked.

### Fairness

`FairSpec` assumes of a goroutine that it runs (`WF` of each step it can take by
itself) and of a call that takes a context that it returns once the context is
done (`Prompt`). Deadlines pass, since both contexts have a timeout by default;
a caller-supplied `NegotiationContext` or `ConnContext` without one is the
caller's choice to wait for ever. Nothing is assumed of the remote peer, of
`Accept`, or of a stage succeeding. `Close` is fair once the signaling is down,
because `monitorSignaling` calls it. Under it, `Released` says that an admitted
offer ends and has given back its slot by then, and its key as well once its owner is closed; `CallReturns` that no `NotifySignal` waits for ever on `n.once`; and
`ClosureEnds` that a closure which has begun ends.

### Proofs

`ListenerProofs` proves, for every set of keys, negotiators and callers:

* `TypeCorrect`: `[]TypeOK`;
* `RegistryInvariant`: the inductive invariant about the map, from which
  `KeyReservedAlways` and `ClosedOwnerRemovedAlways` follow. `KeyReserved` and
  `ClosedOwnerRemoved` alone are not inductive: they need to know that
  `finished` is set only by `finish`, that an owner which is going to unregister
  is both closed and finished, and that whoever is in the map has that key;
* `AdmissionBounded`: the holders of the semaphore are exactly the running
  goroutines, and it never holds more than `MaxNegotiations`;
* `PeerErrorAlwaysEndsConn`: from the moment a remote error is seen by a caller,
  either the Conn is published, and the call goes on to cancel it, or it will
  never be;
* `CandidateAlwaysKept` and `NothingEverStranded`: a candidate that was taken is
  at every moment on the Conn, among the deferred signals, or in the copy that is
  being replayed (`Kept`); nothing is deferred after publication, so whatever is
  in the copy reaches the Conn before it is finalised;
* `FailedConnAlwaysReleased`: a Conn exists from its creation on whether or not it
  is published (`PublishedConn`), so each way out of `handleOffer` passes a
  closure, its own or one it waits for;
* `ShutdownAlwaysComplete`: once `Close` has copied the map, a negotiator that
  was ever admitted is closed, still to be visited, or being visited
  (`Visited`). An owner that is open holds its key, which is `KeyReserved`, so
  the copy misses none; and nothing is admitted afterwards.

It also proves `ListenerImplementsSession`, the refinement, from these and from
`OutcomeInv` (a negotiation that failed has waited for `n.close` before it
replies), and two theorems on which the composition with a Dialer rests.
`ListenerRefinesLife` maps each negotiation to a life of `NegotiationLife`: an
answer is made when `Signal` is called with it, and a remote error is seen when
it is claimed under `n.mu`, since from then on no Conn is published and one that
is published is canceled next. `LivingAlwaysHaveKey` says that a negotiation
whose life is not over holds its key, unless the Listener itself has been closed.
Both need to know why a negotiation may be closed: the Listener is, its Conn is
done, a remote error was claimed before publication, or handleOffer has failed
(`ClosedWhy`); none of these can be true of a Conn that has been accepted and is
open, so its key is not taken from it.

The proofs use `ListenerAssumption` (`NoNeg` is not a negotiator, bounds are
natural numbers, finitely many negotiators). `AdmissionBound` is a theorem only:
with one slot and no contention a run shows nothing of it. Liveness is
model-checked only.

### Finding

The comment on `ListenConfig.NegotiationContext` (`listener.go:45-51`) promises
`ErrorCodeNegotiationTimeoutWaitingForAccept` when its deadline is exceeded; the
code reports the code of the stage that was waiting. (The same comment gives the
default as 5 seconds; the code uses 15.)

## DataChannel

One channel between two Conns: `Send` of several goroutines, the segments under
way, the callback that puts messages together, the application that reads, and
`conn.close` of either Conn meanwhile.

| Code | Model |
| --- | --- |
| `Send`: `d.write`, `i`, `remaining` | `write`, `offset`, `remaining`, with `pc`, `size`, `calls` per writer |
| a segment, the bytes in `c.data` | a part `[msg, count]`: which message it is of, and the count it was sent with |
| `c.segments`, `c.data`, `c.messageMu` | `segments`, `data`, `messageMu`; `hand` is the segment in `handleMessage` and `handler` where that is |
| `c.packets` (unbuffered) | `Meet` with a reader that waits, `Take` with one that comes |
| `c.close`, `conn.ctx`, `conn.close` | `closed`, `rdone`, `close`; `failed` for a goroutine that was started to call it |
| `conn.readBuf` | `readBuf`; `consumed` is what `Read` has copied |

`reliable` is chosen once: the reliable channel keeps order and loses nothing,
the unreliable one does neither and takes messages of one segment only. `sent`
and `received` are histories. A peer of another implementation is `SendForeign`,
with counts of its own. The count is a byte: `Byte` is what the conversion to
`uint8` leaves of it.

`MessageStream` is what the two ends may rely on: packets come out as they were
sent, whole, at most once and, on an ordered channel, in order.

| Run | Instance | What it shows |
| --- | --- | --- |
| `channel_stream` | two writers, two messages each of 1, 2 or too many segments, both kinds of channel | only whole messages come out; refinement of `MessageStream` |
| `channel_reading` | two writers, messages that fill two segments, one segment of another implementation, `Read` with a slice of one part, `FairSpec` | counts go down; closing ends; an application that keeps reading gets everything, in order |

Two writers and two segments are what it takes to mix messages; with two bytes
per segment and at most two segments, size 1 takes one segment, size 4 fills its
last one exactly, and size 7 is refused; were it not, its count would wrap to
that of a complete message. `MaxSegments` stands for 255 and only matters as
a bound, which the proofs take as any positive number.

Fairness: goroutines run; the mutex `d.write` is not withheld for ever from a
goroutine that asks again and again (strong fairness of `SendLock`; Go's mutexes
have a starvation mode); the association delivers what it does not lose. That
the application reads is not assumed: `CloseEnds` must hold without a reader,
and `Delivered` has the fairness of the reader as its hypothesis. Its
conclusion is about `Read` as well as `Receive`: in the end `Read` has copied out
every message, in order and whole, however small its slice.

`DataChannelProofs` proves, for every set of writers, every segment size and
limit and every set of message sizes:

* `TypeCorrect`, with the arithmetic of segments that keeps `remaining` in its
  byte;
* `SegmentsCountDown`, whatever the peer sends. `CountsDown` speaks of packets
  that were received; the induction needs what is in the buffer between two
  segments (`CountInv`) and that `conn.close` does not zero a slice which a
  reader has just been handed (`LockInv`);
* `PacketsAlwaysWhole`, when the peer is this implementation (`Foreign = {}`).
  The invariant follows a message from `d.write` to `c.packets`: only the holder
  of the lock is between two segments (`SenderInv`), what is under way was sent
  (`GenuineInv`), each segment is the successor of the one before it (`ChainInv`,
  `HeadInv`) and the buffer holds the beginning of a message (`AssemblyInv`).
  On the unreliable channel a message is one segment and nothing is assembled.

* `ChannelImplementsStream`, when the peer is this implementation: the two ends
  implement `MessageStream`. A packet stands for its message (its first part
  names it, and empty messages are not sent), and no message is sent twice because
  a writer numbers its calls (`SentOnce`), so that a message has one place in
  `sent`. On the reliable channel `TurnInv` says which place everything under way
  has, counted from the receiver: the buffer holds the message after the last one
  received, the segment in hand and the first one on the link are of the message
  whose turn it is, and the place goes up by one after a count of zero. For a
  segment to be appended to the link in its turn, the last one there must be of
  the last message sent (`TailInv`, as long as the association is up). On the
  unreliable channel order is lost and a message is in one place at most: on the
  link, in the hands of the callback, or received (`OnceInv`).

The liveness properties are model-checked only.

## ConnChannels

How a Dialer creates and a Listener accepts the channels of a Conn, while the
callbacks of the WebRTC transports may close it. `startTransports` is `Create`
and `Store` per channel, because `conn.close` can run between the two; the
callback of `OnDataChannel` is one step with a lock of the transport held, which
is why nothing it does may wait for `conn.close`. `asked` is a goroutine that was
started to close the Conn, `snapshot` the channels `close` has still to close.

| Run | Instance | What it shows |
| --- | --- | --- |
| `channels` | both roles, up to three channels of the peer, `OnOpen` at most twice each | a Conn is returned with all its channels, they are closed with it, and closing ends |
| `channels_close_doc` | a Dialer | a channel stored after the snapshot stays open |

Three openings are both channels and one that is repeated or invalid; two calls
of `OnOpen` reach the difference between counting a call and counting a channel.
Fairness: callbacks return and `conn.close` goes on.

`ConnChannelsProofs` proves `ChannelsTypeCorrect`, `AlwaysReadyHasChannels` and
`AlwaysExposedClosed` for every finite set of reliabilities, from `ChannelsInv`:
`opened` counts the channels whose `OnOpen` has been called, each of which is
stored (`CountInv`), so that a full count means that all of them are; and a Conn
is exposed only after that, so that the snapshot has all of them (`CloseInv`).

Finding: `Conn.Close` (`conn.go:374`) says that it closes both channels; one that
is stored after `conn.close` has looked (`conn.go:330`) is not closed. No
application has such a Conn while it is live (`ExposedClosed`), and stopping the
SCTP transport ends the stream.

## Dialer

One call of `DialContext`: stages that may fail, the two selects, the notifier
with its buffer of signals (`Capacity`, 64 in the code), `handleConn` after the
answer, the deferred functions, and the error reply of `signalError`. `pc` is the
stage; `notifier` is registered, canceled or stopped; `asked` and `close` are the
closure of the Conn, by whoever asks for it. `peerError` and `promised` record
what `NotifySignal` returned true for.

| Run | Instance | What it shows |
| --- | --- | --- |
| `dialer` | a buffer of two, three signals of all kinds, `FairSpec` | a dial ends, leaves nothing behind when it fails, and serves what it accepted |
| `dialer_signaling_doc` | one answer, `ReturningSpec` | a dial that waits for a candidate does not see the signaling end |

Three signals fill a buffer of two and leave one to be dropped; the kinds are
all the branches of `NotifySignal`, of the first select and of `handleConn`.
Fairness: goroutines run, and a call that takes the context returns once that is
done. `SignalsServed` has as its hypothesis that the calls return in any case:
otherwise the dial need never look at a signal.

`DialerProofs` proves for every capacity and any number of signals that the
buffer is bounded (`DialTypeCorrect`), that a failed dial has stopped its
notifier and closed its Conn (`DialLeavesNothing`) and that a live Conn has its
notifier (`DialAlwaysListens`). `NothingLeft` is about the last step only; the
induction (`DialInv`) says at each stage what there is already, and that
`conn.close` cancels the context first and stops the notifier before it ends.
`DialerRefinesLife` maps the call and its Conn to a life of `DialLife`, in which a
dial is over as soon as its Conn is done, whatever DialContext is still waiting
for, and owes an error until DialContext has decided that there is none to send.

Finding: `signal.go:28` says that the context of the signaling tells a Dialer
that it can no longer dial; the second select (`dial.go:294`) does not watch it.

## Handshake

Calls of `DialContext` and negotiations of a Listener, each reduced to the
signals it sends and takes and to the ends of its Conn.

| Code | Model |
| --- | --- |
| `DialContext`, `startTransports`, the Conn it returns | `dial`: offered, starting (an answer is taken), conn, over |
| `listenerNegotiator` and its Conn | `neg`: working, canceled, answered, open, failing (a reply may still be signaled), over; `offer` is the dial it answers |
| `Dialer.ConnectionID` | `id`; the application may use one again, in turn or at once |
| the goroutine of `Dialer.signalError` | `owed`, with `SendError` and `AbandonError` |
| `trickleCandidate`, when a candidate cannot be signaled | `dialTrickle`, `negTrickle`: failing while `Signal` of the error runs, closing from there; `conn.close` comes after it and is `DialFails`, `DialEnds` or `CloseNeg` |
| the map of the Listener | `Holds`: from admission until the last reply is sent and the Conn closed; an offer refused for a key that is about to be given back is one that was lost, so giving it back is part of the step before |
| the Signaling | `upLog`, `downLog`: all that was signaled; a receiver is given a place of the log |
| the peer that ICE and DTLS connect with | `link`, only with the negotiation that answered this very offer |

A receiver may skip places (loss), stay at one (repetition) and, unless
`ordered`, go back (reordering): `Deliverable`. Whether the Signaling keeps the
order is chosen once, because the code relies on it in one respect only: with an
order, an error that arrives late finds what it was meant for, or nothing.
`canceledBy` and `blame` record which error ended what, `overlap` that a dial was
started while another of its ID could still signal, `negOverlap` that a
negotiation was admitted while the error of another's candidate was under way.

`trickleCandidate` signals its error while its Conn is open and closes the Conn
after that: the call may take 15 seconds, and what it carries may be handled
before it returns. In between the Conn goes on; a dial can take an answer and
connect, a negotiation can be accepted, or either can end for another reason, and
then the error may be carried all the same. The properties therefore say "over or
about to be": a Conn with such a goroutine will be closed by it. An error that
`Signal` cannot carry is a lost one.

* `CancelsOwnDial`: the error of a failed dial is sent after `DialContext` has
  returned (`dial.go:349`), under an ID that may be in use again. The negotiation
  it cancels belongs to a dial that is over or about to be, as does the error,
  unless the Signaling reorders or the
  dials overlapped. So an application that uses an ID again has to wait until the
  error of the dial before has been signaled, which `DialContext` gives it no
  means to know of.
* `ReplacementSafe`: a dial with an answer that is ended by an error has lost its
  own negotiation, or is about to: the reply of a failed one does not end a dial
  whose negotiation is alive. The exception is the error of `trickleCandidate`,
  which neither `finish` nor `close` waits for: it may be carried after the key
  has gone to a replacement, whose dial it then ends (`negOverlap`). And the
  property says nothing of a dial that has not taken an answer yet: an error of an old negotiation that is still under way can reach it, and
  then the dial fails although its offer may be admitted.
* `ImplementsPairing`: a dial connects with one negotiation at most and conversely,
  a Conn is accepted only after that, and neither end outlives the other.

Two dials and two negotiations are an attempt and its replacement at either end;
`Offer` numbers dials in the order in which they start and `Admit` negotiations,
and the first dial has the first connection ID, which loses no behaviour. The
logs need no bound: a dial or a negotiation signals at most three times, an offer
or answer, an error when a candidate cannot be signaled, and a last one when the
call fails. `MaxTrickles` bounds the candidates that cannot be signaled, one of a
Conn at most: a second one would signal the same error of the same Conn. In the
run there is one, at either side, enough for it to be early or late, before or
after any other signal. Two dials with IDs of their own never take a signal of
one another, so `MCInit` lets the Signaling reorder only for a shared ID; and
`TricklesInOrder` explores errors of candidates only where the order is kept,
since without it the properties say hardly more of them than who has sent them.
The theorems need neither restriction and hold for any `MaxTrickles`.
The system stops when all is over, so deadlock is not checked.

The model assumes of the Signaling that a `Signal` begun with a context that is
done carries nothing, as `discovery` sees to (`discovery/listener.go:133`);
`endpoint` has no candidates to signal. Otherwise a candidate that fails because
its Conn has been closed could send an error at any time after that.

The fairness is about ends only: the transports of one end notice that the other
has ended (`handleTransports`). That anything is delivered, answered or accepted
is not assumed.

`HandshakeProofs` proves `ErrorsCancelOwn`, `ReplacementsSafe`,
`HandshakeTypeCorrect` and `HandshakeRefinesPairing`, the safety of the
refinement, for any number of dials, negotiations and IDs. The induction is about
the logs: who has signaled an error is over or about to be (`ErrorsFinal`); of two
signals of different dials with one ID, the sender of the earlier is over or they
overlapped (`UpOrder`); a key has one owner, so two negotiations that can both
signal under it are a replacement and one that has only `trickleCandidate` left
(`NegOverlapSeen`), and of two of their signals, the sender of the earlier is over
unless they overlapped in this way (`DownOrder`); and a negotiation, or a dial
with an answer, has come as far as its offer or answer (`AdmittedAt`,
`AnsweredAt`). An error further on is therefore not one of a predecessor.

What ties `Handshake` to the two detailed modules is proved on both sides:
`DialerRefinesLife` and `ListenerRefinesLife` say that `DialContext` and
`negotiate`, with all their goroutines, do nothing but the steps of `DialLife`
and `NegotiationLife`, and `HandshakeRefinesLives` that the dials and the
negotiations here keep to the same steps, with `dial`, `owed` and `neg` as they
stand; what `trickleCandidate` signals is left out of both lives, since nothing
waits for it. `LivingAlwaysHaveKey` is what `Holds` rests on. That `Handshake` leaves
out none of these steps, except for a dial that never offers, is to be read off
its actions: a refinement says what may happen, not that it can. What a step
says to the other side (`SignalUp`, `SignalDown`) and the guards that look at the
other side (`Connect`, `Accept`) are of this module only.

### SessionDescription

The descriptions that offers and answers carry, as operators: `Encode` and
`ParseDescription` on the attributes of the session and of its media, the DTLS
role each peer ends up with (`Acts` is the rule of the external
`DTLSTransport`, with the default setting of the SettingEngine), and
`defaultCandidate` over candidates with an IP address.

The run `handshake` checks `PeersUnderstand`, which makes a state with an accepted
answer depend on three statements: what one peer has encoded is what the other
parses (`DescriptionKept`); whichever role is asked for, one peer starts DTLS and
the other waits for it (`RolesAgree`); and the default candidate is the first of
the best, whatever the order of the others (`DefaultIsBest`), for all sequences
of at most four candidates of every kind. Two fingerprints and one identity are
enough, since attributes are only copied and compared.

`HandshakeProofs` proves all three for any sets of fingerprints, identities and
addresses and for sequences of candidates of any length (`DescriptionsKept`), and
so `AlwaysUnderstood`, that `PeersUnderstand` is an invariant. The loop of
`defaultCandidate` is a recursive function, `Chosen`; that it ends at the first of
the best candidates is an induction over how many it has looked at (`BestOf`).

## EndpointHandler and EndpointClient

The HTTP handler seen as a Signaling. Each request has an identifier of its own:
`pc` is the place of its goroutine in `handleOffer` and `negotiate`, `ctx` its
context, `channel` its channel for one signal and `pending` its entry in the
table. The Listener at the other end is `neg`, the progress of its `negotiate`:
`SignalFinds` is the lookup under the lock, `SignalSends` the select after it, so
that a request can end between them. `used` is the notifier a request has read;
it may be gone when the request is canceled.

`EndpointClient` adds the dials. A request carries the offer of one dial, so it
stands for the dial too, and the requests of one client are those of the dials
that share a `Client`.

| Code | Model |
| --- | --- |
| `DialContext` up to its answer, and `Client.Signal` | `call`: posted, notifying, returned, failed, gaveUp |
| `c.notifiers` | `notifiers`, by dial |
| the copy `notifySignal` makes under the lock | `copied`; the calls are made after it, also of notifiers stopped since |
| `NotifySignal` of a dial with its own ID | `heard`: the negotiations whose answer it has had |

| Run | Instance | What it shows |
| --- | --- | --- |
| `endpoint` | one Client, two dials, two Listeners one after the other | a late answer to one dial is not taken for the other, both sides agree on the outcome, and the answer is there when `Signal` returns |

A second Client would be a second key, with no state in common but the table of
requests; two dials of one Client are what could be confused. The constraint
`OneTrouble` keeps apart three things that can happen at any time and do not
depend on each other: a second Listener, the end of the server, and a dial that
gives up. The theorems need no constraint.

`EndpointHandlerProofs` covers any number of Clients, dials and Listeners.
`RepliesOwn`, `PendingAlwaysExact`, `OutcomeAgreed`, `AnswersServed` and
`EndpointTypeCorrect` are about the Handler with any HTTP client; `EndpointInv` is
a conjunction per request: what there is before it waits, whose signal is in its
channel, and how it ends from the step that decides it.
`ClientImplementsHandler` says that with `EndpointClient` the server does nothing
else (`ClientStepServes`: a step of a Client is a step of its server or none), so
that all of these carry over. `AnswersReach` is from end to end: a dial hears no
answer but its own, has heard it when `Signal` returns, and misses one that the
Handler took only if the dial or its request had ended. `ClientInv` adds to
`EndpointInv` that a notifier is registered while its `Signal` waits, and so is
in the copy.

`Client.Signal` with an error is a no-op, in the code as in the model, so the
Listener is not told when a dial drops an answer it was sent: `Settled` is about
what the Handler told the Listener, not about what became of the dial.

There is no liveness here: how long a request waits is what the context of
`NegotiationContext` and the HTTP server make of it.

## Discovery

The Listener of LAN discovery: the goroutine of `listen` handles one packet at a
time, updates two tables that expire separately, and calls the notifiers.

| Code | Model |
| --- | --- |
| `addresses`, `responses` with their times | `addresses`, `responses`; `now` is the clock |
| `handlePacket` | `pc`, `packet`, `at` (when it read the clock), `RecordAddress`, `HandleResponse`, `HandleOther`, `HandleSignal` |
| the copy of `notifiers` and the calls of `NotifySignal` | `targets`, `called`, `want` (what a Notifier calls in turn: its stop, `Notify` or `Close`) |
| `notifyCount`, `notifiers`, the index `Notify` captured | `notifyCount`, `notifiers`, `index`, `stopped` |
| `Responses` | `listing[c]` is when its caller read the clock |
| `Close`, `background` | `close`, `background` |

`Stall` bounds the time between a goroutine's reading of the clock and the steps
that use it, and the assumption is `ResponseLifetime + 2 * Stall <
AddressLifetime`: with the code's 5 s and 60 s a goroutine may stall for 27 s.
Without it the property would be false, as it would be in the code.
`notifyCount` is a number and does not wrap, as the code's would after 2^32
calls. The network 0 can be listed, since a response is not checked for it, but
never has an address.

`DiscoveryCodec` has the bytes as operators: numbers of variable length, strings,
the fields of `ServerData` in the order in which they are written and read, and
the lengths a packet declares, among which that of a message has a maximum. The
invariant `PacketRead` makes every packet that is handled depend on them: every
number reads back and ends where it ended; a world reads back, and neither a part
of its bytes nor more than them is a world; and no packet is taken for one that
has been cut.

| Run | Instance | What it shows |
| --- | --- | --- |
| `discovery` | one peer and the network 0, three notifiers, lifetimes 4 and 1, stall 1, five ticks, numbers of 8 bits, `FairSpec` | a listed world can be signaled; the table of notifiers is exact; closure ends; what is written is read |

The lifetimes let a response expire before its address and an address before the
clock stops; three notifiers are registered, stopped and called in every order.
Numbers have 8 bits in groups of 3 where the code has 32 in groups of 7: in both
the last group is not full, which is where an encoding of the greatest and the
least number could fail, and 8 bits can be checked exhaustively. Worlds have at
most two fields that are not zero, which is what it takes to notice two fields
swapped or one that is too long. The lengths are those of the code, for data of
up to 70000 bytes, where the 16 bits wrap.
The constraint `TablesOrNotifiers` lets time pass only without notifiers: the
two have nothing but the goroutine in common. The theorems need no constraint.
Fairness: goroutines run, a read of a closed connection fails, and a Notifier
returns, also when it stops itself, registers others or closes the Listener.

`DiscoveryProofs` proves `ListedAlwaysReachable` for all lifetimes that satisfy
the assumption, from `Kept`: if an address recorded at t has not expired, there
is such an address or a later one. `NotifiersAlwaysExact` needs that indices are
below `notifyCount` and used once; `StoppedAlwaysSilent` that a notifier which
had been stopped when a packet was read is no longer in the table.

The second half of the module is about the bytes, for every width of numbers and
groups (`CodecAssumption`: a group has a bit at least and is shorter than a
number, the modulus of the 16 bits is positive). `NumberReadBack` says that
`readVaruint32` gets back any number, leaves what follows it, and fails on every
proper prefix. It takes two inductions over the groups of a number: `Groups`
lists what the writer has left of it after each byte, and after as many bytes the
reader has the difference (`GatheredWritten`), so that no sum is cut by the width
and none of the shifts loses a bit; `MaxGroups` bytes are always enough. From it
the same follows for strings, numbers with a sign (`ZigZagUndone`) and, field by
field, for a world: `ServerDataReadBack` holds for all strings shorter than the
modulus and all numbers, and says also that no proper prefix and nothing longer
is accepted. `FieldsReadBack` and `FieldsCut` are the induction over the fields.
`AnyLengthAccepted` is the statement about packets for data of any length: the
remainder of a length is not longer than it. `PacketAlwaysRead` concludes that
`PacketRead` is an invariant.

`Induction` has what these proofs need and the provers cannot take from the
library, whose theorems have operators as parameters: with sets in their place,
the least element of a set of numbers, simple and strong induction, and that a
function defined by recursion over numbers exists (`Recursion`) and has the type
of its steps (`LoopExists`, `LoopType`). All follow from the library's theorem
that `<` is well-founded.

That a variable has its type is a theorem (`DiscoveryTypeCorrect`) and not checked
by the run; the same holds of `ConnChannels` and `Handshake`.

The pong data and what `Signal` writes are not modelled.

## What is only model-checked

The liveness properties (`Released`, `CallReturns`, `ClosureEnds`, `CloseEnds`,
`Delivered` and the others of the `FairSpec`s), and the three runs that end in a
counterexample. Every safety invariant and every action property that a run checks
is a theorem.
The proofs assume what the modules assume of their constants, nothing else;
`PacketsAlwaysWhole` and `ChannelImplementsStream` have `Foreign = {}` in their
statements.

## Not modelled

* The syntax of SDP, the text of ICE candidates (`formatICECandidate`) and of
  signals, and candidates named by mDNS, which are off by default: wording.
* JWT and ECDSA over fingerprints (`identity.go`), AES and HMAC of the packets of
  `discovery`, and the hexadecimal of its responses: cryptography and conversions
  without state that a small model could explore. That an identity is refused is
  a stage of an offer that fails, or an answer that is.
* HTTP itself: headers, status codes and URLs, `Client.Ping`, the status document
  and its pong data. A response that cannot be used is `GiveUp`.
* TURN credentials, accessors, logging and the examples: no state.
* The implementations of WebRTC, ICE, DTLS and SCTP are external; what they may do
  to this code (call back, fail, be stopped, notice the end of the peer) is in the
  models.
