---------------------------- MODULE DataChannel ----------------------------
(***************************************************************************)
(* One data channel between two Conns: Conn.Send of several goroutines at  *)
(* one end, the segments it puts on the SCTP stream, and at the other end  *)
(* the callback that puts a message together again, the application that   *)
(* reads it, and the closure of either Conn meanwhile.                     *)
(*                                                                         *)
(* A part of a message is a token that names the message and the segment   *)
(* count it was sent with: enough to tell whether a packet is whole.       *)
(***************************************************************************)
EXTENDS Naturals, SequencesExt

CONSTANTS
    Writer,        \* goroutines that call Send
    NoWriter,      \* d.write is not locked
    Reliabilities, \* which channels there may be: TRUE for the reliable one
    SegmentSize,   \* conn.maxSegmentPayload
    MaxSegments,   \* math.MaxUint8 (255), what a uint8 can count to
    Sizes,         \* the lengths of the messages the application sends
    MaxMessages,   \* how many each writer sends (a bound)
    Foreign,       \* counts of segments that another implementation sends
    MaxForeign,    \* how many of these it sends (a bound)
    Buffer         \* len(b) of Conn.Read; 0 for an application of ReadPacket

ASSUME ChannelAssumption ==
    /\ NoWriter \notin Writer
    /\ Reliabilities \subseteq BOOLEAN
    /\ SegmentSize \in Nat \ {0}
    /\ MaxSegments \in Nat \ {0}
    /\ Sizes \subseteq Nat
    /\ MaxMessages \in Nat
    /\ Foreign \subseteq 0 .. MaxSegments
    /\ MaxForeign \in Nat
    /\ Buffer \in Nat

VARIABLES
    reliable,  \* MessageReliabilityReliable, else ...Unreliable
    \* the sending Conn
    sdone,     \* conn.ctx is done
    write,     \* who holds d.write
    pc,        \* where each writer is in Send
    size,      \* len(data) of its message
    offset,    \* i, the offset of the next segment
    remaining, \* remaining
    calls,     \* how many messages it has sent before
    sent,      \* history: the messages that got hold of d.write, in order
    \* the association
    up,        \* both ends have it
    link,      \* segments under way
    foreign,   \* how many segments of another implementation there were
    \* the receiving Conn
    rdone,     \* conn.ctx is done
    handler,   \* where the goroutine that calls handleMessage is
    hand,      \* the segment it handles
    segments,  \* c.segments
    data,      \* c.data
    messageMu, \* who holds c.messageMu
    closed,    \* c.close is closed
    failed,    \* a goroutine that calls conn.close has been started
    close,     \* the progress of conn.close
    reader,    \* whether the application waits in Receive
    readBuf,   \* conn.readBuf
    received,  \* history: the packets that came out of c.packets
    consumed   \* history: what Read has copied

sender == <<sdone, write, pc, size, offset, remaining, calls, sent>>
wire == <<up, link, foreign>>
assembly == <<handler, hand, segments, data>>
closing == <<rdone, closed, failed, close>>
reading == <<reader, readBuf, consumed>>
vars == <<reliable, sender, wire, assembly, closing, reading, messageMu,
          received>>

-----------------------------------------------------------------------------
(* Messages and segments *)

\* A message: who sent it, as its how manieth, and how long it is.
Messages == [from : Writer, no : 1 .. MaxMessages, size : Sizes]
\* What a segment of another implementation and a cleared buffer contain.
Alien == [from |-> NoWriter, no |-> 1, size |-> 0]
Zero == [from |-> NoWriter, no |-> 0, size |-> 0]

\* The message a writer is sending.
Current(w) == [from |-> w, no |-> calls[w], size |-> size[w]]

Part(m, c) == [msg |-> m, count |-> c]
Parts == [msg : Messages \cup {Alien, Zero}, count : 0 .. MaxSegments]

\* How many segments a message of this size takes, and how it is written in
\* the code.  (Faulty variant: one more when it fills the last segment.)
TotalSegmentsOver(s) == s \div SegmentSize + 1
TotalSegments(s) == IF s = 0 THEN 0 ELSE (s - 1) \div SegmentSize + 1

\* What Send refuses with d.write locked.  (Faulty variant: nothing.)
NeverTooLarge(s) == FALSE
TooLarge(s) == TotalSegments(s) > MaxSegments

\* uint8(remaining)
Byte(r) == r % (MaxSegments + 1)

\* The parts of a message that was sent, as the receiver ought to get them.
PacketOf(m) ==
    LET n == (m.size + SegmentSize - 1) \div SegmentSize
    IN  [j \in 1 .. n |-> Part(m, n - j)]

TypeOK ==
    /\ reliable \in Reliabilities
    /\ sdone \in BOOLEAN
    /\ write \in Writer \cup {NoWriter}
    /\ pc \in [Writer -> {"idle", "lock", "segment"}]
    /\ size \in [Writer -> Sizes \cup {0}]
    /\ offset \in [Writer -> Nat]
    /\ remaining \in [Writer -> 0 .. MaxSegments]
    /\ calls \in [Writer -> 0 .. MaxMessages]
    /\ sent \in Seq(Messages)
    /\ up \in BOOLEAN
    /\ link \in Seq(Parts)
    /\ foreign \in 0 .. MaxForeign
    /\ rdone \in BOOLEAN
    /\ handler \in {"idle", "lock", "select", "reset"}
    /\ hand \in Parts
    /\ segments \in 0 .. MaxSegments
    /\ data \in Seq(Parts)
    /\ messageMu \in {"free", "handler"}
    /\ closed \in BOOLEAN
    /\ failed \in BOOLEAN
    /\ close \in {"open", "channel", "clear", "stop", "closed"}
    /\ reader \in {"idle", "waiting"}
    /\ readBuf \in Seq(Parts)
    /\ received \in Seq(Seq(Parts))
    /\ consumed \in Seq(Parts)

Init ==
    /\ reliable \in Reliabilities
    /\ sdone = FALSE /\ write = NoWriter
    /\ pc = [w \in Writer |-> "idle"]
    /\ size = [w \in Writer |-> 0]
    /\ offset = [w \in Writer |-> 0]
    /\ remaining = [w \in Writer |-> 0]
    /\ calls = [w \in Writer |-> 0]
    /\ sent = <<>>
    /\ up = TRUE /\ link = <<>> /\ foreign = 0
    /\ handler = "idle" /\ hand = Part(Zero, 0)
    /\ segments = 0 /\ data = <<>> /\ messageMu = "free"
    /\ rdone = FALSE /\ closed = FALSE /\ failed = FALSE /\ close = "open"
    /\ reader = "idle" /\ readBuf = <<>> /\ received = <<>> /\ consumed = <<>>

-----------------------------------------------------------------------------
(* Conn.Send *)

\* What the channel takes: one segment at most if it is unreliable.  (Faulty
\* variant: it is not checked.)
FitsAnyway(s) == TRUE
Fits(s) == reliable \/ s <= SegmentSize

\* Send checks the context and what the channel takes before it waits for
\* d.write; a call that fails here changes nothing.
SendStart(w) ==
    /\ pc[w] = "idle"
    /\ calls[w] < MaxMessages
    /\ ~sdone
    /\ \E s \in Sizes :
        /\ Fits(s)
        /\ size' = [size EXCEPT ![w] = s]
    /\ pc' = [pc EXCEPT ![w] = "lock"]
    /\ calls' = [calls EXCEPT ![w] = @ + 1]
    /\ UNCHANGED <<reliable, sdone, write, offset, remaining, sent, wire,
                   assembly, closing, reading, messageMu, received>>

\* With d.write locked, a message that is empty or takes too many segments is
\* not sent; d.write is unlocked again.
SendNothing(w) ==
    /\ pc[w] = "lock"
    /\ write = NoWriter
    /\ size[w] = 0 \/ TooLarge(size[w])
    /\ pc' = [pc EXCEPT ![w] = "idle"]
    /\ UNCHANGED <<reliable, sdone, write, size, offset, remaining, calls,
                   sent, wire, assembly, closing, reading, messageMu,
                   received>>

SendLock(w) ==
    /\ pc[w] = "lock"
    /\ write = NoWriter
    /\ size[w] # 0 /\ ~TooLarge(size[w])
    /\ write' = w
    /\ remaining' = [remaining EXCEPT ![w] = TotalSegments(size[w]) - 1]
    /\ offset' = [offset EXCEPT ![w] = 0]
    /\ sent' = Append(sent, Current(w))
    /\ pc' = [pc EXCEPT ![w] = "segment"]
    /\ UNCHANGED <<reliable, sdone, size, calls, wire, assembly, closing,
                   reading, messageMu, received>>

\* Who holds d.write once a segment was written and the next one is at i.
\* (Faulty variant: the lock protects one segment, not the message.)
HolderPerSegment(w, i) == NoWriter
Holder(w, i) == IF i < size[w] THEN w ELSE NoWriter

\* d.Send of one segment; the last one unlocks d.write.  The count is the one
\* to the end of the message that TotalSegments has computed.
SendSegment(w) ==
    /\ pc[w] = "segment"
    /\ write \in {w, NoWriter}
    /\ up
    /\ link' = Append(link, Part(Current(w), Byte(remaining[w])))
    /\ offset' = [offset EXCEPT ![w] = @ + SegmentSize]
    /\ remaining' = [remaining EXCEPT ![w] = IF @ = 0 THEN 0 ELSE @ - 1]
    /\ write' = Holder(w, offset'[w])
    /\ pc' = [pc EXCEPT ![w] = IF offset'[w] < size[w] THEN @ ELSE "idle"]
    /\ UNCHANGED <<reliable, sdone, size, calls, sent, up, foreign, assembly,
                   closing, reading, messageMu, received>>

\* d.Send fails once the association is gone: Send gives up the message.
SendFail(w) ==
    /\ pc[w] = "segment"
    /\ ~up
    /\ write' = NoWriter
    /\ pc' = [pc EXCEPT ![w] = "idle"]
    /\ UNCHANGED <<reliable, sdone, size, offset, remaining, calls, sent,
                   wire, assembly, closing, reading, messageMu, received>>

Send(w) ==
    SendStart(w) \/ SendNothing(w) \/ SendLock(w) \/ SendSegment(w)
    \/ SendFail(w)

-----------------------------------------------------------------------------
(* The association, and the other end of it *)

\* The sending Conn is closed: its context first, its transports later.
SenderDone ==
    /\ ~sdone
    /\ sdone' = TRUE
    /\ UNCHANGED <<reliable, write, pc, size, offset, remaining, calls, sent,
                   wire, assembly, closing, reading, messageMu, received>>

SenderStopped ==
    /\ sdone /\ up
    /\ up' = FALSE
    /\ UNCHANGED <<reliable, sender, link, foreign, assembly, closing,
                   reading, messageMu, received>>

\* What is under way may be lost with the association, and at any time on an
\* unreliable channel (the first segment: any other may overtake it).
Lose ==
    /\ link # <<>>
    /\ \/ ~up /\ link' = <<>>
       \/ ~reliable /\ link' = Tail(link)
    /\ UNCHANGED <<reliable, sender, up, foreign, assembly, closing, reading,
                   messageMu, received>>

\* Another implementation sends segments with counts of its own.
SendForeign ==
    /\ up
    /\ foreign < MaxForeign
    /\ \E c \in Foreign : link' = Append(link, Part(Alien, c))
    /\ foreign' = foreign + 1
    /\ UNCHANGED <<reliable, sender, up, assembly, closing, reading,
                   messageMu, received>>

-----------------------------------------------------------------------------
(* dataChannel.handleMessage, called for one segment after the other.       *)

\* A segment arrives, the next one on an ordered channel.
Arrives(i) ==
    /\ i \in DOMAIN link
    /\ reliable => i = 1
    /\ link' = RemoveAt(link, i)

\* handleMessage up to messageMu: dropped once c.close is closed, an error for
\* a segment count on the unreliable channel and for data that does not parse.
Handle ==
    /\ handler = "idle"
    /\ \E i \in DOMAIN link :
        /\ Arrives(i)
        /\ hand' = link[i]
        /\ \/ /\ ~closed /\ (reliable \/ link[i].count = 0)
              /\ handler' = "lock"
              /\ UNCHANGED failed
           \/ /\ closed
              /\ UNCHANGED <<handler, failed>>
           \/ /\ ~closed
              /\ link[i].msg = Alien \/ (~reliable /\ link[i].count > 0)
              /\ failed' = TRUE
              /\ UNCHANGED handler
    /\ UNCHANGED <<reliable, sender, up, foreign, segments, data, rdone,
                   closed, close, reading, messageMu, received>>

\* The count is the one the segment before it promised.  (Faulty variant: it
\* is not compared.)
PromiseUnchecked(c) == TRUE
Promised(c) == segments > 0 => c = segments - 1

\* With messageMu locked: an error for a broken promise; otherwise the segment
\* is appended, and the last one of a message keeps the lock for the delivery.
Assemble ==
    /\ handler = "lock"
    /\ messageMu = "free"
    /\ \/ /\ ~Promised(hand.count)
          /\ failed' = TRUE
          /\ handler' = "idle"
          /\ UNCHANGED <<segments, data, messageMu>>
       \/ /\ Promised(hand.count)
          /\ segments' = hand.count
          /\ data' = Append(data, hand)
          /\ \/ /\ hand.count > 0
                /\ handler' = "idle"
                /\ UNCHANGED messageMu
             \/ /\ hand.count = 0
                /\ handler' = "select"
                /\ messageMu' = "handler"
          /\ UNCHANGED failed
    /\ UNCHANGED <<reliable, sender, wire, hand, rdone, closed, close,
                   reading, received>>

\* c.packets <- c.data meets <-c.packets.
Meet ==
    /\ handler' = "reset"
    /\ received' = Append(received, data)
    /\ readBuf' = IF Buffer = 0 THEN <<>> ELSE data
    /\ UNCHANGED <<reliable, sender, wire, hand, segments, data, closing,
                   consumed, messageMu>>

\* The handler finds a reader waiting.
Deliver ==
    /\ handler = "select"
    /\ reader = "waiting" /\ ~rdone
    /\ reader' = "idle"
    /\ Meet

\* c.data = nil, and messageMu is unlocked.
Reset ==
    /\ handler = "reset"
    /\ data' = <<>>
    /\ handler' = "idle"
    /\ messageMu' = "free"
    /\ UNCHANGED <<reliable, sender, wire, hand, segments, closing, reading,
                   received>>

\* <-c.close wins the select: the message is dropped.
Drop ==
    /\ handler = "select"
    /\ closed
    /\ handler' = "idle"
    /\ messageMu' = "free"
    /\ UNCHANGED <<reliable, sender, wire, hand, segments, data, closing,
                   reading, received>>

-----------------------------------------------------------------------------
(* Conn.Receive, ReadPacket and Read *)

\* Receive waits, unless the context is done.
Receive ==
    /\ reader = "idle" /\ readBuf = <<>>
    /\ ~rdone
    /\ reader' = "waiting"
    /\ UNCHANGED <<reliable, sender, wire, assembly, closing, readBuf,
                   consumed, messageMu, received>>

\* Receive finds the handler waiting with a packet: it may take it even when
\* the context is done as well.
Take ==
    /\ reader = "idle" /\ readBuf = <<>>
    /\ handler = "select" /\ ~closed
    /\ UNCHANGED reader
    /\ Meet

\* The end of the context wakes a waiting Receive.
ReceiveFails ==
    /\ reader = "waiting"
    /\ rdone
    /\ reader' = "idle"
    /\ UNCHANGED <<reliable, sender, wire, assembly, closing, readBuf,
                   consumed, messageMu, received>>

\* What Read keeps for the next call.  (Faulty variant: nothing.)
DropsRest(n) == <<>>
Rest(n) == SubSeq(readBuf, n + 1, Len(readBuf))

\* Read copies what fits.
Read ==
    /\ readBuf # <<>>
    /\ LET n == IF Buffer < Len(readBuf) THEN Buffer ELSE Len(readBuf)
       IN  /\ consumed' = consumed \o SubSeq(readBuf, 1, n)
           /\ readBuf' = Rest(n)
    /\ UNCHANGED <<reliable, sender, wire, assembly, closing, reader,
                   messageMu, received>>

-----------------------------------------------------------------------------
(* conn.close of the receiving Conn: the application calls it, or a goroutine*)
(* started by a callback.                                                    *)

ChannelFailed ==
    /\ ~up /\ ~failed
    /\ failed' = TRUE
    /\ UNCHANGED <<reliable, sender, wire, assembly, rdone, closed, close,
                   reading, messageMu, received>>

CloseBegin ==
    /\ close = "open"
    /\ rdone' = TRUE
    /\ close' = "channel"
    /\ UNCHANGED <<reliable, sender, wire, assembly, closed, failed, reading,
                   messageMu, received>>

\* dataChannel.Close: close(c.close),  (Faulty variant: after the lock.)
CloseSignalLate ==
    /\ close = "channel"
    /\ messageMu = "free"
    /\ closed' = TRUE
    /\ close' = "clear"
    /\ UNCHANGED <<reliable, sender, wire, assembly, rdone, failed, reading,
                   messageMu, received>>
CloseSignal ==
    /\ close = "channel"
    /\ closed' = TRUE
    /\ close' = "clear"
    /\ UNCHANGED <<reliable, sender, wire, assembly, rdone, failed, reading,
                   messageMu, received>>

\* then clear(c.data) under messageMu: the bytes of the slice become zero, a
\* packet the reader has been handed included as long as c.data refers to it.
\* (Faulty variant: without the lock.)
ClearsAnyway == TRUE
MayClear == messageMu = "free"

Zeroed(s) == [i \in DOMAIN s |-> Part(Zero, 0)]

CloseClear ==
    /\ close = "clear"
    /\ MayClear
    /\ data' = Zeroed(data)
    /\ received' =
         IF handler = "reset"
           THEN [received EXCEPT ![Len(received)] = Zeroed(@)]
           ELSE received
    /\ close' = "stop"
    /\ UNCHANGED <<reliable, sender, wire, handler, hand, segments, rdone,
                   closed, failed, reading, messageMu>>

\* then the transports.
CloseStop ==
    /\ close = "stop"
    /\ up' = FALSE
    /\ close' = "closed"
    /\ UNCHANGED <<reliable, sender, link, foreign, assembly, rdone, closed,
                   failed, reading, messageMu, received>>

CloseStep == CloseSignal \/ CloseClear \/ CloseStop

-----------------------------------------------------------------------------
HandlerStep == Handle \/ Assemble \/ Deliver \/ Reset \/ Drop
ReaderStep == Receive \/ Take \/ ReceiveFails \/ Read

Next ==
    \/ \E w \in Writer : Send(w)
    \/ SenderDone \/ SenderStopped \/ Lose \/ SendForeign
    \/ HandlerStep \/ ReaderStep
    \/ ChannelFailed \/ CloseBegin \/ CloseStep

Spec == Init /\ [][Next]_vars

\* Goroutines run, a mutex is not withheld from one of them for ever, the
\* association delivers what it does not lose, and the closure a callback has
\* asked for begins.  The application need not read.
Fairness ==
    /\ \A w \in Writer :
         WF_vars(SendNothing(w) \/ SendSegment(w) \/ SendFail(w))
    /\ \A w \in Writer : SF_vars(SendLock(w))
    /\ WF_vars(HandlerStep) /\ WF_vars(ReceiveFails)
    /\ WF_vars(ChannelFailed) /\ WF_vars(CloseBegin /\ failed)
    /\ WF_vars(CloseStep)

FairSpec == Spec /\ Fairness

-----------------------------------------------------------------------------
(* Safety *)

\* A packet that comes out of Receive is one message, whole: not a part of
\* one, not two mixed by concurrent calls of Send, not one that conn.close has
\* overwritten with zeros.
PacketsWhole ==
    \A i \in DOMAIN received :
        \E j \in DOMAIN sent : received[i] = PacketOf(sent[j])

\* Whatever the other implementation sends, a packet is made of segments that
\* count down to zero (the check of the promised segments in handleMessage).
CountsDown ==
    \A i \in DOMAIN received : \A j \in DOMAIN received[i] :
        received[i][j].count = Len(received[i]) - j

-----------------------------------------------------------------------------
(* Liveness *)

\* Under FairSpec conn.close ends, whether it was called or a callback started
\* it, and although the callback may hold messageMu for a reader that never
\* comes.
CloseEnds == close # "open" \/ failed ~> close = "closed"

\* If it does, a message that was sent comes out of Receive and then out of
\* Read, in order, nothing of it lost or twice however small the slice it is
\* given, unless one of the Conns is closed.
Delivered ==
    WF_vars(ReaderStep) =>
      \A k \in 1 .. MaxMessages * Cardinality(Writer) :
        Len(sent) >= k
        ~> \/ sdone \/ rdone
           \/ /\ Len(received) >= k
              /\ Buffer > 0 =>
                   IsPrefix(FlattenSeq(SubSeq(received, 1, k)), consumed)

-----------------------------------------------------------------------------
Stream == INSTANCE MessageStream WITH
    Packet <- {PacketOf(m) : m \in Messages},
    ordered <- reliable,
    sent <- [i \in DOMAIN sent |-> PacketOf(sent[i])]

ImplementsStream == Stream!Spec
=============================================================================
