------------------------- MODULE DataChannelProofs -------------------------
(* Theorems about DataChannel for every value of its constants. *)
EXTENDS DataChannel, TLAPS

USE ChannelAssumption

-----------------------------------------------------------------------------
(* The arithmetic of segments, and sequences *)

LEMMA SegmentArithmetic ==
    ASSUME NEW s \in Nat, s > 0
    PROVE  LET T == TotalSegments(s)
           IN  /\ T \in Nat \ {0}
               /\ (T - 1) * SegmentSize < s
               /\ s <= (T - 1) * SegmentSize + SegmentSize
               /\ (s + SegmentSize - 1) \div SegmentSize = T
<1>1. (s - 1) \div SegmentSize \in Nat
    OBVIOUS
<1>2. ((s - 1) \div SegmentSize) * SegmentSize <= s - 1
    OBVIOUS
<1>3. s - 1 < ((s - 1) \div SegmentSize) * SegmentSize + SegmentSize
    OBVIOUS
<1>4. (s + SegmentSize - 1) \div SegmentSize = (s - 1) \div SegmentSize + 1
    OBVIOUS
<1>5. TotalSegments(s) = (s - 1) \div SegmentSize + 1
    BY DEF TotalSegments
<1>6. QED
    BY <1>1, <1>2, <1>3, <1>4, <1>5

LEMMA NextOffset ==
    ASSUME NEW a \in Nat
    PROVE  (a + 1) * SegmentSize = a * SegmentSize + SegmentSize
OBVIOUS

LEMMA OffsetOrder ==
    ASSUME NEW a \in Nat, NEW b \in Nat, a <= b
    PROVE  a * SegmentSize <= b * SegmentSize
OBVIOUS

\* What remains of a sequence without its i-th element.
LEMMA Removed ==
    ASSUME NEW T, NEW s \in Seq(T), NEW i \in DOMAIN s
    PROVE  /\ RemoveAt(s, i) \in Seq(T)
           /\ Len(RemoveAt(s, i)) = Len(s) - 1
           /\ i = 1 => RemoveAt(s, i) = Tail(s)
           /\ \A j \in DOMAIN RemoveAt(s, i) :
                /\ j \in DOMAIN s /\ j + 1 \in DOMAIN s
                /\ RemoveAt(s, i)[j] = s[IF j < i THEN j ELSE j + 1]
<1>1. PICK a \in Seq(T), b \in Seq(T) :
        /\ RemoveAt(s, i) = a \o b
        /\ Len(a) = i - 1 /\ \A q \in 1 .. (i - 1) : a[q] = s[q]
        /\ Len(b) = Len(s) - i /\ \A q \in 1 .. (Len(s) - i) : b[q] = s[i + q]
  <2>1. /\ SubSeq(s, 1, i - 1) \in Seq(T) /\ Len(SubSeq(s, 1, i - 1)) = i - 1
        /\ \A q \in 1 .. (i - 1) : SubSeq(s, 1, i - 1)[q] = s[q]
    OBVIOUS
  <2>2. /\ SubSeq(s, i + 1, Len(s)) \in Seq(T)
        /\ Len(SubSeq(s, i + 1, Len(s))) = Len(s) - i
        /\ \A q \in 1 .. (Len(s) - i) :
              SubSeq(s, i + 1, Len(s))[q] = s[i + q]
    OBVIOUS
  <2>3. QED
    BY <2>1, <2>2 DEF RemoveAt
<1>2. Len(a \o b) = Len(s) - 1 /\ a \o b \in Seq(T)
    BY <1>1
<1>3. i = 1 => RemoveAt(s, i) = Tail(s)
    BY DEF RemoveAt
<1>4. ASSUME NEW j \in DOMAIN (a \o b)
      PROVE  /\ j \in DOMAIN s /\ j + 1 \in DOMAIN s
             /\ (a \o b)[j] = s[IF j < i THEN j ELSE j + 1]
  <2>1. /\ DOMAIN s = 1 .. Len(s) /\ i \in 1 .. Len(s) /\ Len(s) \in Nat
        /\ j \in 1 .. (Len(s) - 1)
        /\ j \in DOMAIN s /\ j + 1 \in DOMAIN s
    BY <1>2
  <2>2. CASE j <= i - 1
    <3>1. (a \o b)[j] = s[j]
      BY <1>1, <2>1, <2>2
    <3>2. j < i
      BY <2>1, <2>2
    <3>3. QED
      BY <2>1, <3>1, <3>2
  <2>3. CASE j > i - 1
    <3>1. j - (i - 1) \in 1 .. (Len(s) - i)
      BY <2>1, <2>3
    <3>2. (a \o b)[j] = b[j - (i - 1)]
      BY <1>1, <2>1, <2>3
    <3>3. b[j - (i - 1)] = s[i + (j - (i - 1))]
      BY <1>1, <3>1
    <3>4. i + (j - (i - 1)) = j + 1 /\ ~(j < i)
      BY <2>1, <2>3
    <3>5. (a \o b)[j] = s[j + 1]
      BY <3>2, <3>3, <3>4
    <3>6. QED
      BY <2>1, <3>4, <3>5
  <2>4. QED
    BY <2>1, <2>2, <2>3
<1>5. QED
    BY <1>1, <1>2, <1>3, <1>4

-----------------------------------------------------------------------------
(* Type correctness.  What a writer has checked before it waits for d.write  *)
(* makes its message one of Messages.                                        *)

Ready ==
    \A w \in Writer : pc[w] # "idle" => /\ calls[w] \in 1 .. MaxMessages
                                        /\ size[w] \in Sizes
                                        /\ Fits(size[w])

LEMMA CurrentIsMessage ==
    ASSUME NEW w \in Writer, TypeOK, Ready, pc[w] # "idle"
    PROVE  Current(w) \in Messages
BY DEF TypeOK, Ready, Current, Messages

LEMMA PartIsPart ==
    ASSUME NEW m \in Messages \cup {Alien, Zero}, NEW c \in 0 .. MaxSegments
    PROVE  Part(m, c) \in Parts
BY DEF Part, Parts

LEMMA ByteRange ==
    ASSUME NEW r \in 0 .. MaxSegments
    PROVE  Byte(r) \in 0 .. MaxSegments /\ Byte(r) = r
BY DEF Byte

LEMMA ZeroedIsData ==
    ASSUME NEW s \in Seq(Parts)
    PROVE  Zeroed(s) \in Seq(Parts) /\ Len(Zeroed(s)) = Len(s)
<1>1. Part(Zero, 0) \in Parts
  <2>1. 0 \in 0 .. MaxSegments
    OBVIOUS
  <2>2. QED
    BY <2>1, PartIsPart
<1>2. QED
    BY <1>1 DEF Zeroed

LEMMA TypeInit == Init => TypeOK /\ Ready
<1>1. 0 \in 0 .. MaxSegments /\ 0 \in 0 .. MaxMessages /\ 0 \in 0 .. MaxForeign
    OBVIOUS
<1>2. Part(Zero, 0) \in Parts
    BY <1>1, PartIsPart
<1>3. \A T : <<>> \in Seq(T)
    OBVIOUS
<1>4. ASSUME Init PROVE Ready
    BY <1>4 DEF Init, Ready
<1>5. ASSUME Init PROVE TypeOK
    BY <1>1, <1>2, <1>3, <1>5 DEF Init, TypeOK
<1>6. QED
    BY <1>4, <1>5

LEMMA TypeSend ==
    ASSUME TypeOK, Ready, NEW w \in Writer, Send(w)
    PROVE  TypeOK' /\ Ready'
<1>1. CASE SendStart(w)
  <2>1. PICK s \in Sizes : Fits(s) /\ size' = [size EXCEPT ![w] = s]
    BY <1>1 DEF SendStart
  <2>2. calls' \in [Writer -> 0 .. MaxMessages] /\ calls'[w] \in 1 .. MaxMessages
    <3>1. /\ calls \in [Writer -> 0 .. MaxMessages]
          /\ calls[w] < MaxMessages /\ MaxMessages \in Nat
          /\ calls' = [calls EXCEPT ![w] = @ + 1]
      BY <1>1, ChannelAssumption DEF SendStart, TypeOK
    <3>2. calls[w] + 1 \in 1 .. MaxMessages
      BY <3>1
    <3>3. QED
      BY <3>1, <3>2
  <2>3. pc' \in [Writer -> {"idle", "lock", "segment"}]
    BY <1>1 DEF SendStart, TypeOK
  <2>4. TypeOK'
    BY <1>1, <2>1, <2>2, <2>3 DEF SendStart, TypeOK, wire, assembly, closing,
      reading
  <2>5. Ready'
    BY <1>1, <2>1, <2>2 DEF SendStart, Ready, TypeOK, Fits
  <2>6. QED
    BY <2>4, <2>5
<1>2. CASE SendNothing(w)
  <2>1. TypeOK'
    BY <1>2 DEF SendNothing, TypeOK, wire, assembly, closing, reading
  <2>2. Ready'
    BY <1>2 DEF SendNothing, TypeOK, Ready, Fits
  <2>3. QED
    BY <2>1, <2>2
<1>3. CASE SendLock(w)
  <2>1. Current(w) \in Messages
    BY <1>3, CurrentIsMessage DEF SendLock
  <2>2. sent' \in Seq(Messages)
    BY <1>3, <2>1 DEF SendLock, TypeOK
  <2>3. TotalSegments(size[w]) - 1 \in 0 .. MaxSegments
    <3>1. size[w] \in Nat /\ size[w] > 0
      <4>1. size[w] \in Sizes \cup {0} /\ size[w] # 0
        BY <1>3 DEF SendLock, TypeOK
      <4>2. \A x \in Sizes : x \in Nat
        BY ChannelAssumption
      <4>3. \A x \in Nat : x # 0 => x > 0
        OBVIOUS
      <4>4. size[w] \in Nat
        BY <4>1, <4>2
      <4>5. QED
        BY <4>1, <4>3, <4>4
    <3>2. TotalSegments(size[w]) \in Nat \ {0}
      BY <3>1, SegmentArithmetic
    <3>3. TotalSegments(size[w]) <= MaxSegments
      BY <1>3, <3>2 DEF SendLock, TooLarge
    <3>4. QED
      BY <3>2, <3>3
  <2>4. remaining' \in [Writer -> 0 .. MaxSegments]
    BY <1>3, <2>3 DEF SendLock, TypeOK
  <2>5. offset' \in [Writer -> Nat]
    BY <1>3 DEF SendLock, TypeOK
  <2>6. TypeOK'
    BY <1>3, <2>2, <2>4, <2>5 DEF SendLock, TypeOK, wire, assembly, closing,
      reading
  <2>7. Ready'
    BY <1>3 DEF SendLock, TypeOK, Ready, Fits
  <2>8. QED
    BY <2>6, <2>7
<1>4. CASE SendSegment(w)
  <2>1. Current(w) \in Messages
    BY <1>4, CurrentIsMessage DEF SendSegment
  <2>2. Part(Current(w), Byte(remaining[w])) \in Parts
    BY <2>1, ByteRange, PartIsPart DEF TypeOK
  <2>3. link' \in Seq(Parts)
    BY <1>4, <2>2 DEF SendSegment, TypeOK
  <2>4. offset' \in [Writer -> Nat]
    BY <1>4 DEF SendSegment, TypeOK
  <2>5. remaining' \in [Writer -> 0 .. MaxSegments]
    <3>1. remaining \in [Writer -> 0 .. MaxSegments]
      BY DEF TypeOK
    <3>2. /\ remaining[w] \in 0 .. MaxSegments
          /\ \A r \in 0 .. MaxSegments :
               (IF r = 0 THEN 0 ELSE r - 1) \in 0 .. MaxSegments
      BY <3>1
    <3>3. QED
      BY <1>4, <3>1, <3>2 DEF SendSegment
  <2>6. write' \in Writer \cup {NoWriter}
    BY <1>4 DEF SendSegment, TypeOK, Holder
  <2>7. pc' \in [Writer -> {"idle", "lock", "segment"}]
    BY <1>4 DEF SendSegment, TypeOK
  <2>8. TypeOK'
    BY <1>4, <2>3, <2>4, <2>5, <2>6, <2>7 DEF SendSegment, TypeOK, assembly,
      closing, reading
  <2>9. Ready'
    BY <1>4 DEF SendSegment, TypeOK, Ready, Fits
  <2>10. QED
    BY <2>8, <2>9
<1>5. CASE SendFail(w)
  <2>1. TypeOK'
    BY <1>5 DEF SendFail, TypeOK, wire, assembly, closing, reading
  <2>2. Ready'
    BY <1>5 DEF SendFail, TypeOK, Ready, Fits
  <2>3. QED
    BY <2>1, <2>2
<1>6. QED
    BY <1>1, <1>2, <1>3, <1>4, <1>5 DEF Send

LEMMA TypeWire ==
    ASSUME TypeOK, SenderDone \/ SenderStopped \/ Lose \/ SendForeign
    PROVE  TypeOK'
<1>1. CASE SenderDone
    BY <1>1 DEF SenderDone, TypeOK, wire, assembly, closing, reading
<1>2. CASE SenderStopped
    BY <1>2 DEF SenderStopped, TypeOK, sender, assembly, closing, reading
<1>3. CASE Lose
  <2>1. link \in Seq(Parts) /\ link # <<>>
    BY <1>3 DEF Lose, TypeOK
  <2>2. link' \in Seq(Parts)
    <3>1. CASE link' = <<>>
      BY <3>1
    <3>2. CASE link' = Tail(link)
      BY <2>1, <3>2
    <3>3. QED
      BY <1>3, <3>1, <3>2 DEF Lose
  <2>3. QED
    BY <1>3, <2>2 DEF Lose, TypeOK, sender, assembly, closing, reading
<1>4. CASE SendForeign
  <2>1. PICK c \in Foreign : link' = Append(link, Part(Alien, c))
    BY <1>4 DEF SendForeign
  <2>2. link' \in Seq(Parts)
    <3>1. Part(Alien, c) \in Parts
      BY <2>1, PartIsPart
    <3>2. QED
      BY <2>1, <3>1 DEF TypeOK
  <2>3. foreign' \in 0 .. MaxForeign
    BY <1>4 DEF SendForeign, TypeOK
  <2>4. QED
    BY <1>4, <2>2, <2>3 DEF SendForeign, TypeOK, sender, assembly, closing,
      reading
<1>5. QED
    BY <1>1, <1>2, <1>3, <1>4

LEMMA TypeHandler ==
    ASSUME TypeOK, HandlerStep \/ Take
    PROVE  TypeOK'
<1>1. CASE Handle
  <2>1. PICK i \in DOMAIN link : Arrives(i) /\ hand' = link[i]
    BY <1>1 DEF Handle
  <2>2. link' \in Seq(Parts)
    BY <2>1, Removed DEF Arrives, TypeOK
  <2>3. hand' \in Parts
    BY <2>1 DEF TypeOK
  <2>4. handler' \in {"idle", "lock"} /\ failed' \in BOOLEAN
    BY <1>1 DEF Handle, TypeOK
  <2>5. QED
    BY <1>1, <2>2, <2>3, <2>4 DEF Handle, TypeOK, sender, reading
<1>2. CASE Assemble
  <2>1. Append(data, hand) \in Seq(Parts) /\ hand.count \in 0 .. MaxSegments
    BY DEF TypeOK, Parts
  <2>2. data' \in Seq(Parts) /\ segments' \in 0 .. MaxSegments
    BY <1>2, <2>1 DEF Assemble, TypeOK
  <2>3. /\ handler' \in {"idle", "select"} /\ failed' \in BOOLEAN
        /\ messageMu' \in {"free", "handler"}
    BY <1>2 DEF Assemble, TypeOK
  <2>4. QED
    BY <1>2, <2>2, <2>3 DEF Assemble, TypeOK, sender, wire, reading
<1>3. ASSUME Meet, reader' \in {"idle", "waiting"}
      PROVE  TypeOK'
  <2>1. received' \in Seq(Seq(Parts))
    BY <1>3 DEF Meet, TypeOK
  <2>2. readBuf' \in Seq(Parts)
    BY <1>3 DEF Meet, TypeOK
  <2>3. QED
    BY <1>3, <2>1, <2>2 DEF Meet, TypeOK, sender, wire, closing
<1>4. CASE Deliver
    BY <1>3, <1>4 DEF Deliver
<1>5. CASE Take
    BY <1>3, <1>5 DEF Take, TypeOK
<1>6. CASE Reset
    BY <1>6 DEF Reset, TypeOK, sender, wire, closing, reading
<1>7. CASE Drop
    BY <1>7 DEF Drop, TypeOK, sender, wire, closing, reading
<1>8. QED
    BY <1>1, <1>2, <1>4, <1>5, <1>6, <1>7 DEF HandlerStep

LEMMA TypeReader ==
    ASSUME TypeOK, Receive \/ ReceiveFails \/ Read
    PROVE  TypeOK'
<1>1. CASE Receive
    BY <1>1 DEF Receive, TypeOK, sender, wire, assembly, closing
<1>2. CASE ReceiveFails
    BY <1>2 DEF ReceiveFails, TypeOK, sender, wire, assembly, closing
<1>3. CASE Read
  <2>1. PICK n \in Nat : /\ n <= Len(readBuf)
                         /\ consumed' = consumed \o SubSeq(readBuf, 1, n)
                         /\ readBuf' = SubSeq(readBuf, n + 1, Len(readBuf))
    <3>1. Len(readBuf) \in Nat /\ readBuf \in Seq(Parts)
      BY DEF TypeOK
    <3>2. (IF Buffer < Len(readBuf) THEN Buffer ELSE Len(readBuf)) \in Nat
          /\ (IF Buffer < Len(readBuf) THEN Buffer ELSE Len(readBuf))
                <= Len(readBuf)
      BY <3>1
    <3>3. QED
      BY <1>3, <3>2 DEF Read, Rest
  <2>2. readBuf' \in Seq(Parts) /\ consumed' \in Seq(Parts)
    BY <2>1 DEF TypeOK
  <2>3. QED
    BY <1>3, <2>2 DEF Read, TypeOK, sender, wire, assembly, closing
<1>4. QED
    BY <1>1, <1>2, <1>3

LEMMA TypeClose ==
    ASSUME TypeOK, ChannelFailed \/ CloseBegin \/ CloseStep
    PROVE  TypeOK'
<1>1. CASE ChannelFailed
    BY <1>1 DEF ChannelFailed, TypeOK, sender, wire, assembly, reading
<1>2. CASE CloseBegin
    BY <1>2 DEF CloseBegin, TypeOK, sender, wire, assembly, reading
<1>3. CASE CloseSignal
    BY <1>3 DEF CloseSignal, TypeOK, sender, wire, assembly, reading
<1>4. CASE CloseClear
  <2>1. data' \in Seq(Parts)
    BY <1>4, ZeroedIsData DEF CloseClear, TypeOK
  <2>2. received' \in Seq(Seq(Parts))
    <3>1. CASE handler = "reset" /\ received # <<>>
      <4>1. Zeroed(received[Len(received)]) \in Seq(Parts)
        BY <3>1, ZeroedIsData DEF TypeOK
      <4>2. received' = [received EXCEPT
                ![Len(received)] = Zeroed(received[Len(received)])]
        BY <1>4, <3>1 DEF CloseClear
      <4>3. QED
        BY <3>1, <4>1, <4>2 DEF TypeOK
    <3>2. CASE ~(handler = "reset" /\ received # <<>>)
      <4>1. received' = received
        <5>1. CASE handler # "reset"
          BY <1>4, <5>1 DEF CloseClear
        <5>2. CASE received = <<>>
          BY <1>4, <5>2 DEF CloseClear
        <5>3. QED
          BY <3>2, <5>1, <5>2
      <4>2. QED
        BY <4>1 DEF TypeOK
    <3>3. QED
      BY <3>1, <3>2
  <2>3. QED
    BY <1>4, <2>1, <2>2 DEF CloseClear, TypeOK, sender, wire, reading
<1>5. CASE CloseStop
    BY <1>5 DEF CloseStop, TypeOK, sender, assembly, reading
<1>6. QED
    BY <1>1, <1>2, <1>3, <1>4, <1>5 DEF CloseStep

LEMMA ReadyFrame ==
    ASSUME Ready, UNCHANGED <<reliable, pc, calls, size>>
    PROVE  Ready'
BY DEF Ready, Fits

LEMMA TypeStep ==
    ASSUME TypeOK, Ready, [Next]_vars
    PROVE  TypeOK' /\ Ready'
<1>1. CASE \E w \in Writer : Send(w)
    BY <1>1, TypeSend
<1>2. CASE SenderDone \/ SenderStopped \/ Lose \/ SendForeign
  <2>1. UNCHANGED <<reliable, pc, calls, size>>
    BY <1>2 DEF SenderDone, SenderStopped, Lose, SendForeign, sender
  <2>2. QED
    BY <1>2, <2>1, TypeWire, ReadyFrame
<1>3. CASE HandlerStep \/ ReaderStep
  <2>1. UNCHANGED <<reliable, pc, calls, size>>
    BY <1>3 DEF HandlerStep, ReaderStep, Handle, Assemble, Deliver, Take, Meet,
      Reset, Drop, Receive, ReceiveFails, Read, sender
  <2>2. QED
    BY <1>3, <2>1, TypeHandler, TypeReader, ReadyFrame DEF ReaderStep
<1>4. CASE ChannelFailed \/ CloseBegin \/ CloseStep
  <2>1. UNCHANGED <<reliable, pc, calls, size>>
    BY <1>4 DEF ChannelFailed, CloseBegin, CloseStep, CloseSignal, CloseClear,
      CloseStop, sender
  <2>2. QED
    BY <1>4, <2>1, TypeClose, ReadyFrame
<1>5. CASE UNCHANGED vars
    BY <1>5, ReadyFrame DEF TypeOK, vars, sender, wire, assembly, closing,
      reading
<1>6. QED
    BY <1>1, <1>2, <1>3, <1>4, <1>5 DEF Next

\* The channel's state keeps its types, the counts of segments stay within a
\* byte and only messages Send accepts are sent.
THEOREM TypeCorrect == Spec => []TypeOK
<1>1. Spec => [](TypeOK /\ Ready)
    BY TypeInit, TypeStep, PTL DEF Spec
<1>2. QED
    BY <1>1, PTL

-----------------------------------------------------------------------------
(* Segments count down, whoever sends them.  The buffer has to be known       *)
(* between two segments, and that nobody zeroes it while a reader has it.     *)

\* Who holds messageMu, and that conn.close has got past close(c.close).
LockInv ==
    /\ messageMu = "handler" <=> handler \in {"select", "reset"}
    /\ close # "open" \/ closed => rdone
    /\ close \in {"open", "channel"} \/ closed

\* What is in c.data as long as c.close is not closed.
CountInv ==
    ~closed =>
      /\ handler \in {"select", "reset"} => segments = 0
      /\ handler \in {"idle", "lock"} /\ segments = 0 => data = <<>>
      /\ \A j \in DOMAIN data : data[j].count = segments + Len(data) - j

CountdownInv == LockInv /\ CountInv /\ CountsDown

LEMMA CountdownInit == Init => CountdownInv
BY DEF Init, CountdownInv, LockInv, CountInv, CountsDown

LEMMA CountdownFrame ==
    ASSUME CountdownInv,
           UNCHANGED <<closing, messageMu, handler, segments, data, received>>
    PROVE  CountdownInv'
BY DEF CountdownInv, LockInv, CountInv, CountsDown, closing

\* A packet is taken out of c.packets before conn.close closes c.close.
LEMMA CountdownMeet ==
    ASSUME TypeOK, CountdownInv, handler = "select", ~closed, Meet
    PROVE  CountdownInv'
<1>1. LockInv'
    BY DEF CountdownInv, LockInv, Meet, closing
<1>2. CountInv'
    BY DEF CountdownInv, CountInv, Meet, closing
<1>3. \A j \in DOMAIN data : data[j].count = Len(data) - j
  <2>1. segments = 0
    BY DEF CountdownInv, CountInv
  <2>2. ASSUME NEW j \in DOMAIN data
        PROVE  data[j].count = Len(data) - j
    <3>1. j \in Nat /\ Len(data) \in Nat
      BY DEF TypeOK
    <3>2. data[j].count = 0 + Len(data) - j
      BY <2>1 DEF CountdownInv, CountInv
    <3>3. QED
      BY <3>1, <3>2
  <2>3. QED
    BY <2>2
<1>4. CountsDown'
  <2>1. received' = Append(received, data) /\ received \in Seq(Seq(Parts))
    BY DEF Meet, TypeOK
  <2>2. SUFFICES ASSUME NEW i \in DOMAIN received'
                 PROVE  \A j \in DOMAIN received'[i] :
                          received'[i][j].count = Len(received'[i]) - j
    BY DEF CountsDown
  <2>3. CASE i \in DOMAIN received
    <3>1. received'[i] = received[i]
      BY <2>1, <2>3
    <3>2. QED
      BY <2>3, <3>1 DEF CountdownInv, CountsDown
  <2>4. CASE i \notin DOMAIN received
    <3>1. received'[i] = data
      BY <2>1, <2>2, <2>4
    <3>2. QED
      BY <1>3, <3>1
  <2>5. QED
    BY <2>3, <2>4
<1>5. QED
    BY <1>1, <1>2, <1>4 DEF CountdownInv

LEMMA CountdownAssemble ==
    ASSUME TypeOK, CountdownInv, Assemble
    PROVE  CountdownInv'
<1>1. CASE ~Promised(hand.count)
    BY <1>1 DEF Assemble, CountdownInv, LockInv, CountInv, CountsDown
<1>2. CASE Promised(hand.count)
  <2>1. /\ segments' = hand.count /\ data' = Append(data, hand)
        /\ hand.count > 0 => handler' = "idle" /\ messageMu' = messageMu
        /\ hand.count = 0 => handler' = "select" /\ messageMu' = "handler"
        /\ UNCHANGED <<rdone, closed, close, received>>
    BY <1>2 DEF Assemble
  <2>2. hand.count \in Nat /\ segments \in Nat /\ Len(data) \in Nat
        /\ data \in Seq(Parts) /\ hand \in Parts
    BY DEF TypeOK, Parts
  <2>3. hand.count > 0 \/ hand.count = 0
    BY <2>2
  <2>4. LockInv'
    BY <2>1, <2>3 DEF Assemble, CountdownInv, LockInv
  <2>5. CountsDown'
    BY <2>1 DEF CountdownInv, CountsDown
  <2>6. ASSUME ~closed, NEW j \in DOMAIN data'
        PROVE  data'[j].count = segments' + Len(data') - j
    <3>1. Len(data') = Len(data) + 1 /\ j \in 1 .. (Len(data) + 1)
      BY <2>1, <2>2, <2>6
    <3>2. CASE j = Len(data) + 1
      <4>1. data'[j] = hand
        BY <2>1, <2>2, <3>2
      <4>2. QED
        BY <2>1, <2>2, <3>1, <3>2, <4>1
    <3>3. CASE j # Len(data) + 1
      <4>1. j \in DOMAIN data /\ data'[j] = data[j] /\ data # <<>>
        BY <2>1, <2>2, <3>1, <3>3
      <4>2. data[j].count = segments + Len(data) - j
        BY <2>6, <4>1 DEF CountdownInv, CountInv
      <4>3. segments # 0
        BY <2>6, <4>1 DEF CountdownInv, CountInv, Assemble
      <4>4. hand.count = segments - 1
        BY <1>2, <2>2, <4>3 DEF Promised
      <4>5. QED
        BY <2>1, <2>2, <3>1, <4>1, <4>2, <4>4
    <3>4. QED
      BY <3>2, <3>3
  <2>7. CountInv'
    BY <2>1, <2>2, <2>6 DEF CountInv
  <2>8. QED
    BY <2>4, <2>5, <2>7 DEF CountdownInv
<1>3. QED
    BY <1>1, <1>2

LEMMA CountdownClose ==
    ASSUME TypeOK, CountdownInv, CloseBegin \/ CloseStep
    PROVE  CountdownInv'
<1>1. CASE CloseBegin
    BY <1>1 DEF CloseBegin, CountdownInv, LockInv, CountInv, CountsDown, assembly
<1>2. CASE CloseSignal
  <2>1. rdone' = rdone /\ rdone /\ closed' = TRUE
    BY <1>2 DEF CloseSignal, closing, CountdownInv, LockInv
  <2>2. QED
    BY <1>2, <2>1 DEF CloseSignal, CountdownInv, LockInv, CountInv, CountsDown, assembly
<1>3. CASE CloseClear
    BY <1>3 DEF CloseClear, MayClear, CountdownInv, LockInv, CountInv, CountsDown
<1>4. CASE CloseStop
    BY <1>4 DEF CloseStop, CountdownInv, LockInv, CountInv, CountsDown, assembly
<1>5. QED
    BY <1>1, <1>2, <1>3, <1>4 DEF CloseStep

LEMMA CountdownStep ==
    ASSUME TypeOK, CountdownInv, [Next]_vars
    PROVE  CountdownInv'
<1>1. CASE \E w \in Writer : Send(w)
  <2>1. UNCHANGED <<closing, messageMu, handler, segments, data, received>>
    BY <1>1 DEF Send, SendStart, SendNothing, SendLock, SendSegment, SendFail,
      assembly
  <2>2. QED
    BY <2>1, CountdownFrame
<1>2. CASE SenderDone \/ SenderStopped \/ Lose \/ SendForeign
  <2>1. UNCHANGED <<closing, messageMu, handler, segments, data, received>>
    BY <1>2 DEF SenderDone, SenderStopped, Lose, SendForeign, assembly
  <2>2. QED
    BY <2>1, CountdownFrame
<1>3. CASE Handle
    BY <1>3 DEF Handle, CountdownInv, LockInv, CountInv, CountsDown
<1>4. CASE Assemble
    BY <1>4, CountdownAssemble
<1>5. CASE Deliver
  <2>1. ~closed
    BY <1>5 DEF Deliver, CountdownInv, LockInv
  <2>2. QED
    BY <1>5, <2>1, CountdownMeet DEF Deliver
<1>6. CASE Take
    BY <1>6, CountdownMeet DEF Take
<1>7. CASE Reset
    BY <1>7 DEF Reset, CountdownInv, LockInv, CountInv, CountsDown, closing
<1>8. CASE Drop
    BY <1>8 DEF Drop, CountdownInv, LockInv, CountInv, CountsDown, closing
<1>9. CASE Receive \/ ReceiveFails \/ Read
  <2>1. UNCHANGED <<closing, messageMu, handler, segments, data, received>>
    BY <1>9 DEF Receive, ReceiveFails, Read, assembly
  <2>2. QED
    BY <2>1, CountdownFrame
<1>10. CASE ChannelFailed
    BY <1>10 DEF ChannelFailed, CountdownInv, LockInv, CountInv, CountsDown,
      assembly
<1>11. CASE CloseBegin \/ CloseStep
    BY <1>11, CountdownClose
<1>12. CASE UNCHANGED vars
  <2>1. UNCHANGED <<closing, messageMu, handler, segments, data, received>>
    BY <1>12 DEF vars, assembly
  <2>2. QED
    BY <2>1, CountdownFrame
<1>13. QED
    BY <1>1, <1>2, <1>3, <1>4, <1>5, <1>6, <1>7, <1>8, <1>9, <1>10, <1>11, <1>12
    DEF Next, HandlerStep, ReaderStep

LEMMA CountdownAlways == Spec => []CountdownInv
<1>1. TypeOK /\ CountdownInv /\ [Next]_vars => CountdownInv'
    BY CountdownStep
<1>2. QED
    BY CountdownInit, TypeCorrect, <1>1, PTL DEF Spec

\* Whatever segments arrive, a packet that Receive returns is made of segments
\* whose counts go down to zero.
THEOREM SegmentsCountDown == Spec => []CountsDown
<1>1. CountdownInv => CountsDown
    BY DEF CountdownInv
<1>2. QED
    BY CountdownAlways, <1>1, PTL

-----------------------------------------------------------------------------
(* Packets are whole if the peer is this implementation as well.  Between     *)
(* d.write and c.packets every segment follows the one before it: the last    *)
(* one appended, the one handleMessage holds, those under way, and the next   *)
(* one of whoever holds d.write.                                              *)

Among(m) == \E j \in DOMAIN sent : sent[j] = m

\* What Send lets through.
Sendable(m) ==
    /\ m.size > 0
    /\ reliable \/ m.size <= SegmentSize

\* The offset and the count of the next segment agree.
Positioned(w) ==
    /\ remaining[w] < TotalSegments(size[w])
    /\ offset[w] = (TotalSegments(size[w]) - 1 - remaining[w]) * SegmentSize

\* Only the holder of d.write is between two segments.
SenderInv ==
    /\ \A w \in Writer : pc[w] = "segment" <=> write = w
    /\ \A w \in Writer : pc[w] = "segment" => Among(Current(w)) /\ Positioned(w)
    /\ \A j \in DOMAIN sent : Sendable(sent[j])

\* A part of a message that was sent.
Genuine(b) == Among(b.msg) /\ b.count < TotalSegments(b.msg.size)

GenuineInv ==
    /\ \A i \in DOMAIN link : Genuine(link[i])
    /\ handler = "lock" => Genuine(hand)

\* b can be the segment sent after a.
Follows(a, b) ==
    IF a.count = 0 THEN b.count = TotalSegments(b.msg.size) - 1
                   ELSE b = Part(a.msg, a.count - 1)

\* The last segment the receiver has appended, the last one it has taken off
\* the link, and the last one sent.
Appended == IF segments = 0 THEN Part(Zero, 0) ELSE data[Len(data)]
Taken == IF handler = "lock" THEN hand ELSE Appended
LastSent == IF link = <<>> THEN Taken ELSE link[Len(link)]

ChainInv ==
    ~closed =>
      /\ \A i \in 1 .. (Len(link) - 1) : Follows(link[i], link[i + 1])
      /\ link # <<>> => Follows(Taken, link[1])
      /\ handler = "lock" => Follows(Appended, hand)

HeadInv ==
    ~closed /\ up =>
      /\ write = NoWriter => LastSent.count = 0
      /\ \A w \in Writer :
           write = w => Follows(LastSent, Part(Current(w), remaining[w]))

\* The first segments of m, down to count c.
Prefix(m, c) ==
    [i \in 1 .. (TotalSegments(m.size) - c) |->
       Part(m, TotalSegments(m.size) - i)]

\* What has been appended is the beginning of a message that was sent.
AssemblyInv ==
    ~closed =>
      \/ data = <<>> /\ segments = 0 /\ handler \in {"idle", "lock"}
      \/ \E j \in DOMAIN sent :
           /\ segments < TotalSegments(sent[j].size)
           /\ segments = 0 <=> handler \in {"select", "reset"}
           /\ data = Prefix(sent[j], segments)

ChannelInv ==
    SenderInv /\ GenuineInv /\ ChainInv /\ HeadInv /\ AssemblyInv /\ PacketsWhole

LEMMA AmongIsMessage ==
    ASSUME TypeOK, NEW m, Among(m)
    PROVE  m \in Messages /\ m.size \in Nat /\ m # Alien
<1>1. m \in Messages
    BY DEF TypeOK, Among
<1>2. m.from \in Writer /\ m.size \in Sizes
    BY <1>1 DEF Messages
<1>3. Alien.from = NoWriter
    BY DEF Alien
<1>4. m # Alien
    BY <1>2, <1>3, ChannelAssumption
<1>5. \A x \in Sizes : x \in Nat
    BY ChannelAssumption
<1>6. QED
    BY <1>1, <1>2, <1>4, <1>5

LEMMA SentSize ==
    ASSUME TypeOK, SenderInv, NEW m, Among(m)
    PROVE  /\ m.size \in Nat /\ m.size > 0
           /\ TotalSegments(m.size) \in Nat \ {0}
           /\ PacketOf(m) = Prefix(m, 0)
<1>1. m.size \in Nat /\ m.size > 0
    BY AmongIsMessage DEF SenderInv, Among, Sendable
<1>2. /\ TotalSegments(m.size) \in Nat \ {0}
      /\ (m.size + SegmentSize - 1) \div SegmentSize = TotalSegments(m.size)
    BY <1>1, SegmentArithmetic
<1>3. QED
    BY <1>1, <1>2 DEF PacketOf, Prefix

LEMMA OneSegment ==
    ASSUME TypeOK, SenderInv, ~reliable, NEW m, Among(m)
    PROVE  TotalSegments(m.size) = 1
<1>1. m.size \in Nat /\ m.size > 0 /\ m.size <= SegmentSize
    BY SentSize DEF SenderInv, Among, Sendable
<1>2. TotalSegments(m.size) \in Nat \ {0}
      /\ (TotalSegments(m.size) - 1) * SegmentSize < m.size
    BY <1>1, SegmentArithmetic
<1>3. CASE TotalSegments(m.size) > 1
  <2>1. 1 * SegmentSize <= (TotalSegments(m.size) - 1) * SegmentSize
    BY <1>2, <1>3, OffsetOrder
  <2>2. (TotalSegments(m.size) - 1) * SegmentSize \in Int
    BY <1>2
  <2>3. QED
    BY <1>1, <1>2, <2>1, <2>2
<1>4. QED
    BY <1>2, <1>3

LEMMA PartIsWhole ==
    ASSUME NEW b \in Parts
    PROVE  b = Part(b.msg, b.count) /\ b.count \in Nat
BY DEF Parts, Part

\* On an unreliable channel a segment is a message of its own.
LEMMA GenuineOne ==
    ASSUME TypeOK, SenderInv, ~reliable, NEW b \in Parts, Genuine(b)
    PROVE  /\ b.count = 0
           /\ \A a : a.count = 0 => Follows(a, b)
<1>1. TotalSegments(b.msg.size) = 1 /\ b.count \in Nat
    BY OneSegment, PartIsWhole DEF Genuine
<1>2. QED
    BY <1>1 DEF Genuine, Follows

LEMMA ChannelInit == Init => ChannelInv
BY DEF Init, ChannelInv, SenderInv, GenuineInv, ChainInv, HeadInv, AssemblyInv,
  PacketsWhole, Appended, Taken, LastSent, Part

LEMMA ChannelFrame ==
    ASSUME ChannelInv,
           UNCHANGED <<reliable, write, pc, size, offset, remaining, calls,
                       sent, link, handler, hand, segments, data, received>>,
           closed' = closed \/ closed' = TRUE,
           up' => up
    PROVE  ChannelInv'
<1>1. /\ \A m : Among(m)' <=> Among(m)
      /\ \A w \in Writer : Current(w)' = Current(w)
    BY DEF Among, Current, ChannelInv
<1>2. \A w \in Writer : Positioned(w)' <=> Positioned(w)
    BY DEF Positioned
<1>3. SenderInv'
    BY <1>1, <1>2 DEF ChannelInv, SenderInv, Sendable
<1>4. GenuineInv'
    BY <1>1 DEF ChannelInv, GenuineInv, Genuine
<1>5. Taken' = Taken /\ Appended' = Appended /\ LastSent' = LastSent
    BY DEF Taken, Appended, LastSent
<1>6. ChainInv'
    BY <1>5 DEF ChannelInv, ChainInv
<1>7. HeadInv'
    BY <1>1, <1>5 DEF ChannelInv, HeadInv
<1>8. AssemblyInv'
    BY DEF ChannelInv, AssemblyInv
<1>9. PacketsWhole'
    BY DEF ChannelInv, PacketsWhole
<1>10. QED
    BY <1>3, <1>4, <1>6, <1>7, <1>8, <1>9 DEF ChannelInv

\* What the receiver knows does not depend on where the writers are.
LEMMA ReceiverFrame ==
    ASSUME TypeOK, ChannelInv,
           UNCHANGED <<up, handler, hand, segments, data, received, closed>>,
           \/ sent' = sent
           \/ \E m \in Messages : sent' = Append(sent, m)
    PROVE  /\ \A m : Among(m) => Among(m)'
           /\ Taken' = Taken /\ Appended' = Appended
           /\ handler' = "lock" => Genuine(hand)'
           /\ AssemblyInv' /\ PacketsWhole'
<1>1. /\ DOMAIN sent \subseteq DOMAIN sent'
      /\ \A j \in DOMAIN sent : sent'[j] = sent[j]
  <2>1. CASE sent' = sent
    BY <2>1
  <2>2. ASSUME NEW m \in Messages, sent' = Append(sent, m)
        PROVE  /\ DOMAIN sent \subseteq DOMAIN sent'
               /\ \A j \in DOMAIN sent : sent'[j] = sent[j]
    BY <2>2 DEF TypeOK
  <2>3. QED
    BY <2>1, <2>2
<1>2. \A m : Among(m) => Among(m)'
    BY <1>1 DEF Among
<1>3. Taken' = Taken /\ Appended' = Appended
    BY DEF Taken, Appended
<1>4. handler' = "lock" => Genuine(hand)'
    BY <1>2 DEF ChannelInv, GenuineInv, Genuine
<1>5. AssemblyInv'
    BY <1>1 DEF ChannelInv, AssemblyInv
<1>6. PacketsWhole'
    BY <1>1 DEF ChannelInv, PacketsWhole
<1>7. QED
    BY <1>2, <1>3, <1>4, <1>5, <1>6

LEMMA ChannelSendStart ==
    ASSUME TypeOK, ChannelInv, NEW w \in Writer,
           SendStart(w) \/ SendNothing(w)
    PROVE  ChannelInv'
<1>1. /\ UNCHANGED <<reliable, write, offset, remaining, sent, link, up,
                     handler, hand, segments, data, received, closed>>
      /\ pc[w] # "segment" /\ pc'[w] # "segment"
      /\ \A v \in Writer \ {w} : /\ pc'[v] = pc[v] /\ size'[v] = size[v]
                                 /\ calls'[v] = calls[v]
    BY DEF SendStart, SendNothing, TypeOK, wire, assembly, closing
<1>2. /\ \A m : Among(m) => Among(m)'
      /\ Taken' = Taken /\ Appended' = Appended
      /\ handler' = "lock" => Genuine(hand)'
      /\ AssemblyInv' /\ PacketsWhole'
    BY <1>1, ReceiverFrame
<1>3. \A v \in Writer \ {w} :
        Current(v)' = Current(v) /\ (Positioned(v)' <=> Positioned(v))
    BY <1>1 DEF Current, Positioned
<1>4. SenderInv'
    BY <1>1, <1>2, <1>3 DEF ChannelInv, SenderInv, Sendable
<1>5. GenuineInv'
    BY <1>1, <1>2 DEF ChannelInv, GenuineInv, Genuine
<1>6. LastSent' = LastSent
    BY <1>1, <1>2 DEF LastSent
<1>7. ChainInv'
    BY <1>1, <1>2 DEF ChannelInv, ChainInv
<1>8. HeadInv'
    BY <1>1, <1>3, <1>6 DEF ChannelInv, HeadInv, SenderInv
<1>9. QED
    BY <1>2, <1>4, <1>5, <1>7, <1>8 DEF ChannelInv

LEMMA ChannelSendLock ==
    ASSUME TypeOK, Ready, ChannelInv, NEW w \in Writer, SendLock(w)
    PROVE  ChannelInv'
<1>1. /\ UNCHANGED <<reliable, size, calls, link, up, handler, hand,
                     segments, data, received, closed>>
      /\ write = NoWriter /\ write' = w
      /\ pc' = [pc EXCEPT ![w] = "segment"] /\ sent' = Append(sent, Current(w))
    BY DEF SendLock, wire, assembly, closing
<1>2. Current(w) \in Messages
    BY CurrentIsMessage DEF SendLock
<1>3. /\ \A m : Among(m) => Among(m)'
      /\ Taken' = Taken /\ Appended' = Appended
      /\ handler' = "lock" => Genuine(hand)'
      /\ AssemblyInv' /\ PacketsWhole'
    BY <1>1, <1>2, ReceiverFrame
<1>4. \A v \in Writer : Current(v)' = Current(v)
    BY <1>1 DEF Current
<1>5. size[w] \in Nat /\ size[w] > 0 /\ TotalSegments(size[w]) \in Nat \ {0}
  <2>1. size[w] \in Sizes /\ size[w] # 0
    BY DEF SendLock, Ready
  <2>2. \A x \in Sizes : x \in Nat
    BY ChannelAssumption
  <2>3. size[w] \in Nat
    BY <2>1, <2>2
  <2>4. size[w] > 0
    BY <2>1, <2>3
  <2>5. QED
    BY <2>3, <2>4, SegmentArithmetic
<1>6. remaining'[w] = TotalSegments(size[w]) - 1 /\ offset'[w] = 0
    BY DEF SendLock, TypeOK
<1>7. Positioned(w)'
    BY <1>1, <1>5, <1>6 DEF Positioned
<1>8. Among(Current(w))'
  <2>1. Len(sent) + 1 \in DOMAIN sent' /\ sent'[Len(sent) + 1] = Current(w)
    BY <1>1 DEF TypeOK
  <2>2. QED
    BY <1>4, <2>1 DEF Among
<1>9. \A v \in Writer : pc'[v] = "segment" <=> v = w
    BY <1>1, ChannelAssumption DEF ChannelInv, SenderInv, TypeOK
<1>10. \A j \in DOMAIN sent' : Sendable(sent'[j])
  <2>1. Sendable(Current(w))
    BY <1>5 DEF Sendable, Current, Ready, SendLock, Fits
  <2>2. \A j \in DOMAIN sent' : sent'[j] = Current(w)
                                \/ (j \in DOMAIN sent /\ sent'[j] = sent[j])
    BY <1>1 DEF TypeOK
  <2>3. QED
    BY <2>1, <2>2 DEF ChannelInv, SenderInv
<1>11. SenderInv'
    BY <1>1, <1>7, <1>8, <1>9, <1>10 DEF SenderInv, Sendable
<1>12. GenuineInv'
    BY <1>1, <1>3 DEF ChannelInv, GenuineInv, Genuine
<1>13. LastSent' = LastSent
    BY <1>1, <1>3 DEF LastSent
<1>14. ChainInv'
    BY <1>1, <1>3 DEF ChannelInv, ChainInv
<1>15. HeadInv'
  <2>1. SUFFICES ASSUME ~closed, up
                 PROVE  Follows(LastSent, Part(Current(w), remaining'[w]))
    BY <1>1, <1>4, <1>13, ChannelAssumption DEF HeadInv
  <2>2. LastSent.count = 0
    BY <1>1, <2>1 DEF ChannelInv, HeadInv
  <2>3. QED
    BY <1>6, <2>2 DEF Follows, Part, Current
<1>16. QED
    BY <1>3, <1>11, <1>12, <1>14, <1>15 DEF ChannelInv

LEMMA ChannelSendFail ==
    ASSUME TypeOK, ChannelInv, NEW w \in Writer, SendFail(w)
    PROVE  ChannelInv'
<1>1. /\ UNCHANGED <<reliable, size, offset, remaining, calls, sent, link,
                     up, handler, hand, segments, data, received, closed>>
      /\ ~up /\ pc[w] = "segment" /\ write' = NoWriter
      /\ pc' = [pc EXCEPT ![w] = "idle"]
    BY DEF SendFail, wire, assembly, closing
<1>2. /\ \A m : Among(m) => Among(m)'
      /\ Taken' = Taken /\ Appended' = Appended
      /\ handler' = "lock" => Genuine(hand)'
      /\ AssemblyInv' /\ PacketsWhole'
    BY <1>1, ReceiverFrame
<1>3. \A v \in Writer : pc'[v] # "segment" /\ v # NoWriter
    BY <1>1, ChannelAssumption DEF ChannelInv, SenderInv, TypeOK
<1>4. SenderInv'
    BY <1>1, <1>3 DEF ChannelInv, SenderInv, Sendable
<1>5. GenuineInv'
    BY <1>1, <1>2 DEF ChannelInv, GenuineInv, Genuine
<1>6. ChainInv'
    BY <1>1, <1>2 DEF ChannelInv, ChainInv
<1>7. HeadInv'
    BY <1>1 DEF HeadInv
<1>8. QED
    BY <1>2, <1>4, <1>5, <1>6, <1>7 DEF ChannelInv

LEMMA ChannelSendSegment ==
    ASSUME TypeOK, Ready, ChannelInv, NEW w \in Writer, SendSegment(w)
    PROVE  ChannelInv'
<1> DEFINE m == Current(w)
           T == TotalSegments(size[w])
           r == remaining[w]
           b == Part(m, r)
<1>1. /\ UNCHANGED <<reliable, size, calls, sent, up, handler, hand,
                     segments, data, received, closed>>
      /\ pc[w] = "segment" /\ up
      /\ offset' = [offset EXCEPT ![w] = @ + SegmentSize]
      /\ remaining' = [remaining EXCEPT ![w] = IF @ = 0 THEN 0 ELSE @ - 1]
      /\ write' = IF offset'[w] < size[w] THEN w ELSE NoWriter
      /\ pc' = [pc EXCEPT ![w] = IF offset'[w] < size[w] THEN @ ELSE "idle"]
    BY DEF SendSegment, assembly, closing, Holder
<1>2. /\ \A k : Among(k) => Among(k)'
      /\ Taken' = Taken /\ Appended' = Appended
      /\ handler' = "lock" => Genuine(hand)'
      /\ AssemblyInv' /\ PacketsWhole'
    BY <1>1, ReceiverFrame
<1>3. \A v \in Writer : Current(v)' = Current(v)
    BY <1>1 DEF Current
<1>4. /\ m \in Messages /\ Among(m) /\ m.size = size[w]
      /\ r < T /\ offset[w] = (T - 1 - r) * SegmentSize
      /\ r \in 0 .. MaxSegments
    BY <1>1, CurrentIsMessage DEF ChannelInv, SenderInv, Positioned, Current,
      TypeOK
<1>5. /\ size[w] \in Nat /\ T \in Nat \ {0}
      /\ (T - 1) * SegmentSize < size[w]
      /\ size[w] <= (T - 1) * SegmentSize + SegmentSize
    BY <1>4, SentSize, SegmentArithmetic DEF ChannelInv
<1>6. /\ link' = Append(link, b) /\ b \in Parts /\ link \in Seq(Parts)
    BY <1>4, ByteRange, PartIsPart DEF SendSegment, TypeOK
<1>7. write = w
    BY <1>1 DEF ChannelInv, SenderInv
<1>8. offset'[w] = (T - r) * SegmentSize
  <2>1. offset'[w] = offset[w] + SegmentSize
    BY <1>1 DEF TypeOK
  <2>2. T - 1 - r \in Nat /\ (T - 1 - r) + 1 = T - r
    BY <1>4, <1>5
  <2>3. ((T - 1 - r) + 1) * SegmentSize = (T - 1 - r) * SegmentSize + SegmentSize
    BY <2>2, NextOffset
  <2>4. QED
    BY <1>4, <2>1, <2>2, <2>3
<1>9. offset'[w] < size[w] <=> r # 0
  <2>1. CASE r = 0
    <3>1. (T - 1) + 1 = T /\ T - 1 \in Nat
      BY <1>5
    <3>2. offset'[w] = (T - 1) * SegmentSize + SegmentSize
      BY <1>5, <1>8, <2>1, <3>1, NextOffset
    <3>3. (T - 1) * SegmentSize \in Nat
      BY <3>1
    <3>4. QED
      BY <1>5, <2>1, <3>2, <3>3
  <2>2. CASE r # 0
    <3>1. T - r \in Nat /\ T - 1 \in Nat /\ T - r <= T - 1
      BY <1>4, <1>5, <2>2
    <3>2. (T - r) * SegmentSize <= (T - 1) * SegmentSize
      BY <3>1, OffsetOrder
    <3>3. (T - r) * SegmentSize \in Int /\ (T - 1) * SegmentSize \in Int
      BY <3>1
    <3>4. QED
      BY <1>5, <1>8, <2>2, <3>2, <3>3
  <2>3. QED
    BY <2>1, <2>2
<1>10. Genuine(b)
    BY <1>4 DEF Genuine, Part
<1>11. LastSent' = b
    BY <1>6 DEF LastSent
<1>12. /\ r # 0 => remaining'[w] = r - 1 /\ write' = w /\ pc' = pc
       /\ r = 0 => write' = NoWriter /\ pc' = [pc EXCEPT ![w] = "idle"]
    BY <1>1, <1>4, <1>9 DEF TypeOK
<1>13. SenderInv'
  <2>1. \A v \in Writer : pc'[v] = "segment" <=> write' = v
    BY <1>7, <1>12, ChannelAssumption DEF ChannelInv, SenderInv, TypeOK
  <2>2. \A v \in Writer : pc'[v] = "segment" => v = w /\ r # 0
    BY <1>7, <1>12, ChannelAssumption DEF ChannelInv, SenderInv, TypeOK
  <2>3. ASSUME r # 0 PROVE Positioned(w)'
    <3>1. T - 1 - (r - 1) = T - r /\ r - 1 < T
      BY <1>4, <1>5
    <3>2. QED
      BY <1>1, <1>8, <1>12, <2>3, <3>1 DEF Positioned
  <2>4. Among(Current(w))'
    BY <1>2, <1>3, <1>4
  <2>5. \A j \in DOMAIN sent' : Sendable(sent'[j])
    BY <1>1 DEF ChannelInv, SenderInv
  <2>6. QED
    BY <1>1, <2>1, <2>2, <2>3, <2>4, <2>5 DEF SenderInv, Sendable
<1>14. GenuineInv'
  <2>1. \A a : Genuine(a) => Genuine(a)'
    BY <1>2 DEF Genuine
  <2>2. ASSUME NEW i \in DOMAIN link' PROVE Genuine(link'[i])
    <3>1. CASE i \in DOMAIN link
      BY <1>6, <3>1 DEF ChannelInv, GenuineInv
    <3>2. CASE i \notin DOMAIN link
      BY <1>6, <1>10, <2>2, <3>2
    <3>3. QED
      BY <3>1, <3>2
  <2>3. QED
    BY <1>2, <2>1, <2>2 DEF GenuineInv
<1>15. ASSUME ~closed PROVE Follows(LastSent, b)
    BY <1>1, <1>7, <1>15 DEF ChannelInv, HeadInv
<1>16. ChainInv'
  <2>1. SUFFICES ASSUME ~closed
                 PROVE  /\ \A i \in 1 .. (Len(link') - 1) :
                             Follows(link'[i], link'[i + 1])
                        /\ Follows(Taken, link'[1])
                        /\ handler = "lock" => Follows(Appended, hand)
    BY <1>1, <1>2 DEF ChainInv
  <2>2. handler = "lock" => Follows(Appended, hand)
    BY <2>1 DEF ChannelInv, ChainInv
  <2>3. Follows(Taken, link'[1])
    <3>1. CASE link = <<>>
      BY <1>6, <1>15, <2>1, <3>1 DEF LastSent
    <3>2. CASE link # <<>>
      BY <1>6, <2>1, <3>2 DEF ChannelInv, ChainInv
    <3>3. QED
      BY <3>1, <3>2
  <2>4. ASSUME NEW i \in 1 .. (Len(link') - 1)
        PROVE  Follows(link'[i], link'[i + 1])
    <3>1. i \in 1 .. Len(link) /\ link'[i] = link[i] /\ Len(link) \in Nat
      BY <1>6, <2>4
    <3>2. CASE i = Len(link)
      <4>1. link'[i + 1] = b /\ LastSent = link[i]
        BY <1>6, <3>1, <3>2 DEF LastSent
      <4>2. QED
        BY <1>15, <2>1, <3>1, <4>1
    <3>3. CASE i # Len(link)
      <4>1. i \in 1 .. (Len(link) - 1) /\ link'[i + 1] = link[i + 1]
        BY <1>6, <3>1, <3>3
      <4>2. QED
        BY <2>1, <3>1, <4>1 DEF ChannelInv, ChainInv
    <3>4. QED
      BY <3>2, <3>3
  <2>5. QED
    BY <2>2, <2>3, <2>4
<1>17. HeadInv'
  <2>1. write' = NoWriter => b.count = 0
    BY <1>12, ChannelAssumption DEF Part
  <2>2. ASSUME NEW v \in Writer, write' = v
        PROVE  Follows(b, Part(Current(v)', remaining'[v]))
    <3>1. v = w /\ r # 0
      BY <1>12, <2>2, ChannelAssumption
    <3>2. QED
      BY <1>3, <1>12, <3>1 DEF Follows, Part
  <2>3. QED
    BY <1>11, <2>1, <2>2 DEF HeadInv
<1>18. QED
    BY <1>2, <1>13, <1>14, <1>16, <1>17 DEF ChannelInv

\* Nothing is between two segments of a message on an unreliable channel.
SingleInv == ~reliable /\ ~closed => segments = 0

LEMMA UnreliableWire ==
    ~reliable /\ TypeOK /\ SenderInv /\ GenuineInv /\ SingleInv
      => ChainInv /\ HeadInv
<1> SUFFICES ASSUME ~reliable, TypeOK, SenderInv, GenuineInv, SingleInv
             PROVE  ChainInv /\ HeadInv
    OBVIOUS
<1>1. ~closed => Appended.count = 0
    BY DEF Appended, Part, SingleInv
<1>2. handler = "lock" =>
        hand.count = 0 /\ \A a : a.count = 0 => Follows(a, hand)
    BY GenuineOne DEF GenuineInv, TypeOK
<1>3. ~closed => Taken.count = 0
    BY <1>1, <1>2 DEF Taken
<1>4. \A i \in DOMAIN link :
        link[i].count = 0 /\ \A a : a.count = 0 => Follows(a, link[i])
    BY GenuineOne DEF GenuineInv, TypeOK
<1>5. ~closed => LastSent.count = 0
    BY <1>3, <1>4 DEF LastSent, TypeOK
<1>6. ChainInv
  <2>1. \A i \in 1 .. (Len(link) - 1) : i \in DOMAIN link /\ i + 1 \in DOMAIN link
    BY DEF TypeOK
  <2>2. link # <<>> => 1 \in DOMAIN link
    BY DEF TypeOK
  <2>3. QED
    BY <1>1, <1>2, <1>3, <1>4, <2>1, <2>2 DEF ChainInv
<1>7. HeadInv
  <2>1. ASSUME NEW w \in Writer, write = w
        PROVE  \A a : a.count = 0 => Follows(a, Part(Current(w), remaining[w]))
    <3>1. Among(Current(w)) /\ Positioned(w)
      BY <2>1 DEF SenderInv
    <3>2. Current(w).size = size[w]
      BY DEF Current
    <3>3. TotalSegments(size[w]) = 1
      BY <3>1, <3>2, OneSegment
    <3>4. remaining[w] = 0
      BY <3>1, <3>3 DEF Positioned, TypeOK
    <3>5. QED
      BY <3>2, <3>3, <3>4 DEF Follows, Part
  <2>2. QED
    BY <1>5, <2>1 DEF HeadInv
<1>8. QED
    BY <1>6, <1>7

LEMMA UnreliableWireNext ==
    (~reliable /\ TypeOK /\ SenderInv /\ GenuineInv /\ SingleInv
      => ChainInv /\ HeadInv)'
BY UnreliableWire, PTL

LEMMA Single ==
    ASSUME TypeOK, ChannelInv
    PROVE  SingleInv
<1>1. SUFFICES ASSUME ~reliable, ~closed PROVE segments = 0
    BY DEF SingleInv
<1>2. ASSUME NEW j \in DOMAIN sent, segments < TotalSegments(sent[j].size)
      PROVE  segments = 0
  <2>1. TotalSegments(sent[j].size) = 1
    BY <1>1, OneSegment DEF ChannelInv, Among
  <2>2. QED
    BY <1>2, <2>1 DEF TypeOK
<1>3. QED
    BY <1>1, <1>2 DEF ChannelInv, AssemblyInv

\* The receiver's steps do not touch the writers.
LEMMA SenderFrame ==
    ASSUME ChannelInv,
           UNCHANGED <<reliable, write, pc, size, offset, remaining, calls,
                       sent>>
    PROVE  /\ SenderInv'
           /\ \A m : Among(m)' <=> Among(m)
           /\ \A b : Genuine(b)' <=> Genuine(b)
           /\ \A w \in Writer : Current(w)' = Current(w)
<1>1. /\ \A m : Among(m)' <=> Among(m)
      /\ \A w \in Writer : Current(w)' = Current(w)
    BY DEF Among, Current
<1>2. \A w \in Writer : Positioned(w)' <=> Positioned(w)
    BY DEF Positioned
<1>3. \A b : Genuine(b)' <=> Genuine(b)
    BY <1>1 DEF Genuine
<1>4. SenderInv'
    BY <1>1, <1>2 DEF ChannelInv, SenderInv, Sendable
<1>5. QED
    BY <1>1, <1>3, <1>4

LEMMA ChannelLose ==
    ASSUME TypeOK, TypeOK', ChannelInv, Lose
    PROVE  ChannelInv'
<1>1. /\ UNCHANGED <<reliable, write, pc, size, offset, remaining, calls,
                     sent, up, handler, hand, segments, data, received,
                     closed>>
      /\ link # <<>>
      /\ (~up /\ link' = <<>>) \/ (~reliable /\ link' = Tail(link))
    BY DEF Lose, sender, assembly, closing
<1>2. /\ SenderInv'
      /\ \A b : Genuine(b)' <=> Genuine(b)
    BY <1>1, SenderFrame
<1>3. GenuineInv'
  <2>1. ASSUME NEW i \in DOMAIN link'
        PROVE  \E k \in DOMAIN link : link'[i] = link[k]
    <3>1. link' = Tail(link) /\ link \in Seq(Parts)
      BY <1>1, <2>1 DEF TypeOK
    <3>2. i + 1 \in DOMAIN link /\ link'[i] = link[i + 1]
      BY <1>1, <2>1, <3>1
    <3>3. QED
      BY <3>2
  <2>2. QED
    BY <1>1, <1>2, <2>1 DEF ChannelInv, GenuineInv
<1>4. ChainInv' /\ HeadInv'
  <2>1. CASE link' = <<>> /\ ~up
    <3>1. Appended' = Appended
      BY <1>1 DEF Appended
    <3>2. HeadInv'
      BY <1>1, <2>1 DEF HeadInv
    <3>3. \A i \in 1 .. (Len(link') - 1) : FALSE
      BY <2>1
    <3>4. ChainInv'
      BY <1>1, <2>1, <3>1, <3>3 DEF ChannelInv, ChainInv
    <3>5. QED
      BY <3>2, <3>4
  <2>2. CASE ~reliable
    <3>1. SingleInv'
      BY <1>1, Single DEF SingleInv
    <3>2. QED
      BY <1>1, <1>2, <1>3, <2>2, <3>1, UnreliableWireNext
  <2>3. QED
    BY <1>1, <2>1, <2>2
<1>5. AssemblyInv' /\ PacketsWhole'
    BY <1>1 DEF ChannelInv, AssemblyInv, PacketsWhole
<1>6. QED
    BY <1>2, <1>3, <1>4, <1>5 DEF ChannelInv

\* One segment is taken off the link, the first one if the channel is reliable.
LEMMA HandleTakes ==
    ASSUME TypeOK, TypeOK', ChannelInv, Handle
    PROVE  /\ UNCHANGED <<reliable, write, pc, size, offset, remaining, calls,
                          sent, up, segments, data, received, closed>>
           /\ handler = "idle"
           /\ ~closed => handler' = "lock"
           /\ handler' = "idle" \/ handler' = "lock"
           /\ Len(link') = Len(link) - 1
           /\ \E i \in DOMAIN link :
                /\ hand' = link[i]
                /\ reliable => i = 1 /\ link' = Tail(link)
                /\ \A j \in DOMAIN link' :
                     /\ j \in DOMAIN link /\ j + 1 \in DOMAIN link
                     /\ link'[j] = link[IF j < i THEN j ELSE j + 1]
<1>1. PICK i \in DOMAIN link : Arrives(i) /\ hand' = link[i]
    BY DEF Handle
<1>2. /\ UNCHANGED <<reliable, write, pc, size, offset, remaining, calls,
                     sent, up, segments, data, received, closed>>
      /\ handler = "idle"
      /\ handler' = "idle" \/ handler' = "lock"
    BY DEF Handle, sender
<1>3. link \in Seq(Parts) /\ link' = RemoveAt(link, i)
    BY <1>1 DEF Arrives, TypeOK
<1>4. /\ Len(RemoveAt(link, i)) = Len(link) - 1
      /\ i = 1 => RemoveAt(link, i) = Tail(link)
      /\ \A j \in DOMAIN RemoveAt(link, i) :
           /\ j \in DOMAIN link /\ j + 1 \in DOMAIN link
           /\ RemoveAt(link, i)[j] = link[IF j < i THEN j ELSE j + 1]
    BY <1>3, Removed
<1>5. Genuine(hand')
    BY <1>1 DEF ChannelInv, GenuineInv
<1>6. ASSUME ~closed PROVE handler' = "lock"
  <2>1. hand'.msg # Alien
    BY <1>5, AmongIsMessage DEF Genuine
  <2>2. ~reliable => hand'.count = 0
    BY <1>5, GenuineOne DEF ChannelInv, TypeOK
  <2>3. hand' \in Parts
    BY DEF TypeOK
  <2>4. CASE handler' # "lock"
    <3>1. PICK k \in DOMAIN link :
            hand' = link[k] /\ (link[k].msg = Alien
                                \/ (~reliable /\ link[k].count > 0))
      BY <1>6, <2>4 DEF Handle
    <3>2. QED
      BY <2>1, <2>2, <3>1
  <2>5. QED
    BY <2>4
<1>7. QED
    BY <1>1, <1>2, <1>3, <1>4, <1>6 DEF Arrives

LEMMA ChannelHandle ==
    ASSUME TypeOK, TypeOK', ChannelInv, Handle
    PROVE  ChannelInv'
<1>1. PICK i \in DOMAIN link :
        /\ hand' = link[i]
        /\ reliable => i = 1 /\ link' = Tail(link)
        /\ \A j \in DOMAIN link' :
             /\ j \in DOMAIN link /\ j + 1 \in DOMAIN link
             /\ link'[j] = link[IF j < i THEN j ELSE j + 1]
    BY HandleTakes
<1>2. /\ UNCHANGED <<reliable, write, pc, size, offset, remaining, calls,
                     sent, up, segments, data, received, closed>>
      /\ handler = "idle"
    BY HandleTakes
<1>3. /\ SenderInv'
      /\ \A b : Genuine(b)' <=> Genuine(b)
      /\ \A w \in Writer : Current(w)' = Current(w)
    BY <1>2, SenderFrame
<1>4. /\ link \in Seq(Parts)
      /\ Len(link') = Len(link) - 1
      /\ \A j \in DOMAIN link' : \E k \in DOMAIN link : link'[j] = link[k]
    BY <1>1, HandleTakes DEF TypeOK
<1>5. Genuine(hand')
    BY <1>1 DEF ChannelInv, GenuineInv
<1>6. GenuineInv'
    BY <1>3, <1>4, <1>5 DEF ChannelInv, GenuineInv
<1>7. ASSUME ~closed PROVE handler' = "lock"
    BY <1>7, HandleTakes
<1>8. AssemblyInv' /\ PacketsWhole'
  <2>1. AssemblyInv'
    BY <1>2, <1>7 DEF ChannelInv, AssemblyInv
  <2>2. QED
    BY <1>2, <2>1 DEF ChannelInv, PacketsWhole
<1>9. ChainInv' /\ HeadInv'
  <2>1. CASE ~reliable
    <3>1. SingleInv'
      BY <1>2, Single DEF SingleInv
    <3>2. QED
      BY <1>2, <1>3, <1>6, <2>1, <3>1, UnreliableWireNext
  <2>2. CASE closed
    BY <1>2, <2>2 DEF ChainInv, HeadInv
  <2>3. CASE reliable /\ ~closed
    <3>1. /\ link' = Tail(link) /\ hand' = link[1] /\ link # <<>>
          /\ Len(link) \in Nat
      BY <1>1, <1>4, <2>3
    <3>2. /\ Appended' = Appended /\ Taken = Appended
          /\ Taken' = link[1]
      BY <1>2, <1>7, <2>3, <3>1 DEF Appended, Taken
    <3>3. \A k \in 1 .. Len(link') :
            link'[k] = link[k + 1] /\ k \in 1 .. (Len(link) - 1)
      BY <1>4, <3>1
    <3>4. \A k \in 1 .. (Len(link') - 1) : Follows(link'[k], link'[k + 1])
      <4>1. SUFFICES ASSUME NEW k \in 1 .. (Len(link') - 1)
                     PROVE  Follows(link'[k], link'[k + 1])
        OBVIOUS
      <4>2. /\ k \in 1 .. Len(link') /\ k + 1 \in 1 .. Len(link')
            /\ k + 1 \in 1 .. (Len(link) - 1)
        BY <1>4, <3>1
      <4>3. Follows(link[k + 1], link[(k + 1) + 1])
        BY <2>3, <4>2 DEF ChannelInv, ChainInv
      <4>4. QED
        BY <3>3, <4>2, <4>3
    <3>5. ASSUME link' # <<>> PROVE Follows(link[1], link'[1])
      <4>1. 1 \in 1 .. (Len(link) - 1) /\ link'[1] = link[1 + 1]
        BY <1>4, <3>1, <3>5
      <4>2. QED
        BY <2>3, <4>1 DEF ChannelInv, ChainInv
    <3>6. Follows(Appended, link[1])
      BY <2>3, <3>1, <3>2 DEF ChannelInv, ChainInv
    <3>7. ChainInv'
      BY <3>1, <3>2, <3>4, <3>5, <3>6 DEF ChainInv
    <3>8. LastSent' = LastSent
      <4>1. CASE link' = <<>>
        <5>1. Len(link) = 1
          <6>1. Len(link') = 0
            BY <4>1
          <6>2. QED
            BY <1>4, <3>1, <6>1
        <5>2. QED
          BY <3>1, <3>2, <4>1, <5>1 DEF LastSent
      <4>2. CASE link' # <<>>
        <5>1. Len(link') \in 1 .. Len(link') /\ Len(link') + 1 = Len(link)
          BY <1>4, <3>1, <4>2
        <5>2. link'[Len(link')] = link[Len(link)]
          BY <3>3, <5>1
        <5>3. QED
          BY <3>1, <4>2, <5>2 DEF LastSent
      <4>3. QED
        BY <4>1, <4>2
    <3>9. HeadInv'
      BY <1>2, <1>3, <3>8 DEF ChannelInv, HeadInv
    <3>10. QED
      BY <3>7, <3>9
  <2>4. QED
    BY <2>1, <2>2, <2>3
<1>10. QED
    BY <1>3, <1>6, <1>8, <1>9 DEF ChannelInv

LEMMA ChannelAssemble ==
    ASSUME TypeOK, ChannelInv, Assemble
    PROVE  ChannelInv'
<1>1. /\ UNCHANGED <<reliable, write, pc, size, offset, remaining, calls,
                     sent, link, up, hand, received, closed>>
      /\ handler = "lock" /\ handler' # "lock"
    BY DEF Assemble, sender, wire
<1>2. /\ SenderInv'
      /\ \A b : Genuine(b)' <=> Genuine(b)
      /\ \A w \in Writer : Current(w)' = Current(w)
    BY <1>1, SenderFrame
<1>3. GenuineInv' /\ PacketsWhole'
    BY <1>1, <1>2 DEF ChannelInv, GenuineInv, PacketsWhole
<1>4. CASE closed
    BY <1>1, <1>2, <1>3, <1>4 DEF ChannelInv, ChainInv, HeadInv, AssemblyInv
<1>5. CASE ~closed
  <2>1. /\ Genuine(hand) /\ Follows(Appended, hand) /\ hand \in Parts
        /\ hand = Part(hand.msg, hand.count) /\ hand.count \in Nat
    BY <1>1, <1>5, PartIsWhole DEF ChannelInv, GenuineInv, ChainInv, TypeOK
  <2>2. PICK j \in DOMAIN sent :
          /\ hand = Part(sent[j], hand.count)
          /\ hand.count < TotalSegments(sent[j].size)
          /\ hand.count = segments - 1 \/ segments = 0
          /\ Append(data, hand) = Prefix(sent[j], hand.count)
    <3>1. CASE segments = 0
      <4>1. data = <<>>
        BY <1>1, <1>5, <3>1 DEF ChannelInv, AssemblyInv
      <4>2. PICK j \in DOMAIN sent : sent[j] = hand.msg
        BY <2>1 DEF Genuine, Among
      <4>3. hand.count = TotalSegments(sent[j].size) - 1
        BY <2>1, <3>1, <4>2 DEF Appended, Follows, Part
      <4>4. TotalSegments(sent[j].size) \in Nat
        BY <4>2, SentSize DEF ChannelInv, Among
      <4>5. TotalSegments(sent[j].size) - hand.count = 1
        BY <2>1, <4>3, <4>4
      <4>6. Prefix(sent[j], hand.count) = [i \in 1 .. 1 |-> hand]
        BY <2>1, <4>2, <4>3, <4>5 DEF Prefix
      <4>7. Append(data, hand) = [i \in 1 .. 1 |-> hand]
        BY <4>1
      <4>8. QED
        BY <2>1, <3>1, <4>2, <4>3, <4>4, <4>6, <4>7
    <3>2. CASE segments # 0
      <4>1. PICK j \in DOMAIN sent :
              /\ segments < TotalSegments(sent[j].size)
              /\ data = Prefix(sent[j], segments)
        BY <1>5, <3>2 DEF ChannelInv, AssemblyInv
      <4> DEFINE T == TotalSegments(sent[j].size)
      <4>2. T \in Nat /\ segments \in Nat
        BY SentSize DEF ChannelInv, Among, TypeOK
      <4> HIDE DEF T
      <4>3. /\ data = [i \in 1 .. (T - segments) |-> Part(sent[j], T - i)]
            /\ Prefix(sent[j], segments - 1) =
                 [i \in 1 .. (T - (segments - 1)) |-> Part(sent[j], T - i)]
            /\ segments < T
        BY <4>1 DEF Prefix, T
      <4>4. Len(data) = T - segments /\ data[T - segments] = Part(sent[j], segments)
        <5>1. T - segments \in 1 .. (T - segments) /\ T - (T - segments) = segments
          BY <4>2, <4>3
        <5>2. Len(data) = T - segments
          BY <4>2, <4>3
        <5>3. QED
          BY <4>3, <5>1, <5>2
      <4>5. hand = Part(sent[j], segments - 1)
        BY <2>1, <3>2, <4>2, <4>4 DEF Appended, Follows, Part
      <4>6. hand.count = segments - 1
        BY <4>5 DEF Part
      <4>7. Append(data, hand) =
              [i \in 1 .. (T - (segments - 1)) |-> Part(sent[j], T - i)]
        <5>1. T - (segments - 1) = (T - segments) + 1
              /\ T - ((T - segments) + 1) = segments - 1
          BY <4>2
        <5>2. QED
          BY <4>2, <4>3, <4>4, <4>5, <5>1
      <4>8. QED
        <5>1. Append(data, hand) = Prefix(sent[j], hand.count)
          BY <4>3, <4>6, <4>7
        <5>2. hand.count < TotalSegments(sent[j].size)
          BY <4>2, <4>3, <4>6 DEF T
        <5>3. hand = Part(sent[j], hand.count)
          BY <4>5, <4>6
        <5>4. QED
          BY <4>6, <5>1, <5>2, <5>3
    <3>3. QED
      BY <3>1, <3>2
  <2>3. Promised(hand.count)
    BY <2>2 DEF Promised
  <2>4. /\ segments' = hand.count /\ data' = Append(data, hand)
        /\ handler' = IF hand.count = 0 THEN "select" ELSE "idle"
    BY <2>1, <2>3 DEF Assemble
  <2>5. AssemblyInv'
    BY <1>1, <2>2, <2>4 DEF AssemblyInv, Prefix
  <2>6. /\ Taken = hand /\ Taken' = Appended'
        /\ Appended' = IF hand.count = 0 THEN Part(Zero, 0) ELSE hand
    <3>1. data'[Len(data')] = hand
      BY <2>4 DEF TypeOK
    <3>2. QED
      BY <1>1, <2>4, <3>1 DEF Taken, Appended
  <2>7. /\ Taken'.count = Taken.count
        /\ \A b : Follows(Taken', b) <=> Follows(Taken, b)
    BY <2>6 DEF Follows, Part
  <2>8. /\ LastSent'.count = LastSent.count
        /\ \A b : Follows(LastSent', b) <=> Follows(LastSent, b)
    BY <1>1, <2>7 DEF LastSent
  <2>9. ChainInv'
    BY <1>1, <1>5, <2>7 DEF ChannelInv, ChainInv
  <2>10. HeadInv'
    BY <1>1, <1>2, <1>5, <2>8 DEF ChannelInv, HeadInv
  <2>11. QED
    BY <1>2, <1>3, <2>5, <2>9, <2>10 DEF ChannelInv
<1>6. QED
    BY <1>4, <1>5

LEMMA ChannelMeet ==
    ASSUME TypeOK, ChannelInv, handler = "select", ~closed, Meet
    PROVE  ChannelInv'
<1>1. /\ UNCHANGED <<reliable, write, pc, size, offset, remaining, calls,
                     sent, link, up, hand, segments, data, closed>>
      /\ handler' = "reset" /\ received' = Append(received, data)
    BY DEF Meet, sender, wire, closing
<1>2. /\ SenderInv'
      /\ \A b : Genuine(b)' <=> Genuine(b)
      /\ \A w \in Writer : Current(w)' = Current(w)
    BY <1>1, SenderFrame
<1>3. GenuineInv'
    BY <1>1, <1>2 DEF ChannelInv, GenuineInv
<1>4. PICK j \in DOMAIN sent : data = PacketOf(sent[j])
    BY SentSize DEF ChannelInv, AssemblyInv, Among
<1>5. PacketsWhole'
  <2>1. \A i \in DOMAIN received' :
          received'[i] = data \/ (i \in DOMAIN received
                                  /\ received'[i] = received[i])
    BY <1>1 DEF TypeOK
  <2>2. QED
    BY <1>1, <1>4, <2>1 DEF ChannelInv, PacketsWhole
<1>6. AssemblyInv'
    BY <1>1 DEF ChannelInv, AssemblyInv
<1>7. Appended' = Appended /\ Taken' = Taken /\ LastSent' = LastSent
    BY <1>1 DEF Appended, Taken, LastSent
<1>8. ChainInv'
    BY <1>1, <1>7 DEF ChannelInv, ChainInv
<1>9. HeadInv'
    BY <1>1, <1>2, <1>7 DEF ChannelInv, HeadInv
<1>10. QED
    BY <1>2, <1>3, <1>5, <1>6, <1>8, <1>9 DEF ChannelInv

LEMMA ChannelReset ==
    ASSUME TypeOK, LockInv, LockInv', ChannelInv,
           Reset \/ Drop \/ CloseSignal \/ CloseClear
    PROVE  ChannelInv'
<1>1. /\ UNCHANGED <<reliable, write, pc, size, offset, remaining, calls,
                     sent, link, up, hand, received>>
      /\ handler' = handler \/ handler' # "lock"
    BY DEF Reset, Drop, CloseSignal, CloseClear, MayClear, LockInv, sender,
      wire, reading, closing, assembly
<1>2. /\ SenderInv'
      /\ \A b : Genuine(b)' <=> Genuine(b)
      /\ \A w \in Writer : Current(w)' = Current(w)
    BY <1>1, SenderFrame
<1>3. GenuineInv' /\ PacketsWhole'
    BY <1>1, <1>2 DEF ChannelInv, GenuineInv, PacketsWhole
<1>4. CASE closed'
    BY <1>2, <1>3, <1>4 DEF ChannelInv, ChainInv, HeadInv, AssemblyInv
<1>5. CASE ~closed'
  <2>1. /\ handler = "reset" /\ handler' = "idle" /\ data' = <<>>
        /\ UNCHANGED <<segments, closed>>
    BY <1>5 DEF Reset, Drop, CloseSignal, CloseClear, LockInv, closing
  <2>2. segments = 0
    BY <1>5, <2>1 DEF ChannelInv, AssemblyInv
  <2>3. Appended' = Appended /\ Taken' = Taken /\ LastSent' = LastSent
    BY <1>1, <2>1, <2>2 DEF Appended, Taken, LastSent
  <2>4. ChainInv'
    BY <1>1, <2>1, <2>3 DEF ChannelInv, ChainInv
  <2>5. HeadInv'
    BY <1>1, <1>2, <2>1, <2>3 DEF ChannelInv, HeadInv
  <2>6. AssemblyInv'
    BY <2>1, <2>2 DEF AssemblyInv
  <2>7. QED
    BY <1>2, <1>3, <2>4, <2>5, <2>6 DEF ChannelInv
<1>6. QED
    BY <1>4, <1>5

LEMMA ChannelStep ==
    ASSUME Foreign = {}, TypeOK, TypeOK', Ready, LockInv, LockInv', ChannelInv,
           [Next]_vars
    PROVE  ChannelInv'
<1>1. CASE \E w \in Writer : Send(w)
    BY <1>1, ChannelSendStart, ChannelSendLock, ChannelSendSegment,
      ChannelSendFail DEF Send
<1>2. CASE SenderDone \/ SenderStopped
  <2>1. /\ UNCHANGED <<reliable, write, pc, size, offset, remaining, calls,
                       sent, link, handler, hand, segments, data, received,
                       closed>>
        /\ up' => up
    BY <1>2 DEF SenderDone, SenderStopped, sender, wire, assembly, closing
  <2>2. QED
    BY <2>1, ChannelFrame
<1>3. CASE Lose
    BY <1>3, ChannelLose
<1>4. CASE SendForeign
    BY <1>4 DEF SendForeign
<1>5. CASE Handle
    BY <1>5, ChannelHandle
<1>6. CASE Assemble
    BY <1>6, ChannelAssemble
<1>7. CASE Deliver \/ Take
  <2>1. Meet /\ handler = "select" /\ ~closed
    BY <1>7 DEF Deliver, Take, LockInv
  <2>2. QED
    BY <2>1, ChannelMeet
<1>8. CASE Reset \/ Drop \/ CloseSignal \/ CloseClear
    BY <1>8, ChannelReset
<1>9. CASE Receive \/ ReceiveFails \/ Read
  <2>1. UNCHANGED <<reliable, write, pc, size, offset, remaining, calls,
                    sent, link, up, handler, hand, segments, data, received,
                    closed>>
    BY <1>9 DEF Receive, ReceiveFails, Read, sender, wire, assembly, closing
  <2>2. QED
    BY <2>1, ChannelFrame
<1>10. CASE ChannelFailed \/ CloseBegin \/ CloseStop
  <2>1. /\ UNCHANGED <<reliable, write, pc, size, offset, remaining, calls,
                       sent, link, handler, hand, segments, data, received,
                       closed>>
        /\ up' => up
    BY <1>10 DEF ChannelFailed, CloseBegin, CloseStop, sender, wire, assembly,
      TypeOK
  <2>2. QED
    BY <2>1, ChannelFrame
<1>11. CASE UNCHANGED vars
  <2>1. UNCHANGED <<reliable, write, pc, size, offset, remaining, calls,
                    sent, link, up, handler, hand, segments, data, received,
                    closed>>
    BY <1>11 DEF vars, sender, wire, assembly, closing
  <2>2. QED
    BY <2>1, ChannelFrame
<1>12. QED
    BY <1>1, <1>2, <1>3, <1>4, <1>5, <1>6, <1>7, <1>8, <1>9, <1>10, <1>11
    DEF Next, HandlerStep, ReaderStep, CloseStep

\* If the peer is this implementation as well, Receive returns whole messages
\* only, however the calls of Send interleave and whenever either Conn closes.
THEOREM PacketsAlwaysWhole ==
    ASSUME Foreign = {}
    PROVE  Spec => []PacketsWhole
<1>1. TypeOK /\ TypeOK' /\ Ready /\ LockInv /\ LockInv' /\ ChannelInv
        /\ [Next]_vars => ChannelInv'
    BY ChannelStep
<1>2. Spec => [](TypeOK /\ Ready)
    BY TypeInit, TypeStep, PTL DEF Spec
<1>3. CountdownInv => LockInv
    BY DEF CountdownInv
<1>4. ChannelInv => PacketsWhole
    BY DEF ChannelInv
<1>5. QED
    BY <1>1, <1>2, <1>3, <1>4, CountdownAlways, ChannelInit, PTL DEF Spec

-----------------------------------------------------------------------------
(* DataChannel implements MessageStream.  No message is sent twice, so that   *)
(* its place in sent is the place of its packet: on the reliable channel the  *)
(* places go up by one from message to message, all the way from d.write to   *)
(* c.packets; on the unreliable one a message is in one place only.           *)

\* The messages of a writer are numbered, and the last one is that of d.write.
SentOnce ==
    /\ \A i, j \in DOMAIN sent : sent[i] = sent[j] => i = j
    /\ \A j \in DOMAIN sent :
         /\ sent[j].no <= calls[sent[j].from]
         /\ pc[sent[j].from] = "lock" => sent[j].no # calls[sent[j].from]
    /\ \A w \in Writer :
         write = w => Len(sent) > 0 /\ sent[Len(sent)] = Current(w)

\* m was the k-th message to be sent.
IsSent(k, m) == k \in DOMAIN sent /\ sent[k] = m

\* The place of the message after b, if b is of the message at place k.
Ends(b) == IF b.count = 0 THEN 1 ELSE 0

\* How many messages the receiver has put together, and has taken off the link.
Completed == Len(received) + (IF handler = "select" THEN 1 ELSE 0)
TakenOff == Completed + (IF handler = "lock" THEN Ends(hand) ELSE 0)

\* Every segment is of the message whose turn it is.
TurnInv ==
    reliable /\ ~closed =>
      /\ data # <<>> /\ handler # "reset" =>
           IsSent(Len(received) + 1, data[1].msg)
      /\ handler = "lock" => IsSent(Completed + 1, hand.msg)
      /\ link # <<>> => IsSent(TakenOff + 1, link[1].msg)
      /\ \A i \in 1 .. (Len(link) - 1) : \A k \in DOMAIN sent :
           IsSent(k, link[i].msg) => IsSent(k + Ends(link[i]), link[i + 1].msg)

\* While the association is up, the link is followed by what d.write sends.
Sending == IF write = NoWriter THEN 0 ELSE 1

TailInv ==
    reliable /\ ~closed /\ up =>
      /\ link = <<>> => TakenOff = Len(sent) - Sending
      /\ link # <<>> =>
           IsSent(Len(sent) - Sending * Ends(link[Len(link)]),
                  link[Len(link)].msg)

\* Where a message may be on its way to the application.
Got(m) == \E k \in DOMAIN received : received[k] = PacketOf(m)
Held(m) ==
    \/ handler = "lock" /\ hand.msg = m
    \/ handler = "select" /\ ~closed /\ data[1].msg = m
Linked(m) == \E i \in DOMAIN link : link[i].msg = m

OnceInv ==
    ~reliable =>
      /\ \A i, j \in DOMAIN link : link[i].msg = link[j].msg => i = j
      /\ \A m \in Messages : Linked(m) => ~Held(m) /\ ~Got(m)
      /\ \A m \in Messages : Held(m) => ~Got(m)
      /\ \A w \in Writer : write = w =>
           ~Linked(Current(w)) /\ ~Held(Current(w)) /\ ~Got(Current(w))

StreamInv == SentOnce /\ TurnInv /\ TailInv /\ OnceInv

LEMMA PacketStart ==
    ASSUME NEW m, m.size \in Nat, m.size > 0
    PROVE  PacketOf(m)[1].msg = m
<1>1. (m.size + SegmentSize - 1) \div SegmentSize \in Nat \ {0}
    BY SegmentArithmetic
<1>2. 1 \in 1 .. ((m.size + SegmentSize - 1) \div SegmentSize)
    BY <1>1
<1>3. QED
    BY <1>2 DEF PacketOf, Part

LEMMA PrefixStart ==
    ASSUME TypeOK, SenderInv, NEW m, Among(m), NEW c \in Nat,
           c < TotalSegments(m.size)
    PROVE  Prefix(m, c)[1].msg = m
<1>1. TotalSegments(m.size) \in Nat
    BY SentSize
<1>2. 1 \in 1 .. (TotalSegments(m.size) - c)
    BY <1>1
<1>3. QED
    BY <1>2 DEF Prefix, Part

LEMMA SentIsMessage ==
    ASSUME TypeOK, NEW j \in DOMAIN sent
    PROVE  /\ Among(sent[j]) /\ sent[j] \in Messages
           /\ sent[j].from \in Writer /\ sent[j].no \in Nat
<1>1. Among(sent[j])
    BY DEF Among
<1>2. sent[j] \in Messages
    BY <1>1, AmongIsMessage
<1>3. QED
    BY <1>1, <1>2 DEF Messages

\* Once its last segment has been sent, a message has no holder of d.write.
LEMMA LastSegment ==
    ASSUME TypeOK, TypeOK', Ready, ChannelInv, ChannelInv',
           NEW w \in Writer, SendSegment(w)
    PROVE  /\ link' = Append(link, Part(Current(w), remaining[w]))
           /\ write = w /\ write' \in {w, NoWriter}
           /\ remaining[w] = 0 => write' = NoWriter
           /\ remaining[w] \in Nat /\ remaining[w] < TotalSegments(size[w])
           /\ Among(Current(w)) /\ Current(w)' = Current(w)
           /\ UNCHANGED <<reliable, sdone, size, calls, sent, up, handler,
                          hand, segments, data, received, closed>>
<1>1. remaining[w] \in 0 .. MaxSegments /\ write = w
      /\ Among(Current(w)) /\ Positioned(w) /\ pc[w] = "segment"
    BY DEF TypeOK, ChannelInv, SenderInv, SendSegment
<1>2. /\ link' = Append(link, Part(Current(w), remaining[w]))
      /\ write' \in {w, NoWriter}
      /\ UNCHANGED <<reliable, sdone, size, calls, sent, up, handler,
                          hand, segments, data, received, closed>>
    BY <1>1, ByteRange DEF SendSegment, Holder, assembly, closing
<1>3. ASSUME remaining[w] = 0, write' = w PROVE FALSE
  <2>1. Positioned(w)'
    BY <1>3 DEF ChannelInv, SenderInv
  <2>2. remaining'[w] = 0 /\ offset'[w] = offset[w] + SegmentSize
    BY <1>3 DEF SendSegment, TypeOK
  <2>3. offset'[w] = offset[w]
    BY <1>1, <1>2, <1>3, <2>1, <2>2 DEF Positioned
  <2>4. offset[w] \in Nat
    BY DEF TypeOK
  <2>5. QED
    BY <2>2, <2>3, <2>4
<1>4. QED
    BY <1>1, <1>2, <1>3 DEF Positioned, Current

-----------------------------------------------------------------------------
(* No message is sent twice *)

LEMMA StreamInit == Init => StreamInv
BY DEF Init, StreamInv, SentOnce, TurnInv, TailInv, OnceInv, Completed, TakenOff,
  Sending, Got, Held, Linked

\* Only Send concerns what has been sent, and whose message it was.
LEMMA SentOnceStep ==
    ASSUME TypeOK, TypeOK', Ready, ChannelInv, SentOnce, [Next]_vars
    PROVE  SentOnce'
<1>1. CASE UNCHANGED <<write, pc, size, calls, sent>>
    BY <1>1 DEF SentOnce, Current
<1>2. ASSUME NEW w \in Writer, SendStart(w) PROVE SentOnce'
  <2>1. /\ UNCHANGED <<write, sent>>
        /\ pc[w] = "idle" /\ pc' = [pc EXCEPT ![w] = "lock"]
        /\ calls' = [calls EXCEPT ![w] = @ + 1]
        /\ \A v \in Writer \ {w} : size'[v] = size[v]
    BY <1>2 DEF SendStart, TypeOK
  <2>2. write # w
    BY <2>1 DEF ChannelInv, SenderInv
  <2>3. \A v \in Writer \ {w} : Current(v)' = Current(v)
    BY <2>1 DEF Current, TypeOK
  <2>5. \A j \in DOMAIN sent : sent[j].from \in Writer /\ sent[j].no \in Nat
    BY SentIsMessage
  <2>6. \A v \in Writer : calls[v] \in Nat
    BY DEF TypeOK
  <2>7. ASSUME NEW j \in DOMAIN sent
        PROVE  /\ sent[j].no <= calls'[sent[j].from]
               /\ pc'[sent[j].from] = "lock" => sent[j].no # calls'[sent[j].from]
    <3>1. CASE sent[j].from = w
      <4>1. calls'[w] = calls[w] + 1 /\ sent[j].no <= calls[w]
        BY <2>1, <3>1 DEF TypeOK, SentOnce
      <4>2. QED
        BY <2>5, <2>6, <3>1, <4>1
    <3>2. CASE sent[j].from # w
      BY <2>1, <2>5, <3>2 DEF TypeOK, SentOnce
    <3>3. QED
      BY <3>1, <3>2
  <2>8. QED
    BY <2>1, <2>2, <2>3, <2>7 DEF SentOnce
<1>3. ASSUME NEW w \in Writer, SendLock(w) PROVE SentOnce'
  <2>1. /\ write' = w /\ UNCHANGED <<size, calls>>
        /\ pc[w] = "lock" /\ pc' = [pc EXCEPT ![w] = "segment"]
        /\ sent' = Append(sent, Current(w))
    BY <1>3 DEF SendLock
  <2>2. Current(w) \in Messages /\ sent \in Seq(Messages)
    BY <2>1, CurrentIsMessage DEF TypeOK
  <2>3. Current(w).from = w /\ Current(w).no = calls[w] /\ calls[w] \in Nat
    BY DEF Current, TypeOK
  <2>4. \A j \in DOMAIN sent : sent[j] # Current(w)
    BY <2>1, <2>3 DEF SentOnce
  <2>5. /\ Len(sent') = Len(sent) + 1 /\ sent'[Len(sent) + 1] = Current(w)
        /\ Len(sent) \in Nat
        /\ \A j \in DOMAIN sent' : j = Len(sent) + 1
                                   \/ (j \in DOMAIN sent /\ sent'[j] = sent[j])
    BY <2>1, <2>2
  <2>6. \A i, j \in DOMAIN sent' : sent'[i] = sent'[j] => i = j
    BY <2>4, <2>5 DEF SentOnce
  <2>7. \A v \in Writer : Current(v)' = Current(v)
    BY <2>1 DEF Current
  <2>8. \A v \in Writer : write' = v => v = w
    BY <2>1
  <2>9. \A j \in DOMAIN sent' :
          /\ sent'[j].no <= calls'[sent'[j].from]
          /\ pc'[sent'[j].from] = "lock"
             => sent'[j].no # calls'[sent'[j].from]
    <3>1. SUFFICES ASSUME NEW j \in DOMAIN sent'
          PROVE  /\ sent'[j].no <= calls[sent'[j].from]
                 /\ pc'[sent'[j].from] = "lock"
                    => sent'[j].no # calls[sent'[j].from]
      BY <2>1
    <3>2. CASE j = Len(sent) + 1
      <4>1. sent'[j] = Current(w) /\ pc'[w] = "segment"
        BY <2>1, <2>5, <3>2 DEF TypeOK
      <4>2. QED
        BY <2>3, <4>1
    <3>3. CASE j \in DOMAIN sent /\ sent'[j] = sent[j]
      <4>1. sent[j].from \in Writer
        BY <3>3, SentIsMessage
      <4>2. pc'[sent[j].from] = "lock" => pc[sent[j].from] = "lock"
        BY <2>1, <4>1 DEF TypeOK
      <4>3. QED
        BY <3>3, <4>2 DEF SentOnce
    <3>4. QED
      BY <2>5, <3>2, <3>3
  <2>10. QED
    BY <2>5, <2>6, <2>7, <2>8, <2>9 DEF SentOnce
<1>4. ASSUME NEW w \in Writer, SendNothing(w) \/ SendSegment(w) \/ SendFail(w)
      PROVE  SentOnce'
  <2>1. /\ UNCHANGED <<size, calls, sent>>
        /\ \A v \in Writer : pc'[v] = "lock" => pc[v] = "lock"
    BY <1>4 DEF SendNothing, SendSegment, SendFail, TypeOK
  <2>2. \A v \in Writer : write' = v => write = v
    BY <1>4, ChannelAssumption
    DEF SendNothing, SendSegment, SendFail, Holder, ChannelInv, SenderInv
  <2>3. \A v \in Writer : Current(v)' = Current(v)
    BY <2>1 DEF Current
  <2>4. \A j \in DOMAIN sent : sent[j].from \in Writer
    BY SentIsMessage
  <2>5. QED
    BY <2>1, <2>2, <2>3, <2>4 DEF SentOnce
<1>5. CASE ~\E w \in Writer : Send(w)
  <2>1. UNCHANGED <<write, pc, size, calls, sent>>
    BY <1>5 DEF Next, vars, sender, SenderDone, SenderStopped, Lose,
      SendForeign, HandlerStep, Handle, Assemble, Deliver, Meet, Reset, Drop,
      ReaderStep, Receive, Take, ReceiveFails, Read, ChannelFailed, CloseBegin,
      CloseStep, CloseSignal, CloseClear, CloseStop
  <2>2. QED
    BY <1>1, <2>1
<1>6. QED
    BY <1>2, <1>3, <1>4, <1>5 DEF Send

-----------------------------------------------------------------------------
(* The reliable channel *)

\* A message that was sent has one place, and keeps it.
LEMMA OnePlace ==
    ASSUME SentOnce, NEW m, NEW i, NEW j, IsSent(i, m), IsSent(j, m)
    PROVE  i = j
BY DEF IsSent, SentOnce

\* Steps that move no segment leave the turns as they are.
LEMMA TurnFrame ==
    ASSUME TurnInv, TailInv,
           UNCHANGED <<reliable, sent, link, handler, hand, data, received,
                       closed>>,
           up' => up /\ write' = write
    PROVE  TurnInv' /\ TailInv'
<1>1. /\ \A k, m : IsSent(k, m)' <=> IsSent(k, m)
      /\ \A b : Ends(b)' = Ends(b)
      /\ Completed' = Completed /\ TakenOff' = TakenOff
    BY DEF IsSent, Ends, Completed, TakenOff
<1>2. TurnInv'
    BY <1>1 DEF TurnInv
<1>3. up' => Sending' = Sending
    BY DEF Sending
<1>4. TailInv'
    BY <1>1, <1>3 DEF TailInv
<1>5. QED
    BY <1>2, <1>4

LEMMA TurnSendLock ==
    ASSUME TypeOK, TypeOK', Ready, ChannelInv, SentOnce, SentOnce',
           TurnInv, TailInv, NEW w \in Writer, SendLock(w)
    PROVE  TurnInv' /\ TailInv'
<1>1. /\ UNCHANGED <<reliable, link, up, handler, hand, data, received,
                     closed>>
      /\ write = NoWriter /\ write' = w /\ w # NoWriter
      /\ sent' = Append(sent, Current(w)) /\ sent \in Seq(Messages)
    BY ChannelAssumption DEF SendLock, wire, assembly, closing, TypeOK
<1>2. Current(w) \in Messages
    BY CurrentIsMessage DEF SendLock
<1>3. /\ Len(sent') = Len(sent) + 1 /\ Len(sent) \in Nat
      /\ \A j \in DOMAIN sent : j \in DOMAIN sent' /\ sent'[j] = sent[j]
    BY <1>1, <1>2
<1>4. \A k, m : IsSent(k, m) => IsSent(k, m)'
    BY <1>3 DEF IsSent
<1>5. ASSUME NEW m, Among(m), NEW k, IsSent(k, m)' PROVE IsSent(k, m)
  <2>1. PICK j \in DOMAIN sent : sent[j] = m
    BY <1>5 DEF Among
  <2>2. IsSent(j, m) /\ IsSent(j, m)'
    BY <1>4, <2>1 DEF IsSent
  <2>3. k = j
    BY <1>5, <2>2 DEF IsSent, SentOnce
  <2>4. QED
    BY <2>2, <2>3
<1>6. /\ \A b : Ends(b)' = Ends(b)
      /\ Completed' = Completed /\ TakenOff' = TakenOff
    BY <1>1 DEF Ends, Completed, TakenOff
<1>7. TurnInv'
  <2>1. SUFFICES ASSUME reliable, ~closed PROVE TurnInv'
    BY <1>1 DEF TurnInv
  <2>2. ASSUME NEW i \in 1 .. (Len(link) - 1), NEW k \in DOMAIN sent',
               IsSent(k, link[i].msg)'
        PROVE  IsSent(k + Ends(link[i]), link[i + 1].msg)'
    <3>1. link \in Seq(Parts)
      BY DEF TypeOK
    <3>2. i \in DOMAIN link
      BY <3>1
    <3>3. Genuine(link[i])
      BY <3>2 DEF ChannelInv, GenuineInv
    <3>4. IsSent(k, link[i].msg)
      BY <1>1, <1>5, <2>2, <3>3 DEF Genuine
    <3>5. k \in DOMAIN sent
      BY <3>4 DEF IsSent
    <3>6. IsSent(k + Ends(link[i]), link[i + 1].msg)
      BY <2>1, <3>4, <3>5 DEF TurnInv
    <3>7. QED
      BY <1>1, <1>4, <3>6
  <2>3. QED
    BY <1>1, <1>4, <1>6, <2>1, <2>2 DEF TurnInv
<1>8. TailInv'
  <2>1. SUFFICES ASSUME reliable, ~closed, up PROVE TailInv'
    BY <1>1 DEF TailInv
  <2>2. Sending = 0 /\ Sending' = 1
    BY <1>1 DEF Sending
  <2>3. ASSUME link = <<>> PROVE TakenOff' = Len(sent') - Sending'
    BY <1>3, <1>6, <2>1, <2>2, <2>3 DEF TailInv
  <2>4. ASSUME link # <<>>, NEW k, k = Len(sent') - 1 * Ends(link[Len(link)])
        PROVE  IsSent(k, link[Len(link)].msg)'
    <3>1. link[Len(link)].count = 0
      BY <1>1, <2>1, <2>4 DEF ChannelInv, HeadInv, LastSent
    <3>2. Ends(link[Len(link)]) = 1
      BY <3>1 DEF Ends
    <3>3. IsSent(Len(sent) - Sending * Ends(link[Len(link)]),
                 link[Len(link)].msg)
      BY <2>1, <2>4 DEF TailInv
    <3>4. /\ Len(sent) - Sending * Ends(link[Len(link)]) = Len(sent)
          /\ k = Len(sent)
      BY <1>3, <2>2, <2>4, <3>2
    <3>5. IsSent(k, link[Len(link)].msg)
      BY <3>3, <3>4
    <3>6. QED
      BY <1>1, <1>4, <3>5
  <2>5. QED
    BY <1>1, <1>6, <2>2, <2>3, <2>4 DEF TailInv
<1>9. QED
    BY <1>7, <1>8

LEMMA TurnSendSegment ==
    ASSUME TypeOK, TypeOK', Ready, ChannelInv, ChannelInv', SentOnce,
           TurnInv, TailInv, NEW w \in Writer, SendSegment(w)
    PROVE  TurnInv' /\ TailInv'
<1> DEFINE m == Current(w)
           b == Part(m, remaining[w])
<1>1. /\ link' = Append(link, b)
      /\ write = w /\ write' \in {w, NoWriter}
      /\ remaining[w] = 0 => write' = NoWriter
      /\ UNCHANGED <<reliable, sent, up, handler, hand, data, received, closed>>
    BY LastSegment
<1>2. /\ b.msg = m /\ b.count = remaining[w]
      /\ link \in Seq(Parts) /\ link' \in Seq(Parts) /\ b \in Parts
  <2>1. link' \in Seq(Parts) /\ link \in Seq(Parts)
    BY DEF TypeOK
  <2>2. Among(m) /\ remaining[w] \in 0 .. MaxSegments
    BY LastSegment DEF TypeOK
  <2>3. b \in Parts
    BY <2>2, AmongIsMessage, PartIsPart
  <2>4. QED
    BY <2>1, <2>3 DEF Part
<1>3. /\ Len(link') = Len(link) + 1 /\ Len(link) \in Nat
      /\ link'[Len(link) + 1] = b /\ link' # <<>>
      /\ \A i \in 1 .. Len(link) : link'[i] = link[i]
      /\ link = <<>> => link'[1] = b
      /\ link # <<>> => link'[1] = link[1]
    BY <1>1, <1>2
<1>4. IsSent(Len(sent), m) /\ Len(sent) \in Nat
    BY <1>1 DEF SentOnce, IsSent, TypeOK
<1>5. Sending = 1
    BY <1>1, ChannelAssumption DEF Sending
<1>6. /\ \A k, n : IsSent(k, n)' <=> IsSent(k, n)
      /\ \A a : Ends(a)' = Ends(a)
      /\ Completed' = Completed /\ TakenOff' = TakenOff
    BY <1>1 DEF IsSent, Ends, Completed, TakenOff
<1>7. TurnInv'
  <2>1. SUFFICES ASSUME reliable, ~closed PROVE TurnInv'
    BY <1>1 DEF TurnInv
  <2>2. up
    BY DEF SendSegment
  <2>3. IsSent(TakenOff + 1, link'[1].msg)
    <3>1. CASE link = <<>>
      <4>1. TakenOff + 1 = Len(sent)
        BY <1>4, <1>5, <2>1, <2>2, <3>1 DEF TailInv
      <4>2. QED
        BY <1>2, <1>3, <1>4, <3>1, <4>1
    <3>2. CASE link # <<>>
      BY <1>3, <2>1, <3>2 DEF TurnInv
    <3>3. QED
      BY <3>1, <3>2
  <2>4. ASSUME NEW i \in 1 .. (Len(link') - 1), NEW k \in DOMAIN sent,
               IsSent(k, link'[i].msg)
        PROVE  IsSent(k + Ends(link'[i]), link'[i + 1].msg)
    <3>1. i \in 1 .. Len(link) /\ link'[i] = link[i]
      BY <1>3
    <3>2. CASE i = Len(link)
      <4>1. link # <<>> /\ link'[i + 1] = b
        BY <1>3, <3>1, <3>2
      <4>2. IsSent(Len(sent) - 1 * Ends(link[i]), link[i].msg)
        BY <1>5, <2>1, <2>2, <3>2, <4>1 DEF TailInv
      <4>3. k = Len(sent) - 1 * Ends(link[i])
        BY <2>4, <3>1, <4>2, OnePlace
      <4>4. k + Ends(link[i]) = Len(sent)
        BY <1>4, <4>3 DEF Ends
      <4>5. QED
        BY <1>2, <1>4, <3>1, <4>1, <4>4
    <3>3. CASE i # Len(link)
      <4>1. i \in 1 .. (Len(link) - 1) /\ link'[i + 1] = link[i + 1]
        BY <1>3, <3>1, <3>3
      <4>2. QED
        BY <2>1, <2>4, <3>1, <4>1 DEF TurnInv
    <3>4. QED
      BY <3>2, <3>3
  <2>5. QED
    BY <1>1, <1>6, <2>1, <2>3, <2>4 DEF TurnInv
<1>8. TailInv'
  <2>1. link'[Len(link')] = b
    BY <1>3
  <2>2. Sending' * Ends(b) = 0
    <3>1. CASE remaining[w] = 0
      BY <1>1, <3>1 DEF Sending, Ends
    <3>2. CASE remaining[w] # 0
      BY <1>2, <3>2 DEF Sending, Ends
    <3>3. QED
      BY <3>1, <3>2
  <2>3. QED
    BY <1>1, <1>2, <1>3, <1>4, <1>6, <2>1, <2>2 DEF TailInv
<1>9. QED
    BY <1>7, <1>8

LEMMA TurnHandle ==
    ASSUME TypeOK, TypeOK', ChannelInv, SentOnce, TurnInv, TailInv, Handle,
           reliable, ~closed
    PROVE  TurnInv' /\ TailInv'
<1>1. /\ UNCHANGED <<reliable, write, sent, up, segments, data, received,
                     closed>>
      /\ handler = "idle" /\ handler' = "lock"
      /\ link # <<>> /\ link' = Tail(link) /\ hand' = link[1]
    BY HandleTakes
<1>2. link \in Seq(Parts) /\ Len(link) \in Nat \ {0}
    BY <1>1 DEF TypeOK
<1>3. /\ Len(link') = Len(link) - 1
      /\ \A k \in 1 .. Len(link') :
           link'[k] = link[k + 1] /\ k \in 1 .. (Len(link) - 1)
    BY <1>1, <1>2
<1>4. /\ \A k, m : IsSent(k, m)' <=> IsSent(k, m)
      /\ \A b : Ends(b)' = Ends(b)
      /\ Sending' = Sending
    BY <1>1 DEF IsSent, Ends, Sending
<1>5. /\ Completed = Len(received) /\ Completed' = Len(received)
      /\ TakenOff = Completed /\ TakenOff' = Completed + Ends(link[1])
      /\ Len(received) \in Nat
    BY <1>1 DEF Completed, TakenOff, Ends, TypeOK
<1>6. IsSent(Completed + 1, link[1].msg)
    BY <1>1, <1>5 DEF TurnInv
<1>7. TurnInv'
  <2>1. data' # <<>> => IsSent(Len(received) + 1, data[1].msg)
    BY <1>1 DEF TurnInv
  <2>2. ASSUME link' # <<>>
        PROVE  IsSent(Completed + Ends(link[1]) + 1, link'[1].msg)
    <3>1. 1 \in 1 .. (Len(link) - 1) /\ link'[1] = link[1 + 1]
      BY <1>1, <1>2, <1>3, <2>2
    <3>2. Completed + 1 \in DOMAIN sent
      BY <1>6 DEF IsSent
    <3>3. IsSent(Completed + 1 + Ends(link[1]), link[1 + 1].msg)
      BY <1>6, <3>1, <3>2 DEF TurnInv
    <3>4. Completed + 1 + Ends(link[1]) = Completed + Ends(link[1]) + 1
      BY <1>5 DEF Ends
    <3>5. QED
      BY <3>1, <3>3, <3>4
  <2>3. ASSUME NEW i \in 1 .. (Len(link') - 1), NEW k \in DOMAIN sent,
               IsSent(k, link'[i].msg)
        PROVE  IsSent(k + Ends(link'[i]), link'[i + 1].msg)
    <3>1. i \in 1 .. Len(link') /\ i + 1 \in 1 .. Len(link')
      BY <1>2, <1>3
    <3>2. /\ link'[i] = link[i + 1] /\ link'[i + 1] = link[(i + 1) + 1]
          /\ i + 1 \in 1 .. (Len(link) - 1)
      BY <1>3, <3>1
    <3>3. QED
      BY <2>3, <3>2 DEF TurnInv
  <2>4. QED
    BY <1>1, <1>4, <1>5, <1>6, <2>1, <2>2, <2>3 DEF TurnInv
<1>8. TailInv'
  <2>1. SUFFICES ASSUME up PROVE TailInv'
    BY <1>1 DEF TailInv
  <2> DEFINE last == link[Len(link)]
  <2>2. IsSent(Len(sent) - Sending * Ends(last), last.msg)
    BY <1>1, <2>1 DEF TailInv
  <2>3. CASE link' = <<>>
    <3>1. Len(link) = 1
      BY <1>2, <1>3, <2>3
    <3>2. last = link[1]
      BY <3>1
    <3>3. Completed + 1 = Len(sent) - Sending * Ends(link[1])
      BY <1>6, <2>2, <3>2, OnePlace
    <3>4. Len(sent) \in Nat /\ Completed \in Nat
      BY <1>5 DEF TypeOK
    <3>5. write = NoWriter => link[1].count = 0
      BY <1>1, <2>1, <3>1 DEF ChannelInv, HeadInv, LastSent
    <3>6. Completed + Ends(link[1]) = Len(sent) - Sending
      <4>1. CASE Ends(link[1]) = 1
        BY <3>3, <3>4, <4>1 DEF Sending
      <4>2. CASE Ends(link[1]) = 0
        <5>1. Sending = 1 /\ Sending * 0 = 0
          BY <3>5, <4>2 DEF Ends, Sending
        <5>2. QED
          BY <3>3, <3>4, <4>2, <5>1
      <4>3. QED
        BY <4>1, <4>2 DEF Ends
    <3>7. QED
      BY <1>1, <1>4, <1>5, <2>3, <3>6 DEF TailInv
  <2>4. CASE link' # <<>>
    <3>1. Len(link') \in 1 .. Len(link') /\ Len(link') + 1 = Len(link)
      BY <1>1, <1>2, <1>3, <2>4
    <3>2. link'[Len(link')] = last
      BY <1>3, <3>1
    <3>3. QED
      BY <1>1, <1>4, <2>2, <2>4, <3>2 DEF TailInv
  <2>5. QED
    BY <2>3, <2>4
<1>9. QED
    BY <1>7, <1>8

\* Whatever Assemble appends to an empty buffer comes first in it.
LEMMA AssembleAppends ==
    ASSUME TypeOK, CountInv, ChannelInv, Assemble, ~closed
    PROVE  /\ UNCHANGED <<reliable, write, sent, up, link, hand, received,
                          closed>>
           /\ handler = "lock"
           /\ handler' = IF hand.count = 0 THEN "select" ELSE "idle"
           /\ data' = Append(data, hand) /\ data' # <<>>
           /\ data = <<>> => data'[1] = hand
           /\ data # <<>> => data'[1] = data[1]
<1>1. /\ UNCHANGED <<reliable, write, sent, up, link, hand, received, closed>>
      /\ handler = "lock"
    BY DEF Assemble, sender, wire
<1>2. /\ Follows(Appended, hand) /\ hand \in Parts /\ hand.count \in Nat
      /\ data \in Seq(Parts) /\ segments \in Nat
    BY <1>1, PartIsWhole DEF ChannelInv, ChainInv, TypeOK
<1>3. Promised(hand.count)
  <2>1. SUFFICES ASSUME segments > 0 PROVE hand.count = segments - 1
    BY DEF Promised
  <2>2. data # <<>>
    <3>1. PICK j \in DOMAIN sent :
            /\ segments < TotalSegments(sent[j].size)
            /\ data = Prefix(sent[j], segments)
      BY <1>1, <2>1 DEF ChannelInv, AssemblyInv
    <3>2. TotalSegments(sent[j].size) \in Nat
      BY SentSize DEF ChannelInv, Among
    <3>3. 1 \in 1 .. (TotalSegments(sent[j].size) - segments)
      BY <1>2, <3>1, <3>2
    <3>4. QED
      BY <3>1, <3>3 DEF Prefix
  <2>3. Len(data) \in DOMAIN data /\ Len(data) \in Nat
    BY <1>2, <2>2
  <2>4. data[Len(data)].count = segments + Len(data) - Len(data)
    BY <2>3 DEF CountInv
  <2>5. data[Len(data)].count = segments
    BY <1>2, <2>3, <2>4
  <2>6. hand = Part(data[Len(data)].msg, segments - 1)
    BY <1>2, <2>1, <2>5 DEF Appended, Follows
  <2>7. QED
    BY <2>6 DEF Part
<1>4. /\ data' = Append(data, hand)
      /\ handler' = IF hand.count = 0 THEN "select" ELSE "idle"
    BY <1>2, <1>3 DEF Assemble
<1>5. /\ data' # <<>> /\ data = <<>> => data'[1] = hand
      /\ data # <<>> => data'[1] = data[1]
    BY <1>2, <1>4
<1>6. QED
    BY <1>1, <1>4, <1>5

LEMMA TurnAssemble ==
    ASSUME TypeOK, CountInv, ChannelInv, TurnInv, TailInv, Assemble,
           reliable, ~closed
    PROVE  TurnInv' /\ TailInv'
<1>1. /\ UNCHANGED <<reliable, write, sent, up, link, hand, received, closed>>
      /\ handler = "lock"
      /\ handler' = IF hand.count = 0 THEN "select" ELSE "idle"
      /\ data = <<>> => data'[1] = hand
      /\ data # <<>> => data'[1] = data[1]
    BY AssembleAppends
<1>2. /\ \A k, m : IsSent(k, m)' <=> IsSent(k, m)
      /\ \A b : Ends(b)' = Ends(b)
      /\ Sending' = Sending
    BY <1>1 DEF IsSent, Ends, Sending
<1>3. TakenOff' = TakenOff /\ Completed = Len(received)
    BY <1>1 DEF Completed, TakenOff, Ends, TypeOK
<1>4. IsSent(Len(received) + 1, data'[1].msg)
    BY <1>1, <1>3 DEF TurnInv
<1>5. TurnInv'
    BY <1>1, <1>2, <1>3, <1>4 DEF TurnInv
<1>6. TailInv'
    BY <1>1, <1>2, <1>3 DEF TailInv
<1>7. QED
    BY <1>5, <1>6

LEMMA TurnMeet ==
    ASSUME TypeOK, TurnInv, TailInv, Meet, handler = "select"
    PROVE  TurnInv' /\ TailInv'
<1>1. /\ UNCHANGED <<reliable, write, sent, up, link, hand, data, closed>>
      /\ handler' = "reset" /\ received' = Append(received, data)
    BY DEF Meet, sender, wire, closing
<1>2. /\ \A k, m : IsSent(k, m)' <=> IsSent(k, m)
      /\ \A b : Ends(b)' = Ends(b)
      /\ Sending' = Sending
    BY <1>1 DEF IsSent, Ends, Sending
<1>3. Len(received') = Len(received) + 1 /\ Len(received) \in Nat
    BY <1>1 DEF TypeOK
<1>4. TakenOff' = TakenOff
    BY <1>1, <1>3 DEF Completed, TakenOff
<1>5. TurnInv'
    BY <1>1, <1>2, <1>4 DEF TurnInv
<1>6. TailInv'
    BY <1>1, <1>2, <1>4 DEF TailInv
<1>7. QED
    BY <1>5, <1>6

LEMMA TurnReset ==
    ASSUME TurnInv, TailInv, Reset
    PROVE  TurnInv' /\ TailInv'
<1>1. /\ UNCHANGED <<reliable, write, sent, up, link, hand, received, closed>>
      /\ handler = "reset" /\ handler' = "idle" /\ data' = <<>>
    BY DEF Reset, sender, wire, closing
<1>2. /\ \A k, m : IsSent(k, m)' <=> IsSent(k, m)
      /\ \A b : Ends(b)' = Ends(b)
      /\ Sending' = Sending /\ TakenOff' = TakenOff
    BY <1>1 DEF IsSent, Ends, Sending, Completed, TakenOff
<1>3. TurnInv'
    BY <1>1, <1>2 DEF TurnInv
<1>4. TailInv'
    BY <1>1, <1>2 DEF TailInv
<1>5. QED
    BY <1>3, <1>4

LEMMA TurnStep ==
    ASSUME Foreign = {}, TypeOK, TypeOK', Ready, LockInv, CountInv,
           ChannelInv, ChannelInv', SentOnce, SentOnce', TurnInv, TailInv,
           [Next]_vars
    PROVE  TurnInv' /\ TailInv'
<1>1. reliable' = reliable /\ (closed => closed')
    BY DEF Next, vars, Send, SendStart, SendNothing, SendLock, SendSegment,
      SendFail, SenderDone, SenderStopped, Lose, SendForeign, HandlerStep,
      Handle, Assemble, Deliver, Meet, Reset, Drop, ReaderStep, Receive, Take,
      ReceiveFails, Read, ChannelFailed, CloseBegin, CloseStep, CloseSignal,
      CloseClear, CloseStop, closing
<1>2. CASE ~reliable \/ closed'
    BY <1>1, <1>2 DEF TurnInv, TailInv
<1>3. CASE reliable /\ ~closed /\ ~closed'
  <2>1. CASE \E w \in Writer : SendStart(w) \/ SendNothing(w)
    <3>1. /\ UNCHANGED <<reliable, write, sent, link, up, handler, hand, data,
                         received, closed>>
      BY <2>1 DEF SendStart, SendNothing, wire, assembly, closing
    <3>2. QED
      BY <3>1, TurnFrame
  <2>2. ASSUME NEW w \in Writer, SendLock(w) PROVE TurnInv' /\ TailInv'
    BY <2>2, TurnSendLock
  <2>3. ASSUME NEW w \in Writer, SendSegment(w) PROVE TurnInv' /\ TailInv'
    BY <2>3, TurnSendSegment
  <2>4. CASE (\E w \in Writer : SendFail(w)) \/ Lose
    <3>1. /\ UNCHANGED <<reliable, sent, handler, hand, data, received,
                         closed, up>>
          /\ ~up /\ link' \in {link, <<>>}
      BY <1>3, <2>4 DEF SendFail, Lose, sender, wire, assembly, closing
    <3>2. TailInv'
      BY <1>3, <2>4, <3>1 DEF TailInv, SendFail, Lose
    <3>3. CASE link' = link
      <4>1. /\ \A k, m : IsSent(k, m)' <=> IsSent(k, m)
            /\ \A b : Ends(b)' = Ends(b)
            /\ Completed' = Completed /\ TakenOff' = TakenOff
        BY <3>1, <3>3 DEF IsSent, Ends, Completed, TakenOff
      <4>2. TurnInv'
        BY <3>1, <3>3, <4>1 DEF TurnInv
      <4>3. QED
        BY <3>2, <4>2
    <3>4. CASE link' = <<>>
      <4>1. /\ \A k, m : IsSent(k, m)' <=> IsSent(k, m)
            /\ Completed' = Completed
            /\ \A i \in 1 .. (Len(link') - 1) : FALSE
        BY <3>1, <3>4 DEF IsSent, Completed
      <4>2. TurnInv'
        BY <3>1, <3>4, <4>1 DEF TurnInv
      <4>3. QED
        BY <3>2, <4>2
    <3>5. QED
      BY <3>1, <3>3, <3>4
  <2>5. CASE SendForeign
    BY <2>5 DEF SendForeign
  <2>6. CASE Handle
    BY <1>3, <2>6, TurnHandle
  <2>7. CASE Assemble
    BY <1>3, <2>7, TurnAssemble
  <2>8. CASE Deliver \/ Take
    BY <2>8, TurnMeet DEF Deliver, Take
  <2>9. CASE Reset
    BY <2>9, TurnReset
  <2>10. CASE Drop \/ CloseSignal \/ CloseClear
    BY <1>3, <2>10 DEF Drop, CloseSignal, CloseClear, LockInv
  <2>11. CASE \/ SenderDone \/ SenderStopped \/ Receive \/ ReceiveFails
              \/ Read \/ ChannelFailed \/ CloseBegin \/ CloseStop
              \/ UNCHANGED vars
    <3>1. /\ UNCHANGED <<reliable, write, sent, link, handler, hand, data,
                         received, closed>>
          /\ up' => up
      BY <2>11 DEF SenderDone, SenderStopped, Receive, ReceiveFails, Read,
        ChannelFailed, CloseBegin, CloseStop, vars, sender, wire, assembly,
        closing, TypeOK
    <3>2. QED
      BY <3>1, TurnFrame
  <2>12. QED
    BY <2>1, <2>2, <2>3, <2>4, <2>5, <2>6, <2>7, <2>8, <2>9, <2>10, <2>11
    DEF Next, Send, HandlerStep, ReaderStep, CloseStep
<1>4. QED
    BY <1>1, <1>2, <1>3

-----------------------------------------------------------------------------
(* The unreliable channel *)

\* Steps that put no message anywhere leave it in one place.
LEMMA OnceFrame ==
    ASSUME OnceInv,
           UNCHANGED <<reliable, link, received>>,
           \A m : Held(m)' => Held(m),
           \A w \in Writer : write' = w => write = w /\ Current(w)' = Current(w)
    PROVE  OnceInv'
<1>1. \A m : Linked(m)' = Linked(m) /\ Got(m)' = Got(m)
    BY DEF Linked, Got
<1>2. QED
    BY <1>1 DEF OnceInv

\* Only what was sent is on its way.
LEMMA UsedAmong ==
    ASSUME TypeOK, ChannelInv, NEW m, m.size \in Nat, m.size > 0,
           Linked(m) \/ Held(m) \/ Got(m)
    PROVE  Among(m)
<1>1. CASE Linked(m) \/ (handler = "lock" /\ hand.msg = m)
    BY <1>1 DEF Linked, ChannelInv, GenuineInv, Genuine
<1>2. CASE handler = "select" /\ ~closed /\ data[1].msg = m
  <2>1. PICK j \in DOMAIN sent : /\ segments < TotalSegments(sent[j].size)
                                 /\ data = Prefix(sent[j], segments)
    BY <1>2 DEF ChannelInv, AssemblyInv
  <2>2. segments \in Nat /\ Among(sent[j])
    BY DEF TypeOK, Among
  <2>3. data[1].msg = sent[j]
    BY <2>1, <2>2, PrefixStart DEF ChannelInv
  <2>4. QED
    BY <1>2, <2>2, <2>3
<1>3. CASE Got(m)
  <2>1. PICK k \in DOMAIN received : received[k] = PacketOf(m)
    BY <1>3 DEF Got
  <2>2. PICK j \in DOMAIN sent : received[k] = PacketOf(sent[j])
    BY <2>1 DEF ChannelInv, PacketsWhole
  <2>3. Among(sent[j])
    BY DEF Among
  <2>4. PacketOf(sent[j])[1].msg = sent[j]
    BY <2>3, SentSize, PacketStart DEF ChannelInv
  <2>5. PacketOf(m)[1].msg = m
    BY PacketStart
  <2>6. QED
    BY <2>1, <2>2, <2>3, <2>4, <2>5
<1>4. QED
    BY <1>1, <1>2, <1>3 DEF Held

\* A message that takes d.write was not sent before.
LEMMA FreshMessage ==
    ASSUME TypeOK, SentOnce, NEW w \in Writer, pc[w] = "lock"
    PROVE  ~Among(Current(w))
<1>1. Current(w).from = w /\ Current(w).no = calls[w]
    BY DEF Current
<1>2. QED
    BY <1>1 DEF SentOnce, Among

LEMMA OnceSendLock ==
    ASSUME TypeOK, Ready, ChannelInv, SentOnce, OnceInv,
           NEW w \in Writer, SendLock(w)
    PROVE  OnceInv'
<1>1. /\ UNCHANGED <<reliable, link, handler, hand, data, received, closed,
                     size, calls>>
      /\ write' = w /\ pc[w] = "lock" /\ size[w] # 0
    BY DEF SendLock, wire, assembly, closing
<1>2. Current(w).size \in Nat /\ Current(w).size > 0
  <2>1. size[w] \in Sizes
    BY <1>1 DEF Ready
  <2>2. \A x \in Sizes : x \in Nat
    BY ChannelAssumption
  <2>3. size[w] \in Nat
    BY <2>1, <2>2
  <2>4. size[w] > 0
    BY <1>1, <2>3
  <2>5. QED
    BY <2>3, <2>4 DEF Current
<1>3. ~Linked(Current(w)) /\ ~Held(Current(w)) /\ ~Got(Current(w))
    BY <1>1, <1>2, FreshMessage, UsedAmong
<1>4. /\ \A m : Linked(m)' = Linked(m) /\ Got(m)' = Got(m) /\ Held(m)' = Held(m)
      /\ Current(w)' = Current(w)
    BY <1>1 DEF Linked, Got, Held, Current
<1>5. QED
    BY <1>1, <1>3, <1>4 DEF OnceInv

LEMMA OnceSendSegment ==
    ASSUME TypeOK, TypeOK', Ready, ChannelInv, ChannelInv', OnceInv,
           ~reliable, NEW w \in Writer, SendSegment(w)
    PROVE  OnceInv'
<1> DEFINE m == Current(w)
           b == Part(m, remaining[w])
<1>1. /\ link' = Append(link, b) /\ write = w
      /\ UNCHANGED <<reliable, handler, hand, data, received, closed>>
      /\ Among(m) /\ remaining[w] \in Nat
    BY LastSegment
<1>2. write' = NoWriter
  <2>1. m.size = size[w]
    BY DEF Current
  <2>2. TotalSegments(size[w]) = 1
    BY <1>1, <2>1, OneSegment DEF ChannelInv
  <2>3. remaining[w] = 0
    BY <1>1, <2>2, LastSegment
  <2>4. QED
    BY <2>3, LastSegment
<1>3. link \in Seq(Parts) /\ link' \in Seq(Parts) /\ b \in Parts /\ b.msg = m
  <2>1. link' \in Seq(Parts) /\ link \in Seq(Parts)
    BY DEF TypeOK
  <2>2. remaining[w] \in 0 .. MaxSegments
    BY DEF TypeOK
  <2>3. b \in Parts
    BY <1>1, <2>2, AmongIsMessage, PartIsPart
  <2>4. QED
    BY <2>1, <2>3 DEF Part
<1>4. \A i \in DOMAIN link' : (i \in DOMAIN link /\ link'[i] = link[i])
                              \/ (i = Len(link) + 1 /\ link'[i] = b)
    BY <1>1, <1>3
<1>5. ~Linked(m) /\ ~Held(m) /\ ~Got(m)
    BY <1>1 DEF OnceInv
<1>6. \A i, j \in DOMAIN link' : link'[i].msg = link'[j].msg => i = j
    BY <1>3, <1>4, <1>5 DEF OnceInv, Linked
<1>7. \A n : Linked(n)' => Linked(n) \/ n = m
    BY <1>3, <1>4 DEF Linked
<1>8. \A n : Got(n)' = Got(n) /\ Held(n)' = Held(n)
    BY <1>1 DEF Got, Held
<1>9. QED
    BY <1>1, <1>2, <1>5, <1>6, <1>7, <1>8, ChannelAssumption DEF OnceInv

LEMMA OnceLose ==
    ASSUME TypeOK, OnceInv, Lose
    PROVE  OnceInv'
<1>1. /\ UNCHANGED <<reliable, write, size, calls, handler, hand, data,
                     received, closed>>
      /\ link # <<>>
      /\ link' = <<>> \/ link' = Tail(link)
    BY DEF Lose, sender, assembly, closing
<1>2. link \in Seq(Parts)
    BY DEF TypeOK
<1>3. \A i \in DOMAIN link' : i + 1 \in DOMAIN link /\ link'[i] = link[i + 1]
  <2>1. CASE link' = <<>>
    BY <2>1
  <2>2. CASE link' = Tail(link)
    BY <1>1, <1>2, <2>2
  <2>3. QED
    BY <1>1, <2>1, <2>2
<1>4. ASSUME ~reliable, NEW i \in DOMAIN link', NEW j \in DOMAIN link',
             link'[i].msg = link'[j].msg
      PROVE  i = j
  <2>1. \A k, l \in DOMAIN link : link[k].msg = link[l].msg => k = l
    BY <1>4 DEF OnceInv
  <2>2. /\ i + 1 \in DOMAIN link /\ j + 1 \in DOMAIN link
        /\ link[i + 1].msg = link[j + 1].msg
    BY <1>3, <1>4
  <2>3. i + 1 = j + 1
    BY <2>1, <2>2
  <2>4. link' = <<>> \/ link' = Tail(link)
    BY <1>1
  <2>5. i \in Int /\ j \in Int
    BY <1>1, <1>2, <2>4
  <2>6. QED
    BY <2>3, <2>5
<1>5. \A m : Linked(m)' => Linked(m)
    BY <1>3 DEF Linked
<1>6. /\ \A m : Got(m)' = Got(m) /\ Held(m)' = Held(m)
      /\ \A w \in Writer : Current(w)' = Current(w)
    BY <1>1 DEF Got, Held, Current
<1>7. QED
    BY <1>1, <1>4, <1>5, <1>6 DEF OnceInv

LEMMA OnceHandle ==
    ASSUME TypeOK, TypeOK', ChannelInv, OnceInv, ~reliable, Handle
    PROVE  OnceInv'
<1>1. /\ UNCHANGED <<reliable, write, size, calls, data, received, closed>>
      /\ handler' = "idle" \/ handler' = "lock"
    BY HandleTakes
<1>2. PICK i \in DOMAIN link :
        /\ hand' = link[i]
        /\ \A j \in DOMAIN link' :
             /\ j \in DOMAIN link /\ j + 1 \in DOMAIN link
             /\ link'[j] = link[IF j < i THEN j ELSE j + 1]
    BY HandleTakes
<1>3. link \in Seq(Parts) /\ link' \in Seq(Parts)
    BY DEF TypeOK
<1> DEFINE From(j) == IF j < i THEN j ELSE j + 1
<1>4. \A j \in DOMAIN link' :
        /\ From(j) \in DOMAIN link /\ link'[j] = link[From(j)]
        /\ From(j) # i
  <2>1. i \in Int /\ \A j \in DOMAIN link' : j \in Int
    BY <1>3
  <2>2. QED
    BY <1>2, <2>1
<1>5. \A j, k \in DOMAIN link' : From(j) = From(k) => j = k
  <2>1. i \in Int /\ \A j \in DOMAIN link' : j \in Int
    BY <1>3
  <2>2. QED
    BY <2>1
<1> HIDE DEF From
<1>6. \A j, k \in DOMAIN link' : link'[j].msg = link'[k].msg => j = k
    BY <1>4, <1>5 DEF OnceInv
<1>7. /\ \A m : Linked(m)' => Linked(m) /\ m # link[i].msg
      /\ Linked(link[i].msg)
    BY <1>4 DEF Linked, OnceInv
<1>8. /\ \A m : Held(m)' => m = link[i].msg
      /\ \A m : Got(m)' = Got(m)
      /\ \A w \in Writer : Current(w)' = Current(w)
    BY <1>1, <1>2 DEF Held, Got, Current
<1>9. QED
    BY <1>1, <1>6, <1>7, <1>8 DEF OnceInv

LEMMA OnceAssemble ==
    ASSUME TypeOK, CountInv, ChannelInv, OnceInv, ~reliable, Assemble
    PROVE  OnceInv'
<1>1. /\ UNCHANGED <<reliable, write, size, calls, link, hand, received,
                     closed>>
      /\ handler = "lock" /\ handler' # "lock"
    BY DEF Assemble, sender, wire
<1>2. \A w \in Writer : Current(w)' = Current(w)
    BY <1>1 DEF Current
<1>3. ASSUME NEW m, Held(m)' PROVE Held(m)
  <2>1. handler' = "select" /\ ~closed /\ data'[1].msg = m
    BY <1>1, <1>3 DEF Held
  <2>2. segments = 0
    BY <2>1, Single DEF SingleInv
  <2>3. data = <<>>
    BY <1>1, <2>1, <2>2 DEF ChannelInv, AssemblyInv
  <2>4. data'[1] = hand
    BY <2>1, <2>3, AssembleAppends
  <2>5. QED
    BY <1>1, <2>1, <2>4 DEF Held
<1>4. QED
    BY <1>1, <1>2, <1>3, OnceFrame

LEMMA OnceMeet ==
    ASSUME TypeOK, ChannelInv, OnceInv, ~reliable,
           handler = "select", ~closed, Meet
    PROVE  OnceInv'
<1>1. /\ UNCHANGED <<reliable, write, size, calls, link, hand, data, closed>>
      /\ handler' = "reset" /\ received' = Append(received, data)
    BY DEF Meet, sender, wire, closing
<1>2. PICK j \in DOMAIN sent : data = PacketOf(sent[j])
    BY SentSize DEF ChannelInv, AssemblyInv, Among
<1>3. Among(sent[j]) /\ data[1].msg = sent[j]
  <2>1. Among(sent[j])
    BY DEF Among
  <2>2. QED
    BY <1>2, <2>1, SentSize, PacketStart DEF ChannelInv
<1>4. Held(sent[j])
    BY <1>3 DEF Held
<1>5. /\ \A m : ~Held(m)' /\ Linked(m)' = Linked(m)
      /\ \A w \in Writer : Current(w)' = Current(w)
    BY <1>1 DEF Held, Linked, Current
<1>6. ASSUME NEW m, Among(m), Got(m)' PROVE Got(m) \/ m = sent[j]
  <2>1. PICK k \in DOMAIN received' : received'[k] = PacketOf(m)
    BY <1>6 DEF Got
  <2>2. \/ k \in DOMAIN received /\ received'[k] = received[k]
        \/ received'[k] = data
    BY <1>1 DEF TypeOK
  <2>3. CASE received'[k] = data
    <3>1. PacketOf(m)[1].msg = m
      BY <1>6, SentSize, PacketStart DEF ChannelInv
    <3>2. QED
      BY <1>3, <2>1, <2>3, <3>1
  <2>4. QED
    BY <2>1, <2>2, <2>3 DEF Got
<1>7. \A m \in Messages : Linked(m) => Among(m)
    BY DEF Linked, ChannelInv, GenuineInv, Genuine
<1>8. \A w \in Writer : write = w => Among(Current(w))
    BY DEF ChannelInv, SenderInv
<1>9. sent[j] \in Messages
    BY SentIsMessage
<1>10. ASSUME NEW m \in Messages, Linked(m)'
       PROVE  ~Held(m)' /\ ~Got(m)'
    BY <1>4, <1>5, <1>6, <1>7, <1>10 DEF OnceInv
<1>11. ASSUME NEW w \in Writer, write' = w
       PROVE  ~Linked(Current(w))' /\ ~Held(Current(w))' /\ ~Got(Current(w))'
  <2>1. /\ write = w /\ Among(Current(w))
        /\ ~Linked(Current(w)) /\ ~Held(Current(w)) /\ ~Got(Current(w))
    BY <1>1, <1>8, <1>11 DEF OnceInv
  <2>2. ~Got(Current(w))'
    <3>1. ASSUME NEW m, m = Current(w) PROVE ~Got(m)'
      BY <1>4, <1>6, <2>1, <3>1
    <3>2. Got(Current(w))' => \E k \in DOMAIN received' :
                                  received'[k] = PacketOf(Current(w))
      BY <1>5 DEF Got
    <3>3. QED
      BY <3>1, <3>2 DEF Got
  <2>3. ~Linked(Current(w))' /\ ~Held(Current(w))'
    BY <1>1, <1>5, <2>1 DEF Linked, Held
  <2>4. QED
    BY <2>2, <2>3
<1>12. QED
    BY <1>1, <1>5, <1>10, <1>11 DEF OnceInv

LEMMA OnceStep ==
    ASSUME Foreign = {}, TypeOK, TypeOK', Ready, LockInv, CountInv,
           ChannelInv, ChannelInv', SentOnce, OnceInv, [Next]_vars
    PROVE  OnceInv'
<1>1. reliable' = reliable
    BY DEF Next, vars, Send, SendStart, SendNothing, SendLock, SendSegment,
      SendFail, SenderDone, SenderStopped, Lose, SendForeign, HandlerStep,
      Handle, Assemble, Deliver, Meet, Reset, Drop, ReaderStep, Receive, Take,
      ReceiveFails, Read, ChannelFailed, CloseBegin, CloseStep, CloseSignal,
      CloseClear, CloseStop, closing
<1>2. CASE reliable
    BY <1>1, <1>2 DEF OnceInv
<1>3. CASE ~reliable
  <2>1. ASSUME NEW w \in Writer,
               SendStart(w) \/ SendNothing(w) \/ SendFail(w)
        PROVE  OnceInv'
    <3>1. /\ UNCHANGED <<reliable, link, received, handler, hand, data, closed>>
          /\ \A v \in Writer \ {w} : size'[v] = size[v] /\ calls'[v] = calls[v]
          /\ \/ write' = write /\ pc[w] # "segment"
             \/ write' = NoWriter
      BY <2>1 DEF SendStart, SendNothing, SendFail, TypeOK, wire, assembly,
        closing
    <3>2. \A v \in Writer : write' = v => write = v /\ v # w
      BY <3>1, ChannelAssumption DEF ChannelInv, SenderInv
    <3>3. \A v \in Writer \ {w} : Current(v)' = Current(v)
      BY <3>1 DEF Current
    <3>4. \A m : Held(m)' => Held(m)
      BY <3>1 DEF Held
    <3>5. QED
      BY <3>1, <3>2, <3>3, <3>4, OnceFrame
  <2>2. ASSUME NEW w \in Writer, SendLock(w) PROVE OnceInv'
    BY <2>2, OnceSendLock
  <2>3. ASSUME NEW w \in Writer, SendSegment(w) PROVE OnceInv'
    BY <1>3, <2>3, OnceSendSegment
  <2>4. CASE Lose
    BY <2>4, OnceLose
  <2>5. CASE SendForeign
    BY <2>5 DEF SendForeign
  <2>6. CASE Handle
    BY <1>3, <2>6, OnceHandle
  <2>7. CASE Assemble
    BY <1>3, <2>7, OnceAssemble
  <2>8. CASE Deliver \/ Take
    BY <1>3, <2>8, OnceMeet DEF Deliver, Take, LockInv
  <2>9. CASE \/ Reset \/ Drop \/ CloseSignal \/ CloseClear
             \/ SenderDone \/ SenderStopped \/ Receive \/ ReceiveFails
             \/ Read \/ ChannelFailed \/ CloseBegin \/ CloseStop
             \/ UNCHANGED vars
    <3>1. /\ UNCHANGED <<reliable, write, size, calls, link, received>>
          /\ handler' = "lock" => handler = "lock" /\ hand' = hand
          /\ handler' = "select" /\ ~closed' =>
               handler = "select" /\ ~closed /\ data' = data
      BY <2>9 DEF Reset, Drop, CloseSignal, CloseClear, MayClear, LockInv,
        SenderDone, SenderStopped, Receive, ReceiveFails, Read, ChannelFailed,
        CloseBegin, CloseStop, vars, sender, wire, assembly, closing, TypeOK
    <3>2. \A m : Held(m)' => Held(m)
      BY <3>1 DEF Held
    <3>3. \A w \in Writer : Current(w)' = Current(w)
      BY <3>1 DEF Current
    <3>4. QED
      BY <3>1, <3>2, <3>3, OnceFrame
  <2>10. QED
    BY <2>1, <2>2, <2>3, <2>4, <2>5, <2>6, <2>7, <2>8, <2>9
    DEF Next, Send, HandlerStep, ReaderStep, CloseStep
<1>4. QED
    BY <1>2, <1>3

-----------------------------------------------------------------------------
(* Every step is one of the stream.                                           *)

Packets == [i \in DOMAIN sent |-> PacketOf(sent[i])]

LEMMA MessageIsPacket ==
    ASSUME NEW m \in Messages
    PROVE  PacketOf(m) \in {PacketOf(n) : n \in Messages}
OBVIOUS

\* Two messages that are not empty are two packets.
LEMMA PacketsDiffer ==
    ASSUME NEW m, m.size \in Nat, m.size > 0,
           NEW n, n.size \in Nat, n.size > 0, PacketOf(m) = PacketOf(n)
    PROVE  m = n
BY PacketStart

LEMMA StartsStream == Init => Stream!Init
BY ChannelAssumption DEF Init, Stream!Init

\* SendLock sends a packet that was not sent before.
LEMMA SendStream ==
    ASSUME TypeOK, Ready, ChannelInv, SentOnce, NEW w \in Writer, SendLock(w)
    PROVE  Stream!Next
<1> DEFINE m == Current(w)
<1>1. /\ UNCHANGED <<reliable, received>>
      /\ sent' = Append(sent, m) /\ pc[w] = "lock" /\ size[w] # 0
    BY DEF SendLock
<1>2. m \in Messages /\ m.size \in Nat /\ m.size > 0
  <2>1. size[w] \in Sizes
    BY <1>1 DEF Ready
  <2>2. \A x \in Sizes : x \in Nat
    BY ChannelAssumption
  <2>3. size[w] \in Nat
    BY <2>1, <2>2
  <2>4. size[w] > 0
    BY <1>1, <2>3
  <2>5. m \in Messages
    BY <1>1, CurrentIsMessage
  <2>6. QED
    BY <2>3, <2>4, <2>5 DEF Current
<1>3. sent \in Seq(Messages) /\ m \in Messages
    BY <1>2 DEF TypeOK
<1> HIDE DEF m
<1>4. Packets' = Append(Packets, PacketOf(m))
  <2>1. /\ Len(sent') = Len(sent) + 1 /\ Len(sent) \in Nat
        /\ DOMAIN sent = 1 .. Len(sent) /\ DOMAIN sent' = 1 .. (Len(sent) + 1)
        /\ sent'[Len(sent) + 1] = m
        /\ \A i \in DOMAIN sent : sent'[i] = sent[i]
    BY <1>1, <1>3
  <2>2. Packets' = [i \in 1 .. (Len(sent) + 1) |-> PacketOf(sent'[i])]
    BY <2>1 DEF Packets
  <2>3. Packets = [i \in 1 .. Len(sent) |-> PacketOf(sent[i])]
    BY <2>1 DEF Packets
  <2>4. Len(Packets) = Len(sent)
    BY <2>1, <2>3
  <2>5. Append(Packets, PacketOf(m)) =
          [i \in 1 .. (Len(sent) + 1) |->
             IF i = Len(sent) + 1 THEN PacketOf(m) ELSE Packets[i]]
    BY <2>1, <2>3, <2>4
  <2>6. QED
    BY <2>1, <2>2, <2>3, <2>5
<1>5. ~Stream!Among(PacketOf(m), Packets)
  <2>1. SUFFICES ASSUME NEW j \in DOMAIN sent, PacketOf(sent[j]) = PacketOf(m)
                 PROVE  FALSE
    BY DEF Stream!Among, Packets
  <2>2. Among(sent[j])
    BY DEF Among
  <2>3. sent[j] = m
    BY <1>2, <2>1, <2>2, SentSize, PacketsDiffer DEF ChannelInv
  <2>4. QED
    BY <1>1, <2>2, <2>3, FreshMessage DEF m
<1>6. Stream!Send(PacketOf(m))
    BY <1>1, <1>4, <1>5 DEF Stream!Send, Packets
<1>7. QED
    BY <1>2, <1>6, MessageIsPacket DEF Stream!Next

\* What meets the reader is the message whose turn it is, or one that has not
\* been received.
LEMMA ReceiveStream ==
    ASSUME TypeOK, ChannelInv, TurnInv, OnceInv, handler = "select", ~closed,
           Meet
    PROVE  Stream!Next
<1>1. UNCHANGED <<reliable, sent>> /\ received' = Append(received, data)
    BY DEF Meet, sender
<1>2. PICK j \in DOMAIN sent : data = PacketOf(sent[j])
    BY SentSize DEF ChannelInv, AssemblyInv, Among
<1>3. Among(sent[j]) /\ sent[j].size \in Nat /\ sent[j].size > 0
  <2>1. Among(sent[j])
    BY DEF Among
  <2>2. QED
    BY <2>1, SentSize DEF ChannelInv
<1>4. data[1].msg = sent[j] /\ data # <<>>
  <2>1. (sent[j].size + SegmentSize - 1) \div SegmentSize \in Nat \ {0}
    BY <1>3, SegmentArithmetic
  <2>2. 1 \in DOMAIN data
    BY <1>2, <2>1 DEF PacketOf
  <2>3. QED
    BY <1>2, <1>3, <2>2, PacketStart
<1>5. ASSUME reliable
      PROVE  Len(received) < Len(Packets)
             /\ data = Packets[Len(received) + 1]
  <2>1. IsSent(Len(received) + 1, sent[j])
    BY <1>4, <1>5 DEF TurnInv
  <2>2. /\ Len(received) + 1 \in DOMAIN sent
        /\ sent[Len(received) + 1] = sent[j]
    BY <2>1 DEF IsSent
  <2>3. DOMAIN sent = 1 .. Len(sent) /\ Len(sent) \in Nat
        /\ Len(received) \in Nat
    BY DEF TypeOK
  <2>4. Len(Packets) = Len(sent)
    BY <2>3 DEF Packets
  <2>5. QED
    BY <1>2, <2>2, <2>3, <2>4 DEF Packets
<1>6. ASSUME ~reliable
      PROVE  Stream!Among(data, Packets) /\ ~Stream!Among(data, received)
  <2>1. Held(sent[j]) /\ sent[j] \in Messages
    BY <1>4, SentIsMessage DEF Held
  <2>2. ~Got(sent[j])
    BY <1>6, <2>1 DEF OnceInv
  <2>3. QED
    BY <1>2, <2>2 DEF Got, Stream!Among, Packets
<1>7. Stream!Receive(data)
    BY <1>1, <1>5, <1>6 DEF Stream!Receive, Packets
<1>8. QED
    BY <1>2, <1>7, SentIsMessage, MessageIsPacket DEF Stream!Next

LEMMA StepsStream ==
    ASSUME TypeOK, Ready, LockInv, ChannelInv, SentOnce, TurnInv, OnceInv,
           [Next]_vars
    PROVE  [Stream!Next]_(Stream!vars)
<1>1. ASSUME NEW w \in Writer, SendLock(w) PROVE Stream!Next
    BY <1>1, SendStream
<1>2. ASSUME Deliver \/ Take PROVE Stream!Next
    BY <1>2, ReceiveStream DEF Deliver, Take, LockInv
<1>3. ASSUME ~(\E w \in Writer : SendLock(w)), ~Deliver, ~Take
      PROVE  UNCHANGED <<reliable, sent, received>>
  <2>1. CASE CloseClear
    BY <2>1 DEF CloseClear, MayClear, LockInv, sender
  <2>2. CASE ~CloseClear
    BY <1>3, <2>2 DEF Next, vars, Send, SendStart, SendNothing, SendSegment,
      SendFail, SenderDone, SenderStopped, Lose, SendForeign, HandlerStep,
      Handle, Assemble, Reset, Drop, ReaderStep, Receive, ReceiveFails, Read,
      ChannelFailed, CloseBegin, CloseStep, CloseSignal, CloseStop, sender,
      closing
  <2>3. QED
    BY <2>1, <2>2
<1>4. UNCHANGED <<reliable, sent, received>> => UNCHANGED Stream!vars
    BY DEF Stream!vars
<1>5. QED
    BY <1>1, <1>2, <1>3, <1>4

\* If the peer is this implementation as well, the two Conns implement
\* MessageStream: Receive returns what Send was given, in the order the calls
\* of Send got hold of d.write on the reliable channel, and no message twice on
\* the unreliable one, whatever is lost and whenever either Conn closes.
THEOREM ChannelImplementsStream ==
    ASSUME Foreign = {}
    PROVE  Spec => ImplementsStream
<1>1. Spec => [](TypeOK /\ Ready)
    BY TypeInit, TypeStep, PTL DEF Spec
<1>2. TypeOK /\ TypeOK' /\ Ready /\ LockInv /\ LockInv' /\ ChannelInv
        /\ [Next]_vars => ChannelInv'
    BY ChannelStep
<1>3. TypeOK /\ TypeOK' /\ Ready /\ ChannelInv /\ SentOnce /\ [Next]_vars
        => SentOnce'
    BY SentOnceStep
<1>4. TypeOK /\ TypeOK' /\ Ready /\ LockInv /\ CountInv /\ ChannelInv
        /\ ChannelInv' /\ SentOnce /\ SentOnce' /\ TurnInv /\ TailInv
        /\ [Next]_vars => TurnInv' /\ TailInv'
    BY TurnStep
<1>5. TypeOK /\ TypeOK' /\ Ready /\ LockInv /\ CountInv /\ ChannelInv
        /\ ChannelInv' /\ SentOnce /\ OnceInv /\ [Next]_vars => OnceInv'
    BY OnceStep
<1>6. Init => SentOnce /\ TurnInv /\ TailInv /\ OnceInv
    BY StreamInit DEF StreamInv
<1>7. CountdownInv => LockInv /\ CountInv
    BY DEF CountdownInv
<1>8. TypeOK /\ Ready /\ LockInv /\ ChannelInv /\ SentOnce /\ TurnInv
        /\ OnceInv /\ [Next]_vars => [Stream!Next]_(Stream!vars)
    BY StepsStream
<1>9. Spec => Stream!Init /\ [][Stream!Next]_(Stream!vars)
    BY <1>1, <1>2, <1>3, <1>4, <1>5, <1>6, <1>7, <1>8, CountdownAlways,
      ChannelInit, StartsStream, PTL DEF Spec
<1>10. QED
    BY <1>9 DEF ImplementsStream, Stream!Spec
=============================================================================
