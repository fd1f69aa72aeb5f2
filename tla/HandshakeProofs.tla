-------------------------- MODULE HandshakeProofs --------------------------
(***************************************************************************)
(* The safety of the handshake, for any number of dials and negotiations,  *)
(* and its refinement of Pairing.                                          *)
(*                                                                         *)
(* Both logs are ordered by the lives of their senders.  A dial that lives *)
(* while another of its ID signals has overlapped with it (UpOrder).  A    *)
(* negotiation that signals holds its key, or trickleCandidate signals for *)
(* it; so whoever has signaled under that key before is over, or one of    *)
(* them was admitted while the other's trickleCandidate could still signal *)
(* (DownOrder).  A receiver that has reached a place in an ordered log     *)
(* takes only what comes later.                                            *)
(*                                                                         *)
(* Then the lives of dials and negotiations, which are those of Dialer and *)
(* ListenerNegotiation, and the descriptions in offers and answers.        *)
(***************************************************************************)
EXTENDS Handshake, Induction

\* Who has done nothing has left no trace; who is in a log has begun.
Begun ==
    /\ \A d \in Dial : dial[d] = "idle" =>
         peer[d] = None /\ link[d] = None /\ blame[d] = None
    /\ \A d \in Dial : owed[d] => dial[d] = "over"
    /\ \A d \in Dial : dialTrickle[d] # "none" => dial[d] # "idle"
    /\ \A d \in Dial : dial[d] \in {"starting", "conn"} => peer[d] # None
    /\ \A d \in Dial : blame[d] # None => dial[d] = "over"
    /\ \A n \in Neg : (neg[n] # "idle") <=> (offer[n] \in Dial)
    /\ \A n \in Neg : offer[n] # None => dial[offer[n]] # "idle"
    /\ \A n \in Neg : canceledBy[n] # None =>
         neg[n] # "idle" /\ dial[canceledBy[n]] # "idle"
    /\ \A n \in Neg : negTrickle[n] # "none" => neg[n] # "idle"
    /\ \A i \in 1..Len(upLog) : dial[upLog[i].from] # "idle"
    /\ \A i \in 1..Len(downLog) : neg[downLog[i].from] # "idle"

\* Who has signaled an error is over, or about to be.
ErrorsFinal ==
    /\ \A i \in 1..Len(upLog) :
         upLog[i].type = "error" => Doomed(upLog[i].from)
    /\ \A i \in 1..Len(downLog) :
         downLog[i].type = "error" => NegDoomed(downLog[i].from)

\* Two dials with one ID that may both still signal have overlapped.
OverlapSeen ==
    \A d, e \in Dial :
        d # e /\ id[d] = id[e] /\ Lingers(d) /\ Lingers(e)
        => overlap[d] \/ overlap[e]

UpOrder ==
    \A i, j \in 1..Len(upLog) :
        LET d == upLog[i].from
            e == upLog[j].from
        IN  i < j /\ d # e /\ id[d] = id[e]
            => dial[d] = "over" \/ overlap[d] \/ overlap[e]

\* The Listener has come as far as the offer of each negotiation.
AdmittedAt ==
    ordered =>
      \A n \in Neg : neg[n] # "idle" =>
        \E j \in 1..Len(upLog) :
            /\ j <= upAt
            /\ upLog[j] = [type |-> "offer", from |-> offer[n]]

\* n may still signal.
NegLingers(n) == Holds(n) \/ negTrickle[n] = "failing"

\* A key has one owner, so of two negotiations that may still signal under it
\* one was admitted when the other had only trickleCandidate left.
NegOverlapSeen ==
    \A m, n \in Neg :
        m # n /\ NegLingers(m) /\ NegLingers(n) /\ id[offer[m]] = id[offer[n]]
        => negOverlap[m] \/ negOverlap[n]

DownOrder ==
    \A i, j \in 1..Len(downLog) :
        LET m == downLog[i].from
            n == downLog[j].from
        IN  i < j /\ m # n /\ id[offer[m]] = id[offer[n]]
            => neg[m] = "over" \/ negOverlap[m] \/ negOverlap[n]

\* A dial has come as far as the answer it accepted.
AnsweredAt ==
    ordered =>
      \A d \in Dial : peer[d] # None =>
        \E j \in 1..Len(downLog) :
            /\ j <= downAt[d]
            /\ downLog[j].from = peer[d]
            /\ IsFor(d, peer[d])

\* A link is with the negotiation of the dial's own offer.
LinkOwn ==
    \A d \in Dial : link[d] # None =>
        /\ offer[link[d]] = d
        /\ dial[d] \in {"conn", "over"}

IInv ==
    /\ TypeOK /\ Begun /\ ErrorsFinal
    /\ OverlapSeen /\ UpOrder /\ AdmittedAt /\ CancelsOwnDial
    /\ NegOverlapSeen /\ DownOrder /\ AnsweredAt /\ ReplacementSafe
    /\ LinkOwn

-----------------------------------------------------------------------------
(* Types                                                                    *)

\* The signal at a deliverable place is a signal of its log.
LEMMA DeliverableType ==
    ASSUME TypeOK
    PROVE  /\ \A i \in 1..Len(upLog) :
                /\ upLog[i].from \in Dial
                /\ upLog[i].type \in {"offer", "error"}
           /\ \A i \in 1..Len(downLog) :
                /\ downLog[i].from \in Neg
                /\ downLog[i].type \in {"answer", "error"}
           /\ Len(upLog) \in Nat /\ Len(downLog) \in Nat
           /\ None \notin Dial /\ None \notin Neg
<1>1. \A i \in 1..Len(upLog) : upLog[i] \in UpSignals
  BY DEF TypeOK
<1>2. \A i \in 1..Len(downLog) : downLog[i] \in DownSignals
  BY DEF TypeOK
<1>3. None \notin Dial /\ None \notin Neg
  BY HandshakeAssumption DEF Dial, Neg, None
<1>4. QED
  BY <1>1, <1>2, <1>3 DEF TypeOK, UpSignals, DownSignals

\* A signal appended to a log.
LEMMA SignalType ==
    ASSUME TypeOK
    PROVE  /\ \A d \in Dial, t \in {"offer", "error"} :
                SignalUp(d, t) => upLog' \in Seq(UpSignals)
           /\ \A n \in Neg, t \in {"answer", "error"} :
                SignalDown(n, t) => downLog' \in Seq(DownSignals)
<1>1. ASSUME NEW d \in Dial, NEW t \in {"offer", "error"}, SignalUp(d, t)
      PROVE  upLog' \in Seq(UpSignals)
  <2>1. [type |-> t, from |-> d] \in UpSignals
    BY DEF UpSignals
  <2>2. QED
    BY <1>1, <2>1 DEF TypeOK, SignalUp
<1>2. ASSUME NEW n \in Neg, NEW t \in {"answer", "error"}, SignalDown(n, t)
      PROVE  downLog' \in Seq(DownSignals)
  <2>1. [type |-> t, from |-> n] \in DownSignals
    BY DEF DownSignals
  <2>2. QED
    BY <1>2, <2>1 DEF TypeOK, SignalDown
<1>3. QED
  BY <1>1, <1>2

\* The type invariant holds initially,
LEMMA InitType == Init => TypeOK
  BY HandshakeAssumption
     DEF Init, TypeOK, DialStages, NegStages, TrickleStages, UpSignals,
         DownSignals, Dial, Neg

\* it is preserved by the steps of a dial,
LEMMA DialType ==
    ASSUME TypeOK, NEW d \in Dial, DialNext(d)
    PROVE  TypeOK'
<1>1. CASE Offer(d)
  BY <1>1, SignalType
     DEF Offer, TypeOK, network, down, negs, DialStages, Lingers
<1>2. CASE DialFails(d)
  BY <1>2 DEF DialFails, TypeOK, network, up, down, negs, DialStages, MayOwe
<1>3. CASE Connect(d)
  BY <1>3 DEF Connect, TypeOK, network, up, down, negs, DialStages
<1>4. CASE DialEnds(d)
  BY <1>4 DEF DialEnds, TypeOK, network, up, down, negs, DialStages
<1>5. CASE DialTrickleFails(d) \/ DialTrickleSends(d)
  BY <1>5, SignalType
     DEF DialTrickleFails, DialTrickleSends, DialTrickleGoes, TypeOK, network,
         up, down, negs, TrickleStages
<1>6. CASE SendError(d)
  BY <1>6, SignalType DEF SendError, TypeOK, network, down, negs
<1>7. CASE AbandonError(d)
  BY <1>7 DEF AbandonError, TypeOK, network, up, down, negs
<1>8. ASSUME NEW i \in 1..Len(downLog),
             TakeAnswer(d, i) \/ RefuseAnswer(d, i) \/ TakeError(d, i)
      PROVE  TypeOK'
  <2>1. downLog[i].from \in Neg /\ i \in Nat \ {0}
    BY DeliverableType
  <2>2. PICK t \in {"answer", "error"} : Takes(d, i, t)
    BY <1>8 DEF TakeAnswer, RefuseAnswer, TakeError
  <2>3. downAt' \in [Dial -> Nat \ {0}] /\ downLog' \in Seq(DownSignals)
    BY <2>1, <2>2 DEF Takes, Reached, TypeOK
  <2>4. CASE TakeAnswer(d, i)
    BY <2>1, <2>3, <2>4
       DEF TakeAnswer, TypeOK, network, up, negs, DialStages
  <2>5. CASE RefuseAnswer(d, i)
    BY <2>3, <2>5 DEF RefuseAnswer, TypeOK, network, up, negs, DialStages
  <2>6. CASE TakeError(d, i)
    BY <2>1, <2>3, <2>6
       DEF TakeError, TypeOK, network, up, negs, DialStages, MayOwe
  <2>7. QED
    BY <1>8, <2>4, <2>5, <2>6
<1>9. QED
  BY <1>1, <1>2, <1>3, <1>4, <1>5, <1>6, <1>7, <1>8 DEF DialNext

\* What ends a negotiation leaves it at the end, or with an error to signal.
LEMMA EndStages ==
    ASSUME NEW n \in Neg, neg[n] \in {"working", "answered", "open"}
    PROVE  EndOf(n) \in EndedStages /\ EndOf(n) \in NegStages \ {"idle"}
  BY DEF EndOf, EndedStages, NegStages

\* and by the steps of a negotiation.
LEMMA NegType ==
    ASSUME TypeOK, NEW n \in Neg, NegNext(n)
    PROVE  TypeOK'
<1> USE DEF NegGoesTo, network, up, down, dials, TypeOK, NegStages
<1>1. CASE Answer(n)
  BY <1>1, SignalType DEF Answer
<1>2. CASE GiveUp(n) \/ NegFails(n) \/ NoReply(n) \/ Accept(n)
             \/ CloseNeg(n)
  BY <1>2, EndStages DEF GiveUp, NegFails, NoReply, Accept, CloseNeg
<1>3. CASE Reply(n)
  BY <1>3, SignalType DEF Reply
<1>4. CASE NegTrickleFails(n) \/ NegTrickleSends(n)
  BY <1>4, SignalType
     DEF NegTrickleFails, NegTrickleSends, NegTrickleGoes, TrickleStages
<1>5. ASSUME NEW i \in 1..Len(upLog), Admit(n, i) \/ TakeCancel(n, i)
      PROVE  TypeOK'
  <2>1. upLog[i].from \in Dial /\ i \in Nat \ {0}
    BY DeliverableType
  <2>2. upAt' \in Nat \ {0} /\ upLog' \in Seq(UpSignals)
    BY <1>5, <2>1 DEF Admit, TakeCancel, Heard, Reached
  <2>3. CASE Admit(n, i)
    BY <2>1, <2>2, <2>3 DEF Admit
  <2>4. CASE TakeCancel(n, i)
    BY <2>1, <2>2, <2>4, EndStages DEF TakeCancel
  <2>5. QED
    BY <1>5, <2>3, <2>4
<1>6. QED
  BY <1>1, <1>2, <1>3, <1>4, <1>5 DEF NegNext

-----------------------------------------------------------------------------
(* What every step respects                                                 *)

\* Identifiers stay, nobody comes back, trickleCandidate fails for good, and
\* who has begun keeps its offer and its overlap.
Steady ==
    /\ id' = id /\ ordered' = ordered
    /\ \A d \in Dial :
         /\ dial[d] = "over" => dial'[d] = "over"
         /\ dial[d] # "idle" =>
              dial'[d] # "idle" /\ overlap'[d] = overlap[d]
         /\ dialTrickle[d] # "none" => dialTrickle'[d] # "none"
    /\ \A n \in Neg :
         /\ neg[n] = "over" => neg'[n] = "over"
         /\ neg[n] # "idle" =>
              /\ neg'[n] # "idle"
              /\ offer'[n] = offer[n] /\ negOverlap'[n] = negOverlap[n]
         /\ Ended(n) => neg'[n] \in EndedStages
         /\ negTrickle[n] # "none" => negTrickle'[n] # "none"

\* A dial that adds to its log has begun by then, may still signal if it had
\* begun before, and is over or about to be with its first error.
UpStep ==
    \/ upLog' = upLog
    \/ \E d \in Dial, t \in {"offer", "error"} :
         /\ SignalUp(d, t)
         /\ dial'[d] # "idle"
         /\ t = "offer" =>
              /\ dial[d] = "idle"
              /\ overlap'[d] =
                   (\E e \in Dial \ {d} : id[e] = id[d] /\ Lingers(e))
         /\ t = "error" =>
              /\ dial[d] # "idle" /\ Lingers(d)
              /\ dial'[d] = "over" \/ dialTrickle'[d] # "none"

\* A negotiation that adds to its log may still signal, and is over or about to
\* be with an error.
DownStep ==
    \/ downLog' = downLog
    \/ \E n \in Neg, t \in {"answer", "error"} :
         /\ SignalDown(n, t)
         /\ neg[n] # "idle" /\ NegLingers(n)
         /\ t = "error" =>
              neg'[n] \in EndedStages \/ negTrickle'[n] # "none"

\* The steps of a dial respect all three,
LEMMA DialSteady ==
    ASSUME TypeOK, Begun, NEW d \in Dial, DialNext(d)
    PROVE  Steady /\ UpStep /\ DownStep
<1> USE DEF network, up, down, negs, TypeOK, Steady, UpStep, DownStep, Ended,
            EndedStages
<1>1. CASE Offer(d)
  BY <1>1 DEF Offer
<1>2. CASE DialFails(d)
  BY <1>2 DEF DialFails
<1>3. CASE Connect(d)
  BY <1>3 DEF Connect
<1>4. CASE DialEnds(d)
  BY <1>4 DEF DialEnds
<1>5. CASE DialTrickleFails(d)
  BY <1>5 DEF DialTrickleFails, DialTrickleGoes
<1>6. CASE DialTrickleSends(d)
  BY <1>6 DEF DialTrickleSends, DialTrickleGoes, Lingers, Begun
<1>7. CASE SendError(d)
  BY <1>7 DEF SendError, Lingers, Begun
<1>8. CASE AbandonError(d)
  BY <1>8 DEF AbandonError
<1>9. ASSUME NEW i \in 1..Len(downLog),
             TakeAnswer(d, i) \/ RefuseAnswer(d, i) \/ TakeError(d, i)
      PROVE  Steady /\ UpStep /\ DownStep
  BY <1>9 DEF TakeAnswer, RefuseAnswer, TakeError, Takes
<1>10. QED
  BY <1>1, <1>2, <1>3, <1>4, <1>5, <1>6, <1>7, <1>8, <1>9 DEF DialNext

\* and so do the steps of a negotiation.
LEMMA NegSteady ==
    ASSUME TypeOK, Begun, NEW n \in Neg, NegNext(n)
    PROVE  Steady /\ UpStep /\ DownStep
<1> USE DEF NegGoesTo, network, up, down, dials, TypeOK, Steady, UpStep,
            DownStep, Ended, EndedStages, NegLingers, Holds
<1>1. CASE Answer(n)
  BY <1>1 DEF Answer
<1>2. CASE GiveUp(n) \/ NegFails(n) \/ NoReply(n) \/ Accept(n)
             \/ CloseNeg(n)
  BY <1>2, EndStages DEF GiveUp, NegFails, NoReply, Accept, CloseNeg
<1>3. CASE Reply(n)
  BY <1>3 DEF Reply
<1>4. CASE NegTrickleFails(n)
  BY <1>4 DEF NegTrickleFails, NegTrickleGoes
<1>5. CASE NegTrickleSends(n)
  BY <1>5 DEF NegTrickleSends, NegTrickleGoes, Begun
<1>6. ASSUME NEW i \in 1..Len(upLog), Admit(n, i) \/ TakeCancel(n, i)
      PROVE  Steady /\ UpStep /\ DownStep
  BY <1>6, EndStages DEF Admit, TakeCancel, Heard
<1>7. QED
  BY <1>1, <1>2, <1>3, <1>4, <1>5, <1>6 DEF NegNext

-----------------------------------------------------------------------------
(* Begun and ErrorsFinal                                                    *)

\* A log after a signal: what it held, then the signal.
LEMMA AppendedUp ==
    ASSUME TypeOK, NEW d \in Dial, NEW t \in {"offer", "error"},
           SignalUp(d, t)
    PROVE  /\ Len(upLog') = Len(upLog) + 1
           /\ \A i \in 1..Len(upLog) : upLog'[i] = upLog[i]
           /\ upLog'[Len(upLog) + 1] = [type |-> t, from |-> d]
           /\ upLog'[Len(upLog) + 1].type = t
           /\ upLog'[Len(upLog) + 1].from = d
           /\ \A i \in 1..Len(upLog') :
                i \in 1..Len(upLog) \/ i = Len(upLog) + 1
<1>1. Len(upLog) \in Nat /\ upLog' = Append(upLog, [type |-> t, from |-> d])
  BY DEF SignalUp, TypeOK
<1>2. upLog'[Len(upLog) + 1] = [type |-> t, from |-> d]
  BY <1>1 DEF TypeOK
<1>3. QED
  BY <1>1, <1>2 DEF TypeOK

LEMMA AppendedDown ==
    ASSUME TypeOK, NEW n \in Neg, NEW t \in {"answer", "error"},
           SignalDown(n, t)
    PROVE  /\ Len(downLog') = Len(downLog) + 1
           /\ \A i \in 1..Len(downLog) : downLog'[i] = downLog[i]
           /\ downLog'[Len(downLog) + 1] = [type |-> t, from |-> n]
           /\ downLog'[Len(downLog) + 1].type = t
           /\ downLog'[Len(downLog) + 1].from = n
           /\ \A i \in 1..Len(downLog') :
                i \in 1..Len(downLog) \/ i = Len(downLog) + 1
<1>1. Len(downLog) \in Nat /\ downLog' = Append(downLog, [type |-> t, from |-> n])
  BY DEF SignalDown, TypeOK
<1>2. downLog'[Len(downLog) + 1] = [type |-> t, from |-> n]
  BY <1>1 DEF TypeOK
<1>3. QED
  BY <1>1, <1>2 DEF TypeOK

\* The part of Begun that is about the logs, and ErrorsFinal,
LogsBegun ==
    /\ \A i \in 1..Len(upLog) : dial[upLog[i].from] # "idle"
    /\ \A i \in 1..Len(downLog) : neg[downLog[i].from] # "idle"

LEMMA LogsBegunStep ==
    ASSUME TypeOK, LogsBegun, ErrorsFinal, Steady, UpStep, DownStep
    PROVE  LogsBegun' /\ ErrorsFinal'
<1> DEFINE DialIsDoomed(d) == dial'[d] = "over" \/ dialTrickle'[d] # "none"
           NegIsDoomed(n) ==
             neg'[n] \in EndedStages \/ negTrickle'[n] # "none"
<1>1. ASSUME NEW i \in 1..Len(upLog), upLog'[i] = upLog[i]
      PROVE  /\ dial'[upLog'[i].from] # "idle"
             /\ upLog'[i].type = "error" => DialIsDoomed(upLog'[i].from)
  <2> DEFINE e == upLog[i].from
  <2>1. e \in Dial
    BY DeliverableType
  <2>2. dial[e] # "idle" /\ (upLog[i].type = "error" => Doomed(e))
    BY DEF LogsBegun, ErrorsFinal
  <2>3. dial'[e] # "idle" /\ (Doomed(e) => DialIsDoomed(e))
    BY <2>1, <2>2 DEF Steady, Doomed
  <2>4. QED
    BY <1>1, <2>2, <2>3
<1>2. ASSUME NEW i \in 1..Len(downLog), downLog'[i] = downLog[i]
      PROVE  /\ neg'[downLog'[i].from] # "idle"
             /\ downLog'[i].type = "error" => NegIsDoomed(downLog'[i].from)
  <2> DEFINE m == downLog[i].from
  <2>1. m \in Neg
    BY DeliverableType
  <2>2. neg[m] # "idle" /\ (downLog[i].type = "error" => NegDoomed(m))
    BY DEF LogsBegun, ErrorsFinal
  <2>3. neg'[m] # "idle" /\ (NegDoomed(m) => NegIsDoomed(m))
    BY <2>1, <2>2 DEF Steady, NegDoomed
  <2>4. QED
    BY <1>2, <2>2, <2>3
<1> HIDE DEF DialIsDoomed, NegIsDoomed
<1>3. ASSUME NEW i \in 1..Len(upLog')
      PROVE  /\ dial'[upLog'[i].from] # "idle"
             /\ upLog'[i].type = "error" => DialIsDoomed(upLog'[i].from)
  <2>1. CASE upLog' = upLog
    BY <1>1, <2>1
  <2>2. ASSUME NEW d \in Dial, NEW t \in {"offer", "error"}, SignalUp(d, t),
               dial'[d] # "idle", t = "error" => DialIsDoomed(d)
        PROVE  /\ dial'[upLog'[i].from] # "idle"
               /\ upLog'[i].type = "error" => DialIsDoomed(upLog'[i].from)
    <3>1. CASE i \in 1..Len(upLog)
      BY <1>1, <2>2, <3>1, AppendedUp
    <3>2. CASE i = Len(upLog) + 1
      <4>1. upLog'[i].from = d /\ upLog'[i].type = t
        BY <2>2, <3>2, AppendedUp
      <4>2. QED
        BY <2>2, <4>1
    <3>3. QED
      BY <2>2, <3>1, <3>2, AppendedUp
  <2>3. QED
    BY <2>1, <2>2 DEF UpStep, DialIsDoomed
<1>4. ASSUME NEW i \in 1..Len(downLog')
      PROVE  /\ neg'[downLog'[i].from] # "idle"
             /\ downLog'[i].type = "error" => NegIsDoomed(downLog'[i].from)
  <2>1. CASE downLog' = downLog
    BY <1>2, <2>1
  <2>2. ASSUME NEW n \in Neg, NEW t \in {"answer", "error"},
               SignalDown(n, t), neg[n] # "idle",
               t = "error" => NegIsDoomed(n)
        PROVE  /\ neg'[downLog'[i].from] # "idle"
               /\ downLog'[i].type = "error" => NegIsDoomed(downLog'[i].from)
    <3>1. CASE i \in 1..Len(downLog)
      BY <1>2, <2>2, <3>1, AppendedDown
    <3>2. CASE i = Len(downLog) + 1
      <4>1. downLog'[i].from = n /\ downLog'[i].type = t
        BY <2>2, <3>2, AppendedDown
      <4>2. neg'[n] # "idle"
        BY <2>2 DEF Steady
      <4>3. QED
        BY <2>2, <4>1, <4>2
    <3>3. QED
      BY <2>2, <3>1, <3>2, AppendedDown
  <2>3. QED
    BY <2>1, <2>2 DEF DownStep, NegIsDoomed
<1>5. LogsBegun'
  BY <1>3, <1>4 DEF LogsBegun
<1>6. ErrorsFinal'
  BY <1>3, <1>4
     DEF ErrorsFinal, Doomed, NegDoomed, Ended, DialIsDoomed, NegIsDoomed
<1>7. QED
  BY <1>5, <1>6

\* the part of Begun that is about dials and negotiations.
ActorsBegun ==
    /\ \A d \in Dial : dial[d] = "idle" =>
         peer[d] = None /\ link[d] = None /\ blame[d] = None
    /\ \A d \in Dial : owed[d] => dial[d] = "over"
    /\ \A d \in Dial : dialTrickle[d] # "none" => dial[d] # "idle"
    /\ \A d \in Dial : dial[d] \in {"starting", "conn"} => peer[d] # None
    /\ \A d \in Dial : blame[d] # None => dial[d] = "over"
    /\ \A n \in Neg : (neg[n] # "idle") <=> (offer[n] \in Dial)
    /\ \A n \in Neg : offer[n] # None => dial[offer[n]] # "idle"
    /\ \A n \in Neg : canceledBy[n] # None =>
         neg[n] # "idle" /\ dial[canceledBy[n]] # "idle"
    /\ \A n \in Neg : negTrickle[n] # "none" => neg[n] # "idle"

LEMMA DialBegun ==
    ASSUME TypeOK, ActorsBegun, NEW d \in Dial, DialNext(d)
    PROVE  ActorsBegun'
<1> USE DEF network, up, down, negs, TypeOK, ActorsBegun
<1>1. CASE Offer(d)
  BY <1>1 DEF Offer
<1>2. CASE DialFails(d)
  BY <1>2 DEF DialFails
<1>3. CASE Connect(d)
  BY <1>3 DEF Connect
<1>4. CASE DialEnds(d)
  BY <1>4 DEF DialEnds
<1>5. CASE DialTrickleFails(d) \/ DialTrickleSends(d)
  BY <1>5 DEF DialTrickleFails, DialTrickleSends, DialTrickleGoes
<1>6. CASE SendError(d)
  BY <1>6 DEF SendError
<1>7. CASE AbandonError(d)
  BY <1>7 DEF AbandonError
<1>8. ASSUME NEW i \in 1..Len(downLog),
             TakeAnswer(d, i) \/ RefuseAnswer(d, i) \/ TakeError(d, i)
      PROVE  ActorsBegun'
  <2>1. downLog[i].from \in Neg /\ None \notin Neg
    BY DeliverableType
  <2>2. CASE TakeAnswer(d, i)
    BY <2>1, <2>2 DEF TakeAnswer
  <2>3. CASE RefuseAnswer(d, i)
    BY <2>3 DEF RefuseAnswer
  <2>4. CASE TakeError(d, i)
    BY <2>4 DEF TakeError
  <2>5. QED
    BY <1>8, <2>2, <2>3, <2>4
<1>9. QED
  BY <1>1, <1>2, <1>3, <1>4, <1>5, <1>6, <1>7, <1>8 DEF DialNext

LEMMA NegBegun ==
    ASSUME TypeOK, ActorsBegun, LogsBegun, NEW n \in Neg, NegNext(n)
    PROVE  ActorsBegun'
<1> USE DEF NegGoesTo, network, up, down, dials, TypeOK, ActorsBegun
<1>1. CASE Answer(n)
  BY <1>1 DEF Answer
<1>2. CASE GiveUp(n) \/ NegFails(n) \/ NoReply(n) \/ Accept(n)
             \/ CloseNeg(n)
  BY <1>2, EndStages DEF GiveUp, NegFails, NoReply, Accept, CloseNeg
<1>3. CASE Reply(n)
  BY <1>3 DEF Reply
<1>4. CASE NegTrickleFails(n) \/ NegTrickleSends(n)
  BY <1>4 DEF NegTrickleFails, NegTrickleSends, NegTrickleGoes
<1>5. ASSUME NEW i \in 1..Len(upLog), Admit(n, i) \/ TakeCancel(n, i)
      PROVE  ActorsBegun'
  <2>1. upLog[i].from \in Dial /\ dial[upLog[i].from] # "idle"
    BY DeliverableType DEF LogsBegun
  <2>2. CASE Admit(n, i)
    BY <2>1, <2>2 DEF Admit, Heard
  <2>3. CASE TakeCancel(n, i)
    BY <2>1, <2>3, EndStages DEF TakeCancel, Heard
  <2>4. QED
    BY <1>5, <2>2, <2>3
<1>6. QED
  BY <1>1, <1>2, <1>3, <1>4, <1>5 DEF NegNext

LEMMA BegunParts == Begun <=> ActorsBegun /\ LogsBegun
  BY DEF Begun, ActorsBegun, LogsBegun

-----------------------------------------------------------------------------
(* OverlapSeen and UpOrder                                                  *)

\* Only an offer makes a dial one that may signal, and it is the only dial to
\* change then.
LingerStep ==
    \A d \in Dial : Lingers(d)' =>
        \/ Lingers(d)
        \/ /\ dial[d] = "idle"
           /\ overlap'[d] =
                (\E e \in Dial \ {d} : id[e] = id[d] /\ Lingers(e))
           /\ \A e \in Dial \ {d} : Lingers(e)' = Lingers(e)

LEMMA LingerNext ==
    ASSUME TypeOK, ActorsBegun, Next
    PROVE  LingerStep
<1> USE DEF network, up, down, TypeOK, LingerStep, Lingers
<1>1. ASSUME NEW d \in Dial, DialNext(d)
      PROVE  LingerStep
  <2> USE DEF negs
  <2>1. CASE Offer(d)
    BY <2>1 DEF Offer
  <2>2. CASE DialFails(d)
    BY <2>2 DEF DialFails
  <2>3. CASE Connect(d)
    BY <2>3 DEF Connect
  <2>4. CASE DialEnds(d)
    BY <2>4 DEF DialEnds
  <2>5. CASE DialTrickleFails(d) \/ DialTrickleSends(d)
    BY <2>5 DEF DialTrickleFails, DialTrickleSends, DialTrickleGoes
  <2>6. CASE SendError(d) \/ AbandonError(d)
    BY <2>6 DEF SendError, AbandonError
  <2>7. ASSUME NEW i \in 1..Len(downLog),
               TakeAnswer(d, i) \/ RefuseAnswer(d, i) \/ TakeError(d, i)
        PROVE  LingerStep
    BY <2>7 DEF TakeAnswer, RefuseAnswer, TakeError
  <2>8. QED
    BY <1>1, <2>1, <2>2, <2>3, <2>4, <2>5, <2>6, <2>7 DEF DialNext
<1>2. ASSUME NEW n \in Neg, NegNext(n)
      PROVE  UNCHANGED <<dial, owed, dialTrickle>>
  BY <1>2
     DEF NegNext, NegGoesTo, Answer, GiveUp, NegFails, Reply, NoReply, Accept,
         CloseNeg, NegTrickleFails, NegTrickleSends, NegTrickleGoes, Admit,
         TakeCancel, dials
<1>3. QED
  BY <1>1, <1>2 DEF Next

LEMMA OverlapSeenStep ==
    ASSUME TypeOK, ActorsBegun, OverlapSeen, Steady, LingerStep
    PROVE  OverlapSeen'
<1> SUFFICES ASSUME NEW d \in Dial, NEW e \in Dial, d # e,
                    id'[d] = id'[e], Lingers(d)', Lingers(e)'
             PROVE  overlap'[d] \/ overlap'[e]
  BY DEF OverlapSeen
<1>1. id[d] = id[e]
  BY DEF Steady
<1>2. \A x \in Dial : Lingers(x) => dial[x] # "idle"
  BY DEF Lingers, ActorsBegun
<1>3. CASE Lingers(d) /\ Lingers(e)
  BY <1>1, <1>2, <1>3 DEF OverlapSeen, Steady
<1>4. CASE ~Lingers(d)
  <2>1. Lingers(e) /\ e \in Dial \ {d}
    BY <1>4 DEF LingerStep
  <2>2. overlap'[d] = (\E x \in Dial \ {d} : id[x] = id[d] /\ Lingers(x))
    BY <1>4 DEF LingerStep
  <2>3. QED
    BY <1>1, <2>1, <2>2
<1>5. CASE ~Lingers(e)
  <2>1. Lingers(d) /\ d \in Dial \ {e}
    BY <1>5 DEF LingerStep
  <2>2. overlap'[e] = (\E x \in Dial \ {e} : id[x] = id[e] /\ Lingers(x))
    BY <1>5 DEF LingerStep
  <2>3. QED
    BY <1>1, <2>1, <2>2
<1>6. QED
  BY <1>3, <1>4, <1>5

LEMMA UpOrderStep ==
    ASSUME TypeOK, ActorsBegun, LogsBegun, OverlapSeen, UpOrder, Steady,
           UpStep
    PROVE  UpOrder'
<1>1. ASSUME NEW i \in 1..Len(upLog), NEW j \in 1..Len(upLog), i < j,
             upLog'[i] = upLog[i], upLog'[j] = upLog[j],
             upLog'[i].from # upLog'[j].from,
             id'[upLog'[i].from] = id'[upLog'[j].from]
      PROVE  \/ dial'[upLog'[i].from] = "over"
             \/ overlap'[upLog'[i].from] \/ overlap'[upLog'[j].from]
  <2>1. PICK d \in Dial, e \in Dial : d = upLog[i].from /\ e = upLog[j].from
    BY DeliverableType
  <2>2. dial[d] = "over" \/ overlap[d] \/ overlap[e]
    BY <1>1, <2>1 DEF UpOrder, Steady
  <2>3. dial[d] # "idle" /\ dial[e] # "idle"
    BY <2>1 DEF LogsBegun
  <2>4. dial'[d] = "over" \/ overlap'[d] \/ overlap'[e]
    BY <2>2, <2>3 DEF Steady
  <2>5. QED
    BY <1>1, <2>1, <2>4
<1>2. ASSUME NEW d \in Dial, NEW e \in Dial, d # e, id[d] = id[e],
             dial[d] # "idle",
             \/ /\ dial[e] = "idle"
                /\ overlap'[e] =
                     (\E x \in Dial \ {e} : id[x] = id[e] /\ Lingers(x))
             \/ dial[e] # "idle" /\ Lingers(e)
      PROVE  dial'[d] = "over" \/ overlap'[d] \/ overlap'[e]
  <2>1. CASE dial[d] = "over"
    BY <2>1 DEF Steady
  <2>2. CASE dial[d] # "over"
    <3>1. Lingers(d) /\ d \in Dial \ {e}
      BY <1>2, <2>2 DEF Lingers
    <3>2. CASE dial[e] = "idle"
      BY <1>2, <3>1, <3>2
    <3>3. CASE dial[e] # "idle"
      BY <1>2, <3>1, <3>3 DEF OverlapSeen, Steady
    <3>4. QED
      BY <3>2, <3>3
  <2>3. QED
    BY <2>1, <2>2
<1>3. CASE upLog' = upLog
  BY <1>1, <1>3 DEF UpOrder
<1>4. ASSUME NEW e \in Dial, NEW t \in {"offer", "error"}, SignalUp(e, t),
             t = "offer" =>
               /\ dial[e] = "idle"
               /\ overlap'[e] =
                    (\E x \in Dial \ {e} : id[x] = id[e] /\ Lingers(x)),
             t = "error" => dial[e] # "idle" /\ Lingers(e)
      PROVE  UpOrder'
  <2> SUFFICES ASSUME NEW i \in 1..Len(upLog'), NEW j \in 1..Len(upLog'),
                      i < j, upLog'[i].from # upLog'[j].from,
                      id'[upLog'[i].from] = id'[upLog'[j].from]
               PROVE  \/ dial'[upLog'[i].from] = "over"
                      \/ overlap'[upLog'[i].from]
                      \/ overlap'[upLog'[j].from]
    BY DEF UpOrder
  <2>1. Len(upLog) \in Nat /\ i \in 1..Len(upLog)
    <3>1. Len(upLog) \in Nat /\ Len(upLog') = Len(upLog) + 1
      BY <1>4, AppendedUp, DeliverableType
    <3>2. QED
      BY <3>1
  <2>2. CASE j \in 1..Len(upLog)
    BY <1>1, <1>4, <2>1, <2>2, AppendedUp
  <2>3. CASE j = Len(upLog) + 1
    <3>1. PICK d \in Dial : d = upLog[i].from
      BY <2>1, DeliverableType
    <3>2. upLog'[i].from = d /\ upLog'[j].from = e
      BY <1>4, <2>1, <2>3, <3>1, AppendedUp
    <3>3. d # e /\ id[d] = id[e] /\ dial[d] # "idle"
      BY <2>1, <3>1, <3>2 DEF LogsBegun, Steady
    <3>4. QED
      BY <1>2, <1>4, <3>2, <3>3
  <2>4. QED
    BY <1>4, <2>2, <2>3, AppendedUp
<1>5. QED
  BY <1>3, <1>4 DEF UpStep

-----------------------------------------------------------------------------
(* NegOverlapSeen and DownOrder                                             *)

\* Only an admission makes a negotiation one that may signal; it gets a key
\* that nobody holds, and it is the only negotiation to change then.
NegLingerStep ==
    \A n \in Neg : NegLingers(n)' =>
        \/ NegLingers(n)
        \/ /\ neg[n] = "idle"
           /\ \A m \in Neg : Holds(m) => id[offer'[n]] # id[offer[m]]
           /\ negOverlap'[n] =
                (\E m \in Neg : negTrickle[m] = "failing"
                               /\ id[offer'[n]] = id[offer[m]])
           /\ \A m \in Neg \ {n} : NegLingers(m)' => NegLingers(m)

LEMMA NegLingerNext ==
    ASSUME TypeOK, Next
    PROVE  NegLingerStep
<1> USE DEF TypeOK, NegLingerStep, NegLingers, Holds
<1>1. ASSUME NEW d \in Dial, DialNext(d)
      PROVE  neg' = neg /\ negTrickle' = negTrickle
  BY <1>1
     DEF DialNext, Offer, DialFails, Connect, DialEnds, DialTrickleFails,
         DialTrickleSends, DialTrickleGoes, SendError, AbandonError,
         TakeAnswer, RefuseAnswer, TakeError, negs
<1>2. ASSUME NEW n \in Neg, NegNext(n)
      PROVE  NegLingerStep
  <2> USE DEF NegGoesTo
  <2>1. CASE Answer(n) \/ GiveUp(n) \/ NegFails(n) \/ Reply(n) \/ NoReply(n)
    BY <2>1 DEF Answer, GiveUp, NegFails, Reply, NoReply
  <2>2. CASE Accept(n) \/ CloseNeg(n)
    BY <2>2 DEF Accept, CloseNeg
  <2>3. CASE NegTrickleFails(n) \/ NegTrickleSends(n)
    BY <2>3 DEF NegTrickleFails, NegTrickleSends, NegTrickleGoes
  <2>4. ASSUME NEW i \in 1..Len(upLog), TakeCancel(n, i)
        PROVE  NegLingerStep
    BY <2>4 DEF TakeCancel
  <2>5. ASSUME NEW i \in 1..Len(upLog), Admit(n, i)
        PROVE  NegLingerStep
    <3>1. neg[n] = "idle" /\ neg' = [neg EXCEPT ![n] = "working"]
          /\ negTrickle' = negTrickle
      BY <2>5 DEF Admit
    <3>2. offer'[n] = upLog[i].from
      BY <2>5 DEF Admit
    <3>3. \A m \in Neg : Holds(m) => id[offer'[n]] # id[offer[m]]
      BY <2>5, <3>2 DEF Admit, IsFor
    <3>4. negOverlap'[n] =
            (\E m \in Neg : negTrickle[m] = "failing"
                           /\ id[offer'[n]] = id[offer[m]])
      BY <2>5, <3>2 DEF Admit, IsFor
    <3>5. \A m \in Neg \ {n} : NegLingers(m)' => NegLingers(m)
      BY <3>1
    <3>6. QED
      <4> HIDE DEF NegLingers, Holds
      <4>1. QED
        BY <3>1, <3>3, <3>4, <3>5, Zenon
  <2>6. QED
    BY <1>2, <2>1, <2>2, <2>3, <2>4, <2>5 DEF NegNext
<1>3. QED
  BY <1>1, <1>2 DEF Next

LEMMA NegOverlapSeenStep ==
    ASSUME TypeOK, ActorsBegun, NegOverlapSeen, Steady, NegLingerStep
    PROVE  NegOverlapSeen'
<1> SUFFICES ASSUME NEW m \in Neg, NEW n \in Neg, m # n,
                    NegLingers(m)', NegLingers(n)',
                    id'[offer'[m]] = id'[offer'[n]]
             PROVE  negOverlap'[m] \/ negOverlap'[n]
  BY DEF NegOverlapSeen
<1>1. ASSUME NEW k \in Neg, NegLingers(k)
      PROVE  offer'[k] = offer[k] /\ negOverlap'[k] = negOverlap[k]
  <2>1. neg[k] # "idle"
    BY <1>1 DEF NegLingers, Holds, ActorsBegun
  <2>2. QED
    BY <2>1 DEF Steady
<1>2. id' = id
  BY DEF Steady
<1>3. CASE NegLingers(m) /\ NegLingers(n)
  BY <1>1, <1>2, <1>3 DEF NegOverlapSeen
<1>4. ASSUME NEW j \in Neg, NEW k \in Neg, j # k, ~NegLingers(k),
             NegLingers(j)', NegLingers(k)',
             id'[offer'[j]] = id'[offer'[k]]
      PROVE  negOverlap'[k]
  <2>1. /\ \A x \in Neg : Holds(x) => id[offer'[k]] # id[offer[x]]
        /\ negOverlap'[k] =
             (\E x \in Neg : negTrickle[x] = "failing"
                            /\ id[offer'[k]] = id[offer[x]])
        /\ \A x \in Neg \ {k} : NegLingers(x)' => NegLingers(x)
    BY <1>4 DEF NegLingerStep
  <2>2. NegLingers(j)
    BY <1>4, <2>1
  <2>3. id[offer'[k]] = id[offer[j]]
    BY <1>1, <1>2, <1>4, <2>2
  <2>4. negTrickle[j] = "failing"
    BY <2>1, <2>2, <2>3 DEF NegLingers
  <2>5. QED
    BY <2>1, <2>3, <2>4
<1>5. QED
  BY <1>3, <1>4

LEMMA DownOrderStep ==
    ASSUME TypeOK, LogsBegun, NegOverlapSeen, DownOrder, Steady, DownStep
    PROVE  DownOrder'
<1> DEFINE Done(m, n) ==
      neg'[m] = "over" \/ negOverlap'[m] \/ negOverlap'[n]
<1>1. ASSUME NEW i \in 1..Len(downLog), NEW j \in 1..Len(downLog), i < j,
             downLog'[i] = downLog[i], downLog'[j] = downLog[j],
             downLog'[i].from # downLog'[j].from,
             id'[offer'[downLog'[i].from]] = id'[offer'[downLog'[j].from]]
      PROVE  Done(downLog'[i].from, downLog'[j].from)
  <2>1. PICK m \in Neg, n \in Neg :
               m = downLog[i].from /\ n = downLog[j].from
    BY DeliverableType
  <2>2. neg[m] # "idle" /\ neg[n] # "idle"
    BY <2>1 DEF LogsBegun
  <2>3. id[offer[m]] = id[offer[n]] /\ m # n
    BY <1>1, <2>1, <2>2 DEF Steady
  <2>4. neg[m] = "over" \/ negOverlap[m] \/ negOverlap[n]
    BY <1>1, <2>1, <2>3 DEF DownOrder
  <2>5. Done(m, n)
    BY <2>2, <2>4 DEF Steady
  <2>6. QED
    BY <1>1, <2>1, <2>5
<1>2. ASSUME NEW m \in Neg, NEW n \in Neg, m # n, neg[m] # "idle",
             neg[n] # "idle", id[offer[m]] = id[offer[n]], NegLingers(n)
      PROVE  Done(m, n)
  <2>1. CASE neg[m] = "over"
    BY <2>1 DEF Steady
  <2>2. CASE neg[m] # "over"
    <3>1. NegLingers(m)
      BY <1>2, <2>2 DEF NegLingers, Holds
    <3>2. negOverlap[m] \/ negOverlap[n]
      BY <1>2, <3>1 DEF NegOverlapSeen
    <3>3. QED
      BY <1>2, <3>2 DEF Steady
  <2>3. QED
    BY <2>1, <2>2
<1>3. CASE downLog' = downLog
  BY <1>1, <1>3 DEF DownOrder
<1>4. ASSUME NEW n \in Neg, NEW t \in {"answer", "error"}, SignalDown(n, t),
             neg[n] # "idle", NegLingers(n)
      PROVE  DownOrder'
  <2> SUFFICES ASSUME NEW i \in 1..Len(downLog'),
                      NEW j \in 1..Len(downLog'),
                      i < j, downLog'[i].from # downLog'[j].from,
                      id'[offer'[downLog'[i].from]] =
                        id'[offer'[downLog'[j].from]]
               PROVE  Done(downLog'[i].from, downLog'[j].from)
    BY DEF DownOrder
  <2>1. Len(downLog) \in Nat /\ i \in 1..Len(downLog)
    <3>1. Len(downLog) \in Nat /\ Len(downLog') = Len(downLog) + 1
      BY <1>4, AppendedDown, DeliverableType
    <3>2. QED
      BY <3>1
  <2> HIDE DEF Done
  <2>2. CASE j \in 1..Len(downLog)
    BY <1>1, <1>4, <2>1, <2>2, AppendedDown
  <2>3. CASE j = Len(downLog) + 1
    <3>1. PICK m \in Neg : m = downLog[i].from
      BY <2>1, DeliverableType
    <3>2. downLog'[i].from = m /\ downLog'[j].from = n
      BY <1>4, <2>1, <2>3, <3>1, AppendedDown
    <3>3. neg[m] # "idle" /\ neg[n] # "idle"
      BY <1>4, <2>1, <3>1 DEF LogsBegun
    <3>4. m # n /\ id[offer[m]] = id[offer[n]]
      BY <3>2, <3>3 DEF Steady
    <3>5. Done(m, n)
      BY <1>2, <1>4, <3>3, <3>4
    <3>6. QED
      BY <3>2, <3>5
  <2>4. QED
    BY <1>4, <2>2, <2>3, AppendedDown
<1>5. QED
  BY <1>3, <1>4 DEF DownStep

-----------------------------------------------------------------------------
(* The two properties                                                       *)

\* The Listener only moves forward in an ordered log.
LEMMA AdmittedAtStep ==
    ASSUME TypeOK, AdmittedAt, Steady, UpStep, Next
    PROVE  AdmittedAt'
<1> SUFFICES ASSUME ordered, NEW n \in Neg, neg'[n] # "idle"
             PROVE  \E j \in 1..Len(upLog') :
                      /\ j <= upAt'
                      /\ upLog'[j] = [type |-> "offer", from |-> offer'[n]]
  BY DEF AdmittedAt, Steady
<1> DEFINE o == [type |-> "offer", from |-> offer'[n]]
<1>1. \A j \in 1..Len(upLog) : j \in 1..Len(upLog') /\ upLog'[j] = upLog[j]
  <2>1. ASSUME NEW d \in Dial, NEW t \in {"offer", "error"}, SignalUp(d, t),
               NEW j \in 1..Len(upLog)
        PROVE  j \in 1..Len(upLog') /\ upLog'[j] = upLog[j]
    <3>1. Len(upLog') = Len(upLog) + 1 /\ Len(upLog) \in Nat
      BY <2>1, AppendedUp, DeliverableType
    <3>2. upLog'[j] = upLog[j]
      BY <2>1, AppendedUp
    <3>3. QED
      BY <3>1, <3>2
  <2>2. QED
    BY <2>1 DEF UpStep
<1>2. \/ upAt' = upAt
      \/ \E i \in 1..Len(upLog) : upAt <= i /\ upAt' = i
  <2>1. ASSUME NEW i \in 1..Len(upLog), NEW t \in {"offer", "error"},
               Heard(i, t)
        PROVE  upAt <= i /\ upAt' = i
    BY <2>1 DEF Heard, Deliverable, Reached
  <2>2. ASSUME NEW d \in Dial, DialNext(d)
        PROVE  upAt' = upAt
    BY <2>2
       DEF DialNext, Offer, DialFails, Connect, DialEnds, DialTrickleFails,
           DialTrickleSends, DialTrickleGoes, SendError, AbandonError,
           TakeAnswer, RefuseAnswer, TakeError, up
  <2>3. ASSUME NEW m \in Neg, NegNext(m)
        PROVE  \/ upAt' = upAt
               \/ \E i \in 1..Len(upLog) : upAt <= i /\ upAt' = i
    BY <2>1, <2>3
       DEF NegNext, NegGoesTo, Answer, GiveUp, NegFails, Reply, NoReply,
           Accept, CloseNeg, NegTrickleFails, NegTrickleSends, NegTrickleGoes,
           Admit, TakeCancel, up
  <2>4. QED
    BY <2>2, <2>3 DEF Next
<1>3. \A j \in 1..Len(upLog) : j <= upAt => j <= upAt'
  BY <1>2 DEF TypeOK
<1>4. CASE neg[n] # "idle"
  <2>1. PICK j \in 1..Len(upLog) :
               /\ j <= upAt
               /\ upLog[j] = [type |-> "offer", from |-> offer[n]]
    BY <1>4 DEF AdmittedAt
  <2>2. offer'[n] = offer[n]
    BY <1>4 DEF Steady
  <2>3. QED
    BY <1>1, <1>3, <2>1, <2>2
<1>5. CASE neg[n] = "idle"
  <2>1. PICK i \in 1..Len(upLog) : Admit(n, i)
    <3>1. ASSUME NEW d \in Dial, DialNext(d)
          PROVE  neg' = neg
      BY <3>1
         DEF DialNext, Offer, DialFails, Connect, DialEnds, DialTrickleFails,
             DialTrickleSends, DialTrickleGoes, SendError, AbandonError,
             TakeAnswer, RefuseAnswer, TakeError, negs
    <3>2. PICK m \in Neg : NegNext(m)
      BY <1>5, <3>1 DEF Next
    <3>3. m = n
      BY <1>5, <3>2
         DEF NegNext, NegGoesTo, Answer, GiveUp, NegFails, Reply, NoReply,
             Accept, CloseNeg, NegTrickleFails, NegTrickleSends,
             NegTrickleGoes, Admit, TakeCancel, TypeOK
    <3>4. QED
      BY <1>5, <3>2, <3>3
         DEF NegNext, Answer, GiveUp, NegFails, Reply, NoReply, Accept,
             CloseNeg, NegTrickleFails, NegTrickleSends, NegTrickleGoes,
             TakeCancel
  <2>2. upLog[i] \in UpSignals /\ upLog[i].type = "offer"
        /\ offer'[n] = upLog[i].from /\ upAt' = i /\ i \in Nat
    BY <2>1 DEF Admit, Heard, Reached, TypeOK
  <2>3. upLog[i] = o /\ i <= upAt'
    BY <2>2 DEF UpSignals
  <2>4. i \in 1..Len(upLog') /\ upLog'[i] = o
    BY <1>1, <2>3
  <2>5. QED
    BY <2>3, <2>4, Zenon
<1>6. QED
  BY <1>4, <1>5

LEMMA CancelStep ==
    ASSUME TypeOK, Begun, ErrorsFinal, UpOrder, AdmittedAt, CancelsOwnDial,
           Steady, Next
    PROVE  CancelsOwnDial'
<1> DEFINE IsDoomed(d) == dial'[d] = "over" \/ dialTrickle'[d] # "none"
           Claim(n, d) ==
             /\ IsDoomed(d)
             /\ id'[d] = id'[offer'[n]]
             /\ \/ IsDoomed(offer'[n])
                \/ ~ordered' \/ overlap'[d] \/ overlap'[offer'[n]]
<1>0. \A d \in Dial : Doomed(d) => IsDoomed(d)
  BY DEF Steady, Doomed
<1>1. ASSUME NEW n \in Neg, canceledBy[n] # None
      PROVE  Claim(n, canceledBy[n])
  <2>1. PICK d \in Dial, e \in Dial : d = canceledBy[n] /\ e = offer[n]
    BY <1>1, DeliverableType DEF TypeOK, Begun
  <2>2. neg[n] # "idle" /\ dial[d] # "idle" /\ dial[e] # "idle"
    BY <1>1, <2>1, DeliverableType DEF Begun
  <2>3. /\ Doomed(d) /\ id[d] = id[e]
        /\ Doomed(e) \/ ~ordered \/ overlap[d] \/ overlap[e]
    BY <1>1, <2>1 DEF CancelsOwnDial
  <2>4. offer'[n] = e
    BY <2>1, <2>2 DEF Steady
  <2>5. /\ id' = id /\ ordered' = ordered
        /\ overlap'[d] = overlap[d] /\ overlap'[e] = overlap[e]
    BY <2>2 DEF Steady
  <2>6. QED
    BY <1>0, <2>1, <2>3, <2>4, <2>5
<1>2. ASSUME NEW n \in Neg, NEW i \in 1..Len(upLog), TakeCancel(n, i)
      PROVE  canceledBy'[n] # None => Claim(n, canceledBy'[n])
  <2>1. PICK d \in Dial, e \in Dial : d = upLog[i].from /\ e = offer[n]
    BY <1>2, DeliverableType DEF Begun, TakeCancel
  <2>2. /\ neg[n] # "idle" /\ upLog[i].type = "error" /\ id[d] = id[e]
        /\ canceledBy'[n] = d /\ offer'[n] = e
        /\ id' = id /\ ordered' = ordered /\ overlap' = overlap
    BY <1>2, <2>1
       DEF TakeCancel, Heard, IsFor, network, dials, TypeOK
  <2>3. Doomed(d)
    BY <2>1, <2>2 DEF ErrorsFinal
  <2>4. Doomed(e) \/ ~ordered \/ overlap[d] \/ overlap[e]
    <3>1. CASE d = e \/ ~ordered
      BY <2>3, <3>1
    <3>2. CASE d # e /\ ordered
      <4>1. PICK j \in 1..Len(upLog) :
                   /\ j <= upAt
                   /\ upLog[j] = [type |-> "offer", from |-> e]
        BY <2>1, <2>2, <3>2 DEF AdmittedAt
      <4>2. upAt <= i
        BY <1>2, <3>2 DEF TakeCancel, Heard, Deliverable
      <4>3. upLog[j].from = e /\ j # i
        BY <2>1, <3>2, <4>1
      <4>4. j < i
        BY <4>1, <4>2, <4>3 DEF TypeOK
      <4>5. dial[e] = "over" \/ overlap[e] \/ overlap[d]
        BY <2>1, <2>2, <3>2, <4>3, <4>4 DEF UpOrder
      <4>6. QED
        BY <4>5 DEF Doomed
    <3>3. QED
      BY <3>1, <3>2
  <2>5. QED
    BY <1>0, <2>2, <2>3, <2>4
<1>3. ASSUME NEW n \in Neg
      PROVE  \/ canceledBy'[n] = canceledBy[n]
             \/ \E i \in 1..Len(upLog) : TakeCancel(n, i)
  <2>1. ASSUME NEW d \in Dial, DialNext(d)
        PROVE  canceledBy' = canceledBy
    BY <2>1
       DEF DialNext, Offer, DialFails, Connect, DialEnds, DialTrickleFails,
           DialTrickleSends, DialTrickleGoes, SendError, AbandonError,
           TakeAnswer, RefuseAnswer, TakeError, negs
  <2>2. ASSUME NEW m \in Neg, NegNext(m)
        PROVE  \/ canceledBy'[n] = canceledBy[n]
               \/ \E i \in 1..Len(upLog) : TakeCancel(n, i)
    <3>1. CASE \E i \in 1..Len(upLog) : TakeCancel(m, i)
      BY <3>1 DEF TakeCancel, TypeOK
    <3>2. CASE ~(\E i \in 1..Len(upLog) : TakeCancel(m, i))
      BY <2>2, <3>2
         DEF NegNext, NegGoesTo, Answer, GiveUp, NegFails, Reply, NoReply,
             Accept, CloseNeg, NegTrickleFails, NegTrickleSends,
             NegTrickleGoes, Admit
    <3>3. QED
      BY <3>1, <3>2
  <2>3. QED
    BY <2>1, <2>2 DEF Next
<1>4. ASSUME NEW n \in Neg, canceledBy'[n] # None
      PROVE  Claim(n, canceledBy'[n])
  BY <1>1, <1>2, <1>3, <1>4
<1>5. QED
  BY <1>4 DEF CancelsOwnDial, Doomed

\* Only an answer changes the peer of a dial, and only an error its blame; the
\* place of a dial in the log moves with what it takes.
DownMoves ==
    \A d \in Dial :
        /\ \/ peer'[d] = peer[d]
           \/ \E i \in 1..Len(downLog) : TakeAnswer(d, i)
        /\ \/ blame'[d] = blame[d] /\ peer'[d] = peer[d]
           \/ dial'[d] # "over"
           \/ \E i \in 1..Len(downLog) : TakeError(d, i)
        /\ \/ downAt'[d] = downAt[d]
           \/ \E i \in 1..Len(downLog) :
                /\ i \in Deliverable(downLog, downAt[d])
                /\ downAt'[d] = Reached(downAt[d], i)
        /\ dial[d] = "over" => peer'[d] = peer[d]

LEMMA DownMovesNext ==
    ASSUME TypeOK, Next
    PROVE  DownMoves
<1> USE DEF TypeOK, DownMoves
<1>1. ASSUME NEW n \in Neg, NegNext(n)
      PROVE  DownMoves
  BY <1>1
     DEF NegNext, NegGoesTo, Answer, GiveUp, NegFails, Reply, NoReply, Accept,
         CloseNeg, NegTrickleFails, NegTrickleSends, NegTrickleGoes, Admit,
         TakeCancel, dials, down
<1>2. ASSUME NEW d \in Dial, DialNext(d)
      PROVE  DownMoves
  <2>1. CASE Offer(d) \/ DialFails(d) \/ Connect(d) \/ DialEnds(d)
               \/ DialTrickleFails(d) \/ DialTrickleSends(d)
               \/ SendError(d) \/ AbandonError(d)
    BY <2>1
       DEF Offer, DialFails, Connect, DialEnds, DialTrickleFails,
           DialTrickleSends, DialTrickleGoes, SendError, AbandonError, down
  <2>2. ASSUME NEW i \in 1..Len(downLog), TakeAnswer(d, i)
        PROVE  DownMoves
    BY <2>2 DEF TakeAnswer, Takes
  <2>3. ASSUME NEW i \in 1..Len(downLog), RefuseAnswer(d, i)
        PROVE  DownMoves
    BY <2>3 DEF RefuseAnswer, Takes
  <2>4. ASSUME NEW i \in 1..Len(downLog), TakeError(d, i)
        PROVE  DownMoves
    BY <2>4 DEF TakeError, Takes
  <2>5. QED
    BY <1>2, <2>1, <2>2, <2>3, <2>4 DEF DialNext
<1>3. QED
  BY <1>1, <1>2 DEF Next

\* A dial only moves forward in an ordered log.
LEMMA AnsweredAtStep ==
    ASSUME TypeOK, Begun, AnsweredAt, Steady, DownStep, DownMoves
    PROVE  AnsweredAt'
<1> SUFFICES ASSUME ordered, NEW d \in Dial, peer'[d] # None
             PROVE  \E j \in 1..Len(downLog') :
                      /\ j <= downAt'[d]
                      /\ downLog'[j].from = peer'[d]
                      /\ id'[d] = id'[offer'[peer'[d]]]
  BY DEF AnsweredAt, Steady, IsFor
<1>1. ASSUME NEW j \in 1..Len(downLog)
      PROVE  j \in 1..Len(downLog') /\ downLog'[j] = downLog[j]
  <2>1. ASSUME NEW n \in Neg, NEW t \in {"answer", "error"},
               SignalDown(n, t)
        PROVE  j \in 1..Len(downLog') /\ downLog'[j] = downLog[j]
    <3>1. Len(downLog') = Len(downLog) + 1 /\ Len(downLog) \in Nat
      BY <2>1, AppendedDown, DeliverableType
    <3>2. downLog'[j] = downLog[j]
      BY <2>1, AppendedDown
    <3>3. QED
      BY <3>1, <3>2
  <2>2. QED
    BY <2>1 DEF DownStep
<1>2. ASSUME NEW j \in 1..Len(downLog), j <= downAt[d]
      PROVE  j <= downAt'[d]
  <2>1. downAt[d] \in Nat /\ j \in Nat
    BY DEF TypeOK
  <2>2. CASE downAt'[d] = downAt[d]
    BY <1>2, <2>2
  <2>3. ASSUME NEW i \in 1..Len(downLog),
               i \in Deliverable(downLog, downAt[d]),
               downAt'[d] = Reached(downAt[d], i)
        PROVE  j <= downAt'[d]
    <3>1. downAt[d] <= i /\ downAt'[d] = i /\ i \in Nat
      BY <2>3 DEF Deliverable, Reached
    <3>2. QED
      BY <1>2, <2>1, <3>1
  <2>4. QED
    BY <2>2, <2>3 DEF DownMoves
<1>3. ASSUME NEW j \in 1..Len(downLog), NEW n \in Neg, neg[n] # "idle",
             downLog[j].from = n, id[d] = id[offer[n]], peer'[d] = n,
             j <= downAt'[d]
      PROVE  \E k \in 1..Len(downLog') :
               /\ k <= downAt'[d]
               /\ downLog'[k].from = peer'[d]
               /\ id'[d] = id'[offer'[peer'[d]]]
  <2>1. offer'[n] = offer[n] /\ id' = id
    BY <1>3 DEF Steady
  <2>2. QED
    BY <1>1, <1>3, <2>1
<1>4. CASE peer'[d] = peer[d]
  <2>1. PICK j \in 1..Len(downLog) :
               /\ j <= downAt[d]
               /\ downLog[j].from = peer[d]
               /\ id[d] = id[offer[peer[d]]]
    BY <1>4 DEF AnsweredAt, IsFor
  <2>2. PICK n \in Neg : n = downLog[j].from /\ neg[n] # "idle"
    BY DeliverableType DEF Begun
  <2>3. QED
    BY <1>2, <1>3, <1>4, <2>1, <2>2
<1>5. ASSUME NEW i \in 1..Len(downLog), TakeAnswer(d, i)
      PROVE  \E k \in 1..Len(downLog') :
               /\ k <= downAt'[d]
               /\ downLog'[k].from = peer'[d]
               /\ id'[d] = id'[offer'[peer'[d]]]
  <2>1. PICK n \in Neg : n = downLog[i].from /\ neg[n] # "idle"
    BY DeliverableType DEF Begun
  <2>2. peer'[d] = n /\ id[d] = id[offer[n]] /\ downAt'[d] = i
    BY <1>5, <2>1 DEF TakeAnswer, Takes, Reached, IsFor, TypeOK
  <2>3. i <= downAt'[d]
    BY <2>2
  <2>4. QED
    BY <1>3, <2>1, <2>2, <2>3
<1>6. QED
  BY <1>4, <1>5 DEF DownMoves

LEMMA ReplacementStep ==
    ASSUME TypeOK, Begun, Begun', ErrorsFinal, DownOrder, AnsweredAt,
           ReplacementSafe, Steady, DownMoves
    PROVE  ReplacementSafe'
<1> DEFINE IsDoomed(n) == neg'[n] \in EndedStages \/ negTrickle'[n] # "none"
           Claim(n, m) ==
             /\ IsDoomed(n)
             /\ ordered /\ m # None =>
                  IsDoomed(m) \/ negOverlap'[m] \/ negOverlap'[n]
<1> SUFFICES ASSUME NEW d \in Dial, blame'[d] # None
             PROVE  Claim(blame'[d], peer'[d])
  BY DEF ReplacementSafe, Steady, NegDoomed, Ended
<1>1. dial'[d] = "over" /\ None \notin Neg
  BY DeliverableType DEF Begun
<1>2. \A n \in Neg : NegDoomed(n) => IsDoomed(n) /\ neg[n] # "idle"
  BY DEF Steady, NegDoomed, Ended, EndedStages, Begun
<1>3. ASSUME ordered, peer[d] # None
      PROVE  peer[d] \in Neg /\ neg[peer[d]] # "idle"
  <2>1. PICK j \in 1..Len(downLog) : downLog[j].from = peer[d]
    BY <1>3 DEF AnsweredAt
  <2>2. neg[downLog[j].from] # "idle"
    BY DEF Begun
  <2>3. QED
    BY <1>3, <2>1, <2>2 DEF TypeOK
<1>4. ASSUME NEW n \in Neg, NegDoomed(n), blame'[d] = n, peer'[d] = peer[d],
             ordered /\ peer[d] # None =>
               NegDoomed(peer[d]) \/ negOverlap[peer[d]] \/ negOverlap[n]
      PROVE  Claim(blame'[d], peer'[d])
  <2>1. IsDoomed(n) /\ negOverlap'[n] = negOverlap[n]
    BY <1>2, <1>4 DEF Steady
  <2>2. ASSUME ordered, peer[d] # None
        PROVE  IsDoomed(peer[d]) \/ negOverlap'[peer[d]] \/ negOverlap'[n]
    <3>1. /\ peer[d] \in Neg
          /\ negOverlap'[peer[d]] = negOverlap[peer[d]]
      BY <1>3, <2>2 DEF Steady
    <3>2. QED
      BY <1>2, <1>4, <2>1, <2>2, <3>1
  <2>3. QED
    BY <1>4, <2>1, <2>2
<1>5. CASE blame'[d] = blame[d] /\ peer'[d] = peer[d]
  <2>1. blame[d] \in Neg
    BY <1>5 DEF TypeOK
  <2>2. /\ NegDoomed(blame[d])
        /\ ordered /\ peer[d] # None =>
             \/ NegDoomed(peer[d])
             \/ negOverlap[peer[d]] \/ negOverlap[blame[d]]
    BY <1>5 DEF ReplacementSafe
  <2>3. QED
    BY <1>4, <1>5, <2>1, <2>2
<1>6. ASSUME NEW i \in 1..Len(downLog), TakeError(d, i)
      PROVE  Claim(blame'[d], peer'[d])
  <2>1. PICK n \in Neg : n = downLog[i].from
    BY DeliverableType
  <2>2. /\ blame'[d] = n /\ peer'[d] = peer[d] /\ id[d] = id[offer[n]]
        /\ downLog[i].type = "error"
        /\ ordered => downAt[d] <= i
    BY <1>6, <2>1 DEF TakeError, Takes, IsFor, Deliverable, TypeOK
  <2>3. NegDoomed(n)
    BY <2>1, <2>2 DEF ErrorsFinal
  <2>4. ASSUME ordered, peer[d] # None
        PROVE  NegDoomed(peer[d]) \/ negOverlap[peer[d]] \/ negOverlap[n]
    <3>1. PICK j \in 1..Len(downLog) :
                 /\ j <= downAt[d]
                 /\ downLog[j].from = peer[d]
                 /\ id[d] = id[offer[peer[d]]]
      BY <2>4 DEF AnsweredAt, IsFor
    <3>2. CASE peer[d] = n
      BY <2>3, <3>2
    <3>3. CASE peer[d] # n
      <4>1. j # i
        BY <2>1, <3>1, <3>3
      <4>2. j < i
        BY <2>2, <2>4, <3>1, <4>1 DEF TypeOK
      <4>3. \/ neg[peer[d]] = "over"
            \/ negOverlap[peer[d]] \/ negOverlap[n]
        BY <2>1, <2>2, <3>1, <3>3, <4>2 DEF DownOrder
      <4>4. QED
        BY <4>3 DEF NegDoomed, Ended, EndedStages
    <3>4. QED
      BY <3>2, <3>3
  <2>5. QED
    BY <1>4, <2>2, <2>3, <2>4
<1>7. QED
  BY <1>1, <1>5, <1>6 DEF DownMoves

LEMMA LinkOwnStep ==
    ASSUME TypeOK, Begun, LinkOwn, Steady, Next
    PROVE  LinkOwn'
<1>1. ASSUME NEW n \in Neg, NegNext(n)
      PROVE  LinkOwn'
  <2>1. link' = link /\ dial' = dial
    BY <1>1
       DEF NegNext, NegGoesTo, Answer, GiveUp, NegFails, Reply, NoReply,
           Accept, CloseNeg, NegTrickleFails, NegTrickleSends, NegTrickleGoes,
           Admit, TakeCancel, dials
  <2>2. ASSUME NEW e \in Dial, link[e] # None
        PROVE  offer'[link[e]] = e
    <3>1. link[e] \in Neg /\ offer[link[e]] = e
      BY <2>2 DEF LinkOwn, TypeOK
    <3>2. CASE neg[link[e]] # "idle"
      BY <3>1, <3>2 DEF Steady
    <3>3. CASE neg[link[e]] = "idle"
      BY <3>1, <3>3 DEF Begun
    <3>4. QED
      BY <3>2, <3>3
  <2>3. QED
    BY <2>1, <2>2 DEF LinkOwn
<1>2. ASSUME NEW d \in Dial, DialNext(d)
      PROVE  LinkOwn'
  <2>1. offer' = offer
    BY <1>2
       DEF DialNext, Offer, DialFails, Connect, DialEnds, DialTrickleFails,
           DialTrickleSends, DialTrickleGoes, SendError, AbandonError,
           TakeAnswer, RefuseAnswer, TakeError, negs
  <2>2. CASE Connect(d)
    BY <2>1, <2>2 DEF Connect, LinkOwn, TypeOK
  <2>3. CASE ~Connect(d)
    BY <1>2, <2>1, <2>3
       DEF DialNext, Offer, DialFails, DialEnds, DialTrickleFails,
           DialTrickleSends, DialTrickleGoes, SendError, AbandonError,
           TakeAnswer, RefuseAnswer, TakeError, LinkOwn, TypeOK, Begun
  <2>4. QED
    BY <2>2, <2>3
<1>3. QED
  BY <1>1, <1>2 DEF Next

-----------------------------------------------------------------------------
(* The theorems                                                             *)

\* The inductive invariant holds initially,
LEMMA InitInv == Init => IInv
<1>1. SUFFICES ASSUME Init PROVE IInv
  OBVIOUS
<1>2. TypeOK /\ Len(upLog) = 0 /\ Len(downLog) = 0 /\ 1..0 = {}
  BY <1>1, InitType DEF Init
<1>3. Begun
  BY <1>1, <1>2, DeliverableType DEF Begun, Init
<1>4. ErrorsFinal /\ UpOrder /\ DownOrder
  BY <1>1, <1>2 DEF ErrorsFinal, UpOrder, DownOrder
<1>5. OverlapSeen /\ AdmittedAt /\ CancelsOwnDial
  BY <1>1 DEF OverlapSeen, AdmittedAt, CancelsOwnDial, Init, Lingers
<1>6. NegOverlapSeen /\ AnsweredAt /\ ReplacementSafe /\ LinkOwn
  BY <1>1
     DEF NegOverlapSeen, AnsweredAt, ReplacementSafe, LinkOwn, Init, Holds,
         NegLingers
<1>7. QED
  BY <1>2, <1>3, <1>4, <1>5, <1>6 DEF IInv

\* and every step preserves it.
LEMMA NextInv == IInv /\ [Next]_vars => IInv'
<1> SUFFICES ASSUME IInv, [Next]_vars PROVE IInv'
  OBVIOUS
<1> USE DEF IInv
<1>1. CASE Next
  <2>1. TypeOK'
    BY <1>1, DialType, NegType DEF Next
  <2>2. Steady /\ UpStep /\ DownStep
    BY <1>1, DialSteady, NegSteady DEF Next
  <2>3. LogsBegun' /\ ErrorsFinal'
    BY <2>2, LogsBegunStep, BegunParts
  <2>4. ActorsBegun'
    BY <1>1, DialBegun, NegBegun, BegunParts DEF Next
  <2>5. Begun'
    BY <2>3, <2>4 DEF Begun, LogsBegun, ActorsBegun
  <2>6. OverlapSeen' /\ UpOrder'
    BY <1>1, <2>2, LingerNext, OverlapSeenStep, UpOrderStep, BegunParts
  <2>7. AdmittedAt' /\ CancelsOwnDial'
    BY <1>1, <2>2, AdmittedAtStep, CancelStep
  <2>8. NegOverlapSeen' /\ DownOrder'
    BY <1>1, <2>2, NegLingerNext, NegOverlapSeenStep, DownOrderStep,
       BegunParts
  <2>9. AnsweredAt' /\ ReplacementSafe'
    BY <1>1, <2>2, <2>5, DownMovesNext, AnsweredAtStep, ReplacementStep
  <2>10. LinkOwn'
    BY <1>1, <2>2, LinkOwnStep
  <2>11. QED
    BY <2>1, <2>3, <2>5, <2>6, <2>7, <2>8, <2>9, <2>10
<1>2. CASE UNCHANGED vars
  BY <1>2
     DEF vars, network, up, down, dials, negs, TypeOK, Begun, ErrorsFinal,
         OverlapSeen, UpOrder, AdmittedAt, CancelsOwnDial, NegOverlapSeen,
         DownOrder, AnsweredAt, ReplacementSafe, LinkOwn, Ended, Lingers,
         Holds, NegLingers, IsFor, Doomed, NegDoomed
<1>3. QED
  BY <1>1, <1>2

LEMMA InvAlways == Safe => []IInv
  BY InitInv, NextInv, PTL DEF Safe

\* Type correctness of Dialers and Listener together.
THEOREM HandshakeTypeCorrect == Spec => []TypeOK
<1>1. IInv => TypeOK
  BY DEF IInv
<1>2. QED
  BY <1>1, InvAlways, PTL DEF Spec

\* The error of a dial, late or early, cancels no negotiation of a dial that
\* goes on, unless the Signaling reorders or the dials overlap
\* (Dialer.signalError, Conn.trickleCandidate).
THEOREM ErrorsCancelOwn == Spec => []CancelsOwnDial
<1>1. IInv => CancelsOwnDial
  BY DEF IInv
<1>2. QED
  BY <1>1, InvAlways, PTL DEF Spec

\* A failure reply reaches no replacement, and a duplicate does not end the
\* original (listenerNegotiator.finish, close and handleSignal); an error of
\* trickleCandidate may, if it is still under way when the key is given back.
THEOREM ReplacementsSafe == Spec => []ReplacementSafe
<1>1. IInv => ReplacementSafe
  BY DEF IInv
<1>2. QED
  BY <1>1, InvAlways, PTL DEF Spec

-----------------------------------------------------------------------------
(* The refinement                                                           *)

\* The ends of the connections as Pairing sees them.
Dials == [d \in Dial |-> DialEnd(d)]
Negs == [n \in Neg |-> NegEnd(n)]

LEMMA RefineInit == Init => Pair!Init
  BY DEF Init, Pair!Init, DialEnd, NegEnd, Ended, EndedStages

LEMMA RefineStutter == UNCHANGED vars => UNCHANGED Pair!vars
  BY DEF vars, dials, negs, Pair!vars, DialEnd, NegEnd, Ended, EndedStages

\* A step that sets one dial to a stage s, and links nothing.
LEMMA RefineDialStage ==
    ASSUME TypeOK, NEW d \in Dial, NEW s \in DialStages, s # "conn",
           dial[d] # "over",
           dial[d] = "conn" => s = "over",
           dial' = [dial EXCEPT ![d] = s],
           UNCHANGED <<link, neg>>
    PROVE  [Pair!Next]_(Pair!vars)
<1>1. Negs' = Negs /\ link' = link
  BY DEF Negs, NegEnd, Ended
<1>2. CASE s = "over"
  <2>1. DialEnd(d) # "over"
    BY DEF DialEnd
  <2>2. Dials' = [Dials EXCEPT ![d] = "over"]
    BY <1>2 DEF Dials, DialEnd, TypeOK
  <2>3. Pair!EndDial(d)
    BY <1>1, <2>1, <2>2 DEF Pair!EndDial, Dials, Negs
  <2>4. QED
    BY <2>3 DEF Pair!Next
<1>3. CASE s # "over"
  <2>1. Dials' = Dials
    BY <1>3 DEF Dials, DialEnd, TypeOK
  <2>2. QED
    BY <1>1, <2>1 DEF Pair!vars, Dials, Negs
<1>4. QED
  BY <1>2, <1>3

\* The steps of a dial,
LEMMA RefineDial ==
    ASSUME IInv, NEW d \in Dial, DialNext(d)
    PROVE  [Pair!Next]_(Pair!vars)
<1> USE DEF IInv, negs
<1>1. CASE Connect(d)
  <2> DEFINE n == peer[d]
  <2>1. n \in Neg /\ offer[n] = d /\ DialEnd(d) = "none"
    BY <1>1 DEF Connect, Begun, TypeOK, DialEnd
  <2>2. \A e \in Dial : link[e] # n
    BY <1>1, <2>1, DeliverableType DEF Connect, LinkOwn
  <2>3. Negs' = Negs /\ link' = [link EXCEPT ![d] = n]
    BY <1>1 DEF Connect, Negs, NegEnd, Ended
  <2>4. Dials' = [Dials EXCEPT ![d] = "open"]
    BY <1>1 DEF Connect, Dials, DialEnd, TypeOK
  <2>5. Pair!Connect(d, n)
    BY <2>1, <2>2, <2>3, <2>4 DEF Pair!Connect, Dials, Negs
  <2>6. QED
    BY <2>1, <2>5 DEF Pair!Next
<1>2. CASE Offer(d)
  BY <1>2, RefineDialStage DEF Offer, DialStages
<1>3. CASE DialFails(d)
  BY <1>3, RefineDialStage DEF DialFails, DialStages
<1>4. CASE DialEnds(d)
  BY <1>4, RefineDialStage DEF DialEnds, DialStages
<1>5. CASE DialTrickleFails(d) \/ DialTrickleSends(d)
  BY <1>5
     DEF DialTrickleFails, DialTrickleSends, DialTrickleGoes,
         Pair!vars, DialEnd, NegEnd, Ended
<1>6. CASE SendError(d) \/ AbandonError(d)
  BY <1>6
     DEF SendError, AbandonError, Pair!vars, DialEnd, NegEnd, Ended
<1>7. ASSUME NEW i \in 1..Len(downLog),
             TakeAnswer(d, i) \/ RefuseAnswer(d, i) \/ TakeError(d, i)
      PROVE  [Pair!Next]_(Pair!vars)
  <2>1. CASE TakeAnswer(d, i)
    BY <2>1, RefineDialStage DEF TakeAnswer, DialStages
  <2>2. CASE RefuseAnswer(d, i)
    BY <2>2, RefineDialStage DEF RefuseAnswer, DialStages
  <2>3. CASE TakeError(d, i)
    BY <2>3, RefineDialStage DEF TakeError, DialStages
  <2>4. QED
    BY <1>7, <2>1, <2>2, <2>3
<1>8. QED
  BY <1>1, <1>2, <1>3, <1>4, <1>5, <1>6, <1>7 DEF DialNext

\* A step that sets one negotiation to a stage s and accepts nothing.
LEMMA RefineNegStage ==
    ASSUME TypeOK, NEW n \in Neg, NEW s \in NegStages, s # "open",
           neg[n] = "open" => s \in EndedStages,
           Ended(n) => s \in EndedStages,
           neg' = [neg EXCEPT ![n] = s],
           UNCHANGED <<link, dial>>
    PROVE  [Pair!Next]_(Pair!vars)
<1>1. Dials' = Dials /\ link' = link
  BY DEF Dials, DialEnd
<1>2. CASE s \in EndedStages /\ ~Ended(n)
  <2>1. NegEnd(n) # "over"
    BY <1>2 DEF NegEnd
  <2>2. Negs' = [Negs EXCEPT ![n] = "over"]
    BY <1>2 DEF Negs, NegEnd, Ended, EndedStages, TypeOK
  <2>3. Pair!EndNeg(n)
    BY <1>1, <2>1, <2>2 DEF Pair!EndNeg, Dials, Negs
  <2>4. QED
    BY <2>3 DEF Pair!Next
<1>3. CASE s \notin EndedStages \/ Ended(n)
  <2>1. Negs' = Negs
    BY <1>3 DEF Negs, NegEnd, Ended, EndedStages, TypeOK
  <2>2. QED
    BY <1>1, <2>1 DEF Pair!vars, Dials, Negs
<1>4. QED
  BY <1>2, <1>3

\* and those of a negotiation are steps of Pairing or leave it alone.
LEMMA RefineNeg ==
    ASSUME IInv, NEW n \in Neg, NegNext(n)
    PROVE  [Pair!Next]_(Pair!vars)
<1> USE DEF IInv, NegGoesTo, dials
<1>1. CASE Accept(n)
  <2>1. offer[n] \in Dial /\ link[offer[n]] = n /\ NegEnd(n) = "none"
    BY <1>1 DEF Accept, Begun, NegEnd, Ended, EndedStages
  <2>2. Dials' = Dials /\ link' = link
    BY <1>1 DEF Accept, Dials, DialEnd
  <2>3. Negs' = [Negs EXCEPT ![n] = "open"]
    BY <1>1 DEF Accept, Negs, NegEnd, Ended, TypeOK
  <2>4. Pair!Accept(n)
    BY <2>1, <2>2, <2>3 DEF Pair!Accept, Dials, Negs
  <2>5. QED
    BY <2>4 DEF Pair!Next
<1>2. ASSUME NEW s \in NegStages, NegGoesTo(n, s), s # "open",
             neg[n] = "open" => s \in EndedStages,
             Ended(n) => s \in EndedStages
      PROVE  [Pair!Next]_(Pair!vars)
  BY <1>2, RefineNegStage
<1>3. CASE Answer(n)
  BY <1>2, <1>3 DEF Answer, NegStages, Ended, EndedStages
<1>4. CASE GiveUp(n) \/ NegFails(n) \/ Reply(n) \/ NoReply(n)
  BY <1>2, <1>4
     DEF GiveUp, NegFails, Reply, NoReply, NegStages, Ended, EndedStages
<1>5. CASE CloseNeg(n)
  BY <1>2, <1>5, EndStages DEF CloseNeg, NegStages, Ended, EndedStages
<1>6. CASE NegTrickleFails(n) \/ NegTrickleSends(n)
  BY <1>6
     DEF NegTrickleFails, NegTrickleSends, NegTrickleGoes, Pair!vars, DialEnd,
         NegEnd, Ended
<1>7. ASSUME NEW i \in 1..Len(upLog), Admit(n, i)
      PROVE  [Pair!Next]_(Pair!vars)
  BY <1>7, RefineNegStage DEF Admit, NegStages, Ended, EndedStages
<1>8. ASSUME NEW i \in 1..Len(upLog), TakeCancel(n, i)
      PROVE  [Pair!Next]_(Pair!vars)
  BY <1>8, RefineNegStage, EndStages DEF TakeCancel, Ended, EndedStages
<1>9. QED
  BY <1>1, <1>3, <1>4, <1>5, <1>6, <1>7, <1>8 DEF NegNext

\* A dial and a negotiation connect with each other only: the safety of the
\* promise that Dialer and Listener keep together.
THEOREM HandshakeRefinesPairing == Spec => Pair!Safe
<1>1. IInv /\ [Next]_vars => [Pair!Next]_(Pair!vars)
  <2>1. ASSUME IInv, Next
        PROVE  [Pair!Next]_(Pair!vars)
    BY <2>1, RefineDial, RefineNeg DEF Next
  <2>2. QED
    BY <2>1, RefineStutter
<1>2. QED
  BY <1>1, RefineInit, InvAlways, PTL DEF Spec, Safe, Pair!Safe

-----------------------------------------------------------------------------
(* The lives of dials and negotiations                                      *)

DL == INSTANCE DialLife WITH life <- dial
NL == INSTANCE NegotiationLife WITH life <- neg

LEMMA DialsLive ==
    ASSUME TypeOK, Begun, NEW d \in Dial, DialNext(d)
    PROVE  [DL!Next]_(DL!vars) /\ neg' = neg
<1> USE DEF negs, DL!vars, DL!GoesTo
<1>1. CASE Offer(d)
  BY <1>1 DEF Offer, DL!Next, DL!Offer
<1>2. CASE DialFails(d)
  BY <1>2 DEF DialFails, MayOwe, DL!Next, DL!Fail
<1>3. CASE Connect(d)
  BY <1>3 DEF Connect, DL!Next, DL!Connect
<1>4. CASE DialEnds(d)
  BY <1>4 DEF DialEnds, DL!Next, DL!Close
<1>5. ASSUME dial[d] \in {"offered", "starting", "conn"},
             dial' = [dial EXCEPT ![d] = "over"],
             \E o \in MayOwe(d) : owed' = [owed EXCEPT ![d] = o]
      PROVE  [DL!Next]_(DL!vars)
  <2>1. CASE dial[d] = "conn"
    <3>1. ~owed[d] /\ owed' = [owed EXCEPT ![d] = FALSE]
      BY <1>5, <2>1 DEF MayOwe, Begun
    <3>2. owed' = owed
      BY <3>1 DEF TypeOK
    <3>3. QED
      BY <1>5, <2>1, <3>2 DEF DL!Next, DL!Close
  <2>2. CASE dial[d] # "conn"
    BY <1>5, <2>2 DEF MayOwe, DL!Next, DL!Fail
  <2>3. QED
    BY <2>1, <2>2
<1>6. CASE DialTrickleFails(d) \/ DialTrickleSends(d)
  BY <1>6 DEF DialTrickleFails, DialTrickleSends, DialTrickleGoes
<1>7. CASE SendError(d) \/ AbandonError(d)
  BY <1>7 DEF SendError, AbandonError, DL!Next, DL!Settle
<1>8. ASSUME NEW i \in 1..Len(downLog),
             TakeAnswer(d, i) \/ RefuseAnswer(d, i) \/ TakeError(d, i)
      PROVE  [DL!Next]_(DL!vars) /\ neg' = neg
  <2>1. CASE TakeAnswer(d, i)
    BY <2>1 DEF TakeAnswer, DL!Next, DL!AcceptAnswer
  <2>2. CASE RefuseAnswer(d, i)
    BY <2>2 DEF RefuseAnswer, DL!Next, DL!Fail
  <2>3. CASE TakeError(d, i)
    BY <1>5, <2>3 DEF TakeError
  <2>4. QED
    BY <1>8, <2>1, <2>2, <2>3
<1>9. QED
  BY <1>1, <1>2, <1>3, <1>4, <1>6, <1>7, <1>8 DEF DialNext

LEMMA NegsLive ==
    ASSUME TypeOK, NEW n \in Neg, NegNext(n)
    PROVE  [NL!Next]_neg /\ UNCHANGED DL!vars
<1>1. UNCHANGED <<dial, owed>>
  BY
     DEF NegNext, NegGoesTo, Answer, GiveUp, NegFails, Reply, NoReply, Accept,
         CloseNeg, NegTrickleFails, NegTrickleSends, NegTrickleGoes, Admit,
         TakeCancel, dials
<1>2. \A l : l \in NL!After[neg[n]] /\ neg' = [neg EXCEPT ![n] = l]
              => NL!Next
  BY DEF NL!Next, NL!Step
<1>3. /\ NL!After["idle"] = {"working"}
      /\ NL!After["working"] = {"canceled", "answered", "failing"}
      /\ NL!After["canceled"] = {"failing", "over"}
      /\ NL!After["answered"] = {"failing", "open"}
      /\ NL!After["failing"] = {"over"}
      /\ NL!After["open"] = {"over"}
  BY DEF NL!After
<1>4. \/ neg' = neg
      \/ \E l : l \in NL!After[neg[n]] /\ neg' = [neg EXCEPT ![n] = l]
  <2>1. CASE Answer(n)
    BY <1>3, <2>1 DEF Answer, NegGoesTo
  <2>2. CASE GiveUp(n) \/ NegFails(n)
    BY <1>3, <2>2 DEF GiveUp, NegFails, NegGoesTo
  <2>3. CASE Reply(n) \/ NoReply(n) \/ Accept(n)
    BY <1>3, <2>3 DEF Reply, NoReply, Accept, NegGoesTo
  <2>4. CASE CloseNeg(n) \/ \E i \in 1..Len(upLog) : TakeCancel(n, i)
    <3>1. /\ neg[n] \in {"working", "answered", "open"}
          /\ neg' = [neg EXCEPT ![n] = EndOf(n)]
      BY <2>4 DEF CloseNeg, TakeCancel, NegGoesTo
    <3>2. EndOf(n) \in NL!After[neg[n]]
      BY <1>3, <3>1 DEF EndOf
    <3>3. QED
      BY <3>1, <3>2
  <2>5. CASE \E i \in 1..Len(upLog) : Admit(n, i)
    BY <1>3, <2>5 DEF Admit
  <2>6. CASE NegTrickleFails(n) \/ NegTrickleSends(n)
    BY <2>6 DEF NegTrickleFails, NegTrickleSends, NegTrickleGoes
  <2>7. QED
    BY <2>1, <2>2, <2>3, <2>4, <2>5, <2>6 DEF NegNext
<1>5. QED
  BY <1>1, <1>2, <1>4 DEF DL!vars

\* Every dial and every negotiation of Handshake lives one of the lives that
\* DialerRefinesLife and ListenerRefinesLife show to be those of DialContext
\* and of negotiate: composed, they keep the interface they have apart.
THEOREM HandshakeRefinesLives == Spec => DL!Spec /\ NL!Spec
<1>1. Init => DL!Init /\ NL!Init
  BY DEF Init, DL!Init, NL!Init
<1>2. IInv /\ [Next]_vars => [DL!Next]_(DL!vars) /\ [NL!Next]_neg
  <2> SUFFICES ASSUME IInv, [Next]_vars
               PROVE  [DL!Next]_(DL!vars) /\ [NL!Next]_neg
    OBVIOUS
  <2>1. CASE UNCHANGED vars
    BY <2>1 DEF vars, dials, negs, DL!vars
  <2>2. QED
    BY <2>1, DialsLive, NegsLive DEF Next, IInv
<1>3. QED
  BY <1>1, <1>2, InvAlways, PTL DEF Spec, Safe, DL!Spec, NL!Spec

-----------------------------------------------------------------------------
(* Descriptions *)

\* Each attribute is read where it was written.
LEMMA AttributesKept == DescriptionKept
<1>1. SUFFICES ASSUME NEW desc \in Description
      PROVE  /\ Parses(Encode(desc))
             /\ ParseDescription(Encode(desc))
                  = [desc EXCEPT !.fingerprints = <<desc.fingerprints[1]>>]
    BY DEF DescriptionKept
<1>2. /\ desc.role \in Role /\ desc.candidates \in {<<>>, <<Candidate>>}
      /\ desc.fingerprints \in {<<f>> : f \in Fingerprint}
                                 \cup Fingerprint \X Fingerprint
      /\ desc = [role |-> desc.role, fingerprints |-> desc.fingerprints,
                 identity |-> desc.identity, candidates |-> desc.candidates]
    BY DEF Description
<1>3. /\ desc.fingerprints # <<>> /\ desc.fingerprints[1] \in Fingerprint
      /\ Head(desc.fingerprints) = desc.fingerprints[1]
    BY <1>2
<1>4. ParsedFingerprint(Encode(desc)) = desc.fingerprints[1]
    BY <1>3 DEF ParsedFingerprint, Attribute, Encode
<1>5. Parses(Encode(desc))
    BY <1>3, <1>4, DescriptionAssumption DEF Parses, Encode
<1>6. SetupRole(ConnectionRole(desc.role)) = desc.role
    BY <1>2 DEF SetupRole, ConnectionRole, Role
<1>7. ParsedIdentity(Encode(desc)) = desc.identity
    BY DEF ParsedIdentity, Attribute, Encode
<1>8. <<>> \o desc.candidates = desc.candidates
    BY <1>2
<1>9. ParseDescription(Encode(desc)) =
        [role |-> desc.role, fingerprints |-> <<desc.fingerprints[1]>>,
         identity |-> desc.identity, candidates |-> desc.candidates]
  <2>1. /\ Encode(desc).setup = ConnectionRole(desc.role)
        /\ Encode(desc).session.candidate = <<>>
        /\ Encode(desc).media.candidate = desc.candidates
    BY DEF Encode
  <2>2. QED
    BY <1>4, <1>6, <1>7, <1>8, <2>1 DEF ParseDescription
<1>10. QED
    BY <1>2, <1>5, <1>9

\* The roles of offer and answer fit, whichever the offer asks for.
LEMMA RolesFit == RolesAgree
BY DEF RolesAgree, Role, SetupRole, ConnectionRole, AnswererRole, Acts

\* The loop of defaultCandidate.
LEMMA ChosenNext ==
    ASSUME NEW candidates \in Seq(Kind)
    PROVE  /\ Chosen(candidates)[0] = [at |-> 0, family |-> 0, preference |-> 0]
           /\ \A i \in 1 .. Len(candidates) : Chosen(candidates)[i] =
                IF Replaces(candidates[i], Chosen(candidates)[i - 1])
                  THEN [at |-> i, family |-> candidates[i].family,
                        preference |-> TypePreference(candidates[i])]
                  ELSE Chosen(candidates)[i - 1]
<1> DEFINE D == 0 .. Len(candidates)
           S == [at : Nat, family : {0, 4, 6}, preference : 0 .. 3]
           Body(i, f) ==
             IF i = 0 THEN [at |-> 0, family |-> 0, preference |-> 0]
             ELSE IF Replaces(candidates[i], f[i - 1])
               THEN [at |-> i, family |-> candidates[i].family,
                     preference |-> TypePreference(candidates[i])]
             ELSE f[i - 1]
           body == [p \in D \X [D -> S] |-> Body(p[1], p[2])]
<1>1. D \in SUBSET Nat /\ [at |-> 0, family |-> 0, preference |-> 0] \in S
    OBVIOUS
<1>2. \A i \in D, f \in [D -> S] : Body(i, f) \in S
  <2>1. SUFFICES ASSUME NEW i \in D, NEW f \in [D -> S], i # 0
                 PROVE  Body(i, f) \in S
    OBVIOUS
  <2>2. candidates[i] \in Kind /\ f[i - 1] \in S /\ i \in Nat
    BY <2>1
  <2>3. /\ candidates[i].family \in {0, 4, 6}
        /\ TypePreference(candidates[i]) \in 0 .. 3
    BY <2>2 DEF Kind, TypePreference
  <2>4. QED
    BY <2>1, <2>2, <2>3
<1>3. body \in [D \X [D -> S] -> S]
    BY <1>2
<1>4. \A i \in D : \A f, g \in [D -> S] :
        (\A j \in D : j < i => f[j] = g[j]) => body[<<i, f>>] = body[<<i, g>>]
  <2>1. ASSUME NEW i \in D, NEW f \in [D -> S], NEW g \in [D -> S],
               \A j \in D : j < i => f[j] = g[j]
        PROVE  Body(i, f) = Body(i, g)
    <3>1. i # 0 => i - 1 \in D /\ i - 1 < i
      OBVIOUS
    <3>2. i # 0 => f[i - 1] = g[i - 1]
      BY <2>1, <3>1
    <3>3. QED
      BY <3>2
  <2> HIDE DEF Body
  <2>2. QED
    BY <2>1
<1>5. \E f \in [D -> S] : \A i \in D : f[i] = body[<<i, f>>]
  <2>1. S # {}
    BY <1>1
  <2> HIDE DEF body, D, S, Body
  <2>2. Determines(body, D, S)
    BY <1>1, <1>3, <1>4 DEF Determines
  <2>3. QED
    BY <2>1, <2>2, Recursion
<1>6. PICK f \in [D -> S] : f = [i \in D |-> Body(i, f)]
  <2>1. \A i \in D, f \in [D -> S] : body[<<i, f>>] = Body(i, f)
    OBVIOUS
  <2> HIDE DEF body, D, S, Body
  <2>2. QED
    BY <1>5, <2>1
<1>7. Chosen(candidates) = [i \in D |-> Body(i, Chosen(candidates))]
    BY <1>6 DEF Chosen
<1>8. QED
    BY <1>7

\* What the loop has chosen among the first i candidates is usable, has no
\* better or equal one of its family before it, no better one after it, and
\* yields to the first of the other family if its own is IPv6.
BestOf(candidates, i, current) ==
    \/ /\ current = [at |-> 0, family |-> 0, preference |-> 0]
       /\ \A j \in 1 .. i : ~candidates[j].usable
    \/ /\ current.at \in 1 .. i
       /\ candidates[current.at].usable
       /\ current.family = candidates[current.at].family
       /\ current.preference = TypePreference(candidates[current.at])
       /\ \A j \in 1 .. i : candidates[j].usable =>
            /\ candidates[j].family = current.family =>
                 /\ TypePreference(candidates[j]) <= current.preference
                 /\ TypePreference(candidates[j]) = current.preference
                      => current.at <= j
            /\ current.family = 6 => candidates[j].family = 6

LEMMA KindType ==
    \A c \in Kind : /\ c.family \in {4, 6} /\ c.usable \in BOOLEAN
                    /\ TypePreference(c) \in 0 .. 3
BY DEF Kind, TypePreference

\* By induction on the number of candidates the loop has seen.
LEMMA ChosenBest ==
    ASSUME NEW candidates \in Seq(Kind)
    PROVE  \A i \in 0 .. Len(candidates) :
             BestOf(candidates, i, Chosen(candidates)[i])
<1> DEFINE n == Len(candidates)
           current(i) == Chosen(candidates)[i]
           T == {i \in Nat : i <= n => BestOf(candidates, i, current(i))}
<1>1. 0 \in T
    BY ChosenNext DEF BestOf
<1>2. ASSUME NEW i \in Nat, i \in T PROVE i + 1 \in T
  <2>1. SUFFICES ASSUME i + 1 <= n
                 PROVE  BestOf(candidates, i + 1, current(i + 1))
    OBVIOUS
  <2> DEFINE c == candidates[i + 1]
  <2>2. /\ BestOf(candidates, i, current(i))
        /\ i + 1 \in 1 .. n /\ n \in Nat
    BY <1>2, <2>1
  <2>3. current(i + 1) = IF Replaces(c, current(i))
                           THEN [at |-> i + 1, family |-> c.family,
                                 preference |-> TypePreference(c)]
                           ELSE current(i)
    <3>1. (i + 1) - 1 = i
      OBVIOUS
    <3>2. QED
      BY <2>2, <3>1, ChosenNext
  <2>4. \A j \in 1 .. i + 1 :
          /\ candidates[j] \in Kind
          /\ candidates[j].family \in {4, 6}
          /\ TypePreference(candidates[j]) \in 0 .. 3
    <3>1. \A j \in 1 .. i + 1 : candidates[j] \in Kind
      BY <2>2
    <3>2. QED
      BY <3>1, KindType
  <2>5. \A j \in 1 .. i + 1 : j \in 1 .. i \/ j = i + 1
    OBVIOUS
  <2> HIDE DEF n, current
  <2>6. CASE ~Replaces(c, current(i)) /\ ~c.usable
    BY <2>2, <2>3, <2>4, <2>5, <2>6 DEF BestOf
  <2>7. CASE ~Replaces(c, current(i)) /\ c.usable
    <3>1. /\ current(i).at # 0
          /\ current(i).at \in 1 .. i
      BY <2>2, <2>4, <2>7 DEF BestOf, Replaces
    <3>2. \/ current(i).family = c.family
             /\ TypePreference(c) <= current(i).preference
          \/ current(i).family = 4 /\ c.family = 6
      BY <2>7 DEF Replaces
    <3>3. QED
      BY <2>2, <2>3, <2>4, <2>5, <2>7, <3>1, <3>2 DEF BestOf
  <2>8. CASE Replaces(c, current(i))
    <3>1. c.usable
          /\ ~(current(i).family = c.family
               /\ TypePreference(c) <= current(i).preference)
          /\ ~(current(i).family = 4 /\ c.family = 6)
      BY <2>8 DEF Replaces
    <3>2. /\ current(i + 1).at = i + 1 /\ current(i + 1).family = c.family
          /\ current(i + 1).preference = TypePreference(c)
      BY <2>3, <2>8
    <3>3. ASSUME NEW j \in 1 .. i, candidates[j].usable
          PROVE  /\ candidates[j].family = c.family =>
                      TypePreference(candidates[j]) < TypePreference(c)
                 /\ c.family = 6 => candidates[j].family = 6
      <4>1. /\ candidates[j].family \in {4, 6} /\ c.family \in {4, 6}
            /\ TypePreference(candidates[j]) \in 0 .. 3
            /\ TypePreference(c) \in 0 .. 3
        BY <2>4
      <4>2. /\ candidates[j].family = current(i).family =>
                 TypePreference(candidates[j]) <= current(i).preference
            /\ current(i).family = 6 => candidates[j].family = 6
            /\ current(i).family \in {4, 6} /\ current(i).preference \in 0 .. 3
        BY <2>2, <2>4, <3>3 DEF BestOf
      <4>3. QED
        BY <3>1, <4>1, <4>2
    <3>4. QED
      BY <2>4, <2>5, <3>1, <3>2, <3>3 DEF BestOf
  <2>9. QED
    BY <2>6, <2>7, <2>8
<1> HIDE DEF T
<1>3. Nat \subseteq T
    BY <1>1, <1>2, SimpleInduction
<1>4. QED
    BY <1>3 DEF T

\* At the end of the loop the choice is the one DefaultIsBest describes.
LEMMA DefaultFound == DefaultIsBest
<1>1. SUFFICES ASSUME NEW candidates \in BoundedSeq(Kind, MaxCandidates)
      PROVE  LET usable == {i \in DOMAIN candidates : candidates[i].usable}
                 v4 == {i \in usable : candidates[i].family = 4}
                 pool == IF v4 # {} THEN v4 ELSE usable
                 best == {i \in pool : \A j \in pool :
                            TypePreference(candidates[j])
                              <= TypePreference(candidates[i])}
             IN  DefaultCandidate(candidates)
                   = IF pool = {} THEN 0 ELSE Min(best)
    BY DEF DefaultIsBest
<1>2. candidates \in Seq(Kind)
    BY DescriptionAssumption DEF BoundedSeq, SeqOf
<1> DEFINE n == Len(candidates)
           usable == {i \in DOMAIN candidates : candidates[i].usable}
           v4 == {i \in usable : candidates[i].family = 4}
           pool == IF v4 # {} THEN v4 ELSE usable
           best == {i \in pool : \A j \in pool :
                      TypePreference(candidates[j])
                        <= TypePreference(candidates[i])}
           current == Chosen(candidates)[n]
<1>3. /\ n \in Nat /\ DOMAIN candidates = 1 .. n
      /\ BestOf(candidates, n, current)
    BY <1>2, ChosenBest
<1>4. DefaultCandidate(candidates) = current.at
    BY DEF DefaultCandidate
<1>5. \A j \in 1 .. n : /\ candidates[j].family \in {4, 6}
                        /\ TypePreference(candidates[j]) \in 0 .. 3
  <2>1. \A j \in 1 .. n : candidates[j] \in Kind
    BY <1>2
  <2>2. QED
    BY <2>1, KindType
<1> HIDE DEF n, current
<1>6. CASE current = [at |-> 0, family |-> 0, preference |-> 0]
           /\ \A j \in 1 .. n : ~candidates[j].usable
    BY <1>3, <1>4, <1>6
<1>7. CASE ~(current = [at |-> 0, family |-> 0, preference |-> 0]
             /\ \A j \in 1 .. n : ~candidates[j].usable)
  <2>1. /\ current.at \in 1 .. n
        /\ candidates[current.at].usable
        /\ current.family = candidates[current.at].family
        /\ current.preference = TypePreference(candidates[current.at])
        /\ \A j \in 1 .. n : candidates[j].usable =>
             /\ candidates[j].family = current.family =>
                  /\ TypePreference(candidates[j]) <= current.preference
                  /\ TypePreference(candidates[j]) = current.preference
                       => current.at <= j
             /\ current.family = 6 => candidates[j].family = 6
    BY <1>3, <1>7 DEF BestOf
  <2>2. pool = {j \in usable : candidates[j].family = current.family}
    BY <1>3, <1>5, <2>1
  <2>3. current.at \in pool
    BY <1>3, <2>1, <2>2
  <2>4. current.at \in best
    BY <1>3, <2>1, <2>2, <2>3
  <2>5. \A i \in best : current.at <= i
    <3>1. ASSUME NEW i \in best PROVE current.at <= i
      <4>1. i \in 1 .. n /\ candidates[i].usable
            /\ candidates[i].family = current.family
            /\ current.preference <= TypePreference(candidates[i])
        BY <1>3, <2>1, <2>2, <2>3
      <4>2. TypePreference(candidates[i]) <= current.preference
        BY <2>1, <4>1
      <4>3. TypePreference(candidates[i]) = current.preference
        BY <1>5, <2>1, <4>1, <4>2
      <4>4. QED
        BY <2>1, <4>1, <4>3
    <3>2. QED
      BY <3>1
  <2>6. \A i \in best : i \in Nat
    BY <1>3
  <2> HIDE DEF best
  <2>7. Min(best) = current.at
    <3>1. \A x \in best : (\A y \in best : x <= y) => x = current.at
      BY <2>1, <1>3, <2>4, <2>5, <2>6
    <3>2. QED
      BY <2>4, <2>5, <3>1 DEF Min
  <2>8. QED
    BY <1>4, <2>3, <2>7 DEF best
<1>8. QED
    BY <1>6, <1>7

\* What Encode writes is what ParseDescription reads, one peer starts DTLS, and
\* defaultCandidate finds the first of the best candidates, however many there
\* are and in whatever order.
THEOREM DescriptionsKept == DescriptionsAgree
BY AttributesKept, RolesFit, DefaultFound DEF DescriptionsAgree

\* Whenever a dial has taken an answer, both sides have read each other's
\* description as it was meant.
THEOREM AlwaysUnderstood == Spec => []PeersUnderstand
<1>1. PeersUnderstand
    BY DescriptionsKept DEF PeersUnderstand
<1>2. QED
    BY <1>1, PTL
=============================================================================
