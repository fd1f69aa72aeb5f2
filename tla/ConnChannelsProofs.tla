------------------------- MODULE ConnChannelsProofs -------------------------
(* Theorems about ConnChannels for every set of channels. *)
EXTENDS ConnChannels, FiniteSetTheorems, TLAPS

USE ChannelsAssumption

\* The channels whose OnOpen has called back.
Fired == {r \in Channel : fires[r] > 0}

\* opened counts each of them once.
CountInv == opened = Cardinality(Fired) /\ Fired \subseteq stored

\* Who has the Conn when conn.close looks at its channels.
CloseInv ==
    /\ close # "open" => ctx = "done"
    /\ exposed => opener = "returned"
    /\ exposed /\ close \in {"channels", "closed"} =>
         snapshot \cup shut = Channel
    /\ close = "closed" => snapshot = {}

\* NewDataChannel is called for a MessageReliability.
CreateInv == opener = "store" => creating \in Channel

ChannelsInv == TypeOK /\ CreateInv /\ CountInv /\ ReadyHasChannels /\ CloseInv

\* A set of channels is finite, and has all of them if it has as many.
LEMMA CountRange ==
    ASSUME NEW S, S \subseteq Channel
    PROVE  /\ IsFiniteSet(S)
           /\ Cardinality(S) \in 0 .. Cardinality(Channel)
           /\ Cardinality(S) = Cardinality(Channel) => S = Channel
<1>1. /\ IsFiniteSet(S) /\ Cardinality(S) <= Cardinality(Channel)
      /\ Cardinality(S) = Cardinality(Channel) => S = Channel
    BY FS_Subset
<1>2. Cardinality(S) \in Nat /\ Cardinality(Channel) \in Nat
    BY <1>1, FS_CardinalityType
<1>3. QED
    BY <1>1, <1>2

\* Initially there are no channels.
LEMMA ChannelsInit == Init => ChannelsInv
<1> SUFFICES ASSUME Init PROVE ChannelsInv
    OBVIOUS
<1>1. Fired = {}
    BY DEF Init, Fired
<1>2. Cardinality(Fired) = 0 /\ 0 \in 0 .. Cardinality(Channel)
    BY <1>1, FS_EmptySet, FS_CardinalityType
<1>3. TypeOK
  <2>1. 0 \in 0 .. MaxOpenings /\ 0 \in 0 .. MaxFires
    OBVIOUS
  <2>2. QED
    BY <1>2, <2>1 DEF Init, TypeOK
<1>4. QED
    BY <1>1, <1>2, <1>3 DEF Init, ChannelsInv, CreateInv, CountInv, ReadyHasChannels,
      CloseInv

\* A call of OnOpen's function changes the count only if it is the first.
LEMMA CountOpen ==
    ASSUME ChannelsInv, NEW r \in Channel, OnOpen(r)
    PROVE  ChannelsInv'
<1>1. /\ r \in stored /\ fires[r] \in 0 .. MaxFires /\ fires[r] < MaxFires
      /\ fires' = [fires EXCEPT ![r] = fires[r] + 1]
      /\ opened' = opened + CountsOnce(fires[r])
      /\ fires \in [Channel -> 0 .. MaxFires]
    BY DEF OnOpen, ChannelsInv, TypeOK
<1>2. Fired' = Fired \cup {r}
    BY <1>1 DEF Fired
<1>3. Fired \subseteq Channel /\ (r \in Fired <=> fires[r] # 0)
    BY <1>1 DEF Fired
<1>4. opened' = Cardinality(Fired')
  <2>1. CASE r \in Fired
    <3>1. opened' = opened /\ Fired' = Fired
      <4>1. opened \in Int /\ CountsOnce(fires[r]) = 0
        <5>1. Cardinality(Channel) \in Nat
          BY FS_CardinalityType
        <5>2. QED
          BY <1>3, <2>1, <5>1 DEF CountsOnce, ChannelsInv, TypeOK
      <4>2. QED
        BY <1>1, <1>2, <2>1, <4>1
    <3>2. QED
      BY <3>1 DEF ChannelsInv, CountInv
  <2>2. CASE r \notin Fired
    <3>1. opened' = opened + 1
      BY <1>1, <1>3, <2>2 DEF CountsOnce
    <3>2. IsFiniteSet(Fired)
      BY <1>3, CountRange
    <3>3. Cardinality(Fired \cup {r}) = Cardinality(Fired) + 1
      BY <2>2, <3>2, FS_AddElement
    <3>4. QED
      BY <1>2, <3>1, <3>3 DEF ChannelsInv, CountInv
  <2>3. QED
    BY <2>1, <2>2
<1>5. fires' \in [Channel -> 0 .. MaxFires]
    BY <1>1
<1>6. opened' \in 0 .. Cardinality(Channel)
  <2>1. Fired' \subseteq Channel
    BY <1>2, <1>3
  <2>2. QED
    BY <1>4, <2>1, CountRange
<1>7. TypeOK'
    BY <1>5, <1>6 DEF OnOpen, ChannelsInv, TypeOK, negotiation, peer, closing
<1>8. CountInv'
    BY <1>1, <1>2, <1>4 DEF OnOpen, ChannelsInv, CountInv
<1>9. ReadyHasChannels' /\ CloseInv'
    BY DEF OnOpen, ChannelsInv, ReadyHasChannels, CloseInv, negotiation, closing
<1>10. CreateInv'
    BY DEF OnOpen, ChannelsInv, CreateInv, negotiation
<1>11. QED
    BY <1>7, <1>8, <1>9, <1>10 DEF ChannelsInv

\* Every step keeps the invariant.
LEMMA ChannelsStep ==
    ASSUME ChannelsInv, [Next]_vars
    PROVE  ChannelsInv'
<1> USE DEF ChannelsInv
<1>1. UNCHANGED fires => Fired' = Fired
    BY DEF Fired
<1>2. CASE Start
    BY <1>1, <1>2 DEF Start, TypeOK, CreateInv, CountInv, ReadyHasChannels, CloseInv, peer,
      counting, closing
<1>3. CASE Fail
    BY <1>1, <1>3 DEF Fail, Dialing, TypeOK, CreateInv, CountInv, ReadyHasChannels, CloseInv, peer,
      counting, closing
<1>4. CASE Store
    BY <1>1, <1>4 DEF Store, TypeOK, CreateInv, CountInv, ReadyHasChannels, CloseInv, peer,
      counting, closing, Complete
<1>5. CASE ChannelsReady
  <2>1. stored = Channel
    <3>1. Fired \subseteq Channel /\ Fired \subseteq stored
          /\ stored \subseteq Channel
      BY DEF Fired, CountInv, TypeOK
    <3>2. Cardinality(Fired) = Cardinality(Channel)
      BY <1>5 DEF ChannelsReady, CountInv
    <3>3. QED
      BY <3>1, <3>2, CountRange
  <2>2. QED
    BY <1>1, <1>5, <2>1 DEF ChannelsReady, TypeOK, CreateInv, CountInv, ReadyHasChannels,
      CloseInv, peer, counting, closing
<1>6. CASE Return
  <2>1. exposed' => close = "open"
    BY <1>6 DEF Return, CloseInv
  <2>2. QED
    BY <1>1, <1>6, <2>1 DEF Return, TypeOK, CreateInv, CountInv, ReadyHasChannels,
      CloseInv, peer, counting, closing
<1>7. CASE Announce
    BY <1>1, <1>7 DEF Announce, TypeOK, CreateInv, CountInv, ReadyHasChannels, CloseInv,
      negotiation, counting, closing
<1>8. CASE OnDataChannel
  <2>1. /\ stored \subseteq stored' /\ stored' \subseteq Channel
        /\ asked' \in BOOLEAN /\ callback' = "idle"
    BY <1>8 DEF OnDataChannel, CallbackOver, TypeOK
  <2>2. QED
    BY <1>1, <1>8, <2>1 DEF OnDataChannel, TypeOK, CreateInv, CountInv, ReadyHasChannels,
      CloseInv, negotiation, counting, closing
<1>9. ASSUME NEW r \in Channel, Create(r)
      PROVE  ChannelsInv'
    BY <1>1, <1>9 DEF Create, TypeOK, CreateInv, CountInv, ReadyHasChannels, CloseInv,
      peer, counting, closing
<1>10. CASE Ask
    BY <1>1, <1>10 DEF Ask, TypeOK, CreateInv, CountInv, ReadyHasChannels, CloseInv,
      negotiation, peer, counting, closing
<1>11. CASE PeerError
    BY <1>1, <1>11 DEF PeerError, TypeOK, CreateInv, CountInv, ReadyHasChannels, CloseInv,
      negotiation, peer, counting, closing
<1>12. CASE CloseBegin
    BY <1>1, <1>12 DEF CloseBegin, TypeOK, CreateInv, CountInv, ReadyHasChannels, CloseInv,
      negotiation, peer, counting
<1>13. CASE CloseSnapshot
    BY <1>1, <1>13 DEF CloseSnapshot, TypeOK, CreateInv, CountInv, ReadyHasChannels,
      CloseInv, negotiation, peer, counting
<1>14. ASSUME NEW r \in Channel, CloseChannel(r)
       PROVE  ChannelsInv'
    BY <1>1, <1>14 DEF CloseChannel, TypeOK, CreateInv, CountInv, ReadyHasChannels,
      CloseInv, negotiation, peer, counting
<1>15. CASE CloseStop
    BY <1>1, <1>15 DEF CloseStop, TypeOK, CreateInv, CountInv, ReadyHasChannels, CloseInv,
      negotiation, peer, counting
<1>16. CASE UNCHANGED vars
    BY <1>1, <1>16 DEF vars, TypeOK, CreateInv, CountInv, ReadyHasChannels, CloseInv,
      negotiation, peer, counting, closing
<1>17. QED
    BY <1>2, <1>3, <1>4, <1>5, <1>6, <1>7, <1>8, <1>9, <1>10, <1>11, <1>12,
      <1>13, <1>14, <1>15, <1>16, CountOpen DEF Next, CloseStep

\* So it holds always.
LEMMA ChannelsAlways == Spec => []ChannelsInv
BY ChannelsInit, ChannelsStep, PTL DEF Spec

\* What is counted and stored keeps its types; opened does not exceed the
\* number of channels although OnOpen may call back repeatedly.
THEOREM ChannelsTypeCorrect == Spec => []TypeOK
<1>1. ChannelsInv => TypeOK
    BY DEF ChannelsInv
<1>2. QED
    BY <1>1, ChannelsAlways, PTL

\* A Conn that DialContext or Accept returns has all its data channels.
THEOREM AlwaysReadyHasChannels == Spec => []ReadyHasChannels
<1>1. ChannelsInv => ReadyHasChannels
    BY DEF ChannelsInv
<1>2. QED
    BY <1>1, ChannelsAlways, PTL

\* conn.close closes all channels of a Conn that was live when the application
\* got it: the snapshot it takes misses none of them.
THEOREM AlwaysExposedClosed == Spec => []ExposedClosed
<1>1. ChannelsInv => ExposedClosed
    BY DEF ChannelsInv, CloseInv, ExposedClosed
<1>2. QED
    BY <1>1, ChannelsAlways, PTL
=============================================================================
