-------------------------- MODULE DiscoveryProofs --------------------------
(***************************************************************************)
(* Theorems about Discovery for every value of its constants: its tables   *)
(* and notifiers, and, from "Powers of two" on, what it writes on the wire. *)
(*                                                                         *)
(* The loops of binary.go and server_data.go are recursive functions, and  *)
(* the facts about them follow by Induction: on what is left of a number    *)
(* for the writer (Groups), on the bytes taken so far for the reader, and  *)
(* on the fields of ServerData for both.                                   *)
(***************************************************************************)
EXTENDS Discovery, Induction, SequenceTheorems

USE DiscoveryAssumption

-----------------------------------------------------------------------------
(* Type correctness *)

\* What listen is about says which of its variables are in use.
PacketInv ==
    /\ pc \in {"address", "handle", "copy", "notify"}
         => packet \in Packets /\ packet.from # Local /\ at \in Time
    /\ pc = "address" => Locates(packet)
    /\ pc \in {"read", "address", "handle", "copy", "close", "ended"}
         => targets = {} /\ called = None

LEMMA TypeInit == Init => TypeOK /\ PacketInv
BY DEF Init, TypeOK, PacketInv, Time

LEMMA TypeRead ==
    ASSUME TypeOK, PacketInv, Read
    PROVE  TypeOK' /\ PacketInv'
<1>1. /\ UNCHANGED <<now, calling, tables, listing, registry, close,
                     background>>
      /\ packet' \in Packets /\ packet'.from # Local
      /\ at' = now /\ silent' = stopped
      /\ targets = {} /\ called = None
      /\ Locates(packet') => pc' = "address"
      /\ ~Locates(packet') => pc' = "handle"
    BY DEF Read, Own, PacketInv
<1>2. pc' \in {"address", "handle"}
    BY <1>1
<1>3. at' \in Time /\ at' \in 0 .. now'
    BY <1>1 DEF TypeOK, Time
<1>4. TypeOK'
    BY <1>1, <1>2, <1>3 DEF TypeOK, calling, tables, registry
<1>5. pc' = "address" => Locates(packet)'
    BY <1>1 DEF Locates
<1>6. PacketInv'
    BY <1>1, <1>2, <1>3, <1>5 DEF PacketInv, calling
<1>7. QED
    BY <1>4, <1>6

LEMMA TypeRecord ==
    ASSUME TypeOK, PacketInv, RecordAddress
    PROVE  TypeOK' /\ PacketInv'
<1>1. /\ UNCHANGED <<now, handling, calling, responses, listing, registry,
                     close, background>>
      /\ pc = "address" /\ pc' = "handle"
    BY DEF RecordAddress
<1>2. packet.from \in NetworkID /\ packet.place \in Place /\ at \in Time
    BY <1>1 DEF PacketInv, Locates, Packets, Senders
<1>3. [place |-> packet.place, t |-> at] \in Addresses
    BY <1>2 DEF Addresses
<1>4. Active(at) \subseteq DOMAIN addresses
    BY DEF Active
<1>5. /\ DOMAIN addresses' \subseteq NetworkID
      /\ \A i \in DOMAIN addresses' : addresses'[i] \in Addresses
    BY <1>2, <1>3, <1>4 DEF RecordAddress, TypeOK, Entry
<1>6. TypeOK'
    BY <1>1, <1>5 DEF TypeOK, handling, calling, registry
<1>7. PacketInv'
    BY <1>1 DEF PacketInv, handling, calling
<1>8. QED
    BY <1>6, <1>7

LEMMA TypeResponse ==
    ASSUME TypeOK, PacketInv, HandleResponse
    PROVE  TypeOK' /\ PacketInv'
<1>1. /\ UNCHANGED <<now, calling, addresses, listing, registry, close,
                     background>>
      /\ pc = "handle" /\ Handled
    BY DEF HandleResponse
<1>2. packet.from \in NetworkID \cup {Zero}
    BY <1>1 DEF PacketInv, Packets, Senders
<1>3. /\ DOMAIN responses' \subseteq NetworkID \cup {Zero}
      /\ \A i \in DOMAIN responses' : responses'[i] \in Time
    BY <1>2 DEF HandleResponse, TypeOK
<1>4. TypeOK'
    BY <1>1, <1>3 DEF TypeOK, Handled, calling, registry
<1>5. PacketInv'
    BY <1>1 DEF PacketInv, Handled, calling
<1>6. QED
    BY <1>4, <1>5

LEMMA TypeListen ==
    ASSUME TypeOK, PacketInv, Listen
    PROVE  TypeOK' /\ PacketInv'
<1>1. CASE HandleOther \/ HandleSignal \/ Notified \/ ReadFails \/ ListenEnds
  <2>1. TypeOK'
    BY <1>1 DEF HandleOther, HandleSignal, Notified, ReadFails, ListenEnds,
      Handled, TypeOK, handling, calling, tables, registry
  <2>2. PacketInv'
    BY <1>1 DEF HandleOther, HandleSignal, Notified, ReadFails, ListenEnds,
      Handled, PacketInv, Locates, handling, calling
  <2>3. QED
    BY <2>1, <2>2
<1>2. CASE CopyNotifiers
  <2>1. targets' \subseteq Notifier
    BY <1>2 DEF CopyNotifiers, Copy, TypeOK
  <2>2. TypeOK'
    BY <1>2, <2>1 DEF CopyNotifiers, TypeOK, handling, tables, registry
  <2>3. PacketInv'
    BY <1>2 DEF CopyNotifiers, PacketInv, handling
  <2>4. QED
    BY <2>2, <2>3
<1>3. CASE Call \/ Return
  <2>1. TypeOK'
    BY <1>3 DEF Call, Return, TypeOK, handling, tables, registry
  <2>2. pc = "notify" /\ pc' = pc
    <3>1. pc \in {"read", "address", "handle", "copy", "notify", "close",
                  "ended"}
      BY DEF TypeOK
    <3>2. QED
      BY <1>3, <3>1 DEF Call, Return, PacketInv
  <2>3. PacketInv'
    BY <1>3, <2>2 DEF Call, Return, PacketInv, handling
  <2>4. QED
    BY <2>1, <2>3
<1>4. QED
    BY <1>1, <1>2, <1>3, TypeRead, TypeRecord, TypeResponse DEF Listen

LEMMA TypeCalls ==
    ASSUME TypeOK, PacketInv,
           \/ Signal
           \/ \E c \in Caller : ResponsesStart(c) \/ Responses(c)
           \/ \E n \in Notifier : Notify(n) \/ Stop(n)
    PROVE  TypeOK'
<1>1. CASE Signal
  <2>1. /\ DOMAIN addresses' \subseteq DOMAIN addresses
        /\ \A i \in DOMAIN addresses' : addresses'[i] = addresses[i]
    BY <1>1 DEF Signal, DeleteInactive, Active
  <2>2. QED
    BY <1>1, <2>1 DEF Signal, TypeOK, handling, calling, registry
<1>2. ASSUME NEW c \in Caller, ResponsesStart(c)
      PROVE  TypeOK'
    BY <1>2 DEF ResponsesStart, TypeOK, handling, calling, tables, registry
<1>3. ASSUME NEW c \in Caller, Responses(c)
      PROVE  TypeOK'
  <2>1. /\ DOMAIN responses' \subseteq DOMAIN responses
        /\ \A i \in DOMAIN responses' : responses'[i] = responses[i]
    BY <1>3 DEF Responses, Listed
  <2>2. QED
    BY <1>3, <2>1 DEF Responses, TypeOK, handling, calling, registry
<1>4. ASSUME NEW n \in Notifier, Notify(n)
      PROVE  TypeOK'
  <2>1. /\ index' = [index EXCEPT ![n] = notifyCount]
        /\ notifyCount' = notifyCount + 1
        /\ DOMAIN notifiers' = DOMAIN notifiers \cup {notifyCount}
        /\ \A i \in DOMAIN notifiers' : notifiers'[i] = n
             \/ (i \in DOMAIN notifiers /\ notifiers'[i] = notifiers[i])
    BY <1>4 DEF Notify, NextIndex
  <2>2. /\ notifyCount' \in Nat
        /\ index' \in [Notifier -> Nat \cup {None}]
    BY <2>1 DEF TypeOK
  <2>3. \A i \in DOMAIN notifiers' : i \in 0 .. notifyCount' - 1
                                     /\ notifiers'[i] \in Notifier
    BY <2>1 DEF TypeOK
  <2>4. QED
    BY <1>4, <2>2, <2>3 DEF Notify, TypeOK, handling, calling, tables
<1>5. ASSUME NEW n \in Notifier, Stop(n)
      PROVE  TypeOK'
  <2>1. /\ DOMAIN notifiers' \subseteq DOMAIN notifiers
        /\ \A i \in DOMAIN notifiers' : notifiers'[i] = notifiers[i]
    BY <1>5 DEF Stop
  <2>2. QED
    BY <1>5, <2>1 DEF Stop, TypeOK, handling, calling, tables
<1>6. QED
    BY <1>1, <1>2, <1>3, <1>4, <1>5

LEMMA PacketFrame ==
    ASSUME PacketInv, UNCHANGED <<pc, packet, at, targets, called>>
    PROVE  PacketInv'
BY DEF PacketInv, Locates

LEMMA TypeStep ==
    ASSUME TypeOK, PacketInv, [Next]_vars
    PROVE  TypeOK' /\ PacketInv'
<1>1. CASE Listen
    BY <1>1, TypeListen
<1>2. CASE \/ Signal
           \/ \E c \in Caller : ResponsesStart(c) \/ Responses(c)
           \/ \E n \in Notifier : Notify(n) \/ Stop(n)
  <2>1. UNCHANGED <<pc, packet, at, targets, called>>
    BY <1>2 DEF Signal, ResponsesStart, Responses, Notify, Stop, handling,
      calling
  <2>2. QED
    BY <1>2, <2>1, TypeCalls, PacketFrame
<1>3. CASE Close \/ CloseConn \/ CloseClear \/ BackgroundEnds
  <2>1. UNCHANGED <<pc, packet, at, targets, called>>
    BY <1>3 DEF Close, CloseConn, CloseClear, BackgroundEnds, handling, calling
  <2>2. TypeOK'
    BY <1>3 DEF Close, CloseConn, CloseClear, BackgroundEnds, TypeOK, handling,
      calling, tables, registry
  <2>3. QED
    BY <2>1, <2>2, PacketFrame
<1>4. CASE Tick
  <2>1. UNCHANGED <<pc, packet, at, targets, called>>
    BY <1>4 DEF Tick, handling, calling
  <2>2. now' \in Time /\ at' \in (0 .. now') \cup {None}
    BY <1>4 DEF Tick, TypeOK, Time, handling
  <2>3. TypeOK'
    BY <1>4, <2>2 DEF Tick, TypeOK, handling, calling, tables, registry
  <2>4. QED
    BY <2>1, <2>3, PacketFrame
<1>5. CASE UNCHANGED vars
  <2>1. UNCHANGED <<pc, packet, at, targets, called>>
    BY <1>5 DEF vars, handling, calling
  <2>2. TypeOK'
    BY <1>5 DEF vars, TypeOK, handling, calling, tables, registry
  <2>3. QED
    BY <2>1, <2>2, PacketFrame
<1>6. QED
    BY <1>1, <1>2, <1>3, <1>4, <1>5 DEF Next

\* The tables hold what packets can leave there: an address has only who has
\* sent something else than a request, and neither the Listener itself nor the
\* network 0.
THEOREM DiscoveryTypeCorrect == Spec => []TypeOK
<1>1. Spec => [](TypeOK /\ PacketInv)
    BY TypeInit, TypeStep, PTL DEF Spec
<1>2. QED
    BY <1>1, PTL

LEMMA TypeAlways == Spec => [](TypeOK /\ PacketInv)
BY TypeInit, TypeStep, PTL DEF Spec

-----------------------------------------------------------------------------
(* A listed world can be signaled.  The address of its sender is recorded     *)
(* while the packet is handled, hence at most Stall before the response; it   *)
(* may be replaced by a later one, and leaves the table only when it expires. *)

\* If an address of i that was recorded at t has not expired, then there is
\* such an address, or a later one.
Kept(i, t) ==
    now - t < AddressLifetime
      => i \in DOMAIN addresses /\ addresses[i].t >= t

\* The same after a step, for the i and the t of before it.
KeptNext(i, t) ==
    now' - t < AddressLifetime
      => i \in DOMAIN addresses' /\ addresses'[i].t >= t

ClockInv ==
    /\ pc \in {"address", "handle"} => at <= now /\ now - at <= Stall
    /\ \A c \in Caller : listing[c] # None
         => listing[c] <= now /\ now - listing[c] <= Stall

WorldInv ==
    /\ pc = "handle" /\ packet.kind = "response" /\ packet.from # Zero
         => Kept(packet.from, at)
    /\ \A i \in DOMAIN responses \ {Zero} :
         responses[i] <= now /\ Kept(i, responses[i] - Stall)

LEMMA ClockStep ==
    ASSUME TypeOK, TypeOK', PacketInv, ClockInv, [Next]_vars
    PROVE  ClockInv'
<1>1. CASE Read
    BY <1>1 DEF Read, ClockInv, TypeOK, Time
<1>2. CASE RecordAddress
    BY <1>2 DEF RecordAddress, ClockInv, handling
<1>3. CASE \/ HandleResponse \/ HandleOther \/ HandleSignal \/ CopyNotifiers
           \/ Notified \/ ReadFails \/ ListenEnds
    BY <1>3 DEF HandleResponse, HandleOther, HandleSignal, CopyNotifiers,
      Notified, ReadFails, ListenEnds, Handled, ClockInv
<1>4. CASE \/ Call \/ Return \/ Signal \/ Close \/ CloseConn \/ CloseClear
           \/ BackgroundEnds \/ \E n \in Notifier : Notify(n) \/ Stop(n)
    BY <1>4 DEF Call, Return, Signal, Close, CloseConn, CloseClear,
      BackgroundEnds, Notify, Stop, ClockInv, handling
<1>5. ASSUME NEW c \in Caller, ResponsesStart(c) \/ Responses(c)
      PROVE  ClockInv'
  <2>1. /\ UNCHANGED <<pc, at, now>>
        /\ \/ listing' = [listing EXCEPT ![c] = now]
           \/ listing' = [listing EXCEPT ![c] = None]
    BY <1>5 DEF ResponsesStart, Responses, handling
  <2>2. \A d \in Caller : listing'[d] \in {now, None, listing[d]}
    BY <2>1 DEF TypeOK
  <2>3. now \in Nat /\ Stall \in Nat
    BY DiscoveryAssumption DEF TypeOK, Time
  <2>4. now <= now /\ now - now <= Stall
    BY <2>3
  <2>5. ASSUME NEW d \in Caller, listing'[d] # None
        PROVE  listing'[d] <= now /\ now - listing'[d] <= Stall
    BY <2>2, <2>4, <2>5 DEF ClockInv
  <2>6. QED
    BY <2>1, <2>5 DEF ClockInv
<1>6. CASE Tick
  <2>1. /\ UNCHANGED <<pc, at, listing>> /\ now' = now + 1 /\ now \in Nat
        /\ pc \in {"address", "handle"} => now - at < Stall /\ at \in Nat
        /\ \A c \in Caller : listing[c] # None
             => now - listing[c] < Stall /\ listing[c] \in Nat
    BY <1>6 DEF Tick, TypeOK, PacketInv, Time, handling
  <2>2. QED
    BY <2>1 DEF ClockInv
<1>7. CASE UNCHANGED vars
    BY <1>7 DEF vars, handling, ClockInv
<1>8. QED
    BY <1>1, <1>2, <1>3, <1>4, <1>5, <1>6, <1>7 DEF Next, Listen

\* An age is less at an earlier time, and less of what is younger.
LEMMA Later ==
    ASSUME NEW a \in Int, NEW b \in Int, a <= b,
           NEW t \in Int, NEW d \in Int, b - t < d
    PROVE  a - t < d
OBVIOUS

LEMMA Younger ==
    ASSUME NEW a \in Int, NEW t \in Int, NEW r \in Int, r >= t,
           NEW d \in Int, a - t < d
    PROVE  a - r < d
OBVIOUS

\* What is kept stays kept when the clock goes on and addresses expire.
LEMMA KeptStep ==
    ASSUME TypeOK, TypeOK', NEW i, NEW t \in Int, Kept(i, t),
           now <= now', NEW time \in 0 .. now,
           Active(time) \subseteq DOMAIN addresses',
           \A j \in Active(time) : addresses'[j] = addresses[j]
    PROVE  KeptNext(i, t)
<1>1. SUFFICES ASSUME now' - t < AddressLifetime
               PROVE  i \in DOMAIN addresses' /\ addresses'[i].t >= t
    BY DEF KeptNext
<1>2. now \in Int /\ now' \in Int /\ time \in Int /\ time <= now
      /\ AddressLifetime \in Int
    BY DiscoveryAssumption DEF TypeOK, Time
<1>3. now - t < AddressLifetime
    BY <1>1, <1>2, Later, Zenon
<1>4. i \in DOMAIN addresses /\ addresses[i].t >= t
    BY <1>3 DEF Kept
<1>5. i \in Active(time)
  <2>1. addresses[i].t \in Int
    BY <1>4 DEF TypeOK, Addresses, Time
  <2>2. time - t < AddressLifetime
    BY <1>2, <1>3, Later, Zenon
  <2>3. time - addresses[i].t < AddressLifetime
    BY <1>2, <1>4, <2>1, <2>2, Younger, Zenon
  <2>4. QED
    BY <1>4, <2>3 DEF Active
<1>6. QED
    BY <1>4, <1>5

LEMMA KeptFrame ==
    ASSUME TypeOK, TypeOK', UNCHANGED addresses, now <= now'
    PROVE  \A i : \A t \in Int : Kept(i, t) => KeptNext(i, t)
<1>1. now \in Int /\ now' \in Int /\ AddressLifetime \in Int
    BY DEF TypeOK, Time
<1>2. ASSUME NEW t \in Int, now' - t < AddressLifetime
      PROVE  now - t < AddressLifetime
    BY <1>1, <1>2, Later
<1>3. QED
    BY <1>2 DEF Kept, KeptNext

LEMMA WorldFrame ==
    ASSUME TypeOK, TypeOK', PacketInv, WorldInv,
           UNCHANGED <<addresses, responses>>, now <= now',
           \/ UNCHANGED <<pc, packet, at>>
           \/ pc' # "handle"
           \/ ~(packet'.kind = "response" /\ packet'.from # Zero)
    PROVE  WorldInv'
<1>1. now \in Nat /\ now' \in Nat
    BY DEF TypeOK, Time
<1>2. \A i \in DOMAIN responses : responses[i] - Stall \in Int
                                  /\ responses[i] \in Int
    BY DEF TypeOK, Time
<1>3. pc = "handle" => at \in Int
    BY DEF PacketInv, Time
<1>4. \A i \in DOMAIN responses' \ {Zero} :
        responses'[i] <= now' /\ KeptNext(i, responses[i] - Stall)
    BY <1>1, <1>2, KeptFrame DEF WorldInv
<1>5. pc' = "handle" /\ packet'.kind = "response" /\ packet'.from # Zero
        => Kept(packet.from, at)'
  <2>1. SUFFICES ASSUME pc' = "handle", packet'.kind = "response",
                        packet'.from # Zero
                 PROVE  Kept(packet.from, at)'
    OBVIOUS
  <2>2. UNCHANGED <<pc, packet, at>>
    BY <2>1
  <2>3. Kept(packet.from, at)
    BY <2>1, <2>2 DEF WorldInv
  <2>4. KeptNext(packet.from, at)
    BY <1>3, <2>1, <2>2, <2>3, KeptFrame
  <2>5. QED
    BY <2>2, <2>4 DEF Kept, KeptNext
<1>6. QED
    BY <1>4, <1>5 DEF WorldInv, Kept, KeptNext

LEMMA WorldRecord ==
    ASSUME TypeOK, TypeOK', PacketInv, ClockInv, WorldInv, RecordAddress
    PROVE  WorldInv'
<1>1. /\ UNCHANGED <<now, packet, at, responses>>
      /\ pc = "address" /\ packet.from # Zero
      /\ at \in Nat /\ at <= now /\ now - at <= Stall /\ now \in Nat
    BY DEF RecordAddress, handling, PacketInv, Locates, ClockInv, TypeOK, Time
<1>2. /\ packet.from \in DOMAIN addresses'
      /\ addresses'[packet.from].t = at
    BY DEF RecordAddress, Entry
<1>3. \A i : \A t \in Int : i # packet.from /\ Kept(i, t) => KeptNext(i, t)
  <2>1. SUFFICES ASSUME NEW i, NEW t \in Int, i # packet.from, Kept(i, t),
                        now - t < AddressLifetime
                 PROVE  i \in DOMAIN addresses' /\ addresses'[i].t >= t
    BY <1>1 DEF KeptNext
  <2>2. i \in DOMAIN addresses /\ addresses[i].t >= t
    BY <2>1 DEF Kept
  <2>3. addresses[i].t \in Nat
    BY <2>2 DEF TypeOK, Addresses, Time
  <2>4. i \in Active(at)
    BY <1>1, <2>1, <2>2, <2>3 DEF Active
  <2>5. QED
    BY <2>1, <2>2, <2>4 DEF RecordAddress
<1>4. \A t \in Int : t <= at => KeptNext(packet.from, t)
    BY <1>1, <1>2 DEF KeptNext
<1>5. ASSUME NEW i \in DOMAIN responses \ {Zero}
      PROVE  responses[i] <= now /\ KeptNext(i, responses[i] - Stall)
  <2>1. /\ responses[i] \in Nat /\ responses[i] <= now
        /\ responses[i] - Stall \in Int /\ responses[i] - Stall <= at
        /\ Kept(i, responses[i] - Stall)
    <3>1. responses[i] \in Nat
      BY DEF TypeOK, Time
    <3>2. responses[i] <= now /\ Kept(i, responses[i] - Stall)
      BY DEF WorldInv
    <3>3. QED
      BY <1>1, <3>1, <3>2
  <2>2. CASE i = packet.from
    BY <1>4, <2>1, <2>2
  <2>3. CASE i # packet.from
    BY <1>3, <2>1, <2>3
  <2>4. QED
    BY <2>1, <2>2, <2>3
<1>6. Kept(packet.from, at)'
    BY <1>1, <1>2 DEF Kept
<1>7. QED
    BY <1>1, <1>5, <1>6 DEF WorldInv, Kept, KeptNext

LEMMA WorldResponse ==
    ASSUME TypeOK, TypeOK', PacketInv, ClockInv, WorldInv, HandleResponse
    PROVE  WorldInv'
<1>1. /\ UNCHANGED <<now, addresses>> /\ pc' = "read"
      /\ pc = "handle" /\ packet.kind = "response"
      /\ at \in Nat /\ at <= now /\ now - at <= Stall /\ now \in Nat
      /\ DOMAIN responses' = DOMAIN responses \cup {packet.from}
      /\ \A i \in DOMAIN responses' :
           responses'[i] = IF i = packet.from THEN now ELSE responses[i]
    BY DEF HandleResponse, Handled, PacketInv, ClockInv, TypeOK, Time
<1>2. ASSUME packet.from # Zero
      PROVE  Kept(packet.from, now - Stall)
  <2>1. Kept(packet.from, at)
    BY <1>1, <1>2 DEF WorldInv
  <2>2. packet.from \in DOMAIN addresses /\ addresses[packet.from].t >= at
    BY <1>1, <2>1 DEF Kept
  <2>3. addresses[packet.from].t \in Nat
    BY <2>2 DEF TypeOK, Addresses, Time
  <2>4. QED
    BY <1>1, <2>2, <2>3 DEF Kept
<1>3. ASSUME NEW i \in DOMAIN responses' \ {Zero}
      PROVE  responses'[i] <= now /\ Kept(i, responses'[i] - Stall)
  <2>1. CASE i = packet.from
    BY <1>1, <1>2, <2>1
  <2>2. CASE i # packet.from
    BY <1>1, <2>2 DEF WorldInv
  <2>3. QED
    BY <2>1, <2>2
<1>4. QED
    BY <1>1, <1>3 DEF WorldInv, Kept

LEMMA WorldStep ==
    ASSUME TypeOK, TypeOK', PacketInv, ClockInv, WorldInv, [Next]_vars
    PROVE  WorldInv'
<1> now \in Nat /\ now' \in Nat
    BY DEF TypeOK, Time
<1>1. CASE Read
  <2>1. /\ UNCHANGED <<addresses, responses, now>>
        /\ pc' = "handle" => packet'.kind = "request" \/ packet'.from = Zero
    BY <1>1 DEF Read, Locates, tables
  <2>2. QED
    BY <2>1, WorldFrame
<1>2. CASE RecordAddress
    BY <1>2, WorldRecord
<1>3. CASE HandleResponse
    BY <1>3, WorldResponse
<1>4. CASE \/ HandleOther \/ HandleSignal \/ CopyNotifiers \/ Call \/ Return
           \/ Notified \/ ReadFails \/ ListenEnds
  <2>1. /\ UNCHANGED <<addresses, responses, now>>
        /\ UNCHANGED <<pc, packet, at>> \/ pc' # "handle"
    BY <1>4 DEF HandleOther, HandleSignal, CopyNotifiers, Call, Return,
      Notified, ReadFails, ListenEnds, Handled, tables, handling
  <2>2. QED
    BY <2>1, WorldFrame
<1>5. CASE Signal
  <2>1. /\ UNCHANGED <<now, pc, packet, at, responses>>
        /\ Active(now) \subseteq DOMAIN addresses'
        /\ \A j \in Active(now) : addresses'[j] = addresses[j]
    BY <1>5 DEF Signal, DeleteInactive, handling
  <2>2. now \in 0 .. now
    OBVIOUS
  <2>3. \A i : \A t \in Int : Kept(i, t) => KeptNext(i, t)
    BY <2>1, <2>2, KeptStep
  <2>4. \A i \in DOMAIN responses' \ {Zero} :
          responses'[i] <= now' /\ KeptNext(i, responses[i] - Stall)
    <3>1. \A i \in DOMAIN responses : responses[i] - Stall \in Int
      BY DEF TypeOK, Time
    <3>2. QED
      BY <2>1, <2>3, <3>1 DEF WorldInv
  <2>5. pc' = "handle" /\ packet'.kind = "response" /\ packet'.from # Zero
          => Kept(packet.from, at)'
    <3>1. pc = "handle" => at \in Int
      BY DEF PacketInv, Time
    <3>2. pc = "handle" /\ Kept(packet.from, at) => KeptNext(packet.from, at)
      BY <2>3, <3>1
    <3>3. QED
      BY <2>1, <3>2 DEF WorldInv, Kept, KeptNext
  <2>6. QED
    BY <2>1, <2>4, <2>5 DEF WorldInv, Kept, KeptNext
<1>6. ASSUME NEW c \in Caller, Responses(c)
      PROVE  WorldInv'
  <2>1. /\ UNCHANGED <<now, pc, packet, at, addresses>>
        /\ DOMAIN responses' \subseteq DOMAIN responses
        /\ \A i \in DOMAIN responses' : responses'[i] = responses[i]
    BY <1>6 DEF Responses, Listed, handling
  <2>2. QED
    BY <2>1 DEF WorldInv, Kept
<1>7. CASE \/ \E c \in Caller : ResponsesStart(c)
           \/ \E n \in Notifier : Notify(n) \/ Stop(n)
           \/ Close \/ CloseConn \/ CloseClear \/ BackgroundEnds \/ Tick
           \/ UNCHANGED vars
  <2>1. /\ UNCHANGED <<addresses, responses, pc, packet, at>>
        /\ now' = now \/ now' = now + 1
    BY <1>7 DEF ResponsesStart, Notify, Stop, Close, CloseConn, CloseClear,
      BackgroundEnds, Tick, vars, tables, handling
  <2>2. QED
    BY <2>1, WorldFrame
<1>8. QED
    BY <1>1, <1>2, <1>3, <1>4, <1>5, <1>6, <1>7 DEF Next, Listen

\* Every world Responses lists, but the network 0, has an address that has not
\* expired: Signal finds it, as long as no goroutine stalls for longer than
\* the lifetimes leave room for.
THEOREM ListedAlwaysReachable == Spec => ListedReachable
<1>1. Init => ClockInv /\ WorldInv
    BY DEF Init, ClockInv, WorldInv
<1>2. TypeOK /\ TypeOK' /\ PacketInv /\ ClockInv /\ WorldInv /\ [Next]_vars
        => ClockInv' /\ WorldInv'
    BY ClockStep, WorldStep
<1>3. ASSUME TypeOK, ClockInv, WorldInv, NEW c \in Caller, Responses(c)
      PROVE  DOMAIN responses' \ {Zero} \subseteq Active(now)
  <2>1. SUFFICES ASSUME NEW i \in DOMAIN responses' \ {Zero}
                 PROVE  i \in Active(now)
    OBVIOUS
  <2>2. /\ i \in DOMAIN responses \ {Zero}
        /\ listing[c] - responses[i] <= ResponseLifetime
        /\ listing[c] # None
    BY <1>3 DEF Responses, Listed
  <2>3. /\ now \in Nat /\ responses[i] \in Nat /\ listing[c] \in Nat
        /\ now - listing[c] <= Stall
    BY <1>3, <2>2 DEF TypeOK, ClockInv, Time
  <2>4. Kept(i, responses[i] - Stall)
    BY <1>3, <2>2 DEF WorldInv
  <2>5. i \in DOMAIN addresses /\ addresses[i].t >= responses[i] - Stall
    BY <2>2, <2>3, <2>4 DEF Kept
  <2>6. addresses[i].t \in Nat
    BY <1>3, <2>5 DEF TypeOK, Addresses, Time
  <2>7. QED
    BY <2>2, <2>3, <2>5, <2>6 DEF Active
<1>4. TypeOK /\ ClockInv /\ WorldInv /\ [Next]_vars
        => [\A c \in Caller :
              Responses(c) => DOMAIN responses' \ {Zero} \subseteq Active(now)]_vars
    BY <1>3
<1>5. QED
    BY <1>1, <1>2, <1>4, TypeAlways, PTL DEF Spec, ListedReachable

-----------------------------------------------------------------------------
(* The table of notifiers: every index belongs to one call of Notify, because *)
(* the counter is above all of them and never goes down.                      *)

RegistryInv ==
    /\ \A n \in Notifier : index[n] # None => index[n] < notifyCount
    /\ \A n \in stopped : index[n] # None
    /\ \A i \in DOMAIN notifiers :
         index[notifiers[i]] = i /\ notifiers[i] \notin stopped
    /\ \A n \in Registered :
         close # "closed"
           => index[n] \in DOMAIN notifiers /\ notifiers[index[n]] = n

LEMMA RegistryExact ==
    ASSUME TypeOK, RegistryInv
    PROVE  NotifiersExact
<1>1. \A i \in DOMAIN notifiers :
        notifiers[i] \in Notifier /\ i \in Nat /\ i # None
    BY DEF TypeOK
<1>2. Copy \subseteq Registered
    BY <1>1 DEF Copy, Registered, RegistryInv
<1>3. close # "closed" => Registered \subseteq Copy
    BY DEF Copy, RegistryInv
<1>4. QED
    BY <1>2, <1>3 DEF NotifiersExact

LEMMA RegistryNotify ==
    ASSUME TypeOK, RegistryInv, NEW n \in Notifier, Notify(n)
    PROVE  RegistryInv'
<1>1. /\ UNCHANGED <<close, stopped>> /\ index[n] = None
      /\ index' = [index EXCEPT ![n] = notifyCount]
      /\ notifyCount' = notifyCount + 1 /\ notifyCount \in Nat
      /\ DOMAIN notifiers' = DOMAIN notifiers \cup {notifyCount}
      /\ notifiers'[notifyCount] = n
      /\ \A i \in DOMAIN notifiers :
           i # notifyCount => notifiers'[i] = notifiers[i]
      /\ notifyCount \notin DOMAIN notifiers
    BY DEF Notify, NextIndex, TypeOK
<1>2. /\ index'[n] = notifyCount
      /\ \A m \in Notifier : m # n => index'[m] = index[m]
      /\ \A m \in Notifier : index[m] # None => index[m] \in Nat
    BY <1>1 DEF TypeOK
<1>3. \A i \in DOMAIN notifiers : notifiers[i] \in Notifier /\ notifiers[i] # n
  <2>1. \A i \in DOMAIN notifiers :
          notifiers[i] \in Notifier /\ i \in Nat /\ i # None
    BY DEF TypeOK
  <2>2. QED
    BY <1>1, <2>1 DEF RegistryInv
<1>4. n \notin stopped
    BY <1>1 DEF RegistryInv
<1>5. \A m \in Notifier : index'[m] # None => index'[m] < notifyCount'
  <2>1. ASSUME NEW m \in Notifier, m # n, index[m] # None
        PROVE  index[m] < notifyCount + 1
    BY <1>1, <1>2, <2>1 DEF RegistryInv
  <2>2. QED
    BY <1>1, <1>2, <2>1
<1>6. \A m \in stopped' : index'[m] # None
    BY <1>1, <1>2, <1>4 DEF RegistryInv, TypeOK
<1>7. \A i \in DOMAIN notifiers' :
        index'[notifiers'[i]] = i /\ notifiers'[i] \notin stopped'
    BY <1>1, <1>2, <1>3, <1>4 DEF RegistryInv
<1>8. ASSUME NEW m \in Registered', close' # "closed"
      PROVE  index'[m] \in DOMAIN notifiers' /\ notifiers'[index'[m]] = m
  <2>1. CASE m = n
    BY <1>1, <1>2, <2>1
  <2>2. CASE m # n
    <3>1. m \in Registered /\ index'[m] = index[m]
      BY <1>1, <1>2, <2>2 DEF Registered
    <3>2. index[m] \in DOMAIN notifiers /\ notifiers[index[m]] = m
      BY <1>1, <1>8, <3>1 DEF RegistryInv
    <3>3. index[m] # notifyCount
      BY <1>1, <3>2
    <3>4. QED
      BY <1>1, <3>1, <3>2, <3>3
  <2>3. QED
    BY <2>1, <2>2
<1>9. QED
    BY <1>5, <1>6, <1>7, <1>8 DEF RegistryInv

LEMMA RegistryStop ==
    ASSUME TypeOK, RegistryInv, NEW n \in Notifier, Stop(n)
    PROVE  RegistryInv'
<1>1. /\ UNCHANGED <<close, index, notifyCount>>
      /\ index[n] # None /\ n \notin stopped
      /\ stopped' = stopped \cup {n}
      /\ DOMAIN notifiers' = DOMAIN notifiers \ {index[n]}
      /\ \A i \in DOMAIN notifiers' : notifiers'[i] = notifiers[i]
    BY DEF Stop, IndexOf
<1>2. \A i \in DOMAIN notifiers' :
        index'[notifiers'[i]] = i /\ notifiers'[i] \notin stopped'
    BY <1>1 DEF RegistryInv
<1>3. ASSUME NEW m \in Registered', close' # "closed"
      PROVE  index'[m] \in DOMAIN notifiers' /\ notifiers'[index'[m]] = m
  <2>1. m \in Registered /\ m # n /\ n \in Registered
    BY <1>1 DEF Registered
  <2>2. /\ index[m] \in DOMAIN notifiers /\ notifiers[index[m]] = m
        /\ notifiers[index[n]] = n
    BY <1>1, <1>3, <2>1 DEF RegistryInv
  <2>3. QED
    BY <1>1, <2>1, <2>2
<1>4. QED
    BY <1>1, <1>2, <1>3 DEF RegistryInv

LEMMA RegistryStep ==
    ASSUME TypeOK, RegistryInv, [Next]_vars
    PROVE  RegistryInv'
<1>1. CASE \E n \in Notifier : Notify(n) \/ Stop(n)
    BY <1>1, RegistryNotify, RegistryStop
<1>2. CASE CloseClear
  <2>1. /\ UNCHANGED <<notifyCount, index, stopped>> /\ close' = "closed"
        /\ DOMAIN notifiers' = {}
    BY <1>2 DEF CloseClear
  <2>2. QED
    BY <2>1 DEF RegistryInv
<1>3. CASE Close \/ CloseConn
    BY <1>3 DEF Close, CloseConn, RegistryInv, Registered, registry
<1>4. CASE \/ Listen \/ Signal \/ BackgroundEnds \/ Tick \/ UNCHANGED vars
           \/ \E c \in Caller : ResponsesStart(c) \/ Responses(c)
  <2>1. UNCHANGED <<registry, close>>
    BY <1>4 DEF Listen, Read, RecordAddress, HandleResponse, HandleOther,
      HandleSignal, CopyNotifiers, Call, Return, Notified, ReadFails,
      ListenEnds, Signal, BackgroundEnds, Tick, vars, ResponsesStart, Responses
  <2>2. QED
    BY <2>1 DEF RegistryInv, Registered, registry
<1>5. QED
    BY <1>1, <1>2, <1>3, <1>4 DEF Next

LEMMA RegistryInit == Init => RegistryInv
BY DEF Init, RegistryInv, Registered

\* No call of Notify overwrites the notifier of another one, and no stop
\* removes that of another: until Close forgets them all, the table has exactly
\* the notifiers that were registered and not stopped.
THEOREM NotifiersAlwaysExact == Spec => []NotifiersExact
<1>1. TypeOK /\ RegistryInv /\ [Next]_vars => RegistryInv'
    BY RegistryStep
<1>2. TypeOK /\ RegistryInv => NotifiersExact
    BY RegistryExact
<1>3. QED
    BY <1>1, <1>2, RegistryInit, TypeAlways, PTL DEF Spec

-----------------------------------------------------------------------------
(* A notifier that was stopped before a signal was read is not in the copy of *)
(* the table that is taken later.                                             *)

SilentInv == silent \subseteq stopped /\ StoppedSilent

LEMMA SilentStep ==
    ASSUME TypeOK, PacketInv, RegistryInv, SilentInv, [Next]_vars
    PROVE  SilentInv'
<1>1. CASE Read
  <2>1. /\ UNCHANGED <<targets, called, stopped>> /\ silent' = stopped
        /\ targets = {} /\ called = None
    BY <1>1 DEF Read, PacketInv, calling, registry
  <2>2. QED
    BY <2>1 DEF SilentInv, StoppedSilent, TypeOK
<1>2. CASE HandleResponse \/ HandleOther \/ Notified
    BY <1>2 DEF HandleResponse, HandleOther, Notified, Handled, SilentInv,
      StoppedSilent, calling, registry
<1>3. CASE CopyNotifiers
  <2>1. /\ UNCHANGED <<called, stopped, silent>> /\ targets' = Copy
    BY <1>3 DEF CopyNotifiers, handling, registry
  <2>2. Copy \cap stopped = {}
    BY DEF Copy, RegistryInv
  <2>3. QED
    BY <2>1, <2>2 DEF SilentInv, StoppedSilent
<1>4. CASE Call \/ Return
    BY <1>4 DEF Call, Return, SilentInv, StoppedSilent, TypeOK, handling,
      registry
<1>5. CASE \E n \in Notifier : Stop(n)
    BY <1>5 DEF Stop, SilentInv, StoppedSilent, handling, calling
<1>6. CASE \/ RecordAddress \/ HandleSignal \/ ReadFails \/ ListenEnds
           \/ Signal \/ Close \/ CloseConn \/ CloseClear \/ BackgroundEnds
           \/ Tick \/ UNCHANGED vars \/ (\E n \in Notifier : Notify(n))
           \/ \E c \in Caller : ResponsesStart(c) \/ Responses(c)
  <2>1. UNCHANGED <<targets, called, stopped, silent>>
    BY <1>6 DEF RecordAddress, HandleSignal, ReadFails, ListenEnds, Signal,
      Close, CloseConn, CloseClear, BackgroundEnds, Tick, vars, Notify,
      ResponsesStart, Responses, handling, calling, registry
  <2>2. QED
    BY <2>1 DEF SilentInv, StoppedSilent
<1>7. QED
    BY <1>1, <1>2, <1>3, <1>4, <1>5, <1>6 DEF Next, Listen

\* A notifier whose stop has returned is not called for a signal that is read
\* later, however long the calls for an earlier one take.
THEOREM StoppedAlwaysSilent == Spec => []StoppedSilent
<1>1. Init => SilentInv
    BY DEF Init, SilentInv, StoppedSilent
<1>2. TypeOK /\ PacketInv /\ RegistryInv /\ SilentInv /\ [Next]_vars
        => RegistryInv' /\ SilentInv'
    BY RegistryStep, SilentStep
<1>3. SilentInv => StoppedSilent
    BY DEF SilentInv
<1>4. QED
    BY <1>1, <1>2, <1>3, RegistryInit, TypeAlways, PTL DEF Spec

-----------------------------------------------------------------------------
(* Powers of two *)

HIDE DiscoveryAssumption

\* TwoTo is the function that its definition describes.
LEMMA TwoToNext ==
    /\ TwoTo \in [Nat -> Nat] /\ TwoTo[0] = 1
    /\ \A n \in Nat : TwoTo[n + 1] = 2 * TwoTo[n]
<1> DEFINE N == Nat
           step == [p \in (N \ {0}) \X N |-> 2 * p[2]]
<1>1. Loop(N, N, 1, step)
    BY DEF Loop
<1>2. \A n \in N \ {0}, v \in N : step[<<n, v>>] = 2 * v
    OBVIOUS
<1>3. PICK f : Computes(f, N, N, 1, step)
  <2> HIDE DEF N, step
  <2>1. QED
    BY <1>1, LoopExists
<1>4. f = [n \in Nat |-> IF n = 0 THEN 1 ELSE 2 * f[n - 1]]
  <2>1. f \in [Nat -> Nat] /\ \A n \in Nat : n # 0 => n - 1 \in Nat
    BY <1>3 DEF Computes
  <2>2. \A n \in Nat : f[n] = IF n = 0 THEN 1 ELSE step[<<n, f[n - 1]>>]
    BY <1>3 DEF Computes
  <2>3. \A n \in Nat : n # 0 => step[<<n, f[n - 1]>>] = 2 * f[n - 1]
    BY <1>2, <2>1
  <2>4. QED
    BY <2>1, <2>2, <2>3
<1>5. TwoTo = [n \in Nat |-> IF n = 0 THEN 1 ELSE 2 * TwoTo[n - 1]]
    BY <1>4 DEF TwoTo
<1>6. Repeats(TwoTo, N, N, 1, step)
    BY <1>5 DEF Repeats
<1>7. Computes(TwoTo, N, N, 1, step)
    BY <1>1, <1>6, LoopType
<1>8. \A n \in Nat : n + 1 # 0 /\ (n + 1) - 1 = n
    OBVIOUS
<1>9. TwoTo \in [Nat -> Nat]
    BY <1>7 DEF Computes
<1>10. QED
    BY <1>5, <1>8, <1>9

\* Its values multiply,
LEMMA TwoToSum ==
    \A a, b \in Nat : TwoTo[a + b] = TwoTo[a] * TwoTo[b]
<1>1. SUFFICES ASSUME NEW a \in Nat
               PROVE  \A b \in Nat : TwoTo[a + b] = TwoTo[a] * TwoTo[b]
    OBVIOUS
<1> DEFINE T == {b \in Nat : TwoTo[a + b] = TwoTo[a] * TwoTo[b]}
<1>2. 0 \in T
  <2>1. TwoTo[a] \in Nat /\ a + 0 = a
    BY TwoToNext
  <2>2. QED
    BY <2>1, TwoToNext
<1>3. ASSUME NEW b \in Nat, b \in T PROVE b + 1 \in T
  <2>1. a + (b + 1) = (a + b) + 1 /\ a + b \in Nat
    OBVIOUS
  <2>2. /\ TwoTo[a + (b + 1)] = 2 * (TwoTo[a] * TwoTo[b])
        /\ TwoTo[b + 1] = 2 * TwoTo[b]
        /\ TwoTo[a] \in Nat /\ TwoTo[b] \in Nat
    BY <1>3, <2>1, TwoToNext
  <2>3. \A x, y \in Nat : 2 * (x * y) = x * (2 * y)
    OBVIOUS
  <2>4. QED
    BY <2>2, <2>3
<1> HIDE DEF T
<1>4. Nat \subseteq T
    BY <1>2, <1>3, SimpleInduction
<1>5. QED
    BY <1>4 DEF T

\* and grow.
LEMMA TwoToGrows ==
    /\ \A a \in Nat : TwoTo[a] \in Nat /\ TwoTo[a] >= 1
    /\ \A a, b \in Nat : a <= b => TwoTo[a] <= TwoTo[b]
    /\ \A a, b \in Nat : a < b => 2 * TwoTo[a] <= TwoTo[b]
<1>1. \A a \in Nat : TwoTo[a] \in Nat /\ TwoTo[a] >= 1
  <2> DEFINE T == {n \in Nat : TwoTo[n] >= 1}
  <2>1. 0 \in T /\ \A n \in Nat : n \in T => n + 1 \in T
    BY TwoToNext
  <2> HIDE DEF T
  <2>2. Nat \subseteq T
    BY <2>1, SimpleInduction
  <2>3. QED
    BY <2>2, TwoToNext DEF T
<1>2. \A a, b \in Nat : a <= b => TwoTo[a] <= TwoTo[b]
  <2>1. SUFFICES ASSUME NEW a \in Nat, NEW b \in Nat, a <= b
                 PROVE  TwoTo[a] <= TwoTo[b]
    OBVIOUS
  <2>2. b - a \in Nat /\ a + (b - a) = b
    BY <2>1
  <2>3. TwoTo[b] = TwoTo[a] * TwoTo[b - a]
    BY <2>2, TwoToSum
  <2>4. \A x, y \in Nat : y >= 1 => x <= x * y
    OBVIOUS
  <2>5. QED
    BY <1>1, <2>2, <2>3, <2>4
<1>3. \A a, b \in Nat : a < b => 2 * TwoTo[a] <= TwoTo[b]
  <2>1. SUFFICES ASSUME NEW a \in Nat, NEW b \in Nat, a < b
                 PROVE  2 * TwoTo[a] <= TwoTo[b]
    OBVIOUS
  <2>2. a + 1 <= b
    BY <2>1
  <2>3. QED
    BY <1>2, <2>2, TwoToNext
<1>4. QED
    BY <1>1, <1>2, <1>3

\* The place of the i-th group of a number.
Power(i) == TwoTo[Group * i]

\* The sizes of a group and of a number, and how many groups it takes.
LEMMA Sizes ==
    /\ Base \in Nat /\ Base >= 2 /\ Modulus \in Nat /\ 2 * Base <= Modulus
    /\ Modulus \div 2 \in Nat /\ Modulus = 2 * (Modulus \div 2)
    /\ MaxGroups \in Nat /\ MaxGroups >= 1
<1> USE CodecAssumption
<1>1. Base \in Nat /\ Base >= 2
    BY TwoToGrows, TwoToNext DEF Base
<1>2. Modulus \in Nat /\ 2 * Base <= Modulus
    BY TwoToGrows DEF Base, Modulus
<1>3. Modulus = 2 * TwoTo[Width - 1] /\ TwoTo[Width - 1] \in Nat
  <2>1. Width - 1 \in Nat /\ (Width - 1) + 1 = Width
    OBVIOUS
  <2>2. QED
    BY <2>1, TwoToNext DEF Modulus
<1>4. MaxGroups \in Nat /\ MaxGroups >= 1
    BY DEF MaxGroups
<1>5. QED
    BY <1>1, <1>2, <1>3, <1>4

\* A number has no place beyond MaxGroups.
LEMMA Powers ==
    /\ Power(0) = 1
    /\ \A i \in Nat : Power(i) \in Nat /\ Power(i) >= 1
                      /\ Power(i + 1) = Base * Power(i)
    /\ Power(MaxGroups) >= Modulus
<1> USE CodecAssumption
<1>1. Power(0) = 1
  <2>1. Group * 0 = 0
    OBVIOUS
  <2>2. QED
    BY <2>1, TwoToNext DEF Power
<1>2. ASSUME NEW i \in Nat
      PROVE  Power(i) \in Nat /\ Power(i) >= 1 /\ Power(i + 1) = Base * Power(i)
  <2>1. Group * i \in Nat /\ Group * (i + 1) = Group + Group * i
    OBVIOUS
  <2>2. QED
    BY <2>1, TwoToGrows, TwoToSum DEF Power, Base
<1>3. Power(MaxGroups) >= Modulus
  <2>1. MaxGroups \in Nat
    BY Sizes
  <2>2. Group * MaxGroups \in Nat /\ Width <= Group * MaxGroups
    BY <2>1 DEF MaxGroups
  <2>3. QED
    BY <2>2, TwoToGrows DEF Power, Modulus
<1>4. QED
    BY <1>1, <1>2, <1>3

-----------------------------------------------------------------------------
(* Numbers: what writeVaruint32 writes, readVaruint32 reads *)

\* The numbers that writeVaruint32 takes.
Word == 0 .. Modulus - 1

\* A number is its lowest group and the rest.
LEMMA WordParts ==
    \A v \in Word :
      /\ v \in Nat /\ (v % Base) \in 0 .. Base - 1 /\ (v \div Base) \in Word
      /\ v = Base * (v \div Base) + (v % Base)
      /\ v >= Base => (v \div Base) < v
      /\ v < Base => (v % Base) = v
<1> SUFFICES ASSUME NEW v \in Word
             PROVE  /\ v \in Nat /\ (v % Base) \in 0 .. Base - 1
                    /\ (v \div Base) \in Word
                    /\ v = Base * (v \div Base) + (v % Base)
                    /\ v >= Base => (v \div Base) < v
                    /\ v < Base => (v % Base) = v
    OBVIOUS
<1>1. Base \in Nat /\ Base >= 2 /\ Modulus \in Nat /\ v \in Nat /\ v < Modulus
    BY Sizes DEF Word
<1>2. /\ (v % Base) \in 0 .. Base - 1 /\ (v \div Base) \in Nat
      /\ v = Base * (v \div Base) + (v % Base)
    BY <1>1
<1>3. v > 0 => (v \div Base) < v
    BY <1>1
<1>4. v < Base => (v % Base) = v
    BY <1>1
<1>5. (v \div Base) <= v
    BY <1>1
<1>6. (v \div Base) \in Word
    BY <1>1, <1>2, <1>5 DEF Word
<1>7. QED
    BY <1>1, <1>2, <1>3, <1>4, <1>6

\* The loop of writeVaruint32.
LEMMA WriteNext ==
    \A v \in Word :
      /\ WriteVaruint32[v] \in Seq(Nat)
      /\ WriteVaruint32[v] =
           IF v >= Base THEN <<Base + (v % Base)>> \o WriteVaruint32[v \div Base]
                        ELSE <<v>>
<1> DEFINE S == Seq(Nat)
           Body(v, f) == IF v >= Base THEN <<Base + (v % Base)>> \o f[v \div Base]
                                      ELSE <<v>>
           body == [p \in Word \X [Word -> S] |-> Body(p[1], p[2])]
<1>1. \A v \in Word, f \in [Word -> S] : Body(v, f) \in S
  <2>1. SUFFICES ASSUME NEW v \in Word, NEW f \in [Word -> S]
                 PROVE  Body(v, f) \in S
    OBVIOUS
  <2>2. f[v \div Base] \in Seq(Nat) /\ v \in Nat /\ Base + (v % Base) \in Nat
    BY WordParts, Sizes
  <2>3. QED
    BY <2>2
<1>2. body \in [Word \X [Word -> S] -> S]
    BY <1>1
<1>3. ASSUME NEW v \in Word, NEW f \in [Word -> S], NEW g \in [Word -> S],
             \A w \in Word : w < v => f[w] = g[w]
      PROVE  body[<<v, f>>] = body[<<v, g>>]
  <2>1. v >= Base => f[v \div Base] = g[v \div Base]
    BY <1>3, WordParts
  <2>2. Body(v, f) = Body(v, g)
    BY <2>1
  <2>3. QED
    BY <2>2
<1>4. \A v \in Word, f \in [Word -> S] : body[<<v, f>>] = Body(v, f)
    OBVIOUS
<1>5. S # {} /\ Word \subseteq Nat
  <2>1. <<>> \in S
    OBVIOUS
  <2>2. Word \subseteq Nat
    BY Sizes DEF Word
  <2>3. QED
    BY <2>1, <2>2
<1>6. PICK f \in [Word -> S] : \A v \in Word : f[v] = body[<<v, f>>]
  <2> HIDE DEF body, S
  <2>1. Determines(body, Word, S)
    BY <1>2, <1>3, <1>5 DEF Determines
  <2>2. QED
    BY <1>5, <2>1, Recursion
<1>7. f = [v \in Word |-> Body(v, f)]
  <2> HIDE DEF body, S, Body
  <2>1. QED
    BY <1>4, <1>6
<1>8. WriteVaruint32 = [v \in Word |-> Body(v, WriteVaruint32)]
    BY <1>7 DEF WriteVaruint32, Word
<1>9. \A v \in Word : WriteVaruint32[v] \in S
  <2> DEFINE T == {v \in Word : WriteVaruint32[v] \in S}
  <2>1. ASSUME NEW v \in Word, \A w \in Word : w < v => w \in T
        PROVE  v \in T
    <3>1. v >= Base => WriteVaruint32[v \div Base] \in S
      BY <2>1, WordParts
    <3>2. v \in Nat /\ Base + (v % Base) \in Nat
      BY WordParts, Sizes
    <3>3. Body(v, WriteVaruint32) \in S
      BY <3>1, <3>2
    <3>4. QED
      BY <1>8, <3>3
  <2> HIDE DEF T
  <2>2. Word \subseteq T
    BY <1>5, <2>1, StrongInduction
  <2>3. QED
    BY <2>2 DEF T
<1>10. QED
    BY <1>8, <1>9

\* What is left of a number v after its first i groups, q[i], and the bytes s
\* that these are written in: all but the last have the flag.
Groups(v, s, q) ==
    /\ q \in [Nat -> Nat] /\ q[0] = v /\ q[Len(s)] = 0
    /\ s \in Seq(Nat) /\ Len(s) >= 1
    /\ \A i \in 1 .. Len(s) : /\ q[i - 1] = Base * q[i] + (s[i] % Base)
                              /\ s[i] < Base <=> i = Len(s)

LEMMA GroupsWritten ==
    \A v \in Word :
      /\ \E q : Groups(v, WriteVaruint32[v], q)
      /\ \A k \in Nat : v < Power(k) /\ k > 0 => Len(WriteVaruint32[v]) <= k
<1> DEFINE Short(v) == \A k \in Nat :
                         v < Power(k) /\ k > 0 => Len(WriteVaruint32[v]) <= k
           T == {v \in Word : Short(v) /\ \E q : Groups(v, WriteVaruint32[v], q)}
<1>1. ASSUME NEW v \in Word, \A w \in Word : w < v => w \in T
      PROVE  v \in T
  <2> DEFINE s == WriteVaruint32[v]
             rest == WriteVaruint32[v \div Base]
  <2>0. Base \in Nat /\ Base >= 2
    BY Sizes
  <2>1. CASE v < Base
    <3>1. s = <<v>> /\ v \in Nat /\ (v % Base) = v
      <4>1. v \in Nat /\ (v % Base) = v
        BY <2>1, WordParts
      <4>2. ~(v >= Base)
        BY <2>0, <2>1, <4>1
      <4>3. QED
        BY <4>1, <4>2, WriteNext
    <3> DEFINE q == [i \in Nat |-> IF i = 0 THEN v ELSE 0]
    <3>2. Groups(v, s, q)
      BY <2>0, <2>1, <3>1 DEF Groups
    <3>3. Short(v)
      BY <3>1
    <3>4. QED
      BY <3>2, <3>3
  <2>2. CASE v >= Base
    <3>1. /\ s = <<Base + (v % Base)>> \o rest
          /\ v \in Nat /\ (v % Base) \in 0 .. Base - 1
          /\ (v \div Base) \in Word /\ (v \div Base) < v
          /\ v = Base * (v \div Base) + (v % Base)
      BY <2>2, WriteNext, WordParts
    <3>2. (v \div Base) \in T
      BY <1>1, <3>1
    <3>3. PICK p : Groups(v \div Base, rest, p)
      BY <3>2
    <3> HIDE DEF s, rest
    <3>4. /\ rest \in Seq(Nat) /\ Len(rest) \in Nat /\ Len(rest) >= 1
          /\ s \in Seq(Nat) /\ Len(s) = Len(rest) + 1
          /\ s[1] = Base + (v % Base)
          /\ \A i \in 1 .. Len(rest) : s[i + 1] = rest[i]
      <4>1. /\ rest \in Seq(Nat) /\ Len(rest) \in Nat /\ Len(rest) >= 1
            /\ Base + (v % Base) \in Nat
        BY <2>0, <3>1, <3>3 DEF Groups
      <4>2. \A x \in Nat : /\ <<x>> \o rest \in Seq(Nat)
                           /\ Len(<<x>> \o rest) = Len(rest) + 1
                           /\ (<<x>> \o rest)[1] = x
                           /\ \A i \in 1 .. Len(rest) :
                                (<<x>> \o rest)[i + 1] = rest[i]
        BY <4>1
      <4>3. QED
        BY <3>1, <4>1, <4>2
    <3> DEFINE q == [i \in Nat |-> IF i = 0 THEN v ELSE p[i - 1]]
    <3>5. (s[1] % Base) = (v % Base) /\ ~(s[1] < Base)
      <4>1. \A x \in 0 .. Base - 1 : ((Base + x) % Base) = x
        BY <2>0
      <4>2. QED
        BY <2>0, <3>1, <3>4, <4>1
    <3>6. /\ q \in [Nat -> Nat] /\ q[0] = v
          /\ \A i \in Nat : i >= 1 => q[i] = p[i - 1]
      <4>1. p \in [Nat -> Nat]
        BY <3>3 DEF Groups
      <4>2. \A i \in Nat : i # 0 => i - 1 \in Nat
        OBVIOUS
      <4>3. q \in [Nat -> Nat]
        BY <3>1, <4>1, <4>2
      <4>4. q[0] = v
        OBVIOUS
      <4>5. \A i \in Nat : i >= 1 => q[i] = p[i - 1]
        OBVIOUS
      <4>6. QED
        BY <4>3, <4>4, <4>5
    <3> HIDE DEF q
    <3>7. \A i \in 1 .. Len(s) : /\ q[i - 1] = Base * q[i] + (s[i] % Base)
                                 /\ s[i] < Base <=> i = Len(s)
      <4>1. ASSUME NEW i \in 1 .. Len(s)
            PROVE  /\ q[i - 1] = Base * q[i] + (s[i] % Base)
                   /\ s[i] < Base <=> i = Len(s)
        <5>1. CASE i = 1
          <6>1. q[1] = (v \div Base)
            BY <3>3, <3>6 DEF Groups
          <6>2. QED
            BY <3>1, <3>4, <3>5, <3>6, <5>1, <6>1
        <5>2. CASE i # 1
          <6>1. /\ i - 1 \in 1 .. Len(rest) /\ i - 1 \in Nat /\ i \in Nat
                /\ s[i] = rest[i - 1]
            <7>1. i - 1 \in 1 .. Len(rest) /\ (i - 1) + 1 = i
              BY <3>4, <5>2
            <7>2. s[(i - 1) + 1] = rest[i - 1]
              BY <3>4, <7>1
            <7>3. QED
              BY <7>1, <7>2
          <6>2. /\ p[(i - 1) - 1] = Base * p[i - 1] + (rest[i - 1] % Base)
                /\ rest[i - 1] < Base <=> i - 1 = Len(rest)
            BY <3>3, <6>1 DEF Groups
          <6>3. q[i] = p[i - 1] /\ q[i - 1] = p[(i - 1) - 1]
            <7>1. i >= 1 /\ i - 1 >= 1
              BY <3>4, <6>1
            <7>2. QED
              BY <3>6, <6>1, <7>1
          <6>4. QED
            BY <3>4, <6>1, <6>2, <6>3
        <5>3. QED
          BY <5>1, <5>2
      <4>2. QED
        BY <4>1
    <3>8. q[Len(s)] = 0
      <4>1. p[Len(rest)] = 0
        BY <3>3 DEF Groups
      <4>2. Len(s) \in Nat /\ Len(s) >= 1 /\ Len(s) - 1 = Len(rest)
        BY <3>4
      <4>3. QED
        BY <3>6, <4>1, <4>2
    <3>9. Groups(v, s, q)
      <4>1. Len(s) >= 1
        BY <3>4
      <4>2. QED
        BY <3>4, <3>6, <3>7, <3>8, <4>1, Zenon DEF Groups
    <3>10. ASSUME NEW k \in Nat, v < Power(k), k > 0
           PROVE  Len(s) <= k
      <4>1. CASE k = 1
        <5>1. Power(1) = Base
          <6>1. Power(0 + 1) = Base * Power(0) /\ Power(0) = 1 /\ 0 + 1 = 1
            BY Powers
          <6>2. QED
            BY <2>0, <6>1
        <5>2. QED
          BY <2>2, <2>0, <3>1, <3>10, <4>1, <5>1
      <4>2. CASE k # 1
        <5>1. k - 1 \in Nat /\ k - 1 > 0 /\ (k - 1) + 1 = k
          BY <3>10, <4>2
        <5>2. Power(k) = Base * Power(k - 1) /\ Power(k - 1) \in Nat
          BY <5>1, Powers
        <5>3. Base * (v \div Base) < Base * Power(k - 1)
          BY <2>0, <3>1, <3>10, <5>2
        <5>4. \A a, b \in Nat : Base * a < Base * b => a < b
          BY <2>0
        <5>5. (v \div Base) < Power(k - 1)
          BY <3>1, <5>2, <5>3, <5>4 DEF Word
        <5>6. Len(rest) <= k - 1
          BY <3>2, <5>1, <5>5 DEF rest
        <5>7. QED
          BY <3>4, <5>6
      <4>3. QED
        BY <4>1, <4>2
    <3>11. QED
      BY <3>9, <3>10 DEF s
  <2>3. QED
    BY <2>1, <2>2, <2>0, WordParts
<1>2. Word \subseteq Nat
    BY Sizes DEF Word
<1> HIDE DEF T
<1>3. Word \subseteq T
    BY <1>1, <1>2, StrongInduction
<1>4. QED
    BY <1>3 DEF T

\* The loop of readVaruint32.
LEMMA GatheredNext ==
    \A buf \in Seq(Nat) :
      /\ \A i \in 0 .. Len(buf) : Gathered(buf)[i] \in Word
      /\ Gathered(buf)[0] = 0
      /\ \A i \in 1 .. Len(buf) : Gathered(buf)[i]
           = ((Gathered(buf)[i - 1] + Shifted(buf[i], i)) % Modulus)
<1> TAKE buf \in Seq(Nat)
<1> DEFINE D == 0 .. Len(buf)
           step == [p \in (D \ {0}) \X Word |->
                      ((p[2] + Shifted(buf[p[1]], p[1])) % Modulus)]
<1>0. /\ Len(buf) \in Nat /\ Modulus \in Nat /\ Modulus > 0
      /\ Base \in Nat /\ Base > 0
    BY Sizes
<1>1. \A i \in D \ {0} : i \in Nat /\ buf[i] \in Nat /\ i - 1 \in D
  <2>1. \A n \in Nat : \A i \in (0 .. n) \ {0} :
          i \in Nat /\ i \in 1 .. n /\ i - 1 \in 0 .. n
    OBVIOUS
  <2>2. \A i \in 1 .. Len(buf) : buf[i] \in Nat
    OBVIOUS
  <2>3. QED
    BY <1>0, <2>1, <2>2
<1>2. ASSUME NEW i \in D \ {0}, NEW v \in Word
      PROVE  ((v + Shifted(buf[i], i)) % Modulus) \in Word
  <2>1. Group * (i - 1) \in Nat
    BY <1>1, CodecAssumption
  <2>2. TwoTo[Group * (i - 1)] \in Nat /\ (buf[i] % Base) \in Nat
    BY <1>0, <1>1, <2>1, TwoToGrows
  <2>3. (buf[i] % Base) * TwoTo[Group * (i - 1)] \in Nat
    BY <2>2
  <2>4. Shifted(buf[i], i) \in Nat
    BY <1>0, <2>3 DEF Shifted
  <2>5. QED
    BY <1>0, <2>4 DEF Word
<1>3. Loop(D, Word, 0, step)
  <2>1. D \subseteq Nat /\ (\A i \in D : i # 0 => i - 1 \in D) /\ 0 \in Word
    BY <1>0 DEF Word
  <2> HIDE DEF D
  <2>2. step \in [(D \ {0}) \X Word -> Word]
    BY <1>2
  <2> HIDE DEF step
  <2>3. QED
    BY <2>1, <2>2 DEF Loop
<1>4. \A i \in D \ {0}, v \in Word :
        step[<<i, v>>] = ((v + Shifted(buf[i], i)) % Modulus)
    OBVIOUS
<1>5. PICK f : Computes(f, D, Word, 0, step)
  <2> HIDE DEF D, step
  <2>1. QED
    BY <1>3, LoopExists
<1>6. f = [i \in D |-> IF i = 0 THEN 0
                       ELSE ((f[i - 1] + Shifted(buf[i], i)) % Modulus)]
  <2> HIDE DEF D, step
  <2>1. f \in [D -> Word]
    BY <1>5 DEF Computes
  <2>2. \A i \in D : i # 0 => f[i - 1] \in Word
    BY <1>1, <2>1
  <2>3. \A i \in D : f[i] = IF i = 0 THEN 0 ELSE step[<<i, f[i - 1]>>]
    BY <1>5 DEF Computes
  <2>4. QED
    BY <1>4, <2>1, <2>2, <2>3
<1> DEFINE g == Gathered(buf)
<1>7. g = [i \in D |-> IF i = 0 THEN 0
                       ELSE ((g[i - 1] + Shifted(buf[i], i)) % Modulus)]
    BY <1>6 DEF Gathered
<1> HIDE DEF g
<1>8. Repeats(g, D, Word, 0, step)
  <2> HIDE DEF D, step
  <2>1. g = [i \in D |-> g[i]]
    BY <1>7
  <2>2. \A i \in D : g[i] = IF i = 0 THEN 0
                            ELSE ((g[i - 1] + Shifted(buf[i], i)) % Modulus)
    BY <1>7
  <2>3. QED
    BY <1>4, <2>1, <2>2 DEF Repeats
<1>9. Computes(g, D, Word, 0, step)
  <2> HIDE DEF D, step
  <2>1. QED
    BY <1>3, <1>8, LoopType
<1>10. \A i \in D : g[i] \in Word
    BY <1>9 DEF Computes
<1>11. g[0] = 0 /\ \A i \in 1 .. Len(buf) :
         g[i] = ((g[i - 1] + Shifted(buf[i], i)) % Modulus)
  <2>1. 0 \in D /\ \A i \in 1 .. Len(buf) : i \in D /\ i # 0
    BY <1>0
  <2> HIDE DEF D
  <2>2. QED
    BY <1>7, <2>1
<1>12. QED
    BY <1>10, <1>11 DEF g

\* What readVaruint32 has of a number after i of its bytes.
LEMMA GatheredWritten ==
    ASSUME NEW v \in Word, NEW q, Groups(v, WriteVaruint32[v], q),
           NEW buf \in Seq(Nat), Len(WriteVaruint32[v]) <= Len(buf),
           \A i \in 1 .. Len(WriteVaruint32[v]) :
             buf[i] = WriteVaruint32[v][i]
    PROVE  Gathered(buf)[Len(WriteVaruint32[v])] = v
<1> DEFINE s == WriteVaruint32[v]
           T == {i \in Nat : i <= Len(s) => Gathered(buf)[i] = v - q[i] * Power(i)}
<1>00. /\ q \in [Nat -> Nat] /\ q[0] = v /\ q[Len(s)] = 0
       /\ \A i \in 1 .. Len(s) : q[i - 1] = Base * q[i] + (s[i] % Base)
       /\ s \in Seq(Nat)
    BY DEF Groups
<1>01. Len(s) <= Len(buf) /\ \A i \in 1 .. Len(s) : buf[i] = s[i]
    OBVIOUS
<1> HIDE DEF s
<1>02. Len(s) \in Nat /\ Len(buf) \in Nat
    BY <1>00
<1>0. /\ Len(s) \in Nat /\ Len(buf) \in Nat /\ q \in [Nat -> Nat]
      /\ q[0] = v /\ q[Len(s)] = 0
      /\ \A i \in 1 .. Len(s) : q[i - 1] = Base * q[i] + (s[i] % Base)
      /\ Len(s) <= Len(buf) /\ \A i \in 1 .. Len(s) : buf[i] = s[i]
    BY <1>00, <1>01, <1>02
<1>1. /\ Modulus \in Nat /\ Modulus > 0 /\ Base \in Nat /\ Base > 0
      /\ v \in Nat /\ v < Modulus
    BY Sizes DEF Word
<1>2. 0 \in T
  <2>1. v - v * 1 = 0
    BY <1>1
  <2>2. QED
    BY <1>0, <2>1, GatheredNext, Powers
<1>3. ASSUME NEW i \in Nat, i \in T PROVE i + 1 \in T
  <2>1. SUFFICES ASSUME i + 1 <= Len(s)
                 PROVE  Gathered(buf)[i + 1] = v - q[i + 1] * Power(i + 1)
    OBVIOUS
  <2>2. /\ i + 1 \in 1 .. Len(s) /\ i + 1 \in 1 .. Len(buf) /\ (i + 1) - 1 = i
        /\ i <= Len(s) /\ i \in 0 .. Len(buf)
    BY <1>01, <1>02, <2>1
  <2> DEFINE d == (s[i + 1] % Base)
  <2>3. q[i] = Base * q[i + 1] + d /\ q[i] \in Nat /\ q[i + 1] \in Nat
    <3>1. q[(i + 1) - 1] = Base * q[i + 1] + d
      BY <1>0, <2>2
    <3>2. i + 1 \in Nat
      OBVIOUS
    <3>3. q[i] \in Nat /\ q[i + 1] \in Nat
      BY <1>0, <3>2
    <3>4. QED
      BY <2>2, <3>1, <3>3
  <2>4. d \in Nat
    <3>1. buf[i + 1] \in Nat /\ buf[i + 1] = s[i + 1]
      BY <1>01, <2>2
    <3>2. QED
      BY <1>1, <3>1
  <2>5. /\ Power(i) \in Nat /\ Power(i + 1) \in Nat
        /\ Power(i + 1) = Base * Power(i)
    <3>1. i + 1 \in Nat
      OBVIOUS
    <3>2. QED
      BY <3>1, Powers
  <2>6. Gathered(buf)[i] = v - q[i] * Power(i)
    BY <1>3, <2>2
  <2>7. Gathered(buf)[i] \in Nat
    BY <1>0, <1>1, <2>2, GatheredNext DEF Word
  <2>8. Shifted(buf[i + 1], i + 1) = ((d * Power(i)) % Modulus)
    BY <1>0, <2>2 DEF Shifted, Power
  <2>9. (v - q[i] * Power(i)) + d * Power(i) = v - q[i + 1] * Power(i + 1)
    <3> HIDE DEF d
    <3> HIDE DEF d
    <3>1. PICK a \in Nat : a = q[i + 1]
      BY <2>3
    <3>2. PICK p \in Nat : p = Power(i)
      BY <2>5
    <3>3. PICK x \in Nat : x = d
      BY <2>4
    <3>4. PICK b \in Nat : b = Base
      BY <1>1
    <3>5. PICK n \in Nat : n = v
      BY <1>1
    <3>6. (n - (b * a + x) * p) + x * p = n - a * (b * p)
      OBVIOUS
    <3>7. QED
      BY <2>3, <2>5, <3>1, <3>2, <3>3, <3>4, <3>5, <3>6
  <2> HIDE DEF d
  <2>10. q[i + 1] * Power(i + 1) \in Nat /\ d * Power(i) \in Nat
    <3>1. \A a, b \in Nat : a * b \in Nat
      OBVIOUS
    <3>2. QED
      BY <2>3, <2>4, <2>5, <3>1
  \* The group fits, so nothing is cut off.
  <2>11. d * Power(i) < Modulus
    <3>1. Gathered(buf)[i] + d * Power(i) = v - q[i + 1] * Power(i + 1)
      BY <2>6, <2>9
    <3>2. PICK a \in Nat : a = d * Power(i)
      BY <2>10
    <3>3. PICK c \in Nat : c = q[i + 1] * Power(i + 1)
      BY <2>10
    <3>4. Gathered(buf)[i] + a = v - c
      BY <3>1, <3>2, <3>3
    <3>5. a < Modulus
      BY <1>1, <2>7, <3>4
    <3>6. QED
      BY <3>2, <3>5
  <2>12. ((d * Power(i)) % Modulus) = d * Power(i)
    <3>1. PICK a \in Nat : a = d * Power(i)
      BY <2>10
    <3>2. a < Modulus
      BY <2>11, <3>1
    <3>3. (a % Modulus) = a
      BY <1>1, <3>2
    <3>4. QED
      BY <3>1, <3>3
  <2>13. /\ Gathered(buf)[i] + d * Power(i) \in Nat
         /\ Gathered(buf)[i] + d * Power(i) < Modulus
    BY <1>1, <2>6, <2>7, <2>9, <2>10
  <2>14. ((Gathered(buf)[i] + d * Power(i)) % Modulus)
           = Gathered(buf)[i] + d * Power(i)
    <3>1. PICK a \in Nat : a = Gathered(buf)[i] + d * Power(i)
      BY <2>13
    <3>2. a < Modulus
      BY <2>13, <3>1
    <3>3. (a % Modulus) = a
      BY <1>1, <3>2
    <3>4. QED
      BY <3>1, <3>3
  <2>15. Gathered(buf)[i + 1]
           = ((Gathered(buf)[i] + Shifted(buf[i + 1], i + 1)) % Modulus)
    BY <2>2, GatheredNext
  <2>16. QED
    BY <2>6, <2>8, <2>9, <2>12, <2>14, <2>15
<1> HIDE DEF T
<1>4. Nat \subseteq T
    BY <1>2, <1>3, SimpleInduction
<1>5. Gathered(buf)[Len(s)] = v
  <2>1. Len(s) \in T /\ Len(s) <= Len(s)
    BY <1>0, <1>4
  <2>2. Gathered(buf)[Len(s)] = v - q[Len(s)] * Power(Len(s))
    BY <2>1 DEF T
  <2>3. PICK p \in Nat : p = Power(Len(s))
    BY <1>0, Powers
  <2>4. Gathered(buf)[Len(s)] = v - q[Len(s)] * p
    BY <2>2, <2>3
  <2>5. q[Len(s)] = 0
    BY <1>0
  <2>6. v - 0 * p = v
    BY <1>1
  <2>7. QED
    BY <2>4, <2>5, <2>6
<1>6. QED
    BY <1>5 DEF s

\* Min of a set of numbers with a least element.
LEMMA MinIs ==
    \A S : \A n \in S : S \subseteq Nat /\ (\A m \in S : n <= m) => Min(S) = n
<1> SUFFICES ASSUME NEW S, NEW n \in S, S \subseteq Nat, \A m \in S : n <= m
             PROVE  Min(S) = n
    OBVIOUS
<1>1. \A x \in S : (\A y \in S : x <= y) => x = n
    OBVIOUS
<1>2. QED
    BY <1>1 DEF Min

\* A buffer without an end has no number.
LEMMA ReadUnended ==
    ASSUME NEW buf \in Seq(Nat), \A i \in 1 .. Len(buf) : ~(buf[i] < Base)
    PROVE  ReadVaruint32(buf) = Failed
BY DEF ReadVaruint32

\* readVaruint32 reads a number and leaves what follows it, and takes no part of
\* it for a number.
LEMMA NumberReadBack ==
    ASSUME NEW v \in Word
    PROVE  /\ WriteVaruint32[v] \in Seq(Nat)
           /\ \A z \in Seq(Nat) :
                ReadVaruint32(WriteVaruint32[v] \o z) = Got(v, z)
           /\ \A n \in 0 .. Len(WriteVaruint32[v]) - 1 :
                ReadVaruint32(SubSeq(WriteVaruint32[v], 1, n)) = Failed
<1> DEFINE s == WriteVaruint32[v]
<1>1. PICK q : Groups(v, s, q)
    BY GroupsWritten
<1>2. /\ s \in Seq(Nat) /\ Len(s) \in Nat /\ Len(s) >= 1
      /\ \A i \in 1 .. Len(s) : s[i] < Base <=> i = Len(s)
  <2>1. s \in Seq(Nat) /\ Len(s) >= 1
    BY <1>1 DEF Groups
  <2>2. \A i \in 1 .. Len(s) : s[i] < Base <=> i = Len(s)
    BY <1>1 DEF Groups
  <2> HIDE DEF s
  <2>3. QED
    BY <2>1, <2>2
<1>3. Len(s) <= MaxGroups
  <2>1. v < Power(MaxGroups) /\ MaxGroups \in Nat /\ MaxGroups > 0
    <3>1. /\ v \in Nat /\ v < Modulus /\ Modulus \in Nat
          /\ MaxGroups \in Nat /\ MaxGroups > 0
      BY Sizes DEF Word
    <3>2. Power(MaxGroups) \in Nat /\ Power(MaxGroups) >= Modulus
      BY <3>1, Powers
    <3>3. QED
      BY <3>1, <3>2
  <2>2. QED
    BY <2>1, GroupsWritten
<1>4. ASSUME NEW z \in Seq(Nat)
      PROVE  ReadVaruint32(s \o z) = Got(v, z)
  <2> DEFINE buf == s \o z
             ends == {n \in 1 .. Len(buf) : n <= MaxGroups /\ buf[n] < Base}
  <2>1. /\ buf \in Seq(Nat) /\ Len(buf) = Len(s) + Len(z) /\ Len(z) \in Nat
        /\ \A i \in 1 .. Len(s) : buf[i] = s[i]
        /\ SubSeq(buf, Len(s) + 1, Len(buf)) = z
    <3> HIDE DEF s
    <3>1. /\ buf \in Seq(Nat) /\ Len(buf) = Len(s) + Len(z) /\ Len(z) \in Nat
          /\ \A i \in 1 .. Len(s) : buf[i] = s[i]
      BY <1>2
    <3>2. SubSeq(buf, Len(s) + 1, Len(buf)) = z
      BY <1>2
    <3>3. QED
      BY <3>1, <3>2
  <2>2. Len(s) \in ends /\ \A m \in ends : Len(s) <= m
    <3> HIDE DEF s, buf
    <3>1. Len(s) \in 1 .. Len(buf) /\ Len(s) \in 1 .. Len(s)
      BY <1>2, <2>1
    <3>2. buf[Len(s)] < Base
      BY <1>2, <2>1, <3>1
    <3>3. Len(s) \in ends
      BY <1>3, <3>1, <3>2
    <3>4. ASSUME NEW m \in ends, m < Len(s) PROVE FALSE
      <4>1. m \in 1 .. Len(s) /\ buf[m] < Base
        BY <1>2, <2>1, <3>4
      <4>2. buf[m] = s[m]
        BY <2>1, <4>1
      <4>3. m = Len(s)
        BY <1>2, <4>1, <4>2
      <4>4. QED
        BY <1>2, <3>4, <4>3
    <3>5. QED
      BY <1>2, <2>1, <3>3, <3>4
  <2>3. Min(ends) = Len(s)
    <3>1. ends \subseteq Nat
      OBVIOUS
    <3> HIDE DEF ends, s
    <3>2. QED
      BY <2>2, <3>1, MinIs
  <2>4. Gathered(buf)[Len(s)] = v
    <3>1. Len(s) <= Len(buf)
      <4> HIDE DEF s, buf
      <4>1. QED
        BY <1>2, <2>1
    <3> HIDE DEF buf
    <3>2. QED
      BY <1>1, <2>1, <3>1, GatheredWritten
  <2>5. ReadVaruint32(buf) = Got(Gathered(buf)[Min(ends)],
                                 SubSeq(buf, Min(ends) + 1, Len(buf)))
    <3>1. ends # {}
      BY <2>2
    <3> HIDE DEF s, buf
    <3>2. QED
      BY <3>1 DEF ReadVaruint32
  <2> HIDE DEF s, buf, ends
  <2>6. ReadVaruint32(buf) = Got(v, z)
    BY <2>1, <2>3, <2>4, <2>5
  <2>7. QED
    BY <2>6 DEF buf
<1>5. ASSUME NEW n \in 0 .. Len(s) - 1
      PROVE  ReadVaruint32(SubSeq(s, 1, n)) = Failed
  <2> HIDE DEF s
  <2> DEFINE cut == SubSeq(s, 1, n)
  <2>1. /\ cut \in Seq(Nat) /\ Len(cut) = n
        /\ \A i \in 1 .. n : cut[i] = s[i]
    BY <1>2
  <2> HIDE DEF cut
  <2>2. \A i \in 1 .. Len(cut) : ~(cut[i] < Base)
    <3>1. ASSUME NEW i \in 1 .. Len(cut)
          PROVE  ~(cut[i] < Base)
      <4>1. i \in 1 .. Len(s) /\ i # Len(s) /\ cut[i] = s[i]
        BY <1>2, <2>1
      <4>2. QED
        BY <1>2, <4>1
    <3>2. QED
      BY <3>1
  <2>3. QED
    BY <2>1, <2>2, ReadUnended DEF cut
<1>6. QED
    BY <1>2, <1>4, <1>5

\* What a reader of values makes of a buffer: a value of a set and the rest.
Outcomes(V) == {Failed} \cup {Got(v, rest) : v \in V, rest \in Seq(Nat)}

\* Whatever the buffer, readVaruint32 reads such a number or fails.
LEMMA NumberType == \A buf \in Seq(Nat) : ReadVaruint32(buf) \in Outcomes(Word)
<1> TAKE buf \in Seq(Nat)
<1> DEFINE ends == {n \in 1 .. Len(buf) : n <= MaxGroups /\ buf[n] < Base}
<1>1. CASE ends = {}
    BY <1>1 DEF ReadVaruint32, Outcomes
<1>2. CASE ends # {}
  <2>1. ends \in SUBSET Nat
    OBVIOUS
  <2>2. PICK n \in ends : \A m \in ends : n <= m
    BY <1>2, <2>1, WellOrdered
  <2>3. Min(ends) = n
    BY <2>1, <2>2, MinIs
  <2>4. /\ n \in 0 .. Len(buf) /\ n \in Nat /\ Len(buf) \in Nat
        /\ SubSeq(buf, n + 1, Len(buf)) \in Seq(Nat)
    <3>1. n \in 1 .. Len(buf) /\ Len(buf) \in Nat
      OBVIOUS
    <3>2. n \in 0 .. Len(buf) /\ n \in Nat
      BY <3>1
    <3>3. SubSeq(buf, n + 1, Len(buf)) \in Seq(Nat)
      BY <3>1
    <3>4. QED
      BY <3>1, <3>2, <3>3
  <2>5. ReadVaruint32(buf)
          = Got(Gathered(buf)[n], SubSeq(buf, n + 1, Len(buf)))
    BY <1>2, <2>3 DEF ReadVaruint32
  <2>6. Gathered(buf)[n] \in Word
    BY <2>4, GatheredNext
  <2> HIDE DEF ends
  <2>7. \A v \in Word, rest \in Seq(Nat) : Got(v, rest) \in Outcomes(Word)
    BY DEF Outcomes
  <2>8. SubSeq(buf, n + 1, Len(buf)) \in Seq(Nat)
    BY <2>4
  <2>9. Got(Gathered(buf)[n], SubSeq(buf, n + 1, Len(buf))) \in Outcomes(Word)
    BY <2>6, <2>7, <2>8, Zenon
  <2>10. QED
    BY <2>5, <2>9
<1>3. QED
    BY <1>1, <1>2

-----------------------------------------------------------------------------
(* Strings, flags and numbers with a sign *)

\* The sequences a buffer of two parts has.
LEMMA TwoParts ==
    ASSUME NEW w \in Seq(Nat), NEW s \in Seq(Nat)
    PROVE  /\ w \o s \in Seq(Nat) /\ Len(w \o s) = Len(w) + Len(s)
           /\ \A z \in Seq(Nat) : (w \o s) \o z = w \o (s \o z)
           /\ \A n \in 0 .. Len(w) : SubSeq(w \o s, 1, n) = SubSeq(w, 1, n)
           /\ \A n \in Len(w) .. Len(w) + Len(s) :
                SubSeq(w \o s, 1, n) = w \o SubSeq(s, 1, n - Len(w))
           /\ \A n \in 0 .. Len(s) : /\ SubSeq(s, 1, n) \in Seq(Nat)
                                     /\ Len(SubSeq(s, 1, n)) = n
           /\ SubSeq(w \o s, 1, Len(w)) = w
           /\ SubSeq(w \o s, Len(w) + 1, Len(w \o s)) = s
<1>1. /\ w \o s \in Seq(Nat) /\ Len(w \o s) = Len(w) + Len(s)
      /\ \A i \in 1 .. Len(w) + Len(s) :
           (w \o s)[i] = IF i <= Len(w) THEN w[i] ELSE s[i - Len(w)]
    BY ConcatProperties
<1>2. \A z \in Seq(Nat) : (w \o s) \o z = w \o (s \o z)
    BY ConcatAssociative
<1>3. Len(w) \in Nat /\ Len(s) \in Nat
    OBVIOUS
<1>4. \A n \in 0 .. Len(s) : /\ SubSeq(s, 1, n) \in Seq(Nat)
                             /\ Len(SubSeq(s, 1, n)) = n
    BY <1>3
<1>5. \A n \in 0 .. Len(w) : SubSeq(w \o s, 1, n) = SubSeq(w, 1, n)
    OBVIOUS
<1>6. \A n \in Len(w) .. Len(w) + Len(s) :
        SubSeq(w \o s, 1, n) = w \o SubSeq(s, 1, n - Len(w))
    OBVIOUS
<1>7. SubSeq(w \o s, 1, Len(w)) = w
    OBVIOUS
<1>8. SubSeq(w \o s, Len(w) + 1, Len(w \o s)) = s
    OBVIOUS
<1>9. QED
    BY <1>1, <1>2, <1>4, <1>5, <1>6, <1>7, <1>8

\* readString reads a string and leaves what follows it, and takes no part of it
\* for a string.
LEMMA StringReadBack ==
    ASSUME NEW s \in Seq(Nat), Len(s) < Modulus
    PROVE  /\ WriteString(s) \in Seq(Nat)
           /\ \A z \in Seq(Nat) : ReadString(WriteString(s) \o z) = Got(s, z)
           /\ \A n \in 0 .. Len(WriteString(s)) - 1 :
                ~ReadString(SubSeq(WriteString(s), 1, n)).ok
<1> DEFINE w == WriteVaruint32[Len(s)]
<1>1. /\ Len(s) \in Word /\ Len(s) \in Nat /\ (Len(s) % Modulus) = Len(s)
    BY Sizes DEF Word
<1>2. /\ w \in Seq(Nat)
      /\ \A z \in Seq(Nat) : ReadVaruint32(w \o z) = Got(Len(s), z)
      /\ \A n \in 0 .. Len(w) - 1 : ReadVaruint32(SubSeq(w, 1, n)) = Failed
    BY <1>1, NumberReadBack
<1>3. WriteString(s) = w \o s
    BY <1>1 DEF WriteString
<1> HIDE DEF w
<1>4. WriteString(s) \in Seq(Nat)
    BY <1>2, <1>3, TwoParts
<1>5. ASSUME NEW z \in Seq(Nat)
      PROVE  ReadString(WriteString(s) \o z) = Got(s, z)
  <2>1. s \o z \in Seq(Nat) /\ WriteString(s) \o z = w \o (s \o z)
    <3>1. s \o z \in Seq(Nat)
      BY TwoParts
    <3>2. (w \o s) \o z = w \o (s \o z)
      BY <1>2, ConcatAssociative
    <3>3. QED
      BY <1>3, <3>1, <3>2
  <2>2. ReadVaruint32(WriteString(s) \o z) = Got(Len(s), s \o z)
    BY <1>2, <2>1
  <2>3. /\ Len(s \o z) = Len(s) + Len(z) /\ Len(z) \in Nat
        /\ SubSeq(s \o z, 1, Len(s)) = s
        /\ SubSeq(s \o z, Len(s) + 1, Len(s \o z)) = z
    BY TwoParts
  <2>4. Len(s) <= Len(s \o z)
    BY <1>1, <2>3
  <2> DEFINE r == ReadVaruint32(WriteString(s) \o z)
  <2>5. r.ok /\ r.value = Len(s) /\ r.rest = s \o z
    BY <2>2 DEF Got
  <2>6. ReadString(WriteString(s) \o z)
          = IF r.ok /\ r.value <= Len(r.rest)
              THEN Got(SubSeq(r.rest, 1, r.value),
                       SubSeq(r.rest, r.value + 1, Len(r.rest)))
              ELSE Failed
    BY DEF ReadString
  <2> HIDE DEF r
  <2>7. QED
    BY <2>3, <2>4, <2>5, <2>6
<1>6. ASSUME NEW n \in 0 .. Len(WriteString(s)) - 1
      PROVE  ~ReadString(SubSeq(WriteString(s), 1, n)).ok
  <2>1. Len(WriteString(s)) = Len(w) + Len(s) /\ Len(w) \in Nat /\ n \in Nat
    BY <1>2, <1>3, TwoParts
  <2>2. CASE n < Len(w)
    <3>1. n \in 0 .. Len(w) /\ n \in 0 .. Len(w) - 1
      BY <2>1, <2>2
    <3>2. SubSeq(w \o s, 1, n) = SubSeq(w, 1, n)
      BY <1>2, <3>1, TwoParts
    <3>3. ReadVaruint32(SubSeq(WriteString(s), 1, n)) = Failed
      BY <1>2, <1>3, <3>1, <3>2
    <3>4. QED
      BY <3>3 DEF ReadString, Failed
  <2>3. CASE ~(n < Len(w))
    <3> DEFINE cut == SubSeq(s, 1, n - Len(w))
    <3>1. /\ n \in Len(w) .. Len(w) + Len(s) /\ n - Len(w) \in 0 .. Len(s)
          /\ n - Len(w) < Len(s)
      BY <1>1, <2>1, <2>3
    <3>2. /\ SubSeq(WriteString(s), 1, n) = w \o cut
          /\ cut \in Seq(Nat) /\ Len(cut) < Len(s)
      <4>0. \A m \in Len(w) .. Len(w) + Len(s) :
               SubSeq(w \o s, 1, m) = w \o SubSeq(s, 1, m - Len(w))
        BY <1>2, TwoParts
      <4>1. SubSeq(w \o s, 1, n) = w \o cut
        BY <3>1, <4>0
      <4>2. cut \in Seq(Nat) /\ Len(cut) = n - Len(w)
        BY <3>1, TwoParts
      <4>3. QED
        BY <1>3, <3>1, <4>1, <4>2
    <3>3. ReadVaruint32(SubSeq(WriteString(s), 1, n)) = Got(Len(s), cut)
      BY <1>2, <3>2
    <3> HIDE DEF cut
    <3>4. ~(Len(s) <= Len(cut))
      BY <1>1, <3>2
    <3>5. QED
      BY <3>3, <3>4 DEF ReadString, Got, Failed
  <2>4. QED
    BY <2>2, <2>3
<1>7. QED
    BY <1>4, <1>5, <1>6

\* So does readBool,
LEMMA BoolReadBack ==
    ASSUME NEW v \in BOOLEAN
    PROVE  /\ WriteBool(v) \in Seq(Nat)
           /\ \A z \in Seq(Nat) : ReadBool(WriteBool(v) \o z) = Got(v, z)
           /\ \A n \in 0 .. Len(WriteBool(v)) - 1 :
                ~ReadBool(SubSeq(WriteBool(v), 1, n)).ok
<1>1. PICK b \in {0, 1} : WriteBool(v) = <<b>> /\ (b # 0) = v
    BY DEF WriteBool
<1>2. WriteBool(v) \in Seq(Nat) /\ Len(WriteBool(v)) = 1
    BY <1>1
<1>3. ASSUME NEW z \in Seq(Nat)
      PROVE  ReadBool(WriteBool(v) \o z) = Got(v, z)
  <2>1. /\ <<b>> \o z # <<>> /\ (<<b>> \o z)[1] = b /\ Tail(<<b>> \o z) = z
    OBVIOUS
  <2>2. QED
    BY <1>1, <2>1 DEF ReadBool
<1>4. ASSUME NEW n \in 0 .. Len(WriteBool(v)) - 1
      PROVE  ~ReadBool(SubSeq(WriteBool(v), 1, n)).ok
  <2>1. SubSeq(WriteBool(v), 1, n) = <<>>
    BY <1>1, <1>4
  <2>2. QED
    BY <2>1 DEF ReadBool, Failed
<1>5. QED
    BY <1>2, <1>3, <1>4

\* The numbers of 32 bits with a sign.
Signed == -(Modulus \div 2) .. Modulus \div 2 - 1

\* What writeVarint32 makes of a number, and readVarint32 of that.
ZigZag(v) ==
    IF v < 0 THEN Complement((2 * v) % Modulus) ELSE ((2 * v) % Modulus)
ZagZig(u) == IF (u % 2) = 1 THEN -1 - (u \div 2) ELSE (u \div 2)

\* The sign is found where it was put.
LEMMA ZigZagUndone == \A v \in Signed : ZigZag(v) \in Word /\ ZagZig(ZigZag(v)) = v
<1> TAKE v \in Signed
<1>1. PICK h \in Nat : Modulus = 2 * h /\ (Modulus \div 2) = h
    BY Sizes
<1>2. v \in Int /\ -h <= v /\ v < h /\ h > 0
    BY <1>1 DEF Signed
<1>3. CASE v < 0
  <2>1. ((2 * v) % Modulus) = 2 * v + 2 * h
    BY <1>1, <1>2, <1>3
  <2>2. ZigZag(v) = 2 * (-1 - v) + 1
    BY <1>1, <1>2, <1>3, <2>1 DEF ZigZag, Complement
  <2>3. -1 - v \in Nat /\ 2 * (-1 - v) + 1 < 2 * h
    BY <1>2, <1>3
  <2>4. \A n \in Nat : ((2 * n + 1) % 2) = 1 /\ ((2 * n + 1) \div 2) = n
    OBVIOUS
  <2>5. ZagZig(ZigZag(v)) = -1 - (-1 - v)
    BY <2>2, <2>3, <2>4 DEF ZagZig
  <2>6. QED
    BY <1>1, <1>2, <2>2, <2>3, <2>5 DEF Word
<1>4. CASE ~(v < 0)
  <2>1. v \in Nat /\ 2 * v < 2 * h
    BY <1>2, <1>4
  <2>2. ((2 * v) % Modulus) = 2 * v
    BY <1>1, <1>2, <2>1
  <2>3. ZigZag(v) = 2 * v
    BY <1>4, <2>2 DEF ZigZag
  <2>4. \A n \in Nat : ((2 * n) % 2) = 0 /\ ((2 * n) \div 2) = n
    OBVIOUS
  <2>5. ZagZig(ZigZag(v)) = v
    BY <2>1, <2>3, <2>4 DEF ZagZig
  <2>6. QED
    BY <1>1, <2>1, <2>3, <2>5 DEF Word
<1>5. QED
    BY <1>3, <1>4

\* and readVarint32,
LEMMA IntReadBack ==
    ASSUME NEW v \in Signed
    PROVE  /\ WriteVarint32(v) \in Seq(Nat)
           /\ \A z \in Seq(Nat) : ReadVarint32(WriteVarint32(v) \o z) = Got(v, z)
           /\ \A n \in 0 .. Len(WriteVarint32(v)) - 1 :
                ~ReadVarint32(SubSeq(WriteVarint32(v), 1, n)).ok
<1> DEFINE w == WriteVaruint32[ZigZag(v)]
<1>1. WriteVarint32(v) = w
    BY DEF WriteVarint32, ZigZag
<1>2. /\ w \in Seq(Nat)
      /\ \A z \in Seq(Nat) : ReadVaruint32(w \o z) = Got(ZigZag(v), z)
      /\ \A n \in 0 .. Len(w) - 1 : ReadVaruint32(SubSeq(w, 1, n)) = Failed
    BY ZigZagUndone, NumberReadBack
<1> HIDE DEF w
<1>3. \A buf : ReadVarint32(buf) = IF ReadVaruint32(buf).ok
                                    THEN Got(ZagZig(ReadVaruint32(buf).value),
                                             ReadVaruint32(buf).rest)
                                    ELSE Failed
    BY DEF ReadVarint32, ZagZig
<1>4. ASSUME NEW z \in Seq(Nat)
      PROVE  ReadVarint32(w \o z) = Got(v, z)
  <2> DEFINE r == ReadVaruint32(w \o z)
  <2>1. r.ok /\ r.value = ZigZag(v) /\ r.rest = z
    BY <1>2 DEF Got
  <2>2. ReadVarint32(w \o z)
          = IF r.ok THEN Got(ZagZig(r.value), r.rest) ELSE Failed
    BY <1>3
  <2> HIDE DEF r
  <2>3. QED
    BY <2>1, <2>2, ZigZagUndone
<1>5. ASSUME NEW n \in 0 .. Len(w) - 1
      PROVE  ~ReadVarint32(SubSeq(w, 1, n)).ok
    BY <1>2, <1>3 DEF Failed
<1>6. QED
    BY <1>1, <1>2, <1>4, <1>5

-----------------------------------------------------------------------------
(* ServerData *)

\* The values of the fields of ServerData.
FieldValues(f) ==
    CASE f \in StringField -> {s \in Seq(Nat) : Len(s) < Modulus}
      [] f \in BoolField -> BOOLEAN
      [] OTHER -> Signed

\* and what UnmarshalBinary does for a field.
LEMMA FieldReadBack ==
    ASSUME NEW f \in Field, NEW v \in FieldValues(f)
    PROVE  /\ WriteField(f, v) \in Seq(Nat)
           /\ \A z \in Seq(Nat) : ReadField(f, WriteField(f, v) \o z) = Got(v, z)
           /\ \A n \in 0 .. Len(WriteField(f, v)) - 1 :
                ~ReadField(f, SubSeq(WriteField(f, v), 1, n)).ok
<1>1. CASE f \in StringField
  <2>1. f \notin BoolField
    BY <1>1 DEF StringField, BoolField
  <2>2. /\ v \in Seq(Nat) /\ Len(v) < Modulus /\ WriteField(f, v) = WriteString(v)
        /\ \A buf : ReadField(f, buf) = ReadString(buf)
    BY <1>1, <2>1 DEF FieldValues, WriteField, ReadField
  <2>3. QED
    BY <2>2, StringReadBack
<1>2. CASE f \in BoolField
  <2>1. f \notin StringField
    BY <1>2 DEF StringField, BoolField
  <2>2. /\ v \in BOOLEAN /\ WriteField(f, v) = WriteBool(v)
        /\ \A buf : ReadField(f, buf) = ReadBool(buf)
    BY <1>2, <2>1 DEF FieldValues, WriteField, ReadField
  <2>3. QED
    BY <2>2, BoolReadBack
<1>3. CASE f \notin StringField /\ f \notin BoolField
  <2>1. /\ v \in Signed /\ WriteField(f, v) = WriteVarint32(v)
        /\ \A buf : ReadField(f, buf) = ReadVarint32(buf)
    BY <1>3 DEF FieldValues, WriteField, ReadField
  <2>2. QED
    BY <2>1, IntReadBack
<1>4. QED
    BY <1>1, <1>2, <1>3

\* Whatever the buffer, a field is read as a value of some kind, or not at all.
Values == Seq(Nat) \cup BOOLEAN \cup Int

\* What a reader may return.
LEMMA OutcomesOf ==
    ASSUME NEW V
    PROVE  /\ Failed \in Outcomes(V)
           /\ \A v \in V, rest \in Seq(Nat) : Got(v, rest) \in Outcomes(V)
           /\ \A r \in Outcomes(V) : r.ok => r.value \in V /\ r.rest \in Seq(Nat)
<1>1. Failed \in Outcomes(V)
    BY DEF Outcomes
<1>2. \A v \in V, rest \in Seq(Nat) : Got(v, rest) \in Outcomes(V)
    BY DEF Outcomes
<1>3. ASSUME NEW r \in Outcomes(V), r.ok
      PROVE  r.value \in V /\ r.rest \in Seq(Nat)
  <2>1. r # Failed
    BY <1>3 DEF Failed
  <2>2. PICK v \in V, rest \in Seq(Nat) : r = Got(v, rest)
    BY <1>3, <2>1 DEF Outcomes
  <2>3. QED
    BY <2>2 DEF Got
<1>4. QED
    BY <1>1, <1>2, <1>3

\* Every field is read so.
LEMMA FieldType ==
    ASSUME NEW f \in Field, NEW buf \in Seq(Nat)
    PROVE  ReadField(f, buf) \in Outcomes(Values)
<1> DEFINE r == ReadVaruint32(buf)
<1>1. r \in Outcomes(Word) /\ (r.ok => r.value \in Word /\ r.rest \in Seq(Nat))
    BY NumberType, OutcomesOf
<1> HIDE DEF r
<1>2. ReadString(buf) \in Outcomes(Values)
  <2>1. CASE r.ok /\ r.value <= Len(r.rest)
    <3>1. ReadString(buf) = Got(SubSeq(r.rest, 1, r.value),
                                SubSeq(r.rest, r.value + 1, Len(r.rest)))
      BY <2>1 DEF ReadString, r
    <3>2. r.value \in Nat /\ r.rest \in Seq(Nat)
      BY <1>1, <2>1, Sizes DEF Word
    <3>3. \A s \in Seq(Nat) : \A n \in Nat : n <= Len(s) =>
            /\ SubSeq(s, 1, n) \in Seq(Nat)
            /\ SubSeq(s, n + 1, Len(s)) \in Seq(Nat)
      OBVIOUS
    <3>4. /\ SubSeq(r.rest, 1, r.value) \in Values
          /\ SubSeq(r.rest, r.value + 1, Len(r.rest)) \in Seq(Nat)
      BY <2>1, <3>2, <3>3 DEF Values
    <3>5. QED
      BY <3>1, <3>4, OutcomesOf
  <2>2. CASE ~(r.ok /\ r.value <= Len(r.rest))
    BY <2>2, OutcomesOf DEF ReadString, r
  <2>3. QED
    BY <2>1, <2>2
<1>3. ReadBool(buf) \in Outcomes(Values)
  <2>1. CASE buf = <<>>
    BY <2>1, OutcomesOf DEF ReadBool
  <2>2. CASE buf # <<>>
    <3>1. ReadBool(buf) = Got(buf[1] # 0, Tail(buf))
      BY <2>2 DEF ReadBool
    <3>2. (buf[1] # 0) \in Values /\ Tail(buf) \in Seq(Nat)
      BY <2>2 DEF Values
    <3>3. QED
      BY <3>1, <3>2, OutcomesOf
  <2>3. QED
    BY <2>1, <2>2
<1>4. ReadVarint32(buf) \in Outcomes(Values)
  <2>1. CASE r.ok
    <3>1. ReadVarint32(buf) = Got(ZagZig(r.value), r.rest)
      BY <2>1 DEF ReadVarint32, ZagZig, r
    <3>2. r.value \in Nat
      BY <1>1, <2>1, Sizes DEF Word
    <3>3. ZagZig(r.value) \in Values
      BY <3>2 DEF ZagZig, Values
    <3>4. QED
      BY <1>1, <2>1, <3>1, <3>3, OutcomesOf
  <2>2. CASE ~r.ok
    BY <2>2, OutcomesOf DEF ReadVarint32, r
  <2>3. QED
    BY <2>1, <2>2
<1>5. QED
    BY <1>2, <1>3, <1>4 DEF ReadField

\* The worlds that can be written.
ServerDatas == {d \in [Field -> Values] : \A f \in Field : d[f] \in FieldValues(f)}

\* The fields are written and read in one order, which leaves out none.
LEMMA Orders ==
    /\ ReadOrder = WriteOrder /\ Len(WriteOrder) = 13
    /\ \A i \in 1 .. 13 : WriteOrder[i] \in Field
    /\ \A f \in Field : \E i \in 1 .. 13 : WriteOrder[i] = f
<1>1. ReadOrder = WriteOrder /\ Len(WriteOrder) = 13
    BY DEF ReadOrder, WriteOrder
<1>2. ASSUME NEW i \in 1 .. 13 PROVE WriteOrder[i] \in Field
  <2>1. i \in {1, 2, 3, 4, 5, 6, 7, 8, 9, 10, 11, 12, 13}
    OBVIOUS
  <2>2. QED
    BY <2>1 DEF WriteOrder, Field, StringField, BoolField, IntField
<1>3. /\ WriteOrder[1] = "ServerName" /\ WriteOrder[2] = "Protocol"
      /\ WriteOrder[3] = "Version" /\ WriteOrder[4] = "LevelName"
      /\ WriteOrder[5] = "PlayerCount" /\ WriteOrder[6] = "MaxPlayerCount"
      /\ WriteOrder[7] = "GameType" /\ WriteOrder[8] = "EditorWorld"
      /\ WriteOrder[9] = "Hardcore" /\ WriteOrder[10] = "AcceptsOnlineAuth"
      /\ WriteOrder[11] = "AcceptsSelfSignedAuth" /\ WriteOrder[12] = "Nonce"
      /\ WriteOrder[13] = "ConnectionType"
    BY DEF WriteOrder
<1>4. ASSUME NEW f \in Field PROVE \E i \in 1 .. 13 : WriteOrder[i] = f
  <2>1. f \in {WriteOrder[1], WriteOrder[2], WriteOrder[3], WriteOrder[4],
               WriteOrder[5], WriteOrder[6], WriteOrder[7], WriteOrder[8],
               WriteOrder[9], WriteOrder[10], WriteOrder[11], WriteOrder[12],
               WriteOrder[13]}
    BY <1>3 DEF Field, StringField, BoolField, IntField
  <2>2. /\ 1 \in 1 .. 13 /\ 2 \in 1 .. 13 /\ 3 \in 1 .. 13 /\ 4 \in 1 .. 13
        /\ 5 \in 1 .. 13 /\ 6 \in 1 .. 13 /\ 7 \in 1 .. 13 /\ 8 \in 1 .. 13
        /\ 9 \in 1 .. 13 /\ 10 \in 1 .. 13 /\ 11 \in 1 .. 13
        /\ 12 \in 1 .. 13 /\ 13 \in 1 .. 13
    OBVIOUS
  <2>3. QED
    BY <2>1, <2>2, Zenon
<1>5. QED
    BY <1>1, <1>2, <1>4

\* The fields one after the other.
LEMMA MarshaledNext ==
    ASSUME NEW d \in ServerDatas
    PROVE  /\ \A i \in 0 .. 13 : Marshaled(d)[i] \in Seq(Nat)
           /\ Marshaled(d)[0] = <<Version>>
           /\ \A i \in 1 .. 13 :
                Marshaled(d)[i] = Marshaled(d)[i - 1]
                                    \o WriteField(WriteOrder[i], d[WriteOrder[i]])
<1> DEFINE D == 0 .. 13
           S == Seq(Nat)
           W(i) == WriteField(WriteOrder[i], d[WriteOrder[i]])
           step == [p \in (D \ {0}) \X S |-> p[2] \o W(p[1])]
           a == <<Version>>
<1>1. ASSUME NEW i \in D \ {0}, NEW b \in S
      PROVE  b \o W(i) \in S
  <2>1. i \in 1 .. 13
    OBVIOUS
  <2>2. WriteOrder[i] \in Field
    BY <2>1, Orders
  <2>3. d[WriteOrder[i]] \in FieldValues(WriteOrder[i])
    BY <2>2 DEF ServerDatas
  <2>4. W(i) \in Seq(Nat)
    BY <2>2, <2>3, FieldReadBack
  <2> HIDE DEF W
  <2>5. QED
    BY <2>4
<1>2. D \subseteq Nat /\ (\A i \in D : i # 0 => i - 1 \in D) /\ 0 \in D
      /\ \A i \in 1 .. 13 : i \in D /\ i # 0
    OBVIOUS
<1>3. a \in S
    BY CodecAssumption
<1> HIDE DEF D, S, W, a
<1>4. Loop(D, S, a, step)
  <2>1. step \in [(D \ {0}) \X S -> S]
    BY <1>1
  <2> HIDE DEF step
  <2>2. QED
    BY <1>2, <1>3, <2>1 DEF Loop
<1>5. \A i \in D \ {0}, b \in S : step[<<i, b>>] = b \o W(i)
    OBVIOUS
<1> HIDE DEF step
<1>6. PICK f : Computes(f, D, S, a, step)
    BY <1>4, LoopExists
<1>7. f = [i \in D |-> IF i = 0 THEN a ELSE f[i - 1] \o W(i)]
  <2>1. f \in [D -> S]
    BY <1>6 DEF Computes
  <2>2. \A i \in D : i # 0 => f[i - 1] \in S
    BY <1>2, <2>1
  <2>3. \A i \in D : f[i] = IF i = 0 THEN a ELSE step[<<i, f[i - 1]>>]
    BY <1>6 DEF Computes
  <2>4. QED
    BY <1>5, <2>1, <2>2, <2>3
<1> DEFINE g == Marshaled(d)
<1>8. g = [i \in D |-> IF i = 0 THEN a ELSE g[i - 1] \o W(i)]
  <2>1. D = 0 .. Len(WriteOrder)
    BY Orders DEF D
  <2>2. QED
    BY <1>7, <2>1 DEF Marshaled, W, a
<1> HIDE DEF g
<1>9. Repeats(g, D, S, a, step)
  <2>1. g = [i \in D |-> g[i]]
    BY <1>8
  <2>2. \A i \in D : g[i] = IF i = 0 THEN a ELSE g[i - 1] \o W(i)
    BY <1>8
  <2>3. QED
    BY <1>5, <2>1, <2>2 DEF Repeats
<1>10. Computes(g, D, S, a, step)
    BY <1>4, <1>9, LoopType
<1>11. \A i \in D : g[i] \in S
    BY <1>10 DEF Computes
<1>12. g[0] = a /\ \A i \in 1 .. 13 : g[i] = g[i - 1] \o W(i)
    BY <1>2, <1>8
<1>13. QED
    BY <1>11, <1>12 DEF g, D, S, W, a

\* What may be read so far.
AnyData == [Field -> Values]

\* The loop of UnmarshalBinary.
LEMMA UnmarshaledNext ==
    ASSUME NEW data \in Seq(Nat)
    PROVE  /\ Unmarshaled(data)[0] = ReadVersion(data)
           /\ \A i \in 1 .. 13 : Unmarshaled(data)[i]
                = ReadNext(Unmarshaled(data)[i - 1], WriteOrder[i])
<1> DEFINE D == 0 .. 13
           S == Outcomes(AnyData)
           step == [p \in (D \ {0}) \X S |-> ReadNext(p[2], WriteOrder[p[1]])]
           a == ReadVersion(data)
<1>1. ASSUME NEW i \in D \ {0}, NEW r \in S
      PROVE  ReadNext(r, WriteOrder[i]) \in S
  <2> DEFINE f == WriteOrder[i]
             next == ReadField(f, r.rest)
  <2>1. f \in Field
    <3>1. i \in 1 .. 13
      OBVIOUS
    <3>2. QED
      BY <3>1, Orders
  <2> HIDE DEF f
  <2>2. CASE r.ok /\ next.ok
    <3>1. r.value \in AnyData /\ r.rest \in Seq(Nat)
      BY <2>2, OutcomesOf
    <3>2. next \in Outcomes(Values)
      BY <2>1, <3>1, FieldType
    <3>3. next.value \in Values /\ next.rest \in Seq(Nat)
      <4> HIDE DEF next
      <4>1. QED
        BY <2>2, <3>2, OutcomesOf
    <3> DEFINE e == [r.value EXCEPT ![f] = next.value]
    <3>4. e \in AnyData
      <4> HIDE DEF next
      <4>1. QED
        BY <2>1, <3>1, <3>3 DEF AnyData
    <3>5. ReadNext(r, f) = Got(e, next.rest)
      BY <2>2 DEF ReadNext
    <3> HIDE DEF e, next
    <3>6. QED
      BY <3>3, <3>4, <3>5, OutcomesOf DEF f
  <2>3. CASE ~(r.ok /\ next.ok)
    <3>1. ReadNext(r, f) = Failed
      BY <2>3 DEF ReadNext
    <3>2. QED
      BY <3>1, OutcomesOf DEF f
  <2>4. QED
    BY <2>2, <2>3
<1>2. D \subseteq Nat /\ (\A i \in D : i # 0 => i - 1 \in D) /\ 0 \in D
      /\ \A i \in 1 .. 13 : i \in D /\ i # 0
    OBVIOUS
<1>3. a \in S
  <2>1. CASE data # <<>> /\ data[1] = Version
    <3>1. Tail(data) \in Seq(Nat)
      BY <2>1
    <3>2. ZeroData \in AnyData
      <4>1. <<>> \in Values /\ FALSE \in Values /\ 0 \in Values
        BY DEF Values
      <4>2. QED
        BY <4>1 DEF ZeroData, AnyData
    <3>3. QED
      BY <2>1, <3>1, <3>2, OutcomesOf DEF ReadVersion
  <2>2. CASE ~(data # <<>> /\ data[1] = Version)
    BY <2>2, OutcomesOf DEF ReadVersion
  <2>3. QED
    BY <2>1, <2>2
<1> HIDE DEF D, S, a
<1>4. Loop(D, S, a, step)
  <2>1. step \in [(D \ {0}) \X S -> S]
    BY <1>1
  <2> HIDE DEF step
  <2>2. QED
    BY <1>2, <1>3, <2>1 DEF Loop
<1>5. \A i \in D \ {0}, r \in S : step[<<i, r>>] = ReadNext(r, WriteOrder[i])
    OBVIOUS
<1> HIDE DEF step
<1>6. PICK f : Computes(f, D, S, a, step)
    BY <1>4, LoopExists
<1>7. f = [i \in D |-> IF i = 0 THEN a ELSE ReadNext(f[i - 1], WriteOrder[i])]
  <2>1. f \in [D -> S]
    BY <1>6 DEF Computes
  <2>2. \A i \in D : i # 0 => f[i - 1] \in S
    BY <1>2, <2>1
  <2>3. \A i \in D : f[i] = IF i = 0 THEN a ELSE step[<<i, f[i - 1]>>]
    BY <1>6 DEF Computes
  <2>4. QED
    BY <1>5, <2>1, <2>2, <2>3
<1> DEFINE g == Unmarshaled(data)
<1>8. g = [i \in D |-> IF i = 0 THEN a ELSE ReadNext(g[i - 1], WriteOrder[i])]
  <2>1. D = 0 .. Len(ReadOrder) /\ ReadOrder = WriteOrder
    BY Orders DEF D
  <2>2. QED
    BY <1>7, <2>1 DEF Unmarshaled, a
<1> HIDE DEF g
<1>9. g[0] = a /\ \A i \in 1 .. 13 : g[i] = ReadNext(g[i - 1], WriteOrder[i])
    BY <1>2, <1>8
<1>10. QED
    BY <1>9 DEF g, a

\* Numbers with a sign are kept, whatever their width and that of a group.
LEMMA NumbersReadBack == NumbersKept
<1>1. <<Base>> \in Seq(Nat)
    BY Sizes
<1>2. \A v \in Signed : ReadVarint32(WriteVarint32(v) \o <<Base>>) = Got(v, <<Base>>)
    BY <1>1, IntReadBack
<1>3. QED
    BY <1>2 DEF NumbersKept, Signed

\* The world with the first i fields of d.
Partial(d, i) ==
    [f \in Field |-> IF \E j \in 1 .. i : WriteOrder[j] = f
                       THEN d[f] ELSE ZeroData[f]]

\* Field by field, it becomes d.
LEMMA PartialNext ==
    ASSUME NEW d \in ServerDatas
    PROVE  /\ Partial(d, 0) = ZeroData
           /\ \A i \in 1 .. 13 : Partial(d, i)
                = [Partial(d, i - 1) EXCEPT ![WriteOrder[i]] = d[WriteOrder[i]]]
           /\ Partial(d, 13) = d
<1>1. Partial(d, 0) = ZeroData
  <2>1. \A f \in Field : ~\E j \in 1 .. 0 : WriteOrder[j] = f
    OBVIOUS
  <2>2. Partial(d, 0) = [f \in Field |-> ZeroData[f]]
    BY <2>1 DEF Partial
  <2>3. QED
    BY <2>2 DEF ZeroData
<1>2. ASSUME NEW i \in 1 .. 13
      PROVE  Partial(d, i)
               = [Partial(d, i - 1) EXCEPT ![WriteOrder[i]] = d[WriteOrder[i]]]
  <2> DEFINE Has(f, k) == \E j \in 1 .. k : WriteOrder[j] = f
             e == WriteOrder[i]
  <2>1. e \in Field
    BY Orders
  <2>2. ASSUME NEW f \in Field
        PROVE  Has(f, i) <=> f = e \/ Has(f, i - 1)
    <3>1. \A j : j \in 1 .. i <=> j = i \/ j \in 1 .. i - 1
      OBVIOUS
    <3>2. QED
      BY <3>1
  <2>3. /\ Partial(d, i)
             = [f \in Field |-> IF Has(f, i) THEN d[f] ELSE ZeroData[f]]
        /\ Partial(d, i - 1)
             = [f \in Field |-> IF Has(f, i - 1) THEN d[f] ELSE ZeroData[f]]
    BY DEF Partial
  <2> HIDE DEF Has
  <2>4. [Partial(d, i - 1) EXCEPT ![e] = d[e]]
          = [f \in Field |-> IF f = e THEN d[e] ELSE Partial(d, i - 1)[f]]
    BY <2>3
  <2> HIDE DEF e
  <2>5. Partial(d, i)
          = [f \in Field |-> IF f = e THEN d[e] ELSE Partial(d, i - 1)[f]]
    BY <2>2, <2>3
  <2>6. QED
    BY <2>4, <2>5 DEF e
<1>3. Partial(d, 13) = d
  <2>1. \A f \in Field : \E j \in 1 .. 13 : WriteOrder[j] = f
    BY Orders
  <2>2. Partial(d, 13) = [f \in Field |-> d[f]]
    BY <2>1 DEF Partial
  <2>3. d = [f \in Field |-> d[f]]
    BY DEF ServerDatas
  <2>4. QED
    BY <2>2, <2>3
<1>4. QED
    BY <1>1, <1>2, <1>3

\* UnmarshalBinary reads the fields that MarshalBinary has written, one after
\* the other, and leaves what follows them,
LEMMA FieldsReadBack ==
    ASSUME NEW d \in ServerDatas
    PROVE  \A i \in 0 .. 13 : \A z \in Seq(Nat) :
             Unmarshaled(Marshaled(d)[i] \o z)[i] = Got(Partial(d, i), z)
<1> DEFINE b(i) == Marshaled(d)[i]
           W(i) == WriteField(WriteOrder[i], d[WriteOrder[i]])
           P(i) == \A z \in Seq(Nat) :
                     Unmarshaled(b(i) \o z)[i] = Got(Partial(d, i), z)
           T == {i \in Nat : i \in 0 .. 13 => P(i)}
<1>0. /\ b(0) = <<Version>> /\ \A i \in 0 .. 13 : b(i) \in Seq(Nat)
      /\ \A i \in 1 .. 13 : b(i) = b(i - 1) \o W(i)
    BY MarshaledNext
<1>10. \A i \in 1 .. 13 : i \in 0 .. 13 /\ i - 1 \in 0 .. 13
    OBVIOUS
<1>1. ASSUME NEW i \in 1 .. 13
      PROVE  /\ W(i) \in Seq(Nat)
             /\ \A z \in Seq(Nat) : ReadField(WriteOrder[i], W(i) \o z)
                                      = Got(d[WriteOrder[i]], z)
  <2>1. WriteOrder[i] \in Field
    BY Orders
  <2>2. d[WriteOrder[i]] \in FieldValues(WriteOrder[i])
    BY <2>1 DEF ServerDatas
  <2>3. QED
    BY <2>1, <2>2, FieldReadBack
<1> HIDE DEF b, W
<1>2. P(0)
  <2>1. SUFFICES ASSUME NEW z \in Seq(Nat)
                 PROVE  Unmarshaled(b(0) \o z)[0] = Got(Partial(d, 0), z)
    OBVIOUS
  <2>2. \A v \in Nat : /\ <<v>> \o z \in Seq(Nat) /\ <<v>> \o z # <<>>
                       /\ (<<v>> \o z)[1] = v /\ Tail(<<v>> \o z) = z
    OBVIOUS
  <2>3. /\ b(0) \o z \in Seq(Nat) /\ b(0) \o z # <<>>
        /\ (b(0) \o z)[1] = Version /\ Tail(b(0) \o z) = z
    BY <1>0, <2>2, CodecAssumption
  <2>4. ReadVersion(b(0) \o z) = Got(ZeroData, z)
    BY <2>3 DEF ReadVersion
  <2>5. QED
    BY <2>3, <2>4, UnmarshaledNext, PartialNext
<1>3. ASSUME NEW i \in 1 .. 13, P(i - 1) PROVE P(i)
  <2>1. SUFFICES ASSUME NEW z \in Seq(Nat)
                 PROVE  Unmarshaled(b(i) \o z)[i] = Got(Partial(d, i), z)
    OBVIOUS
  <2> DEFINE f == WriteOrder[i]
             data == b(i) \o z
             r == Unmarshaled(data)[i - 1]
  <2>2. /\ data \in Seq(Nat) /\ W(i) \o z \in Seq(Nat)
        /\ data = b(i - 1) \o (W(i) \o z)
    <3>1. b(i) \in Seq(Nat) /\ b(i - 1) \in Seq(Nat) /\ W(i) \in Seq(Nat)
      BY <1>0, <1>1, <1>10
    <3>2. data \in Seq(Nat) /\ W(i) \o z \in Seq(Nat)
      BY <3>1, TwoParts
    <3>3. ASSUME NEW x \in Seq(Nat), NEW y \in Seq(Nat)
          PROVE  (x \o y) \o z = x \o (y \o z)
      BY ConcatAssociative
    <3>4. (b(i - 1) \o W(i)) \o z = b(i - 1) \o (W(i) \o z)
      BY <3>1, <3>3, Zenon
    <3>5. b(i) = b(i - 1) \o W(i)
      BY <1>0
    <3>6. QED
      BY <3>2, <3>4, <3>5
  <2>3. r = Got(Partial(d, i - 1), W(i) \o z)
    BY <1>3, <2>2
  <2>4. Unmarshaled(data)[i] = ReadNext(r, f)
    BY <2>2, UnmarshaledNext
  <2>5. ReadField(f, W(i) \o z) = Got(d[f], z)
    BY <1>1
  <2> HIDE DEF f, data, r
  <2>6. r.ok /\ r.value = Partial(d, i - 1) /\ r.rest = W(i) \o z
    BY <2>3 DEF Got
  <2> DEFINE next == ReadField(f, r.rest)
  <2>7. next.ok /\ next.value = d[f] /\ next.rest = z
    BY <2>5, <2>6 DEF Got
  <2>8. ReadNext(r, f) = Got([r.value EXCEPT ![f] = next.value], next.rest)
    BY <2>6, <2>7 DEF ReadNext
  <2>9. Partial(d, i) = [Partial(d, i - 1) EXCEPT ![f] = d[f]]
    BY PartialNext DEF f
  <2> HIDE DEF next
  <2>10. Unmarshaled(data)[i] = Got(Partial(d, i), z)
    BY <2>4, <2>6, <2>7, <2>8, <2>9
  <2>11. QED
    BY <2>10 DEF data
<1> HIDE DEF P
<1>4. 0 \in T
    BY <1>2
<1>5. ASSUME NEW n \in Nat, n \in T PROVE n + 1 \in T
  <2>1. n + 1 \in 0 .. 13 => n \in 0 .. 13 /\ n + 1 \in 1 .. 13 /\ (n + 1) - 1 = n
    OBVIOUS
  <2>2. n + 1 \in 0 .. 13 => P(n + 1)
    BY <1>3, <1>5, <2>1
  <2>3. QED
    BY <2>2
<1> HIDE DEF T
<1>6. Nat \subseteq T
    BY <1>4, <1>5, SimpleInduction
<1>7. \A i \in 0 .. 13 : P(i)
    BY <1>6 DEF T
<1>8. QED
    BY <1>7 DEF P, b

\* and fails when the buffer ends before them.
LEMMA FieldsCut ==
    ASSUME NEW d \in ServerDatas
    PROVE  \A i \in 0 .. 13 : \A n \in 0 .. Len(Marshaled(d)[i]) - 1 :
             ~Unmarshaled(SubSeq(Marshaled(d)[i], 1, n))[i].ok
<1> DEFINE b(i) == Marshaled(d)[i]
           W(i) == WriteField(WriteOrder[i], d[WriteOrder[i]])
           Q(i) == \A n \in 0 .. Len(b(i)) - 1 :
                     ~Unmarshaled(SubSeq(b(i), 1, n))[i].ok
           T == {i \in Nat : i \in 0 .. 13 => Q(i)}
<1>0. /\ b(0) = <<Version>> /\ \A i \in 0 .. 13 : b(i) \in Seq(Nat)
      /\ \A i \in 1 .. 13 : b(i) = b(i - 1) \o W(i)
    BY MarshaledNext
<1>9. \A i \in 0 .. 13 : \A z \in Seq(Nat) :
        Unmarshaled(b(i) \o z)[i] = Got(Partial(d, i), z)
    BY FieldsReadBack
<1>10. \A i \in 1 .. 13 : i \in 0 .. 13 /\ i - 1 \in 0 .. 13
    OBVIOUS
<1>1. ASSUME NEW i \in 1 .. 13
      PROVE  /\ W(i) \in Seq(Nat)
             /\ \A k \in 0 .. Len(W(i)) - 1 :
                  ~ReadField(WriteOrder[i], SubSeq(W(i), 1, k)).ok
  <2>1. WriteOrder[i] \in Field
    BY Orders
  <2>2. d[WriteOrder[i]] \in FieldValues(WriteOrder[i])
    BY <2>1 DEF ServerDatas
  <2>3. QED
    BY <2>1, <2>2, FieldReadBack
<1> HIDE DEF b, W
<1>2. Q(0)
  <2>1. SUFFICES ASSUME NEW n \in 0 .. Len(b(0)) - 1
                 PROVE  ~Unmarshaled(SubSeq(b(0), 1, n))[0].ok
    OBVIOUS
  <2>2. \A v \in Nat : Len(<<v>>) = 1 /\ SubSeq(<<v>>, 1, 0) = <<>>
    OBVIOUS
  <2>3. n = 0
    <3>1. Len(b(0)) = 1
      BY <1>0, <2>2, CodecAssumption
    <3>2. \A m : m = 1 => \A k \in 0 .. m - 1 : k = 0
      OBVIOUS
    <3>3. QED
      BY <3>1, <3>2
  <2>4. SubSeq(b(0), 1, n) = <<>>
    BY <1>0, <2>2, <2>3, CodecAssumption
  <2>5. Unmarshaled(<<>>)[0] = Failed
    <3>1. <<>> \in Seq(Nat)
      OBVIOUS
    <3>2. QED
      BY <3>1, UnmarshaledNext DEF ReadVersion
  <2>6. ~Failed.ok
    BY DEF Failed
  <2>7. QED
    BY <2>4, <2>5, <2>6
<1>3. ASSUME NEW i \in 1 .. 13, Q(i - 1) PROVE Q(i)
  <2>1. SUFFICES ASSUME NEW n \in 0 .. Len(b(i)) - 1
                 PROVE  ~Unmarshaled(SubSeq(b(i), 1, n))[i].ok
    OBVIOUS
  <2> DEFINE f == WriteOrder[i]
             data == SubSeq(b(i), 1, n)
             r == Unmarshaled(data)[i - 1]
  <2>2. /\ b(i - 1) \in Seq(Nat) /\ b(i) \in Seq(Nat) /\ W(i) \in Seq(Nat)
        /\ b(i) = b(i - 1) \o W(i) /\ i - 1 \in 0 .. 13
    BY <1>0, <1>1, <1>10
  <2>3. Len(b(i - 1)) \in Nat /\ Len(W(i)) \in Nat
    BY <2>2
  <2>4. Len(b(i)) = Len(b(i - 1)) + Len(W(i))
    BY <2>2, TwoParts
  <2>5. data \in Seq(Nat)
    <3>1. n \in 0 .. Len(b(i))
      BY <2>1, <2>3, <2>4
    <3>2. QED
      BY <2>2, <3>1, TwoParts
  <2>6. Unmarshaled(data)[i] = ReadNext(r, f)
    BY <2>5, UnmarshaledNext
  <2>7. ~(r.ok /\ ReadField(f, r.rest).ok)
    <3>1. CASE n < Len(b(i - 1))
      <4>1. n \in 0 .. Len(b(i - 1)) - 1 /\ n \in 0 .. Len(b(i - 1))
        BY <2>1, <2>3, <3>1
      <4>2. data = SubSeq(b(i - 1), 1, n)
        BY <2>2, <4>1, TwoParts
      <4>3. QED
        BY <1>3, <4>1, <4>2
    <3>2. CASE ~(n < Len(b(i - 1)))
      <4> DEFINE k == n - Len(b(i - 1))
      <4>1. /\ k \in 0 .. Len(W(i)) - 1 /\ k \in 0 .. Len(W(i))
            /\ n \in Len(b(i - 1)) .. Len(b(i - 1)) + Len(W(i))
        BY <2>1, <2>3, <2>4, <3>2
      <4>2. data = b(i - 1) \o SubSeq(W(i), 1, k)
        <5>1. \A p, w \in Seq(Nat) : \A m \in Len(p) .. Len(p) + Len(w) :
                SubSeq(p \o w, 1, m) = p \o SubSeq(w, 1, m - Len(p))
          BY TwoParts
        <5>2. QED
          BY <2>2, <4>1, <5>1
      <4>7. SubSeq(W(i), 1, k) \in Seq(Nat)
        <5> HIDE DEF k
        <5>1. QED
          BY <2>2, <4>1, TwoParts
      <4> HIDE DEF k
      <4>3. r = Got(Partial(d, i - 1), SubSeq(W(i), 1, k))
        BY <1>9, <2>2, <4>2, <4>7
      <4>4. ~ReadField(f, SubSeq(W(i), 1, k)).ok
        BY <1>1, <4>1
      <4> HIDE DEF r, f
      <4>5. r.rest = SubSeq(W(i), 1, k)
        BY <4>3 DEF Got
      <4>6. QED
        BY <4>4, <4>5
    <3>3. QED
      BY <3>1, <3>2
  <2> HIDE DEF r, f, data
  <2>8. ReadNext(r, f) = Failed
    BY <2>7 DEF ReadNext
  <2>9. ~Unmarshaled(data)[i].ok
    BY <2>6, <2>8 DEF Failed
  <2>10. QED
    BY <2>9 DEF data
<1> HIDE DEF Q
<1>4. 0 \in T
    BY <1>2
<1>5. ASSUME NEW n \in Nat, n \in T PROVE n + 1 \in T
  <2>1. n + 1 \in 0 .. 13 => n \in 0 .. 13 /\ n + 1 \in 1 .. 13 /\ (n + 1) - 1 = n
    OBVIOUS
  <2>2. n + 1 \in 0 .. 13 => Q(n + 1)
    BY <1>3, <1>5, <2>1
  <2>3. QED
    BY <2>2
<1> HIDE DEF T
<1>6. Nat \subseteq T
    BY <1>4, <1>5, SimpleInduction
<1>7. \A i \in 0 .. 13 : Q(i)
    BY <1>6 DEF T
<1>8. QED
    BY <1>7 DEF Q, b

\* A world reads back as it was written, whatever its strings, flags and numbers,
\* and however many bits numbers and groups have; neither a part of what was
\* written nor more than it is taken for a world.
THEOREM ServerDataReadBack ==
    ASSUME NEW d \in ServerDatas
    PROVE  /\ MarshalBinary(d) \in Seq(Nat)
           /\ UnmarshalBinary(MarshalBinary(d)) = Got(d, <<>>)
           /\ \A n \in 0 .. Len(MarshalBinary(d)) - 1 :
                ~UnmarshalBinary(SubSeq(MarshalBinary(d), 1, n)).ok
           /\ \A z \in Seq(Nat) :
                z # <<>> => ~UnmarshalBinary(MarshalBinary(d) \o z).ok
<1> DEFINE b == MarshalBinary(d)
           r(data) == Unmarshaled(data)[13]
<1>1. /\ b = Marshaled(d)[13] /\ 13 \in 0 .. 13
      /\ \A data : UnmarshalBinary(data)
           = IF r(data).ok /\ r(data).rest = <<>> THEN r(data) ELSE Failed
    BY Orders DEF MarshalBinary, UnmarshalBinary, Complete
<1>2. b \in Seq(Nat)
    BY <1>1, MarshaledNext
<1>3. \A z \in Seq(Nat) : r(b \o z) = Got(d, z)
    BY <1>1, FieldsReadBack, PartialNext
<1>4. \A n \in 0 .. Len(b) - 1 : ~r(SubSeq(b, 1, n)).ok
    BY <1>1, FieldsCut
<1> HIDE DEF b, r
<1>5. ~Failed.ok
    BY DEF Failed
<1>6. UnmarshalBinary(b) = Got(d, <<>>)
  <2>1. <<>> \in Seq(Nat) /\ b \o <<>> = b
    BY <1>2
  <2>2. r(b) = Got(d, <<>>)
    BY <1>3, <2>1
  <2>3. Got(d, <<>>).ok /\ Got(d, <<>>).rest = <<>>
    BY DEF Got
  <2>4. QED
    BY <1>1, <2>2, <2>3
<1>7. ASSUME NEW n \in 0 .. Len(b) - 1
      PROVE  ~UnmarshalBinary(SubSeq(b, 1, n)).ok
    BY <1>1, <1>4, <1>5
<1>8. ASSUME NEW z \in Seq(Nat), z # <<>>
      PROVE  ~UnmarshalBinary(b \o z).ok
  <2>1. Got(d, z).rest = z
    BY DEF Got
  <2>2. QED
    BY <1>1, <1>3, <1>5, <1>8, <2>1
<1>9. QED
    BY <1>2, <1>6, <1>7, <1>8 DEF b

\* The worlds that a run takes are some of these.
LEMMA WorldsCanBeWritten == Worlds \subseteq ServerDatas
<1>1. \A f \in Field : f \in StringField \/ f \in BoolField \/ f \in IntField
    BY DEF Field
<1>2. /\ Base \in Nat /\ Base < Modulus /\ Base >= 2
      /\ Modulus \div 2 \in Nat /\ Modulus = 2 * (Modulus \div 2)
    BY Sizes
<1>3. /\ {-(Modulus \div 2), -1, Base \div 2, Modulus \div 2 - 1} \subseteq Signed
      /\ 0 \in Signed /\ Signed \subseteq Int
  <2>1. Base \div 2 \in Nat /\ Base \div 2 < Base
    BY <1>2
  <2>2. 2 * Base <= Modulus
    BY Sizes
  <2> DEFINE h == Modulus \div 2
  <2>3. h \in Nat /\ Base \div 2 < h /\ Base \div 2 \in Nat /\ h > 0
    BY <1>2, <2>1, <2>2
  <2> HIDE DEF h
  <2>4. {-h, -1, Base \div 2, h - 1} \subseteq -h .. h - 1 /\ 0 \in -h .. h - 1
        /\ -h .. h - 1 \subseteq Int
    BY <2>3
  <2>5. QED
    BY <2>4 DEF Signed, h
<1> DEFINE one == <<Base>>
           zeros == [i \in 1 .. Base |-> 0]
           strings == {one, zeros}
<1>4. \A s \in strings : s \in Seq(Nat) /\ Len(s) < Modulus
  <2>1. one \in Seq(Nat) /\ Len(one) = 1
    BY <1>2
  <2>2. zeros \in Seq(Nat) /\ Len(zeros) = Base
    BY <1>2
  <2> HIDE DEF one, zeros
  <2>3. Len(one) < Modulus /\ Len(zeros) < Modulus
    BY <1>2, <2>1, <2>2
  <2>4. QED
    BY <2>1, <2>2, <2>3
<1>5. <<>> \in Seq(Nat) /\ Len(<<>>) = 0
    OBVIOUS
<1>6. \A f \in Field : ZeroData[f] \in FieldValues(f)
                       /\ Value(f) \subseteq FieldValues(f)
                       /\ FieldValues(f) \subseteq Values
  <2>1. SUFFICES ASSUME NEW f \in Field
                 PROVE  /\ ZeroData[f] \in FieldValues(f)
                        /\ Value(f) \subseteq FieldValues(f)
                        /\ FieldValues(f) \subseteq Values
    OBVIOUS
  <2>2. CASE f \in StringField
    <3>1. ZeroData[f] = <<>> /\ Value(f) = strings
      BY <2>2 DEF ZeroData, Value
    <3>2. f \notin BoolField
      BY <2>2 DEF StringField, BoolField
    <3>3. FieldValues(f) = {s \in Seq(Nat) : Len(s) < Modulus}
      BY <2>2, <3>2 DEF FieldValues
    <3> HIDE DEF strings
    <3>4. <<>> \in FieldValues(f)
      BY <1>2, <1>5, <3>3
    <3>5. QED
      BY <1>4, <3>1, <3>3, <3>4 DEF Values
  <2>3. CASE f \in BoolField
    <3>1. f \notin StringField
      BY <2>3 DEF StringField, BoolField
    <3>2. /\ ZeroData[f] = FALSE /\ Value(f) = {TRUE} /\ FieldValues(f) = BOOLEAN
      BY <2>3, <3>1 DEF ZeroData, Value, FieldValues
    <3>3. QED
      BY <3>2 DEF Values
  <2>4. CASE f \notin StringField /\ f \notin BoolField
    <3>1. /\ ZeroData[f] = 0 /\ FieldValues(f) = Signed
          /\ Value(f) = {-(Modulus \div 2), -1, Base \div 2, Modulus \div 2 - 1}
      BY <2>4 DEF ZeroData, Value, FieldValues
    <3>2. QED
      BY <1>3, <3>1 DEF Values
  <2>5. QED
    BY <2>2, <2>3, <2>4
<1>7. ZeroData \in ServerDatas
  <2>1. ZeroData = [f \in Field |-> ZeroData[f]]
    BY DEF ZeroData
  <2>2. QED
    BY <1>6, <2>1 DEF ServerDatas
<1>8. ASSUME NEW d \in ServerDatas, NEW f \in Field, NEW v \in Value(f)
      PROVE  [d EXCEPT ![f] = v] \in ServerDatas
    BY <1>6, <1>8 DEF ServerDatas
<1>9. ASSUME NEW f \in Field, NEW g \in Field, NEW v \in Value(f), NEW w \in Value(g)
      PROVE  [ZeroData EXCEPT ![f] = v, ![g] = w] \in ServerDatas
  <2>1. [ZeroData EXCEPT ![f] = v] \in ServerDatas
    BY <1>7, <1>8
  <2>2. [[ZeroData EXCEPT ![f] = v] EXCEPT ![g] = w] \in ServerDatas
    BY <1>8, <2>1
  <2>3. QED
    BY <2>2
<1>10. QED
    BY <1>9 DEF Worlds

\* and are kept.
LEMMA WorldsReadBack == ServerDataKept
<1>1. ASSUME NEW d \in Worlds
      PROVE  /\ UnmarshalBinary(MarshalBinary(d)) = Got(d, <<>>)
             /\ \A n \in 0 .. Len(MarshalBinary(d)) - 1 :
                  ~UnmarshalBinary(SubSeq(MarshalBinary(d), 1, n)).ok
             /\ ~UnmarshalBinary(Append(MarshalBinary(d), 0)).ok
  <2>1. d \in ServerDatas
    BY WorldsCanBeWritten
  <2>2. MarshalBinary(d) \in Seq(Nat)
    BY <2>1, ServerDataReadBack
  <2>3. \A b \in Seq(Nat) : Append(b, 0) = b \o <<0>>
    OBVIOUS
  <2>4. <<0>> \in Seq(Nat) /\ <<0>> # <<>>
    OBVIOUS
  <2>5. QED
    BY <2>1, <2>2, <2>3, <2>4, ServerDataReadBack
<1>2. QED
    BY <1>1 DEF ServerDataKept

-----------------------------------------------------------------------------
(* Packets *)

\* A packet of any length is accepted.
LEMMA AnyLengthAccepted ==
    \A kind \in PacketOf, n \in Nat : AcceptsLength(kind, n)
<1>1. SUFFICES ASSUME NEW kind \in PacketOf, NEW n \in Nat
               PROVE  AcceptsLength(kind, n)
    OBVIOUS
<1>2. MaxDeclared \in Nat /\ LengthModulus \in Nat /\ LengthModulus > 0
    BY CodecAssumption
<1>3. \A x \in Nat : (x % LengthModulus) \in Nat /\ (x % LengthModulus) <= x
    BY <1>2
<1>4. DeclaredMessageLength(n) \in Nat /\ DeclaredMessageLength(n) <= n
  <2>1. CASE n <= MaxDeclared
    <3>1. \A m \in {n, MaxDeclared} : n <= m
      BY <2>1
    <3>2. Min({n, MaxDeclared}) = n
      BY <1>2, <3>1, MinIs
    <3>3. QED
      BY <3>2 DEF DeclaredMessageLength
  <2>2. CASE ~(n <= MaxDeclared)
    <3>1. MaxDeclared <= n /\ \A m \in {n, MaxDeclared} : MaxDeclared <= m
      BY <1>2, <2>2
    <3>2. Min({n, MaxDeclared}) = MaxDeclared
      BY <1>2, <3>1, MinIs
    <3>3. QED
      BY <1>2, <3>1, <3>2 DEF DeclaredMessageLength
  <2>3. QED
    BY <2>1, <2>2
<1>5. kind \in {"request", "response", "message"}
    BY DEF PacketOf
<1>6. PayloadLength(kind, n) \in Nat /\ PayloadLength(kind, n) >= 20
      /\ (kind = "message" => PayloadLength(kind, n) = 32 + n)
  <2>1. CASE kind = "request"
    BY <2>1 DEF PayloadLength, BodyLength
  <2>2. CASE kind = "response"
    BY <2>2 DEF PayloadLength, BodyLength
  <2>3. CASE kind = "message"
    BY <2>3 DEF PayloadLength, BodyLength
  <2>4. QED
    BY <1>5, <2>1, <2>2, <2>3
<1>7. Declared(kind, n) \in Nat /\ Declared(kind, n) <= PayloadLength(kind, n)
  <2> DEFINE x == IF kind = "message" THEN 32 + DeclaredMessageLength(n)
                                      ELSE PayloadLength(kind, n)
  <2>1. x \in Nat /\ x <= PayloadLength(kind, n)
    BY <1>4, <1>6
  <2>2. Declared(kind, n) = (x % LengthModulus)
    BY DEF Declared
  <2> HIDE DEF x
  <2>3. (x % LengthModulus) \in Nat /\ (x % LengthModulus) <= x
    BY <1>3, <2>1
  <2>4. QED
    BY <1>6, <2>1, <2>2, <2>3
<1> DEFINE c == Declared(kind, n)
           p == PayloadLength(kind, n)
<1>8. Max({4, c}) <= p
  <2>1. c \in Nat /\ c <= p /\ p \in Nat /\ p >= 20
    BY <1>6, <1>7
  <2> HIDE DEF c, p
  <2>2. \E m \in {4, c} : \A k \in {4, c} : k <= m
    BY <2>1
  <2>3. Max({4, c}) \in {4, c}
    BY <2>2 DEF Max
  <2>4. QED
    BY <2>1, <2>3
<1>9. QED
    BY <1>6, <1>7, <1>8 DEF AcceptsLength

\* What one Listener writes, another reads.
LEMMA WireAlwaysKept == WireKept
<1>1. PacketsAccepted
  <2>1. \A n \in 0 .. MaxData : n \in Nat
    BY CodecAssumption
  <2>2. QED
    BY <2>1, AnyLengthAccepted DEF PacketsAccepted
<1>2. QED
    BY <1>1, NumbersReadBack, WorldsReadBack DEF WireKept

\* The packet that listen has in hand is always one that reads as its sender
\* wrote it.
THEOREM PacketAlwaysRead == Spec => []PacketRead
<1>1. PacketRead
    BY WireAlwaysKept DEF PacketRead
<1>2. QED
    BY <1>1, PTL
=============================================================================
