--------------------------- MODULE DiscoveryCodec ---------------------------
(***************************************************************************)
(* What LAN discovery writes on the wire, as operators: numbers of variable *)
(* length, strings, ServerData, and the lengths a packet declares.          *)
(* Encryption and checksum are left out.                                    *)
(***************************************************************************)
EXTENDS Integers, Sequences, FiniteSetsExt

CONSTANTS
    Width,         \* the bits of a number (32)
    Group,         \* those that one byte of it carries (7)
    Version,       \* version of ServerData
    MaxDeclared,   \* maxDeclaredMessageData
    LengthModulus, \* of the 16 bits a packet declares its length in
    MaxData        \* the longest data of a packet that is checked (a bound)

ASSUME CodecAssumption ==
    /\ {Width, Group, Version, MaxDeclared, LengthModulus, MaxData} \subseteq Nat
    /\ Group > 0 /\ Width > Group /\ LengthModulus > 0

\* What is left of a buffer once a value has been read from it.
Got(value, rest) == [ok |-> TRUE, value |-> value, rest |-> rest]
Failed == [ok |-> FALSE]

-----------------------------------------------------------------------------
(* binary.go *)

TwoTo[n \in Nat] == IF n = 0 THEN 1 ELSE 2 * TwoTo[n - 1]

Base == TwoTo[Group]   \* the first value, and the flag, of a byte that is not the last
Modulus == TwoTo[Width]
MaxGroups == (Width + Group - 1) \div Group

WriteVaruint32[v \in 0 .. Modulus - 1] ==
    IF v >= Base THEN <<Base + (v % Base)>> \o WriteVaruint32[v \div Base]
                 ELSE <<v>>

\* v after the first i bytes, each shifted to its place: no two have a bit in
\* common, and those beyond Width are lost.
Shifted(b, i) == ((b % Base) * TwoTo[Group * (i - 1)]) % Modulus
Gathered(buf) ==
    LET v[i \in 0 .. Len(buf)] ==
          IF i = 0 THEN 0 ELSE (v[i - 1] + Shifted(buf[i], i)) % Modulus
    IN  v

ReadVaruint32(buf) ==
    LET ends == {n \in 1 .. Len(buf) : n <= MaxGroups /\ buf[n] < Base}
    IN  IF ends = {} THEN Failed
        ELSE Got(Gathered(buf)[Min(ends)],
                 SubSeq(buf, Min(ends) + 1, Len(buf)))

\* The sign is the lowest bit: a negative number is complemented.  (Faulty
\* variant: it is negated.)
Negated(u) == (Modulus - u) % Modulus
Complement(u) == Modulus - 1 - u

WriteVarint32(v) ==
    LET u == (2 * v) % Modulus
    IN  WriteVaruint32[IF v < 0 THEN Complement(u) ELSE u]

ReadVarint32(buf) ==
    LET r == ReadVaruint32(buf)
        v == r.value \div 2
    IN  IF r.ok THEN Got(IF r.value % 2 = 1 THEN -1 - v ELSE v, r.rest)
                ELSE Failed

WriteString(s) == WriteVaruint32[Len(s) % Modulus] \o s

ReadString(buf) ==
    LET r == ReadVaruint32(buf)
    IN  IF r.ok /\ r.value <= Len(r.rest)
          THEN Got(SubSeq(r.rest, 1, r.value),
                   SubSeq(r.rest, r.value + 1, Len(r.rest)))
          ELSE Failed

WriteBool(v) == IF v THEN <<1>> ELSE <<0>>
ReadBool(buf) == IF buf = <<>> THEN Failed ELSE Got(buf[1] # 0, Tail(buf))

-----------------------------------------------------------------------------
(* ServerData *)

StringField == {"ServerName", "Version", "LevelName", "Nonce"}
BoolField == {"EditorWorld", "Hardcore", "AcceptsOnlineAuth",
              "AcceptsSelfSignedAuth"}
IntField == {"Protocol", "GameType", "PlayerCount", "MaxPlayerCount",
             "ConnectionType"}
Field == StringField \cup BoolField \cup IntField

WriteOrder ==
    <<"ServerName", "Protocol", "Version", "LevelName", "PlayerCount",
      "MaxPlayerCount", "GameType", "EditorWorld", "Hardcore",
      "AcceptsOnlineAuth", "AcceptsSelfSignedAuth", "Nonce", "ConnectionType">>

\* (Faulty variant: in the order in which the fields are declared.)
DeclaredOrder ==
    <<"ServerName", "Protocol", "Version", "LevelName", "GameType",
      "PlayerCount", "MaxPlayerCount", "EditorWorld", "Hardcore",
      "AcceptsOnlineAuth", "AcceptsSelfSignedAuth", "Nonce", "ConnectionType">>
ReadOrder ==
    <<"ServerName", "Protocol", "Version", "LevelName", "PlayerCount",
      "MaxPlayerCount", "GameType", "EditorWorld", "Hardcore",
      "AcceptsOnlineAuth", "AcceptsSelfSignedAuth", "Nonce", "ConnectionType">>

WriteField(f, v) ==
    CASE f \in StringField -> WriteString(v)
      [] f \in BoolField -> WriteBool(v)
      [] OTHER -> WriteVarint32(v)
ReadField(f, buf) ==
    CASE f \in StringField -> ReadString(buf)
      [] f \in BoolField -> ReadBool(buf)
      [] OTHER -> ReadVarint32(buf)

\* The buffer with the first i fields,
Marshaled(d) ==
    LET buf[i \in 0 .. Len(WriteOrder)] ==
          IF i = 0 THEN <<Version>>
          ELSE buf[i - 1] \o WriteField(WriteOrder[i], d[WriteOrder[i]])
    IN  buf
MarshalBinary(d) == Marshaled(d)[Len(WriteOrder)]

ZeroData == [f \in Field |-> IF f \in StringField THEN <<>>
                             ELSE IF f \in BoolField THEN FALSE ELSE 0]

\* What is left of a buffer at the end is an error.  (Faulty variant: it is
\* ignored.)
IgnoresRest(r) == r.ok
Complete(r) == r.ok /\ r.rest = <<>>

ReadVersion(data) ==
    IF data # <<>> /\ data[1] = Version THEN Got(ZeroData, Tail(data))
                                        ELSE Failed
ReadNext(r, f) ==
    LET next == ReadField(f, r.rest)
    IN  IF r.ok /\ next.ok
          THEN Got([r.value EXCEPT ![f] = next.value], next.rest)
          ELSE Failed

\* and what the first i fields of a buffer are.
Unmarshaled(data) ==
    LET r[i \in 0 .. Len(ReadOrder)] ==
          IF i = 0 THEN ReadVersion(data) ELSE ReadNext(r[i - 1], ReadOrder[i])
    IN  r
UnmarshalBinary(data) ==
    LET r == Unmarshaled(data)[Len(ReadOrder)]
    IN  IF Complete(r) THEN r ELSE Failed

-----------------------------------------------------------------------------
(* Packets, as far as their lengths go *)

PacketOf == {"request", "response", "message"}

\* The data that follow the header of 2 + 8 + 8 bytes: a response has them in
\* hex, after a length of 4 bytes; a message also has a recipient.
BodyLength(kind, n) ==
    CASE kind = "request" -> 0
      [] kind = "response" -> 4 + 2 * n
      [] kind = "message" -> 8 + 4 + n
PayloadLength(kind, n) == 2 + 18 + BodyLength(kind, n)

\* (Faulty variant: a message declares the most it may.)
AlwaysMost(n) == MaxDeclared
DeclaredMessageLength(n) == Min({n, MaxDeclared})

\* Marshal
Declared(kind, n) ==
    (IF kind = "message" THEN 32 + DeclaredMessageLength(n)
                         ELSE PayloadLength(kind, n)) % LengthModulus

\* Unmarshal
AcceptsLength(kind, n) ==
    PayloadLength(kind, n) >= Max({4, Declared(kind, n)})

-----------------------------------------------------------------------------
(* Properties *)

\* Numbers read back as they were written, and end where they ended.
NumbersKept ==
    \A v \in -(Modulus \div 2) .. Modulus \div 2 - 1 :
      ReadVarint32(WriteVarint32(v) \o <<Base>>) = Got(v, <<Base>>)

\* Worlds in which at most two fields have a value that is not zero, each at
\* the ends of its range or where its encoding gets longer.
Value(f) ==
    IF f \in StringField THEN {<<Base>>, [i \in 1 .. Base |-> 0]}
    ELSE IF f \in BoolField THEN {TRUE}
    ELSE {-(Modulus \div 2), -1, Base \div 2, Modulus \div 2 - 1}
Worlds == UNION {{[ZeroData EXCEPT ![f] = v, ![g] = w] :
                    v \in Value(f), w \in Value(g)} : f, g \in Field}

\* A world reads back as it was written; neither a part of it nor more than it
\* is taken for a world.
ServerDataKept ==
    \A d \in Worlds :
      LET b == MarshalBinary(d)
      IN  /\ UnmarshalBinary(b) = Got(d, <<>>)
          /\ \A n \in 0 .. Len(b) - 1 : ~UnmarshalBinary(SubSeq(b, 1, n)).ok
          /\ ~UnmarshalBinary(Append(b, 0)).ok

\* A packet is not taken for one that has been cut, however long its data are,
\* although the length it declares has 16 bits and a maximum for messages.
PacketsAccepted ==
    \A kind \in PacketOf, n \in 0 .. MaxData : AcceptsLength(kind, n)

\* What a Listener writes, another reads: of numbers, worlds and packets.
WireKept == NumbersKept /\ ServerDataKept /\ PacketsAccepted
=============================================================================
