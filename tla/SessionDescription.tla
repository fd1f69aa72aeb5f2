------------------------- MODULE SessionDescription -------------------------
(***************************************************************************)
(* Descriptions of a connection, as operators: what Encode writes into SDP *)
(* and ParseDescription reads from it, who starts DTLS, and the candidate  *)
(* whose address stands for the connection.                                *)
(***************************************************************************)
EXTENDS Naturals, Sequences, FiniteSets, SequencesExt, FiniteSetsExt

CONSTANTS
    Fingerprint, Identity, Candidate,  \* the values of attributes
    Absent,                            \* no attribute
    MaxCandidates                      \* of a description that is checked

ASSUME DescriptionAssumption ==
    /\ Absent \notin Fingerprint \cup Identity \cup {Candidate}
    /\ MaxCandidates \in Nat

Role == {"auto", "client", "server"}   \* webrtc.DTLSRole
Description ==
    [role : Role, fingerprints : {<<f>> : f \in Fingerprint}
                                   \cup Fingerprint \X Fingerprint,
     identity : Identity \cup {Absent}, candidates : {<<>>, <<Candidate>>}]

-----------------------------------------------------------------------------
(* Encode and ParseDescription *)

ConnectionRole(role) ==
    CASE role = "client" -> "active"
      [] role = "server" -> "passive"
      [] OTHER -> "actpass"

\* The attributes of the session and those of its only media description.
Encode(desc) ==
    [session |-> [identity |-> <<desc.identity>>, fingerprint |-> <<>>,
                  candidate |-> <<>>],
     media |-> [identity |-> <<>>, fingerprint |-> desc.fingerprints,
                candidate |-> desc.candidates],
     setup |-> ConnectionRole(desc.role), maxMessageSize |-> 262143 + 1]

\* The first attribute of a kind, if there is one.
Attribute(attributes) == IF attributes = <<>> THEN Absent ELSE Head(attributes)

\* The setup attribute says what the peer that wrote it will be.  (Faulty
\* variant: what the one that reads it shall be.)
InverseSetup(attr) ==
    CASE attr = "active" -> "server" [] attr = "passive" -> "client"
      [] attr = "actpass" -> "auto"
SetupRole(attr) ==
    CASE attr = "active" -> "client" [] attr = "passive" -> "server"
      [] attr = "actpass" -> "auto"

\* The identity belongs to the session.  (Faulty variant: to the media.)
MediaIdentity(d) == Attribute(d.media.identity)
ParsedIdentity(d) == Attribute(d.session.identity)

ParsedFingerprint(d) ==
    IF d.media.fingerprint # <<>> THEN Attribute(d.media.fingerprint)
    ELSE Attribute(d.session.fingerprint)

Parses(d) == ParsedFingerprint(d) # Absent /\ d.maxMessageSize > 1

ParseDescription(d) ==
    [role |-> SetupRole(d.setup), fingerprints |-> <<ParsedFingerprint(d)>>,
     identity |-> ParsedIdentity(d),
     candidates |-> d.session.candidate \o d.media.candidate]

-----------------------------------------------------------------------------
(* The roles of the two peers *)

\* What the Listener answers an offer with.  (Faulty variant: the same role.)
SameRole(role) == IF role = "auto" THEN "client" ELSE role
AnswererRole(role) == IF role = "client" THEN "server" ELSE "client"

\* DTLSTransport.role, unless the SettingEngine says otherwise: what a peer is,
\* by the role it has read and whether it controls ICE.
Acts(remote, controls) ==
    CASE remote = "client" -> "server"
      [] remote = "server" -> "client"
      [] OTHER -> IF controls THEN "server" ELSE "client"

-----------------------------------------------------------------------------
(* defaultCandidate *)

\* A candidate of a sequence by what it is judged by: the family of its
\* address, its type, and whether it is one for UDP and RTP.
Kind == {c \in [family : {4, 6}, type : {"host", "srflx", "relay", "prflx"},
                usable : BOOLEAN] : ~c.usable => c.type = "host" /\ c.family = 4}

TypePreference(c) ==
    CASE c.type = "host" -> 1 [] c.type = "srflx" -> 2 [] c.type = "relay" -> 3
      [] OTHER -> 0

\* Whether a candidate replaces the current one.  (Faulty variant: only by its
\* preference.)
PrefersType(c, current) == TypePreference(c) > current.preference
Replaces(c, current) ==
    /\ c.usable
    /\ ~(current.family = c.family /\ TypePreference(c) <= current.preference)
    /\ ~(current.family = 4 /\ c.family = 6)

\* What the loop has chosen among the first i candidates.
Chosen(candidates) ==
    LET current[i \in 0 .. Len(candidates)] ==
          IF i = 0 THEN [at |-> 0, family |-> 0, preference |-> 0]
          ELSE IF Replaces(candidates[i], current[i - 1])
            THEN [at |-> i, family |-> candidates[i].family,
                  preference |-> TypePreference(candidates[i])]
          ELSE current[i - 1]
    IN  current

\* The place of the default candidate, or 0.
DefaultCandidate(candidates) == Chosen(candidates)[Len(candidates)].at

-----------------------------------------------------------------------------
(* Properties *)

\* What one side has put into its description is what the other reads, of
\* several fingerprints the first.
DescriptionKept ==
    \A desc \in Description :
      /\ Parses(Encode(desc))
      /\ ParseDescription(Encode(desc))
           = [desc EXCEPT !.fingerprints = <<desc.fingerprints[1]>>]

\* Whatever role the offer asks for, one peer starts DTLS and the other waits
\* for it, and a peer that has asked for a role gets it.
RolesAgree ==
    \A role \in Role :
      LET offer == SetupRole(ConnectionRole(role))
          answer == SetupRole(ConnectionRole(AnswererRole(offer)))
          dialer == Acts(answer, TRUE)
          listener == Acts(offer, FALSE)
      IN  /\ {dialer, listener} = {"client", "server"}
          /\ role # "auto" => dialer = role

\* The default candidate does not depend on the order in which candidates are
\* gathered, but for equals: it is the first of the highest preference among
\* those with an IPv4 address, if there are any that can be used, and otherwise
\* among those with an IPv6 address.
DefaultIsBest ==
    \A candidates \in BoundedSeq(Kind, MaxCandidates) :
      LET usable == {i \in DOMAIN candidates : candidates[i].usable}
          v4 == {i \in usable : candidates[i].family = 4}
          pool == IF v4 # {} THEN v4 ELSE usable
          best == {i \in pool : \A j \in pool :
                     TypePreference(candidates[j])
                       <= TypePreference(candidates[i])}
      IN  DefaultCandidate(candidates) = IF pool = {} THEN 0 ELSE Min(best)

\* What two peers say of themselves in offer and answer is understood.
DescriptionsAgree == DescriptionKept /\ RolesAgree /\ DefaultIsBest
=============================================================================
