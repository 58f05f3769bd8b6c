---------------------------------- MODULE Codec ----------------------------------
(***************************************************************************)
(* The three formats on the air: the packet header (js/reticulum.js), the   *)
(* announce (js/announce.js) and the LXMF message (js/lxmf.js). One thing   *)
(* is built, may be cut short or changed on its way, and is parsed. Bytes   *)
(* stand in for fields: a hash has HashLength bytes, a key two, and every   *)
(* other field one. A byte is a pair: what it is, and what it was made of.  *)
(***************************************************************************)
EXTENDS Naturals, Sequences

CONSTANT HashLength  \* TRUNCATED_HASHLENGTH

ASSUME CodecAssumption == HashLength \in Nat \ {0}

VARIABLES
  built,  \* what was built, and of what kind it is
  octets, \* its bytes
  harm,  \* what became of them
  got    \* what the parser made of them

codecVars == <<built, octets, harm, got>>

Null == [ok |-> FALSE]

Byte(what) == <<what, <<>>>>

HashOf(bytes) == <<"hash", bytes>>

SignatureOf(identity, bytes) == <<"signature", <<Byte(identity)>> \o bytes>>

Upto(bytes, n) == SubSeq(bytes, 1, n)

From(bytes, n) == SubSeq(bytes, n + 1, Len(bytes))

-----------------------------------------------------------------------------
(* buildPacket and parsePacket. The first two bytes, flags and hops, are    *)
(* numbers; the rest of a packet is told apart by its position only.        *)

HEADER_2 == 1

MAX_HOPS == 127

HEADER_MINSIZE == 2 + HashLength + 1

Bit(flags, mask) == (flags \div mask) % 2

BuildPacket(p) ==
  <<64 * p.headerType + 32 * p.contextFlag + 16 * p.transportType + 4 * p.destType + p.packetType,
    p.hops>>
  \o (IF p.headerType = HEADER_2 THEN p.transportId ELSE <<>>)
  \o p.destHash \o <<p.context>> \o p.payload

MinSizeIgnored(headerType) == HEADER_MINSIZE

MinSize(headerType) ==
  IF headerType = HEADER_2 THEN 2 + 2 * HashLength + 1 ELSE HEADER_MINSIZE

(* subarray clamps silently.                                                *)
Subarray(bytes, from, to) == SubSeq(bytes, from + 1, IF to < Len(bytes) THEN to ELSE Len(bytes))

ParsePacket(data) ==
  IF \/ Len(data) < HEADER_MINSIZE
     \/ data[2] > MAX_HOPS
     \/ Bit(data[1], 128) = 1
     \/ Len(data) < MinSize(Bit(data[1], 64))
    THEN Null
    ELSE LET type == Bit(data[1], 64)
             start == IF type = HEADER_2 THEN 2 + HashLength ELSE 2
         IN [ok |-> TRUE, headerType |-> type, contextFlag |-> Bit(data[1], 32),
             transportType |-> Bit(data[1], 16), destType |-> (data[1] \div 4) % 4,
             packetType |-> data[1] % 4, hops |-> data[2],
             transportId |-> IF type = HEADER_2 THEN Subarray(data, 2, start) ELSE <<>>,
             destHash |-> Subarray(data, start, start + HashLength),
             context |-> Subarray(data, start + HashLength, start + HashLength + 1),
             payload |-> From(data, start + HashLength + 1)]

-----------------------------------------------------------------------------
(* buildAnnounce, parseAnnounce and validateAnnounce.                       *)

PublicKey(identity) == <<Byte("encryption key"), Byte(identity)>>

DestHash(nameHash, publicKey) == HashOf(<<nameHash, HashOf(publicKey)>>)

AnnounceSignedData(destHash, a) == <<destHash>> \o a.publicKey \o <<a.nameHash, a.randomHash>>
                                   \o a.ratchet \o a.appData

(* A genuine announce, and whether the header says that it has a ratchet.   *)
BuildAnnounce(identity, ratchet, appData) ==
  LET body == [publicKey |-> PublicKey(identity), nameHash |-> Byte("name"),
               randomHash |-> Byte("random"), ratchet |-> ratchet, appData |-> appData]
      dest == DestHash(body.nameHash, body.publicKey)
  IN [contextFlag |-> ratchet # <<>>, destHash |-> dest, body |-> body,
      payload |-> body.publicKey \o <<body.nameHash, body.randomHash>> \o ratchet
                  \o <<SignatureOf(identity, AnnounceSignedData(dest, body))>> \o appData]

(* The minimum does not count the ratchet: the signature may be cut off.    *)
ParseAnnounce(payload, contextFlag, destHash) ==
  LET after == IF contextFlag THEN 5 ELSE 4
      a == [ok |-> TRUE, publicKey |-> Upto(payload, 2), nameHash |-> payload[3],
            randomHash |-> payload[4],
            ratchet |-> IF contextFlag THEN Subarray(payload, 4, 5) ELSE <<>>,
            signature |-> Subarray(payload, after, after + 1),
            appData |-> From(payload, after + 1)]
  IN IF Len(payload) < 5 \/ DestHash(payload[3], Upto(payload, 2)) # destHash THEN Null ELSE a

ValidateAnnounce(a, destHash) ==
  a.signature = <<SignatureOf(a.publicKey[2][1], AnnounceSignedData(destHash, a))>>

-----------------------------------------------------------------------------
(* packMessage and unpackMessage. A packed value is what it is in an        *)
(* encoding: a peer's is not always that of this program's msgpack, which   *)
(* writes a whole number of seconds as an integer and the integer keys of   *)
(* the fields as strings, though packMessage itself does neither.           *)

Packed(value, encoding) == <<value, <<Byte(encoding)>>>>

Repacked(packed) == [i \in DOMAIN packed |-> Packed(packed[i][1], "js")]

Array(elements) == <<Byte(IF Len(elements) = 4 THEN "fixarray 4" ELSE "fixarray 5")>> \o elements

HashedPart(dest, source, packed) == <<dest, source>> \o packed

(* The peer signs, and names the message by, the four elements as it packed *)
(* them; a stamp comes after as a fifth.                                    *)
PackMessage(identity, dest, source, elements, stamp) ==
  LET hashed == HashedPart(dest, source, Array(elements))
      signature == SignatureOf(identity, Append(hashed, HashOf(hashed)))
  IN [messageId |-> HashOf(hashed), stamped |-> stamp # <<>>, from |-> identity, dest |-> dest,
      payload |-> <<source, signature>> \o Array(elements \o stamp)]

(* The views a signature may be over: the four elements cut out of the wire *)
(* when there is a fifth, the four packed again, the whole as received.     *)
CutOut(packed) == <<<<Byte("fixarray 4")>> \o SubSeq(packed, 2, 5)>>

PrefixView(packed) ==
  IF packed[1] = Byte("fixarray 5") /\ Len(packed) = 6 THEN CutOut(packed) ELSE <<>>

Repack(packed) == Array(Repacked(SubSeq(packed, 2, 5)))

(* unpackMessage: too short, or not an array of four at least, throws. The  *)
(* id of a message without a stamp is over what was received.               *)
UnpackMessage(data, dest) ==
  IF Len(data) < 7 \/ (data[3] = Byte("fixarray 5") /\ Len(data) < 8)
    THEN Null
    ELSE LET packed == From(data, 2)
             stamped == data[3] = Byte("fixarray 5")
         IN [ok |-> TRUE, source |-> data[1], signature |-> data[2],
             views |-> PrefixView(packed) \o <<Repack(packed), packed>>, dest |-> dest,
             messageId |-> HashOf(HashedPart(dest, data[1],
                                    IF stamped THEN Repack(packed) ELSE packed))]

(* unpackLinkMessage: the destination is in front, inside the link.         *)
UnpackLinkMessage(data) ==
  IF Len(data) < 8 THEN Null ELSE UnpackMessage(From(data, 1), data[1])

VerifyMessageSignature(message, identity) ==
  \E i \in DOMAIN message.views :
     LET hashed == HashedPart(message.dest, message.source, message.views[i])
     IN message.signature = SignatureOf(identity, Append(hashed, HashOf(hashed)))

-----------------------------------------------------------------------------
(* One thing built, harmed or not, and received.                             *)

Hash(x) == [i \in 1..HashLength |-> x]

SomePackets == [headerType : 0..1, contextFlag : {0, 1}, transportType : {1}, destType : {0, 3},
            packetType : 0..3, hops : {0, 127, 128}, transportId : {Hash(8)},
            destHash : {Hash(9)}, context : {5}, payload : {<<>>, <<7, 6>>}]

(* Its elements are time, title, content and fields.                        *)
Elements ==
  LET encoded(value) == {Packed(value, "js"), Packed(value, "peer")}
  IN {<<a, b, c, d>> : a \in encoded("time"), b \in encoded("title"),
                       c \in encoded("content"), d \in encoded("fields")}

SendsPacket ==
  \E p \in SomePackets :
     /\ built' = [kind |-> "packet", packet |-> p]
     /\ octets' = BuildPacket(p)

SendsAnnounce ==
  \E ratchet \in {<<>>, <<Byte("ratchet")>>}, appData \in {<<>>, <<Byte("app data")>>} :
     LET a == BuildAnnounce("alice", ratchet, appData) IN
     /\ built' = [kind |-> "announce", announce |-> a]
     /\ octets' = a.payload

SendsMessage ==
  \E elements \in Elements, stamp \in {<<>>, <<Packed("stamp", "js")>>}, link \in BOOLEAN :
     LET m == PackMessage("alice", Byte("dest"), Byte("source"), elements, stamp) IN
     /\ built' = [kind |-> "message", message |-> m, link |-> link]
     /\ octets' = (IF link THEN <<m.dest>> ELSE <<>>) \o m.payload

Sends ==
  /\ built.kind = "nothing"
  /\ SendsPacket \/ SendsAnnounce \/ SendsMessage
  /\ UNCHANGED <<harm, got>>

(* The end is lost, or the flag of an announce's header is.                 *)
IsHarmed ==
  /\ built.kind # "nothing" /\ harm = "none" /\ ~got.ok
  /\ \/ harm' = "cut" /\ \E n \in 1..(Len(octets) - 1) : octets' = Upto(octets, n)
     \/ built.kind = "announce" /\ harm' = "flag" /\ UNCHANGED octets
  /\ UNCHANGED <<built, got>>

ParsesAnnounce ==
  LET a == built.announce
      parsed == ParseAnnounce(octets, (harm = "flag") # a.contextFlag, a.destHash)
  IN IF parsed.ok /\ ValidateAnnounce(parsed, a.destHash) THEN parsed ELSE Null

Parses ==
  /\ built.kind # "nothing" /\ ~got.ok
  /\ got' = CASE built.kind = "packet" -> ParsePacket(octets)
              [] built.kind = "announce" -> ParsesAnnounce
              [] OTHER -> IF built.link THEN UnpackLinkMessage(octets)
                                       ELSE UnpackMessage(octets, built.message.dest)
  /\ harm' = IF harm = "none" THEN "arrived" ELSE harm
  /\ UNCHANGED <<built, octets>>

CodecInit ==
  /\ built = [kind |-> "nothing"] /\ octets = <<>> /\ harm = "none" /\ got = Null

CodecNext == Sends \/ IsHarmed \/ Parses

CodecSpec == CodecInit /\ [][CodecNext]_codecVars

-----------------------------------------------------------------------------
(* Properties.                                                              *)

CodecTypeOK ==
  /\ built.kind \in {"nothing", "packet", "announce", "message"}
  /\ harm \in {"none", "cut", "flag", "arrived"}
  /\ got.ok \in BOOLEAN

(* A packet that arrives whole is understood field by field, unless it has  *)
(* gone too far; whatever parsePacket accepts has whole addresses, however  *)
(* much of the end was lost.                                                *)
PacketSurvives ==
  LET p == built.packet
      fields == DOMAIN p \ {"transportId", "context"}
  IN /\ harm = "arrived" => (got.ok <=> p.hops <= MAX_HOPS)
     /\ got.ok => /\ Len(got.destHash) = HashLength /\ Len(got.context) = 1
                  /\ p.headerType = HEADER_2 => got.transportId = p.transportId
                  /\ \A f \in fields \ {"payload"} : got[f] = p[f]
                  /\ harm = "arrived" => got.payload = p.payload

(* An announce is accepted whole or not at all: with the key, the ratchet   *)
(* and the application data it was signed with, never one for the other.    *)
AnnounceSurvives ==
  LET body == built.announce.body
  IN /\ harm = "arrived" => got.ok
     /\ got.ok => \A f \in DOMAIN body : got[f] = body[f]

(* A genuine message verifies, whatever encoding its sender packs it in and *)
(* with or without a stamp; without one both ends give it the same id, the  *)
(* one that reactions and replies name. (With a stamp they do when it was   *)
(* packed as this program would: a known limit, see the README.) Nothing of *)
(* a message cut short verifies.                                            *)
MessageSurvives ==
  LET m == built.message
  IN /\ harm = "arrived" => /\ got.ok /\ VerifyMessageSignature(got, m.from)
                            /\ ~m.stamped => got.messageId = m.messageId
     /\ got.ok /\ harm = "cut" => ~VerifyMessageSignature(got, m.from)

(* What arrives whole is understood as it was meant, and what does not is   *)
(* not taken for something else.                                            *)
WholeOrNothing ==
  CASE built.kind = "packet" -> PacketSurvives
    [] built.kind = "announce" -> AnnounceSurvives
    [] built.kind = "message" -> MessageSurvives
    [] OTHER -> TRUE
=============================================================================
