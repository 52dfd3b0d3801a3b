---------------------------- MODULE ZrtpPackets ----------------------------
(***************************************************************************)
(* The datagrams two ZRTP endpoints exchange (ZRTP/packet*.h) and the      *)
(* parameters of an endpoint (userinfo.h, the constructor of Zrtp).        *)
(*                                                                         *)
(* A packet is a record of the fields the protocol decides on.  Hash       *)
(* images, MACs and Diffie-Hellman values are not computed: a packet names *)
(* the identity `src` that made it, hence the hash chain, ZID and key pair *)
(* its fields come from, and its `mark` says what the network did to it.   *)
(***************************************************************************)
EXTENDS Negotiation, KeyDerivation

CONSTANTS
    Algorithm,  \* the names of algorithms, four letters each
    Identity,   \* Zrtp objects: each has its own ZID, hash chain, key pair
    Node,       \* the identities that run in this model
    Peer,       \* Peer[n]: the endpoint that n's sendData reaches
    UserInfo,   \* UserInfo[n]: what the user of n supports (userinfo.h)
    HviRank     \* HviRank[i]: order of the hvi of i's Commit under memcmp

(* The lists of userinfo.h. *)
Info == [versions          : Seq(Version),
         hashTypes         : SUBSET Algorithm,
         cipherTypes       : SUBSET Algorithm,
         authTagTypes      : SUBSET Algorithm,
         keyAgreementTypes : Seq(Algorithm),
         sasTypes          : SUBSET Algorithm]

ASSUME AlgorithmAssumption ==
    {"S256", "AES1", "HS32", "B32 "} \subseteq Algorithm /\ "none" \notin Algorithm

ASSUME NodeAssumption == Node \subseteq Identity

(* Two endpoints are each other's peer; sendData never loops back. *)
ASSUME PeerAssumption ==
    /\ Peer \in [Node -> Node]
    /\ \A n \in Node : Peer[n] # n /\ Peer[Peer[n]] = n

(* chooseHighestVersion reads versions.at(0): a user gives at least one. *)
ASSUME InfoAssumption ==
    \A n \in Node : UserInfo[n] \in Info /\ UserInfo[n].versions # <<>>

ASSUME RankAssumption == HviRank \in [Identity -> Nat]

-----------------------------------------------------------------------------
(* What may have happened to a packet on its way: nothing; another ZRTP    *)
(* identifier (parse fails); a declared length that is not the received    *)
(* one; another hash image (for a Confirm: another IV, which the confirm   *)
(* MAC does not cover and which garbles the decrypted H0); another value   *)
(* in a field that a MAC or a digest covers; a public value of 1 or p-1.   *)
Mark == {"intact", "badIdentifier", "badLength", "badImage", "badBody", "badPv"}

Malformed(m) == m.mark \in {"badIdentifier", "badLength"}

HelloAck  == [type |-> "HelloACK", mark |-> "intact"]
Conf2Ack  == [type |-> "Conf2ACK", mark |-> "intact"]
ErrorAck  == [type |-> "ErrorACK", mark |-> "intact"]

(* createHelloPacket: version, ZID, H3 and the supported types. *)
HelloPacket(n, v) ==
    [type |-> "Hello", src |-> n, version |-> v,
     keyAgreementTypes |-> UserInfo[n].keyAgreementTypes, mark |-> "intact"]

(* createDHPart1Packet and createDHPart2Packet. *)
DHPartPacket(t, n) == [type |-> t, src |-> n, mark |-> "intact"]

(* generateHvi: the digest of the Initiator's DHPart2 and the Responder's  *)
(* Hello, represented by the two packets it is computed from.              *)
Hvi(d, h) == [dhPart2 |-> d, hello |-> h]

(* createCommitPacket: all algorithms but the key agreement are fixed. *)
CommitPacket(n, k, h) ==
    [type |-> "Commit", src |-> n, hash |-> "S256", cipher |-> "AES1",
     authTag |-> "HS32", keyAgreement |-> k, sas |-> "B32 ",
     hvi |-> Hvi(DHPartPacket("DHPart2", n), h), mark |-> "intact"]

(* createConfirm1Packet and createConfirm2Packet: encrypted and MACed under *)
(* the keys of the sender's role.                                          *)
ConfirmPacket(t, n, role, s0) ==
    [type |-> t, src |-> n, macKey |-> macKey(s0, role, TRUE),
     zrtpKey |-> zrtpKey(s0, role, TRUE), mark |-> "intact"]

ErrorPacket(n, code) ==
    [type |-> "Error", src |-> n, code |-> code, mark |-> "intact"]

(* A pointer to a packet that holds no parsed packet: not initialised by   *)
(* the constructor of Zrtp, NULL, deleted, or constructed but not filled.  *)
Unset == [type |-> "Unset"]
Null  == [type |-> "Null"]
Freed == [type |-> "Freed"]
Blank == [type |-> "Blank"]

(* parse stops at a wrong identifier and leaves the fields as they were. *)
Parsed(m) == IF m.mark = "badIdentifier" THEN Blank ELSE m

-----------------------------------------------------------------------------
(* The sets of packets. *)
Hellos ==
    [type : {"Hello"}, src : Identity, version : Version,
     keyAgreementTypes : Seq(Algorithm), mark : Mark]

DHParts(t) == [type : {t}, src : Identity, mark : Mark]

Commits ==
    [type : {"Commit"}, src : Identity, hash : Algorithm, cipher : Algorithm,
     authTag : Algorithm, keyAgreement : Algorithm, sas : Algorithm,
     hvi : [dhPart2 : DHParts("DHPart2"), hello : Hellos], mark : Mark]

(* The secret s0 (createS0): the Diffie-Hellman result, which the two key  *)
(* pairs determine, the two ZIDs and the total hash.                       *)
Keys ==
    [dhResult : SUBSET Identity, zidI : Identity, zidR : Identity,
     helloR : Hellos, commit : Commits,
     dhPart1 : DHParts("DHPart1"), dhPart2 : DHParts("DHPart2")]

Confirms(t) ==
    [type : {t}, src : Identity, macKey : DerivedKeys(Keys),
     zrtpKey : DerivedKeys(Keys), mark : Mark]

ErrorCode ==
    {"MalformedPacket", "CriticalSoftwareError", "UnsupportedVersion",
     "HashTypeNotSupported", "CipherTypeNotSupported", "AuthTagNotSupported",
     "KeyExchangeNotSupported", "SasNotSupported", "BadDhPublicValue",
     "DhHviError", "BadConfirm", "EqualZid"}

Errors == [type : {"Error"}, src : Identity, code : ErrorCode, mark : Mark]

Acks == [type : {"HelloACK", "Conf2ACK", "ErrorACK"}, mark : Mark]

Packets ==
    Hellos \cup Acks \cup Commits \cup DHParts("DHPart1") \cup DHParts("DHPart2")
      \cup Confirms("Confirm1") \cup Confirms("Confirm2") \cup Errors
=============================================================================
