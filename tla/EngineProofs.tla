---------------------------- MODULE EngineProofs ----------------------------
(***************************************************************************)
(* What holds of every endpoint whatever the network does: Leftover may be *)
(* any set of packets and Duplicating may be TRUE, so the theorems are     *)
(* about an engine that is sent anything that can be parsed, at any time.  *)
(***************************************************************************)
EXTENDS ZrtpSession, NegotiationProofs

(* The invariants rest on each other: a packet is made from those kept     *)
(* (PacketsReady), kept ones are typed (TypeOK), a timeout sends the one   *)
(* kept (ResendLive), and VersionsSettled excludes the branch of           *)
(* RepeatHelloAck that would delete the Hello being resent.                *)
IInv ==
    /\ TypeOK
    /\ PacketsReady
    /\ VersionsSettled
    /\ ResendLive

-----------------------------------------------------------------------------
(* The packets an endpoint makes are packets. *)

LEMMA InfoFacts ==
    ASSUME NEW n \in Node
    PROVE  /\ n \in Identity /\ Peer[n] \in Node
           /\ Info1(n) \in Seq(Version)
           /\ MyTypes(n) \in Seq(Algorithm)
BY NodeAssumption, PeerAssumption, InfoAssumption DEF Info, Info1, MyTypes

LEMMA PacketSets ==
    /\ Hellos \subseteq Packets /\ Commits \subseteq Packets
    /\ DHParts("DHPart1") \subseteq Packets /\ DHParts("DHPart2") \subseteq Packets
    /\ Confirms("Confirm1") \subseteq Packets /\ Confirms("Confirm2") \subseteq Packets
    /\ Errors \subseteq Packets
    /\ {HelloAck, Conf2Ack, ErrorAck} \subseteq Packets
BY DEF Packets, Acks, HelloAck, Conf2Ack, ErrorAck, Mark

(* The type field tells which packet it is, and the set its fields. *)
LEMMA ByType ==
    ASSUME NEW m \in Packets
    PROVE  /\ m.type = "Hello" => m \in Hellos
           /\ m.type = "Commit" => m \in Commits
           /\ m.type = "DHPart1" => m \in DHParts("DHPart1")
           /\ m.type = "DHPart2" => m \in DHParts("DHPart2")
           /\ m.type = "Confirm1" => m \in Confirms("Confirm1")
           /\ m.type = "Confirm2" => m \in Confirms("Confirm2")
BY DEF Packets, Hellos, Commits, DHParts, Confirms, Errors, Acks

LEMMA HelloFacts ==
    ASSUME NEW m \in Hellos
    PROVE  /\ m.src \in Identity /\ m.version \in Version
           /\ m.keyAgreementTypes \in Seq(Algorithm)
BY DEF Hellos

LEMMA HelloPacketType ==
    ASSUME NEW n \in Node, NEW v \in Version
    PROVE  HelloPacket(n, v) \in Hellos
BY InfoFacts DEF HelloPacket, Hellos, Mark, MyTypes

LEMMA DHPartPacketType ==
    ASSUME NEW n \in Node, NEW t
    PROVE  DHPartPacket(t, n) \in DHParts(t)
BY InfoFacts DEF DHPartPacket, DHParts, Mark

LEMMA CommitPacketType ==
    ASSUME NEW n \in Node, NEW k \in Algorithm, NEW h \in Hellos
    PROVE  CommitPacket(n, k, h) \in Commits
<1>1. Hvi(DHPartPacket("DHPart2", n), h) \in [dhPart2 : DHParts("DHPart2"), hello : Hellos]
  BY DHPartPacketType DEF Hvi
<1>2. n \in Identity /\ "intact" \in Mark
  BY InfoFacts DEF Mark
<1> QED
  BY <1>1, <1>2, AlgorithmAssumption DEF CommitPacket, Commits

LEMMA ConfirmPacketType ==
    ASSUME NEW n \in Node, NEW t, NEW role, NEW s0 \in Keys
    PROVE  ConfirmPacket(t, n, role, s0) \in Confirms(t)
<1>1. /\ macKey(s0, role, TRUE) \in DerivedKeys(Keys)
      /\ zrtpKey(s0, role, TRUE) \in DerivedKeys(Keys)
  BY DEF macKey, zrtpKey, KeySide, kdf, DerivedKeys, Label, Role
<1> QED
  BY <1>1, InfoFacts DEF ConfirmPacket, Confirms, Mark

LEMMA ErrorPacketType ==
    ASSUME NEW n \in Node, NEW code \in ErrorCode
    PROVE  ErrorPacket(n, code) \in Errors
BY InfoFacts DEF ErrorPacket, Errors, Mark

LEMMA MarkedPacket ==
    ASSUME NEW m \in Packets, NEW mark \in Mark
    PROVE  [m EXCEPT !.mark = mark] \in Packets
BY DEF Packets, Hellos, Commits, DHParts, Confirms, Errors, Acks

(* Only a Hello and a Commit have fields of which another value is told.   *)
LEMMA GarbledPacket ==
    ASSUME NEW m \in Packets, NEW p \in Garbled(m)
    PROVE  p \in Packets
<1>1. CASE p = m
  BY <1>1
<1>2. CASE m.type = "Hello" /\ p \in OtherHellos(m)
  <2>1. m \in Hellos
    BY <1>2 DEF Packets, Hellos, Commits, DHParts, Confirms, Errors, Acks
  <2>2. \A v \in OtherVersions : [m EXCEPT !.version = v] \in Hellos
    BY <2>1, FaultAssumption DEF Hellos
  <2>3. \A types \in OtherTypes : [m EXCEPT !.keyAgreementTypes = types] \in Hellos
    BY <2>1, FaultAssumption DEF Hellos
  <2> QED
    BY <1>2, <2>2, <2>3 DEF OtherHellos, Packets
<1>3. CASE m.type = "Commit" /\ p \in OtherCommits(m)
  <2>1. m \in Commits
    BY <1>3 DEF Packets, Hellos, Commits, DHParts, Confirms, Errors, Acks
  <2>2. \A i \in Identity : [m EXCEPT !.hvi.dhPart2.src = i] \in Commits
    BY <2>1 DEF Commits, DHParts
  <2>3. \A a \in Algorithm : /\ [m EXCEPT !.hash = a] \in Commits
                             /\ [m EXCEPT !.cipher = a] \in Commits
                             /\ [m EXCEPT !.authTag = a] \in Commits
                             /\ [m EXCEPT !.keyAgreement = a] \in Commits
                             /\ [m EXCEPT !.sas = a] \in Commits
    BY <2>1 DEF Commits
  <2>4. \/ \E i \in Identity : p = [m EXCEPT !.hvi.dhPart2.src = i]
        \/ \E a \in Algorithm : \/ p = [m EXCEPT !.hash = a]
                                \/ p = [m EXCEPT !.cipher = a]
                                \/ p = [m EXCEPT !.authTag = a]
                                \/ p = [m EXCEPT !.keyAgreement = a]
                                \/ p = [m EXCEPT !.sas = a]
    BY <1>3, FaultAssumption, Zenon DEF OtherCommits
  <2>5. p \in Commits
    BY <2>2, <2>3, <2>4, Zenon
  <2> QED
    BY <2>5 DEF Packets
<1> QED
  BY <1>1, <1>2, <1>3 DEF Garbled

LEMMA DamagedPacket ==
    ASSUME NEW m \in Packets, NEW mark \in Damages, NEW p \in Damaged(m, mark)
    PROVE  p \in Packets
<1>1. mark \in Mark
  BY FaultAssumption
<1>2. PICK q \in Packets : p = [q EXCEPT !.mark = mark]
  BY GarbledPacket DEF Damaged
<1> QED
  BY <1>1, <1>2, MarkedPacket

(* Every check of a handler yields an error code or "none". *)
LEMMA CheckCodes ==
    ASSUME NEW n, NEW m, NEW part
    PROVE  /\ HelloCheck(n, m) \in ErrorCode \cup {"none"}
           /\ CommitCheck(n, m) \in ErrorCode \cup {"none"}
           /\ DHPart1Check(n, m) \in ErrorCode \cup {"none"}
           /\ DHPart2Check(n, m) \in ErrorCode \cup {"none"}
           /\ ConfirmCheck(n, m, part) \in ErrorCode \cup {"none"}
           /\ Compatibility(UserInfo[n], m) \in ErrorCode \cup {"none"}
BY DEF HelloCheck, CommitCheck, DHPart1Check, DHPart2Check, ConfirmCheck, Compatibility,
       ErrorCode

(* A packet that passed a check was parsed to the end. *)
LEMMA CheckedIsParsed ==
    ASSUME NEW n, NEW m, NEW part,
           \/ HelloCheck(n, m) = "none" \/ CommitCheck(n, m) = "none"
           \/ DHPart1Check(n, m) = "none" \/ DHPart2Check(n, m) = "none"
           \/ ConfirmCheck(n, m, part) = "none"
    PROVE  ~ Malformed(m) /\ Parsed(m) = m
BY DEF HelloCheck, CommitCheck, DHPart1Check, DHPart2Check, ConfirmCheck, Malformed,
   Parsed

(* What a received packet can be stored as. *)
LEMMA Received ==
    ASSUME TypeOK, NEW n \in Node, NEW m \in net[n]
    PROVE  /\ m \in Packets
           /\ m.type = "Hello" => m \in Hellos /\ Parsed(m) \in Hellos \cup {Blank}
           /\ m.type = "Commit" => m \in Commits /\ Parsed(m) \in Commits \cup {Blank}
           /\ \A t \in {"DHPart1", "DHPart2"} : m.type = t
                 => m \in DHParts(t) /\ Parsed(m) \in DHParts(t) \cup {Blank}
           /\ \A t \in {"Confirm1", "Confirm2"} : m.type = t
                 => m \in Confirms(t) /\ Parsed(m) \in Confirms(t) \cup {Blank}
<1>1. m \in Packets
  BY DEF TypeOK, NetworkTyped
<1> QED
  BY <1>1, ByType DEF Parsed

LEMMA ErrorsAreSent ==
    ASSUME NEW n \in Node, NEW code \in ErrorCode
    PROVE  ErrorPacket(n, code) \in Errors /\ ErrorPacket(n, code) \in Packets
BY ErrorPacketType, PacketSets

-----------------------------------------------------------------------------
(* The frame of a handler is always visible from here on. *)
USE DEF IInv, TypeOK, CanProcess, Handling, HandlingTimeout, Goto, Send, ReplyAndKeep,
        timerStart1, timerStart2, cancelTimer, sendError, helloVars, packetVars,
        timerVars, outcomeVars, IsInitiator, IsResponder, Resending, States

LEMMA ReplyTyped ==
    ASSUME NetworkTyped, NEW n \in Node, NEW m, NEW packets \in SUBSET Packets,
           Reply(n, m, packets), UNCHANGED <<expired, faults>>
    PROVE  NetworkTyped'
BY InfoFacts DEF NetworkTyped, Reply

LEMMA HelloAckKeeps ==
    ASSUME IInv, NEW n \in Node, ProcessHelloAck(n)
    PROVE  IInv'
<1>1. ASSUME NEW m \in net[n], RejectHelloAck(n, m)
      PROVE  IInv'
  <2>1. /\ ErrorPacket(n, "MalformedPacket") \in Errors
        /\ ErrorPacket(n, "MalformedPacket") \in Packets
    BY <1>1, ErrorsAreSent DEF ErrorCode
  <2>2. TypeOK'
    <3>1. PacketsTyped'
      BY <1>1, <2>1, Received, InfoFacts DEF PacketsTyped, NetworkTyped, RejectHelloAck
    <3>2. EngineTyped'
      BY <1>1, <2>1, Received, InfoFacts DEF EngineTyped, RejectHelloAck
    <3>3. NetworkTyped'
      BY <1>1, <2>1, PacketSets, ReplyTyped DEF PacketsTyped, RejectHelloAck
    <3> QED
      BY <3>1, <3>2, <3>3 DEF TypeOK
  <2>3. PacketsReady'
    BY <1>1, <2>1, Received, AlgorithmAssumption
       DEF PacketsTyped, EngineTyped, PacketsReady, HasPackets, RejectHelloAck
  <2>4. VersionsSettled' /\ ResendLive'
    BY <1>1, <2>1, Received
       DEF PacketsTyped, EngineTyped, VersionsSettled, ResendLive, RejectHelloAck
  <2> QED
    BY <2>2, <2>3, <2>4
<1>2. ASSUME NEW m \in net[n], AwaitHello(n, m)
      PROVE  IInv'
  <2>1. TypeOK'
    <3>1. PacketsTyped'
      BY <1>2, Received, InfoFacts
         DEF PacketsTyped, NetworkTyped, AwaitHello, GoodHelloAck
    <3>2. EngineTyped'
      BY <1>2, Received, InfoFacts DEF EngineTyped, AwaitHello, GoodHelloAck
    <3>3. NetworkTyped'
      BY <1>2, PacketSets, ReplyTyped DEF PacketsTyped, AwaitHello, GoodHelloAck
    <3> QED
      BY <3>1, <3>2, <3>3 DEF TypeOK
  <2>2. PacketsReady'
    BY <1>2, Received, AlgorithmAssumption
       DEF PacketsTyped, EngineTyped, PacketsReady, HasPackets, AwaitHello, GoodHelloAck
  <2>3. VersionsSettled' /\ ResendLive'
    BY <1>2, Received
       DEF PacketsTyped, EngineTyped, VersionsSettled, ResendLive, AwaitHello,
           GoodHelloAck
  <2> QED
    BY <2>1, <2>2, <2>3
<1>3. ASSUME NEW m \in net[n], AwaitCommit(n, m)
      PROVE  IInv'
  <2>1. TypeOK'
    <3>1. PacketsTyped'
      BY <1>3, Received, InfoFacts
         DEF PacketsTyped, NetworkTyped, AwaitCommit, GoodHelloAck
    <3>2. EngineTyped'
      BY <1>3, Received, InfoFacts DEF EngineTyped, AwaitCommit, GoodHelloAck
    <3>3. NetworkTyped'
      BY <1>3, PacketSets, ReplyTyped DEF PacketsTyped, AwaitCommit, GoodHelloAck
    <3> QED
      BY <3>1, <3>2, <3>3 DEF TypeOK
  <2>2. PacketsReady'
    BY <1>3, Received, AlgorithmAssumption
       DEF PacketsTyped, EngineTyped, PacketsReady, HasPackets, AwaitCommit,
           GoodHelloAck
  <2>3. VersionsSettled' /\ ResendLive'
    BY <1>3, Received
       DEF PacketsTyped, EngineTyped, VersionsSettled, ResendLive, AwaitCommit,
           GoodHelloAck
  <2> QED
    BY <2>1, <2>2, <2>3
<1>4. ASSUME NEW m \in net[n], CommitNow(n, m)
      PROVE  IInv'
  <2>1. /\ CommitPacket(n, keyAgreement[n], peerHello[n]) \in Commits
        /\ DHPartPacket("DHPart2", n) \in DHParts("DHPart2")
    BY <1>4, AlgorithmAssumption, CommitPacketType, DHPartPacketType
       DEF PacketsTyped, EngineTyped, NetworkTyped, PacketsReady, HasPackets, CommitNow,
           GoodHelloAck
  <2>2. /\ commit'[n] = CommitPacket(n, keyAgreement[n], peerHello[n])
        /\ commit'[n] \in Packets
        /\ dhPart2'[n] = DHPartPacket("DHPart2", n)
    BY <1>4, <2>1, PacketSets
       DEF PacketsTyped, EngineTyped, NetworkTyped, CommitNow, createCommitPacket
  <2>3. TypeOK'
    <3>1. PacketsTyped'
      BY <1>4, <2>1, <2>2, Received, InfoFacts
         DEF PacketsTyped, NetworkTyped, CommitNow, GoodHelloAck, createCommitPacket,
             SendCommit
    <3>2. EngineTyped'
      BY <1>4, <2>1, <2>2, Received, InfoFacts
         DEF EngineTyped, CommitNow, GoodHelloAck, createCommitPacket, SendCommit
    <3>3. NetworkTyped'
      BY <1>4, <2>1, <2>2, PacketSets, ReplyTyped
         DEF PacketsTyped, CommitNow, GoodHelloAck, createCommitPacket, SendCommit
    <3> QED
      BY <3>1, <3>2, <3>3 DEF TypeOK
  <2>4. PacketsReady'
    <3>1. HasPackets(n)'
      BY <1>4, <2>1, <2>2, Received, AlgorithmAssumption
         DEF PacketsReady, PacketsTyped, EngineTyped, HasPackets, CommitNow,
             GoodHelloAck, createCommitPacket, SendCommit
    <3>2. ASSUME NEW k \in Node, k # n PROVE HasPackets(k)'
      BY <1>4, <3>2
         DEF PacketsReady, PacketsTyped, EngineTyped, HasPackets, CommitNow,
             GoodHelloAck, createCommitPacket, SendCommit
    <3> QED
      BY <3>1, <3>2 DEF PacketsReady
  <2>5. VersionsSettled' /\ ResendLive'
    BY <1>4, <2>1, <2>2, Received
       DEF PacketsTyped, EngineTyped, VersionsSettled, ResendLive, CommitNow,
           GoodHelloAck, createCommitPacket, SendCommit
  <2> QED
    BY <2>3, <2>4, <2>5
<1> QED
  BY <1>1, <1>2, <1>3, <1>4 DEF ProcessHelloAck

LEMMA HelloKeeps ==
    ASSUME IInv, NEW n \in Node, ProcessHello(n)
    PROVE  IInv'
<1>1. ASSUME NEW m \in net[n], RejectHello(n, m)
      PROVE  IInv'
  <2>1. /\ ErrorPacket(n, HelloCheck(n, m)) \in Errors
        /\ ErrorPacket(n, HelloCheck(n, m)) \in Packets
    BY <1>1, CheckCodes, ErrorsAreSent DEF RejectHello
  <2>2. TypeOK'
    <3>1. PacketsTyped'
      BY <1>1, <2>1, Received, InfoFacts DEF PacketsTyped, NetworkTyped, RejectHello
    <3>2. EngineTyped'
      BY <1>1, <2>1, Received, InfoFacts DEF EngineTyped, RejectHello
    <3>3. NetworkTyped'
      BY <1>1, <2>1, PacketSets, ReplyTyped DEF PacketsTyped, RejectHello
    <3> QED
      BY <3>1, <3>2, <3>3 DEF TypeOK
  <2>3. PacketsReady'
    BY <1>1, <2>1, Received, AlgorithmAssumption
       DEF PacketsTyped, EngineTyped, PacketsReady, HasPackets, RejectHello
  <2>4. VersionsSettled' /\ ResendLive'
    BY <1>1, <2>1, Received
       DEF PacketsTyped, EngineTyped, VersionsSettled, ResendLive, RejectHello
  <2> QED
    BY <2>2, <2>3, <2>4
<1>2. ASSUME NEW m \in net[n], AcceptHello(n, m)
      PROVE  IInv'
  <2>1. chooseAlgorithm(MyTypes(n), m.keyAgreementTypes) \in Algorithm
    BY <1>2, Received, HelloFacts, InfoFacts, ChosenTypeIsCommon
       DEF PacketsTyped, EngineTyped, NetworkTyped, AcceptHello, NewHello, ChooseType
  <2>2. TypeOK'
    <3>1. PacketsTyped'
      BY <1>2, <2>1, Received, InfoFacts
         DEF PacketsTyped, NetworkTyped, AcceptHello, NewHello, ChooseType
    <3>2. EngineTyped'
      BY <1>2, <2>1, Received, InfoFacts
         DEF EngineTyped, AcceptHello, NewHello, ChooseType
    <3>3. NetworkTyped'
      BY <1>2, <2>1, PacketSets, ReplyTyped
         DEF PacketsTyped, AcceptHello, NewHello, ChooseType
    <3> QED
      BY <3>1, <3>2, <3>3 DEF TypeOK
  <2>3. PacketsReady'
    BY <1>2, <2>1, Received, AlgorithmAssumption
       DEF PacketsTyped, EngineTyped, PacketsReady, HasPackets, AcceptHello, NewHello,
           ChooseType
  <2>4. VersionsSettled' /\ ResendLive'
    BY <1>2, <2>1, Received
       DEF PacketsTyped, EngineTyped, VersionsSettled, ResendLive, AcceptHello,
           NewHello, ChooseType
  <2> QED
    BY <2>2, <2>3, <2>4
<1>3. ASSUME NEW m \in net[n], AcceptHelloAsResponder(n, m)
      PROVE  IInv'
  <2>1. chooseAlgorithm(MyTypes(n), m.keyAgreementTypes) \in Algorithm
    BY <1>3, Received, HelloFacts, InfoFacts, ChosenTypeIsCommon
       DEF PacketsTyped, EngineTyped, NetworkTyped, AcceptHelloAsResponder, NewHello,
           ChooseType
  <2>2. TypeOK'
    <3>1. PacketsTyped'
      BY <1>3, <2>1, Received, InfoFacts
         DEF PacketsTyped, NetworkTyped, AcceptHelloAsResponder, NewHello, ChooseType
    <3>2. EngineTyped'
      BY <1>3, <2>1, Received, InfoFacts
         DEF EngineTyped, AcceptHelloAsResponder, NewHello, ChooseType
    <3>3. NetworkTyped'
      BY <1>3, <2>1, PacketSets, ReplyTyped
         DEF PacketsTyped, AcceptHelloAsResponder, NewHello, ChooseType
    <3> QED
      BY <3>1, <3>2, <3>3 DEF TypeOK
  <2>3. PacketsReady'
    <3>1. HasPackets(n)'
      BY <1>3, <2>1, Received, AlgorithmAssumption
         DEF PacketsReady, PacketsTyped, EngineTyped, HasPackets,
             AcceptHelloAsResponder, NewHello, ChooseType
    <3>2. ASSUME NEW k \in Node, k # n PROVE HasPackets(k)'
      BY <1>3, <3>2
         DEF PacketsReady, PacketsTyped, EngineTyped, HasPackets,
             AcceptHelloAsResponder, NewHello, ChooseType
    <3> QED
      BY <3>1, <3>2 DEF PacketsReady
  <2>4. VersionsSettled' /\ ResendLive'
    BY <1>3, <2>1, Received
       DEF PacketsTyped, EngineTyped, VersionsSettled, ResendLive,
           AcceptHelloAsResponder, NewHello, ChooseType
  <2> QED
    BY <2>2, <2>3, <2>4
<1>4. ASSUME NEW m \in net[n], AcceptHelloAsInitiator(n, m)
      PROVE  IInv'
  <2>1. chooseAlgorithm(MyTypes(n), m.keyAgreementTypes) \in Algorithm
    BY <1>4, Received, HelloFacts, InfoFacts, ChosenTypeIsCommon
       DEF PacketsTyped, EngineTyped, NetworkTyped, AcceptHelloAsInitiator, NewHello,
           ChooseType
  <2>2. /\ CommitPacket(n, keyAgreement'[n], m) \in Commits
        /\ DHPartPacket("DHPart2", n) \in DHParts("DHPart2")
    BY <1>4, <2>1, Received, AlgorithmAssumption, CommitPacketType, DHPartPacketType
       DEF PacketsTyped, EngineTyped, NetworkTyped, PacketsReady, HasPackets,
           AcceptHelloAsInitiator, NewHello, ChooseType
  <2>3. /\ commit'[n] = CommitPacket(n, keyAgreement'[n], m)
        /\ commit'[n] \in Packets
        /\ dhPart2'[n] = DHPartPacket("DHPart2", n)
    BY <1>4, <2>2, PacketSets
       DEF PacketsTyped, EngineTyped, NetworkTyped, AcceptHelloAsInitiator,
           createCommitPacket
  <2>4. TypeOK'
    <3>1. PacketsTyped'
      BY <1>4, <2>1, <2>2, <2>3, Received, InfoFacts
         DEF PacketsTyped, NetworkTyped, AcceptHelloAsInitiator, NewHello, ChooseType,
             createCommitPacket, SendCommit
    <3>2. EngineTyped'
      BY <1>4, <2>1, <2>2, <2>3, Received, InfoFacts
         DEF EngineTyped, AcceptHelloAsInitiator, NewHello, ChooseType,
             createCommitPacket, SendCommit
    <3>3. NetworkTyped'
      BY <1>4, <2>1, <2>2, <2>3, PacketSets, ReplyTyped
         DEF PacketsTyped, AcceptHelloAsInitiator, NewHello, ChooseType,
             createCommitPacket, SendCommit
    <3> QED
      BY <3>1, <3>2, <3>3 DEF TypeOK
  <2>5. PacketsReady'
    <3>1. HasPackets(n)'
      BY <1>4, <2>1, <2>2, <2>3, Received, AlgorithmAssumption
         DEF PacketsReady, PacketsTyped, EngineTyped, HasPackets,
             AcceptHelloAsInitiator, NewHello, ChooseType, createCommitPacket,
             SendCommit
    <3>2. ASSUME NEW k \in Node, k # n PROVE HasPackets(k)'
      BY <1>4, <3>2
         DEF PacketsReady, PacketsTyped, EngineTyped, HasPackets,
             AcceptHelloAsInitiator, NewHello, ChooseType, createCommitPacket,
             SendCommit
    <3> QED
      BY <3>1, <3>2 DEF PacketsReady
  <2>6. VersionsSettled' /\ ResendLive'
    BY <1>4, <2>1, <2>2, <2>3, Received
       DEF PacketsTyped, EngineTyped, VersionsSettled, ResendLive,
           AcceptHelloAsInitiator, NewHello, ChooseType, createCommitPacket, SendCommit
  <2> QED
    BY <2>4, <2>5, <2>6
<1>5. ASSUME NEW m \in net[n], NoCommonType(n, m)
      PROVE  IInv'
  <2>1. /\ ErrorPacket(n, "KeyExchangeNotSupported") \in Errors
        /\ ErrorPacket(n, "KeyExchangeNotSupported") \in Packets
    BY <1>5, ErrorsAreSent DEF ErrorCode
  <2>2. PICK packets \in SUBSET Packets : Reply(n, m, packets)
    BY <1>5, <2>1, PacketSets DEF NoCommonType
  <2>3. UNCHANGED <<expired, faults>>
    BY <1>5 DEF NoCommonType, NewHello
  <2>4. TypeOK'
    <3>1. PacketsTyped'
      BY <1>5, <2>1, <2>2, Received, InfoFacts
         DEF PacketsTyped, NetworkTyped, NoCommonType, NewHello
    <3>2. EngineTyped'
      BY <1>5, <2>1, <2>2, Received, InfoFacts DEF EngineTyped, NoCommonType, NewHello
    <3>3. NetworkTyped'
      BY <2>2, <2>3, ReplyTyped
    <3> QED
      BY <3>1, <3>2, <3>3 DEF TypeOK
  <2>5. PacketsReady'
    BY <1>5, <2>1, <2>2, Received, AlgorithmAssumption
       DEF PacketsTyped, EngineTyped, PacketsReady, HasPackets, NoCommonType, NewHello
  <2>6. VersionsSettled' /\ ResendLive'
    BY <1>5, <2>1, <2>2, Received
       DEF PacketsTyped, EngineTyped, VersionsSettled, ResendLive, NoCommonType,
           NewHello
  <2> QED
    BY <2>4, <2>5, <2>6
<1>6. ASSUME NEW m \in net[n], NegotiateVersion(n, m)
      PROVE  IInv'
  <2>1. /\ m \in Hellos
        /\ LowerVersions(Info1(n), versions[n], m.version) \in SUBSET versions[n]
    BY <1>6, Received, HelloFacts, InfoFacts, LowerVersionsKeeps
       DEF PacketsTyped, EngineTyped, NetworkTyped, NegotiateVersion, NewHello
  <2>2. hello'[n] \in Hellos /\ hello'[n] \in Packets
    BY <1>6, <2>1, InfoFacts, HighestVersion, HelloPacketType, PacketSets
       DEF PacketsTyped, EngineTyped, NetworkTyped, NegotiateVersion, compareVersions
  <2>3. /\ versions' = [versions EXCEPT
                            ![n] = LowerVersions(Info1(n), versions[n], m.version)]
        /\ hello' = [hello EXCEPT ![n] = hello'[n]]
        /\ keyAgreement' = keyAgreement
    BY <1>6
       DEF PacketsTyped, EngineTyped, NetworkTyped, NegotiateVersion, compareVersions
  <2>4. TypeOK'
    <3>1. PacketsTyped'
      BY <1>6, <2>1, <2>2, <2>3, Received, InfoFacts
         DEF PacketsTyped, NetworkTyped, NegotiateVersion, NewHello
    <3>2. EngineTyped'
      BY <1>6, <2>1, <2>2, <2>3, Received, InfoFacts
         DEF EngineTyped, NegotiateVersion, NewHello
    <3>3. NetworkTyped'
      BY <1>6, <2>1, <2>2, <2>3, PacketSets, ReplyTyped
         DEF PacketsTyped, NegotiateVersion, NewHello
    <3> QED
      BY <3>1, <3>2, <3>3 DEF TypeOK
  <2>5. PacketsReady'
    BY <1>6, <2>1, <2>2, <2>3, Received, AlgorithmAssumption
       DEF PacketsTyped, EngineTyped, PacketsReady, HasPackets, NegotiateVersion,
           NewHello
  <2>6. VersionsSettled' /\ ResendLive'
    BY <1>6, <2>1, <2>2, <2>3, Received
       DEF PacketsTyped, EngineTyped, VersionsSettled, ResendLive, NegotiateVersion,
           NewHello
  <2> QED
    BY <2>4, <2>5, <2>6
<1>7. ASSUME NEW m \in net[n], RefuseVersion(n, m)
      PROVE  IInv'
  <2>1. /\ m \in Hellos
        /\ LowerVersions(Info1(n), versions[n], m.version) \in SUBSET versions[n]
    BY <1>7, Received, HelloFacts, InfoFacts, LowerVersionsKeeps
       DEF PacketsTyped, EngineTyped, NetworkTyped, RefuseVersion, NewHello
  <2>2. hello'[n] \in Hellos /\ hello'[n] \in Packets
    BY <1>7, <2>1, InfoFacts, HighestVersion, HelloPacketType, PacketSets
       DEF PacketsTyped, EngineTyped, NetworkTyped, RefuseVersion, compareVersions
  <2>3. /\ versions' = [versions EXCEPT
                            ![n] = LowerVersions(Info1(n), versions[n], m.version)]
        /\ hello' = [hello EXCEPT ![n] = hello'[n]]
        /\ keyAgreement' = keyAgreement
    BY <1>7 DEF PacketsTyped, EngineTyped, NetworkTyped, RefuseVersion, compareVersions
  <2>4. /\ ErrorPacket(n, "UnsupportedVersion") \in Errors
        /\ ErrorPacket(n, "UnsupportedVersion") \in Packets
    BY <1>7, ErrorsAreSent DEF ErrorCode
  <2>5. TypeOK'
    <3>1. PacketsTyped'
      BY <1>7, <2>1, <2>2, <2>3, <2>4, Received, InfoFacts
         DEF PacketsTyped, NetworkTyped, RefuseVersion, NewHello
    <3>2. EngineTyped'
      BY <1>7, <2>1, <2>2, <2>3, <2>4, Received, InfoFacts
         DEF EngineTyped, RefuseVersion, NewHello
    <3>3. NetworkTyped'
      BY <1>7, <2>1, <2>2, <2>3, <2>4, PacketSets, ReplyTyped
         DEF PacketsTyped, RefuseVersion, NewHello
    <3> QED
      BY <3>1, <3>2, <3>3 DEF TypeOK
  <2>6. PacketsReady'
    <3>1. HasPackets(n)'
      BY <1>7, <2>1, <2>2, <2>3, <2>4, Received, AlgorithmAssumption
         DEF PacketsReady, PacketsTyped, EngineTyped, HasPackets, RefuseVersion,
             NewHello
    <3>2. ASSUME NEW k \in Node, k # n PROVE HasPackets(k)'
      BY <1>7, <2>3, <3>2
         DEF PacketsReady, PacketsTyped, EngineTyped, HasPackets, RefuseVersion,
             NewHello
    <3> QED
      BY <3>1, <3>2 DEF PacketsReady
  <2>7. VersionsSettled' /\ ResendLive'
    BY <1>7, <2>1, <2>2, <2>3, <2>4, Received
       DEF PacketsTyped, EngineTyped, VersionsSettled, ResendLive, RefuseVersion,
           NewHello
  <2> QED
    BY <2>5, <2>6, <2>7
<1>8. ASSUME NEW m \in net[n], VersionsExhausted(n, m)
      PROVE  IInv'
  <2>1. TypeOK'
    <3>1. PacketsTyped'
      BY <1>8, Received, InfoFacts DEF PacketsTyped, NetworkTyped, VersionsExhausted
    <3>2. EngineTyped'
      BY <1>8, Received, InfoFacts DEF EngineTyped, VersionsExhausted
    <3>3. NetworkTyped'
      BY <1>8, PacketSets, ReplyTyped DEF PacketsTyped, VersionsExhausted
    <3> QED
      BY <3>1, <3>2, <3>3 DEF TypeOK
  <2>2. PacketsReady'
    BY <1>8, Received, AlgorithmAssumption
       DEF PacketsTyped, EngineTyped, PacketsReady, HasPackets, VersionsExhausted
  <2>3. VersionsSettled' /\ ResendLive'
    BY <1>8, Received
       DEF PacketsTyped, EngineTyped, VersionsSettled, ResendLive, VersionsExhausted
  <2> QED
    BY <2>1, <2>2, <2>3
<1>9. ASSUME NEW m \in net[n], RepeatHelloAck(n, m)
      PROVE  IInv'
  <2>1. SameVersion(Info1(n), versions[n], peerHello[n].version)
    BY <1>9 DEF VersionsSettled, RepeatHelloAck
  <2>2. /\ Handling(n, {"SentHelloAck", "WaitCommit"}) /\ Reply(n, m, {HelloAck})
        /\ UNCHANGED <<actualState, myRole, versions, hello, peerHello, keyAgreement,
                       packetVars, error, keys, sentMessage, timerVars, locked, outcomeVars>>
    BY <1>9, <2>1 DEF RepeatHelloAck
  <2>3. TypeOK'
    <3>1. PacketsTyped'
      BY <2>1, <2>2, Received, InfoFacts DEF PacketsTyped, NetworkTyped, States
    <3>2. EngineTyped'
      BY <2>1, <2>2, Received, InfoFacts DEF EngineTyped, States
    <3>3. NetworkTyped'
      BY <2>1, <2>2, PacketSets, ReplyTyped DEF PacketsTyped, States
    <3> QED
      BY <3>1, <3>2, <3>3 DEF TypeOK
  <2>4. PacketsReady'
    BY <2>1, <2>2, Received, AlgorithmAssumption
       DEF PacketsTyped, EngineTyped, PacketsReady, HasPackets, States
  <2>5. VersionsSettled' /\ ResendLive'
    BY <2>1, <2>2, Received
       DEF PacketsTyped, EngineTyped, VersionsSettled, ResendLive, States
  <2> QED
    BY <2>3, <2>4, <2>5
<1> QED
  BY <1>1, <1>2, <1>3, <1>4, <1>5, <1>6, <1>7, <1>8, <1>9 DEF ProcessHello

LEMMA CommitKeeps ==
    ASSUME IInv, NEW n \in Node, ProcessCommit(n)
    PROVE  IInv'
<1>1. ASSUME NEW m \in net[n], RejectCommit(n, m)
      PROVE  IInv'
  <2>1. /\ ErrorPacket(n, CommitCheck(n, m)) \in Errors
        /\ ErrorPacket(n, CommitCheck(n, m)) \in Packets
    BY <1>1, CheckCodes, ErrorsAreSent DEF RejectCommit
  <2>2. TypeOK'
    <3>1. PacketsTyped'
      BY <1>1, <2>1, Received, InfoFacts
         DEF PacketsTyped, NetworkTyped, RejectCommit, CommitToResponder
    <3>2. EngineTyped'
      BY <1>1, <2>1, Received, InfoFacts
         DEF EngineTyped, RejectCommit, CommitToResponder
    <3>3. NetworkTyped'
      BY <1>1, <2>1, PacketSets, ReplyTyped
         DEF PacketsTyped, RejectCommit, CommitToResponder
    <3> QED
      BY <3>1, <3>2, <3>3 DEF TypeOK
  <2>3. PacketsReady'
    BY <1>1, <2>1, Received, AlgorithmAssumption
       DEF PacketsTyped, EngineTyped, PacketsReady, HasPackets, RejectCommit,
           CommitToResponder
  <2>4. VersionsSettled' /\ ResendLive'
    BY <1>1, <2>1, Received
       DEF PacketsTyped, EngineTyped, VersionsSettled, ResendLive, RejectCommit,
           CommitToResponder
  <2> QED
    BY <2>2, <2>3, <2>4
<1>2. ASSUME NEW m \in net[n], RejectRivalCommit(n, m)
      PROVE  IInv'
  <2>1. /\ ErrorPacket(n, CommitCheck(n, m)) \in Errors
        /\ ErrorPacket(n, CommitCheck(n, m)) \in Packets
    BY <1>2, CheckCodes, ErrorsAreSent DEF RejectRivalCommit
  <2>2. OwnCommit(n) \in Commits /\ OwnDHPart2(n) \in DHParts("DHPart2")
    BY <1>2, AlgorithmAssumption, CommitPacketType, DHPartPacketType
       DEF PacketsTyped, EngineTyped, NetworkTyped, PacketsReady, HasPackets,
           RejectRivalCommit, CommitToInitiator, OwnCommit, OwnDHPart2
  <2>3. TypeOK'
    <3>1. PacketsTyped'
      BY <1>2, <2>1, <2>2, Received, InfoFacts
         DEF PacketsTyped, NetworkTyped, RejectRivalCommit, CommitToInitiator
    <3>2. EngineTyped'
      BY <1>2, <2>1, <2>2, Received, InfoFacts
         DEF EngineTyped, RejectRivalCommit, CommitToInitiator
    <3>3. NetworkTyped'
      BY <1>2, <2>1, <2>2, PacketSets, ReplyTyped
         DEF PacketsTyped, RejectRivalCommit, CommitToInitiator
    <3> QED
      BY <3>1, <3>2, <3>3 DEF TypeOK
  <2>4. PacketsReady'
    BY <1>2, <2>1, <2>2, Received, AlgorithmAssumption
       DEF PacketsTyped, EngineTyped, PacketsReady, HasPackets, RejectRivalCommit,
           CommitToInitiator
  <2>5. VersionsSettled' /\ ResendLive'
    BY <1>2, <2>1, <2>2, Received
       DEF PacketsTyped, EngineTyped, VersionsSettled, ResendLive, RejectRivalCommit,
           CommitToInitiator
  <2> QED
    BY <2>3, <2>4, <2>5
<1>3. ASSUME NEW m \in net[n], AcceptCommit(n, m)
      PROVE  IInv'
  <2>1. m.keyAgreement \in Algorithm
    BY <1>3, Received DEF AcceptCommit, CommitToResponder, Commits
  <2>2. /\ DHPartPacket("DHPart1", n) \in DHParts("DHPart1")
        /\ DHPartPacket("DHPart1", n) \in Packets
    BY <1>3, DHPartPacketType, PacketSets DEF DHParts
  <2>3. TypeOK'
    <3>1. PacketsTyped'
      BY <1>3, <2>1, <2>2, Received, InfoFacts
         DEF PacketsTyped, NetworkTyped, AcceptCommit, CommitToResponder, AnswerCommit
    <3>2. EngineTyped'
      BY <1>3, <2>1, <2>2, Received, InfoFacts
         DEF EngineTyped, AcceptCommit, CommitToResponder, AnswerCommit
    <3>3. NetworkTyped'
      BY <1>3, <2>1, <2>2, PacketSets, ReplyTyped
         DEF PacketsTyped, AcceptCommit, CommitToResponder, AnswerCommit
    <3> QED
      BY <3>1, <3>2, <3>3 DEF TypeOK
  <2>4. PacketsReady'
    <3>1. HasPackets(n)'
      BY <1>3, <2>1, <2>2, Received, AlgorithmAssumption
         DEF PacketsReady, PacketsTyped, EngineTyped, HasPackets, AcceptCommit,
             CommitToResponder, AnswerCommit
    <3>2. ASSUME NEW k \in Node, k # n PROVE HasPackets(k)'
      BY <1>3, <3>2
         DEF PacketsReady, PacketsTyped, EngineTyped, HasPackets, AcceptCommit,
             CommitToResponder, AnswerCommit
    <3> QED
      BY <3>1, <3>2 DEF PacketsReady
  <2>5. VersionsSettled' /\ ResendLive'
    BY <1>3, <2>1, <2>2, Received
       DEF PacketsTyped, EngineTyped, VersionsSettled, ResendLive, AcceptCommit,
           CommitToResponder, AnswerCommit
  <2> QED
    BY <2>3, <2>4, <2>5
<1>4. ASSUME NEW m \in net[n], RefuseCommit(n, m)
      PROVE  IInv'
  <2>1. m.keyAgreement \in Algorithm
    BY <1>4, Received DEF RefuseCommit, CommitToResponder, Commits
  <2>2. /\ ErrorPacket(n, Compatibility(UserInfo[n], m)) \in Errors
        /\ ErrorPacket(n, Compatibility(UserInfo[n], m)) \in Packets
    BY <1>4, CheckCodes, ErrorsAreSent DEF RefuseCommit
  <2>3. TypeOK'
    <3>1. PacketsTyped'
      BY <1>4, <2>1, <2>2, Received, InfoFacts
         DEF PacketsTyped, NetworkTyped, RefuseCommit, CommitToResponder, AnswerCommit
    <3>2. EngineTyped'
      BY <1>4, <2>1, <2>2, Received, InfoFacts
         DEF EngineTyped, RefuseCommit, CommitToResponder, AnswerCommit
    <3>3. NetworkTyped'
      BY <1>4, <2>1, <2>2, PacketSets, ReplyTyped
         DEF PacketsTyped, RefuseCommit, CommitToResponder, AnswerCommit
    <3> QED
      BY <3>1, <3>2, <3>3 DEF TypeOK
  <2>4. PacketsReady'
    BY <1>4, <2>1, <2>2, Received, AlgorithmAssumption
       DEF PacketsTyped, EngineTyped, PacketsReady, HasPackets, RefuseCommit,
           CommitToResponder, AnswerCommit
  <2>5. VersionsSettled' /\ ResendLive'
    BY <1>4, <2>1, <2>2, Received
       DEF PacketsTyped, EngineTyped, VersionsSettled, ResendLive, RefuseCommit,
           CommitToResponder, AnswerCommit
  <2> QED
    BY <2>3, <2>4, <2>5
<1>5. ASSUME NEW m \in net[n], WinContention(n, m)
      PROVE  IInv'
  <2>1. /\ CommitPacket(n, keyAgreement[n], peerHello[n]) \in Commits
        /\ DHPartPacket("DHPart2", n) \in DHParts("DHPart2")
    BY <1>5, AlgorithmAssumption, CommitPacketType, DHPartPacketType
       DEF PacketsTyped, EngineTyped, NetworkTyped, PacketsReady, HasPackets,
           WinContention, CommitToInitiator
  <2>2. /\ commit'[n] = CommitPacket(n, keyAgreement[n], peerHello[n])
        /\ commit'[n] \in Packets
        /\ dhPart2'[n] = DHPartPacket("DHPart2", n)
    BY <1>5, <2>1, PacketSets
       DEF PacketsTyped, EngineTyped, NetworkTyped, WinContention, createCommitPacket
  <2>3. TypeOK'
    <3>1. PacketsTyped'
      BY <1>5, <2>1, <2>2, Received, InfoFacts
         DEF PacketsTyped, NetworkTyped, WinContention, CommitToInitiator,
             createCommitPacket, SendCommit
    <3>2. EngineTyped'
      BY <1>5, <2>1, <2>2, Received, InfoFacts
         DEF EngineTyped, WinContention, CommitToInitiator, createCommitPacket,
             SendCommit
    <3>3. NetworkTyped'
      BY <1>5, <2>1, <2>2, PacketSets, ReplyTyped
         DEF PacketsTyped, WinContention, CommitToInitiator, createCommitPacket,
             SendCommit
    <3> QED
      BY <3>1, <3>2, <3>3 DEF TypeOK
  <2>4. PacketsReady'
    <3>1. HasPackets(n)'
      BY <1>5, <2>1, <2>2, Received, AlgorithmAssumption
         DEF PacketsReady, PacketsTyped, EngineTyped, HasPackets, WinContention,
             CommitToInitiator, createCommitPacket, SendCommit
    <3>2. ASSUME NEW k \in Node, k # n PROVE HasPackets(k)'
      BY <1>5, <3>2
         DEF PacketsReady, PacketsTyped, EngineTyped, HasPackets, WinContention,
             CommitToInitiator, createCommitPacket, SendCommit
    <3> QED
      BY <3>1, <3>2 DEF PacketsReady
  <2>5. VersionsSettled' /\ ResendLive'
    BY <1>5, <2>1, <2>2, Received
       DEF PacketsTyped, EngineTyped, VersionsSettled, ResendLive, WinContention,
           CommitToInitiator, createCommitPacket, SendCommit
  <2> QED
    BY <2>3, <2>4, <2>5
<1>6. ASSUME NEW m \in net[n], KeepCommit(n, m)
      PROVE  IInv'
  <2>1. TypeOK'
    <3>1. PacketsTyped'
      BY <1>6, Received, InfoFacts
         DEF PacketsTyped, NetworkTyped, KeepCommit, CommitToInitiator
    <3>2. EngineTyped'
      BY <1>6, Received, InfoFacts DEF EngineTyped, KeepCommit, CommitToInitiator
    <3>3. NetworkTyped'
      BY <1>6, PacketSets, ReplyTyped DEF PacketsTyped, KeepCommit, CommitToInitiator
    <3> QED
      BY <3>1, <3>2, <3>3 DEF TypeOK
  <2>2. PacketsReady'
    BY <1>6, Received, AlgorithmAssumption
       DEF PacketsTyped, EngineTyped, PacketsReady, HasPackets, KeepCommit,
           CommitToInitiator
  <2>3. VersionsSettled' /\ ResendLive'
    BY <1>6, Received
       DEF PacketsTyped, EngineTyped, VersionsSettled, ResendLive, KeepCommit,
           CommitToInitiator
  <2> QED
    BY <2>1, <2>2, <2>3
<1>7. ASSUME NEW m \in net[n], YieldContention(n, m)
      PROVE  IInv'
  <2>1. m.keyAgreement \in Algorithm
    BY <1>7, Received DEF YieldContention, Yield, CommitToInitiator, Commits
  <2>2. /\ DHPartPacket("DHPart1", n) \in DHParts("DHPart1")
        /\ DHPartPacket("DHPart1", n) \in Packets
    BY <1>7, DHPartPacketType, PacketSets DEF DHParts
  <2>3. TypeOK'
    <3>1. PacketsTyped'
      BY <1>7, <2>1, <2>2, Received, InfoFacts
         DEF PacketsTyped, NetworkTyped, YieldContention, Yield, CommitToInitiator,
             AnswerCommit
    <3>2. EngineTyped'
      BY <1>7, <2>1, <2>2, Received, InfoFacts
         DEF EngineTyped, YieldContention, Yield, CommitToInitiator, AnswerCommit
    <3>3. NetworkTyped'
      BY <1>7, <2>1, <2>2, PacketSets, ReplyTyped
         DEF PacketsTyped, YieldContention, Yield, CommitToInitiator, AnswerCommit
    <3> QED
      BY <3>1, <3>2, <3>3 DEF TypeOK
  <2>4. PacketsReady'
    <3>1. HasPackets(n)'
      BY <1>7, <2>1, <2>2, Received, AlgorithmAssumption
         DEF PacketsReady, PacketsTyped, EngineTyped, HasPackets, YieldContention,
             Yield, CommitToInitiator, AnswerCommit
    <3>2. ASSUME NEW k \in Node, k # n PROVE HasPackets(k)'
      BY <1>7, <3>2
         DEF PacketsReady, PacketsTyped, EngineTyped, HasPackets, YieldContention,
             Yield, CommitToInitiator, AnswerCommit
    <3> QED
      BY <3>1, <3>2 DEF PacketsReady
  <2>5. VersionsSettled' /\ ResendLive'
    BY <1>7, <2>1, <2>2, Received
       DEF PacketsTyped, EngineTyped, VersionsSettled, ResendLive, YieldContention,
           Yield, CommitToInitiator, AnswerCommit
  <2> QED
    BY <2>3, <2>4, <2>5
<1>8. ASSUME NEW m \in net[n], YieldAndRefuse(n, m)
      PROVE  IInv'
  <2>1. m.keyAgreement \in Algorithm
    BY <1>8, Received DEF YieldAndRefuse, Yield, CommitToInitiator, Commits
  <2>2. /\ ErrorPacket(n, Compatibility(UserInfo[n], m)) \in Errors
        /\ ErrorPacket(n, Compatibility(UserInfo[n], m)) \in Packets
    BY <1>8, CheckCodes, ErrorsAreSent DEF YieldAndRefuse
  <2>3. TypeOK'
    <3>1. PacketsTyped'
      BY <1>8, <2>1, <2>2, Received, InfoFacts
         DEF PacketsTyped, NetworkTyped, YieldAndRefuse, Yield, CommitToInitiator,
             AnswerCommit
    <3>2. EngineTyped'
      BY <1>8, <2>1, <2>2, Received, InfoFacts
         DEF EngineTyped, YieldAndRefuse, Yield, CommitToInitiator, AnswerCommit
    <3>3. NetworkTyped'
      BY <1>8, <2>1, <2>2, PacketSets, ReplyTyped
         DEF PacketsTyped, YieldAndRefuse, Yield, CommitToInitiator, AnswerCommit
    <3> QED
      BY <3>1, <3>2, <3>3 DEF TypeOK
  <2>4. PacketsReady'
    <3>1. HasPackets(n)'
      BY <1>8, <2>1, <2>2, Received, AlgorithmAssumption
         DEF PacketsReady, PacketsTyped, EngineTyped, HasPackets, YieldAndRefuse,
             Yield, CommitToInitiator, AnswerCommit
    <3>2. ASSUME NEW k \in Node, k # n PROVE HasPackets(k)'
      BY <1>8, <3>2
         DEF PacketsReady, PacketsTyped, EngineTyped, HasPackets, YieldAndRefuse,
             Yield, CommitToInitiator, AnswerCommit
    <3> QED
      BY <3>1, <3>2 DEF PacketsReady
  <2>5. VersionsSettled' /\ ResendLive'
    BY <1>8, <2>1, <2>2, Received
       DEF PacketsTyped, EngineTyped, VersionsSettled, ResendLive, YieldAndRefuse,
           Yield, CommitToInitiator, AnswerCommit
  <2> QED
    BY <2>3, <2>4, <2>5
<1>9. ASSUME NEW m \in net[n], RepeatDHPart1(n, m)
      PROVE  IInv'
  <2>1. dhPart1[n] \in Packets
    BY <1>9, PacketSets DEF PacketsReady, HasPackets, RepeatDHPart1
  <2>2. TypeOK'
    <3>1. PacketsTyped'
      BY <1>9, <2>1, Received, InfoFacts DEF PacketsTyped, NetworkTyped, RepeatDHPart1
    <3>2. EngineTyped'
      BY <1>9, <2>1, Received, InfoFacts DEF EngineTyped, RepeatDHPart1
    <3>3. NetworkTyped'
      BY <1>9, <2>1, PacketSets, ReplyTyped DEF PacketsTyped, RepeatDHPart1
    <3> QED
      BY <3>1, <3>2, <3>3 DEF TypeOK
  <2>3. PacketsReady'
    BY <1>9, <2>1, Received, AlgorithmAssumption
       DEF PacketsTyped, EngineTyped, PacketsReady, HasPackets, RepeatDHPart1
  <2>4. VersionsSettled' /\ ResendLive'
    BY <1>9, <2>1, Received
       DEF PacketsTyped, EngineTyped, VersionsSettled, ResendLive, RepeatDHPart1
  <2> QED
    BY <2>2, <2>3, <2>4
<1> QED
  BY <1>1, <1>2, <1>3, <1>4, <1>5, <1>6, <1>7, <1>8, <1>9 DEF ProcessCommit

LEMMA DHPartKeeps ==
    ASSUME IInv, NEW n \in Node, ProcessDHPart(n)
    PROVE  IInv'
<1>1. ASSUME NEW m \in net[n], RejectDHPart1(n, m)
      PROVE  IInv'
  <2>1. /\ ErrorPacket(n, DHPart1Check(n, m)) \in Errors
        /\ ErrorPacket(n, DHPart1Check(n, m)) \in Packets
    BY <1>1, CheckCodes, ErrorsAreSent DEF RejectDHPart1
  <2>2. TypeOK'
    <3>1. PacketsTyped'
      BY <1>1, <2>1, Received, InfoFacts
         DEF PacketsTyped, NetworkTyped, RejectDHPart1, ReceiveDHPart1
    <3>2. EngineTyped'
      BY <1>1, <2>1, Received, InfoFacts DEF EngineTyped, RejectDHPart1, ReceiveDHPart1
    <3>3. NetworkTyped'
      BY <1>1, <2>1, PacketSets, ReplyTyped
         DEF PacketsTyped, RejectDHPart1, ReceiveDHPart1
    <3> QED
      BY <3>1, <3>2, <3>3 DEF TypeOK
  <2>3. PacketsReady'
    BY <1>1, <2>1, Received, AlgorithmAssumption
       DEF PacketsTyped, EngineTyped, PacketsReady, HasPackets, RejectDHPart1,
           ReceiveDHPart1
  <2>4. VersionsSettled' /\ ResendLive'
    BY <1>1, <2>1, Received
       DEF PacketsTyped, EngineTyped, VersionsSettled, ResendLive, RejectDHPart1,
           ReceiveDHPart1
  <2> QED
    BY <2>2, <2>3, <2>4
<1>2. ASSUME NEW m \in net[n], AcceptDHPart1(n, m)
      PROVE  IInv'
  <2>1. Parsed(m) = m /\ ~ Malformed(m)
    BY <1>2, CheckedIsParsed DEF AcceptDHPart1, ReceiveDHPart1
  <2>2. /\ peerHello[n] \in Hellos /\ commit[n] \in Commits
        /\ m \in DHParts("DHPart1") /\ dhPart2[n] \in DHParts("DHPart2")
    BY <1>2, Received DEF PacketsReady, HasPackets, AcceptDHPart1, ReceiveDHPart1
  <2>3. m.src \in Identity /\ peerHello[n].src \in Identity /\ n \in Identity
    BY <1>2, <2>2, HelloFacts, InfoFacts DEF DHParts
  <2>4. InitiatorKey(n, m) \in Keys /\ dhPart2[n] \in Packets
    BY <1>2, <2>2, <2>3, PacketSets DEF InitiatorKey, Keys
  <2>5. TypeOK'
    <3>1. PacketsTyped'
      BY <1>2, <2>1, <2>2, <2>3, <2>4, Received, InfoFacts
         DEF PacketsTyped, NetworkTyped, AcceptDHPart1, ReceiveDHPart1
    <3>2. EngineTyped'
      BY <1>2, <2>1, <2>2, <2>3, <2>4, Received, InfoFacts
         DEF EngineTyped, AcceptDHPart1, ReceiveDHPart1
    <3>3. NetworkTyped'
      BY <1>2, <2>1, <2>2, <2>3, <2>4, PacketSets, ReplyTyped
         DEF PacketsTyped, AcceptDHPart1, ReceiveDHPart1
    <3> QED
      BY <3>1, <3>2, <3>3 DEF TypeOK
  <2>6. PacketsReady'
    <3>1. HasPackets(n)'
      BY <1>2, <2>1, <2>2, <2>3, <2>4, Received, AlgorithmAssumption
         DEF PacketsReady, PacketsTyped, EngineTyped, HasPackets, AcceptDHPart1,
             ReceiveDHPart1
    <3>2. ASSUME NEW k \in Node, k # n PROVE HasPackets(k)'
      BY <1>2, <3>2
         DEF PacketsReady, PacketsTyped, EngineTyped, HasPackets, AcceptDHPart1,
             ReceiveDHPart1
    <3> QED
      BY <3>1, <3>2 DEF PacketsReady
  <2>7. VersionsSettled' /\ ResendLive'
    BY <1>2, <2>1, <2>2, <2>3, <2>4, Received
       DEF PacketsTyped, EngineTyped, VersionsSettled, ResendLive, AcceptDHPart1,
           ReceiveDHPart1
  <2> QED
    BY <2>5, <2>6, <2>7
<1>3. ASSUME NEW m \in net[n], RejectDHPart2(n, m)
      PROVE  IInv'
  <2>1. /\ ErrorPacket(n, DHPart2Check(n, m)) \in Errors
        /\ ErrorPacket(n, DHPart2Check(n, m)) \in Packets
    BY <1>3, CheckCodes, ErrorsAreSent DEF RejectDHPart2
  <2>2. TypeOK'
    <3>1. PacketsTyped'
      BY <1>3, <2>1, Received, InfoFacts
         DEF PacketsTyped, NetworkTyped, RejectDHPart2, ReceiveDHPart2
    <3>2. EngineTyped'
      BY <1>3, <2>1, Received, InfoFacts DEF EngineTyped, RejectDHPart2, ReceiveDHPart2
    <3>3. NetworkTyped'
      BY <1>3, <2>1, PacketSets, ReplyTyped
         DEF PacketsTyped, RejectDHPart2, ReceiveDHPart2
    <3> QED
      BY <3>1, <3>2, <3>3 DEF TypeOK
  <2>3. PacketsReady'
    BY <1>3, <2>1, Received, AlgorithmAssumption
       DEF PacketsTyped, EngineTyped, PacketsReady, HasPackets, RejectDHPart2,
           ReceiveDHPart2
  <2>4. VersionsSettled' /\ ResendLive'
    BY <1>3, <2>1, Received
       DEF PacketsTyped, EngineTyped, VersionsSettled, ResendLive, RejectDHPart2,
           ReceiveDHPart2
  <2> QED
    BY <2>2, <2>3, <2>4
<1>4. ASSUME NEW m \in net[n], AcceptDHPart2(n, m)
      PROVE  IInv'
  <2>1. /\ peerHello[n] \in Hellos /\ hello[n] \in Hellos /\ commit[n] \in Commits
        /\ dhPart1[n] \in DHParts("DHPart1") /\ m \in DHParts("DHPart2")
    BY <1>4, Received
       DEF PacketsTyped, PacketsReady, HasPackets, AcceptDHPart2, ReceiveDHPart2
  <2>2. m.src \in Identity /\ peerHello[n].src \in Identity /\ n \in Identity
    BY <1>4, <2>1, HelloFacts, InfoFacts DEF DHParts
  <2>3. ResponderKey(n, m) \in Keys
    BY <1>4, <2>1, <2>2 DEF ResponderKey, Keys
  <2>4. /\ ConfirmPacket("Confirm1", n, myRole[n], ResponderKey(n, m)) \in Confirms("Confirm1")
        /\ ConfirmPacket("Confirm1", n, myRole[n], ResponderKey(n, m)) \in Packets
    BY <1>4, <2>3, ConfirmPacketType, PacketSets DEF Confirms
  <2>5. TypeOK'
    <3>1. PacketsTyped'
      BY <1>4, <2>1, <2>2, <2>3, <2>4, Received, InfoFacts
         DEF PacketsTyped, NetworkTyped, AcceptDHPart2, ReceiveDHPart2
    <3>2. EngineTyped'
      BY <1>4, <2>1, <2>2, <2>3, <2>4, Received, InfoFacts
         DEF EngineTyped, AcceptDHPart2, ReceiveDHPart2
    <3>3. NetworkTyped'
      BY <1>4, <2>1, <2>2, <2>3, <2>4, PacketSets, ReplyTyped
         DEF PacketsTyped, AcceptDHPart2, ReceiveDHPart2
    <3> QED
      BY <3>1, <3>2, <3>3 DEF TypeOK
  <2>6. PacketsReady'
    BY <1>4, <2>1, <2>2, <2>3, <2>4, Received, AlgorithmAssumption
       DEF PacketsTyped, EngineTyped, PacketsReady, HasPackets, AcceptDHPart2,
           ReceiveDHPart2
  <2>7. VersionsSettled' /\ ResendLive'
    BY <1>4, <2>1, <2>2, <2>3, <2>4, Received
       DEF PacketsTyped, EngineTyped, VersionsSettled, ResendLive, AcceptDHPart2,
           ReceiveDHPart2
  <2> QED
    BY <2>5, <2>6, <2>7
<1>5. ASSUME NEW m \in net[n], RejectDHPart2Again(n, m)
      PROVE  IInv'
  <2>1. /\ ErrorPacket(n, DHPart2Check(n, m)) \in Errors
        /\ ErrorPacket(n, DHPart2Check(n, m)) \in Packets
    BY <1>5, CheckCodes, ErrorsAreSent DEF RejectDHPart2Again
  <2>2. TypeOK'
    <3>1. PacketsTyped'
      BY <1>5, <2>1, Received, InfoFacts
         DEF PacketsTyped, NetworkTyped, RejectDHPart2Again, ReceiveDHPart2
    <3>2. EngineTyped'
      BY <1>5, <2>1, Received, InfoFacts
         DEF EngineTyped, RejectDHPart2Again, ReceiveDHPart2
    <3>3. NetworkTyped'
      BY <1>5, <2>1, PacketSets, ReplyTyped
         DEF PacketsTyped, RejectDHPart2Again, ReceiveDHPart2
    <3> QED
      BY <3>1, <3>2, <3>3 DEF TypeOK
  <2>3. PacketsReady'
    BY <1>5, <2>1, Received, AlgorithmAssumption
       DEF PacketsTyped, EngineTyped, PacketsReady, HasPackets, RejectDHPart2Again,
           ReceiveDHPart2
  <2>4. VersionsSettled' /\ ResendLive'
    BY <1>5, <2>1, Received
       DEF PacketsTyped, EngineTyped, VersionsSettled, ResendLive, RejectDHPart2Again,
           ReceiveDHPart2
  <2> QED
    BY <2>2, <2>3, <2>4
<1>6. ASSUME NEW m \in net[n], RepeatConfirm1(n, m)
      PROVE  IInv'
  <2>1. confirm1[n] \in Packets
    BY <1>6, PacketSets DEF PacketsReady, HasPackets, RepeatConfirm1, ReceiveDHPart2
  <2>2. TypeOK'
    <3>1. PacketsTyped'
      BY <1>6, <2>1, Received, InfoFacts
         DEF PacketsTyped, NetworkTyped, RepeatConfirm1, ReceiveDHPart2
    <3>2. EngineTyped'
      BY <1>6, <2>1, Received, InfoFacts DEF EngineTyped, RepeatConfirm1, ReceiveDHPart2
    <3>3. NetworkTyped'
      BY <1>6, <2>1, PacketSets, ReplyTyped
         DEF PacketsTyped, RepeatConfirm1, ReceiveDHPart2
    <3> QED
      BY <3>1, <3>2, <3>3 DEF TypeOK
  <2>3. PacketsReady'
    BY <1>6, <2>1, Received, AlgorithmAssumption
       DEF PacketsTyped, EngineTyped, PacketsReady, HasPackets, RepeatConfirm1,
           ReceiveDHPart2
  <2>4. VersionsSettled' /\ ResendLive'
    BY <1>6, <2>1, Received
       DEF PacketsTyped, EngineTyped, VersionsSettled, ResendLive, RepeatConfirm1,
           ReceiveDHPart2
  <2> QED
    BY <2>2, <2>3, <2>4
<1> QED
  BY <1>1, <1>2, <1>3, <1>4, <1>5, <1>6 DEF ProcessDHPart

LEMMA ConfirmKeeps ==
    ASSUME IInv, NEW n \in Node, ProcessConfirm(n)
    PROVE  IInv'
<1>1. ASSUME NEW m \in net[n], RejectConfirm1(n, m)
      PROVE  IInv'
  <2>1. /\ ErrorPacket(n, ConfirmCheck(n, m, dhPart1[n])) \in Errors
        /\ ErrorPacket(n, ConfirmCheck(n, m, dhPart1[n])) \in Packets
    BY <1>1, CheckCodes, ErrorsAreSent DEF RejectConfirm1
  <2>2. TypeOK'
    <3>1. PacketsTyped'
      BY <1>1, <2>1, Received, InfoFacts
         DEF PacketsTyped, NetworkTyped, RejectConfirm1, ReceiveConfirm1
    <3>2. EngineTyped'
      BY <1>1, <2>1, Received, InfoFacts
         DEF EngineTyped, RejectConfirm1, ReceiveConfirm1
    <3>3. NetworkTyped'
      BY <1>1, <2>1, PacketSets, ReplyTyped
         DEF PacketsTyped, RejectConfirm1, ReceiveConfirm1
    <3> QED
      BY <3>1, <3>2, <3>3 DEF TypeOK
  <2>3. PacketsReady'
    BY <1>1, <2>1, Received, AlgorithmAssumption
       DEF PacketsTyped, EngineTyped, PacketsReady, HasPackets, RejectConfirm1,
           ReceiveConfirm1
  <2>4. VersionsSettled' /\ ResendLive'
    BY <1>1, <2>1, Received
       DEF PacketsTyped, EngineTyped, VersionsSettled, ResendLive, RejectConfirm1,
           ReceiveConfirm1
  <2> QED
    BY <2>2, <2>3, <2>4
<1>2. ASSUME NEW m \in net[n], AcceptConfirm1(n, m)
      PROVE  IInv'
  <2>1. Parsed(m) = m /\ ~ Malformed(m)
    BY <1>2, CheckedIsParsed DEF AcceptConfirm1, ReceiveConfirm1
  <2>2. /\ ConfirmPacket("Confirm2", n, myRole[n], keys[n]) \in Confirms("Confirm2")
        /\ ConfirmPacket("Confirm2", n, myRole[n], keys[n]) \in Packets
    BY <1>2, ConfirmPacketType, PacketSets
       DEF PacketsReady, HasPackets, AcceptConfirm1, ReceiveConfirm1
  <2>3. TypeOK'
    <3>1. PacketsTyped'
      BY <1>2, <2>1, <2>2, Received, InfoFacts
         DEF PacketsTyped, NetworkTyped, AcceptConfirm1, ReceiveConfirm1
    <3>2. EngineTyped'
      BY <1>2, <2>1, <2>2, Received, InfoFacts
         DEF EngineTyped, AcceptConfirm1, ReceiveConfirm1
    <3>3. NetworkTyped'
      BY <1>2, <2>1, <2>2, PacketSets, ReplyTyped
         DEF PacketsTyped, AcceptConfirm1, ReceiveConfirm1
    <3> QED
      BY <3>1, <3>2, <3>3 DEF TypeOK
  <2>4. PacketsReady'
    BY <1>2, <2>1, <2>2, Received, AlgorithmAssumption
       DEF PacketsTyped, EngineTyped, PacketsReady, HasPackets, AcceptConfirm1,
           ReceiveConfirm1
  <2>5. VersionsSettled' /\ ResendLive'
    BY <1>2, <2>1, <2>2, Received
       DEF PacketsTyped, EngineTyped, VersionsSettled, ResendLive, AcceptConfirm1,
           ReceiveConfirm1
  <2> QED
    BY <2>3, <2>4, <2>5
<1>3. ASSUME NEW m \in net[n], RejectConfirm2(n, m)
      PROVE  IInv'
  <2>1. /\ ErrorPacket(n, ConfirmCheck(n, m, dhPart2[n])) \in Errors
        /\ ErrorPacket(n, ConfirmCheck(n, m, dhPart2[n])) \in Packets
    BY <1>3, CheckCodes, ErrorsAreSent DEF RejectConfirm2
  <2>2. TypeOK'
    <3>1. PacketsTyped'
      BY <1>3, <2>1, Received, InfoFacts
         DEF PacketsTyped, NetworkTyped, RejectConfirm2, ReceiveConfirm2
    <3>2. EngineTyped'
      BY <1>3, <2>1, Received, InfoFacts
         DEF EngineTyped, RejectConfirm2, ReceiveConfirm2
    <3>3. NetworkTyped'
      BY <1>3, <2>1, PacketSets, ReplyTyped
         DEF PacketsTyped, RejectConfirm2, ReceiveConfirm2
    <3> QED
      BY <3>1, <3>2, <3>3 DEF TypeOK
  <2>3. PacketsReady'
    BY <1>3, <2>1, Received, AlgorithmAssumption
       DEF PacketsTyped, EngineTyped, PacketsReady, HasPackets, RejectConfirm2,
           ReceiveConfirm2
  <2>4. VersionsSettled' /\ ResendLive'
    BY <1>3, <2>1, Received
       DEF PacketsTyped, EngineTyped, VersionsSettled, ResendLive, RejectConfirm2,
           ReceiveConfirm2
  <2> QED
    BY <2>2, <2>3, <2>4
<1>4. ASSUME NEW m \in net[n], AcceptConfirm2(n, m)
      PROVE  IInv'
  <2>1. Parsed(m) = m /\ ~ Malformed(m)
    BY <1>4, CheckedIsParsed DEF AcceptConfirm2, ReceiveConfirm2
  <2>2. TypeOK'
    <3>1. PacketsTyped'
      BY <1>4, <2>1, Received, InfoFacts
         DEF PacketsTyped, NetworkTyped, AcceptConfirm2, ReceiveConfirm2
    <3>2. EngineTyped'
      BY <1>4, <2>1, Received, InfoFacts
         DEF EngineTyped, AcceptConfirm2, ReceiveConfirm2
    <3>3. NetworkTyped'
      BY <1>4, <2>1, PacketSets, ReplyTyped
         DEF PacketsTyped, AcceptConfirm2, ReceiveConfirm2
    <3> QED
      BY <3>1, <3>2, <3>3 DEF TypeOK
  <2>3. PacketsReady'
    BY <1>4, <2>1, Received, AlgorithmAssumption
       DEF PacketsTyped, EngineTyped, PacketsReady, HasPackets, AcceptConfirm2,
           ReceiveConfirm2
  <2>4. VersionsSettled' /\ ResendLive'
    BY <1>4, <2>1, Received
       DEF PacketsTyped, EngineTyped, VersionsSettled, ResendLive, AcceptConfirm2,
           ReceiveConfirm2
  <2> QED
    BY <2>2, <2>3, <2>4
<1>5. ASSUME NEW m \in net[n], RepeatConf2Ack(n, m)
      PROVE  IInv'
  <2>1. TypeOK'
    <3>1. PacketsTyped'
      BY <1>5, Received, InfoFacts DEF PacketsTyped, NetworkTyped, RepeatConf2Ack
    <3>2. EngineTyped'
      BY <1>5, Received, InfoFacts DEF EngineTyped, RepeatConf2Ack
    <3>3. NetworkTyped'
      BY <1>5, PacketSets, ReplyTyped DEF PacketsTyped, RepeatConf2Ack
    <3> QED
      BY <3>1, <3>2, <3>3 DEF TypeOK
  <2>2. PacketsReady'
    BY <1>5, Received, AlgorithmAssumption
       DEF PacketsTyped, EngineTyped, PacketsReady, HasPackets, RepeatConf2Ack
  <2>3. VersionsSettled' /\ ResendLive'
    BY <1>5, Received
       DEF PacketsTyped, EngineTyped, VersionsSettled, ResendLive, RepeatConf2Ack
  <2> QED
    BY <2>1, <2>2, <2>3
<1>6. ASSUME NEW m \in net[n], AcceptConf2Ack(n, m)
      PROVE  IInv'
  <2>1. TypeOK'
    <3>1. PacketsTyped'
      BY <1>6, Received, InfoFacts DEF PacketsTyped, NetworkTyped, AcceptConf2Ack
    <3>2. EngineTyped'
      <4>1. keyAgreed' \in [Node -> Nat]
        BY <1>6 DEF EngineTyped, AcceptConf2Ack
      <4>2. UNCHANGED <<myRole, versions, keyAgreement, keys, T1, T2, locked, agreementFailed>>
        BY <1>6 DEF AcceptConf2Ack
      <4>3. actualState' \in [Node -> States] /\ timer' \in [Node -> BOOLEAN]
        BY <1>6 DEF EngineTyped, AcceptConf2Ack
      <4> QED
        BY <4>1, <4>2, <4>3 DEF EngineTyped
    <3>3. NetworkTyped'
      BY <1>6, PacketSets, ReplyTyped DEF PacketsTyped, AcceptConf2Ack
    <3> QED
      BY <3>1, <3>2, <3>3 DEF TypeOK
  <2>2. PacketsReady'
    BY <1>6, Received, AlgorithmAssumption
       DEF PacketsTyped, EngineTyped, PacketsReady, HasPackets, AcceptConf2Ack
  <2>3. VersionsSettled' /\ ResendLive'
    BY <1>6, Received
       DEF PacketsTyped, EngineTyped, VersionsSettled, ResendLive, AcceptConf2Ack
  <2> QED
    BY <2>1, <2>2, <2>3
<1> QED
  BY <1>1, <1>2, <1>3, <1>4, <1>5, <1>6 DEF ProcessConfirm

LEMMA ErrorKeeps ==
    ASSUME IInv, NEW n \in Node, ProcessError(n)
    PROVE  IInv'
<1>1. ASSUME NEW m \in net[n], AcceptError(n, m)
      PROVE  IInv'
  <2>1. TypeOK'
    <3>1. PacketsTyped'
      BY <1>1, Received, InfoFacts
         DEF PacketsTyped, NetworkTyped, AcceptError, Fail, ReportCap
    <3>2. EngineTyped'
      BY <1>1, Received, InfoFacts DEF EngineTyped, AcceptError, Fail, ReportCap
    <3>3. NetworkTyped'
      BY <1>1, PacketSets, ReplyTyped DEF PacketsTyped, AcceptError, Fail, ReportCap
    <3> QED
      BY <3>1, <3>2, <3>3 DEF TypeOK
  <2>2. PacketsReady'
    BY <1>1, Received, AlgorithmAssumption
       DEF PacketsTyped, EngineTyped, PacketsReady, HasPackets, AcceptError, Fail,
           ReportCap
  <2>3. VersionsSettled' /\ ResendLive'
    BY <1>1, Received
       DEF PacketsTyped, EngineTyped, VersionsSettled, ResendLive, AcceptError, Fail,
           ReportCap
  <2> QED
    BY <2>1, <2>2, <2>3
<1>2. ASSUME NEW m \in net[n], MalformedError(n, m)
      PROVE  IInv'
  <2>1. /\ ErrorPacket(n, "MalformedPacket") \in Errors
        /\ ErrorPacket(n, "MalformedPacket") \in Packets
    BY <1>2, ErrorsAreSent DEF ErrorCode
  <2>2. TypeOK'
    <3>1. PacketsTyped'
      BY <1>2, <2>1, Received, InfoFacts DEF PacketsTyped, NetworkTyped, MalformedError
    <3>2. EngineTyped'
      BY <1>2, <2>1, Received, InfoFacts DEF EngineTyped, MalformedError
    <3>3. NetworkTyped'
      BY <1>2, <2>1, PacketSets, ReplyTyped DEF PacketsTyped, MalformedError
    <3> QED
      BY <3>1, <3>2, <3>3 DEF TypeOK
  <2>3. PacketsReady'
    BY <1>2, <2>1, Received, AlgorithmAssumption
       DEF PacketsTyped, EngineTyped, PacketsReady, HasPackets, MalformedError
  <2>4. VersionsSettled' /\ ResendLive'
    BY <1>2, <2>1, Received
       DEF PacketsTyped, EngineTyped, VersionsSettled, ResendLive, MalformedError
  <2> QED
    BY <2>2, <2>3, <2>4
<1>3. ASSUME NEW m \in net[n], AcceptErrorAck(n, m)
      PROVE  IInv'
  <2>1. TypeOK'
    <3>1. PacketsTyped'
      BY <1>3, Received, InfoFacts
         DEF PacketsTyped, NetworkTyped, AcceptErrorAck, Fail, ReportCap
    <3>2. EngineTyped'
      BY <1>3, Received, InfoFacts DEF EngineTyped, AcceptErrorAck, Fail, ReportCap
    <3>3. NetworkTyped'
      BY <1>3, PacketSets, ReplyTyped DEF PacketsTyped, AcceptErrorAck, Fail, ReportCap
    <3> QED
      BY <3>1, <3>2, <3>3 DEF TypeOK
  <2>2. PacketsReady'
    BY <1>3, Received, AlgorithmAssumption
       DEF PacketsTyped, EngineTyped, PacketsReady, HasPackets, AcceptErrorAck, Fail,
           ReportCap
  <2>3. VersionsSettled' /\ ResendLive'
    BY <1>3, Received
       DEF PacketsTyped, EngineTyped, VersionsSettled, ResendLive, AcceptErrorAck,
           Fail, ReportCap
  <2> QED
    BY <2>1, <2>2, <2>3
<1> QED
  BY <1>1, <1>2, <1>3 DEF ProcessError

LEMMA TimeoutKeeps ==
    ASSUME IInv, NEW n \in Node, ProcessTimeout(n)
    PROVE  IInv'
<1>1. ASSUME ResendHello(n) PROVE IInv'
  <2>1. TypeOK'
    <3>1. PacketsTyped'
      BY <1>1 DEF PacketsTyped, ResendHello, Resend, ResendLive
    <3>2. EngineTyped'
      BY <1>1 DEF EngineTyped, ResendHello, Resend, ResendLive
    <3>3. NetworkTyped'
      BY <1>1, InfoFacts, PacketSets
         DEF NetworkTyped, PacketsTyped, ResendHello, Resend, ResendLive
    <3> QED
      BY <3>1, <3>2, <3>3 DEF TypeOK
  <2>2. PacketsReady'
    BY <1>1
       DEF PacketsTyped, EngineTyped, PacketsReady, HasPackets, ResendHello, Resend,
           ResendLive
  <2>3. VersionsSettled' /\ ResendLive'
    BY <1>1
       DEF PacketsTyped, EngineTyped, VersionsSettled, ResendLive, ResendHello, Resend
  <2> QED
    BY <2>1, <2>2, <2>3
<1>2. ASSUME ResendLater(n) PROVE IInv'
  <2>1. TypeOK'
    <3>1. PacketsTyped'
      BY <1>2 DEF PacketsTyped, ResendLater, Resend, ResendLive
    <3>2. EngineTyped'
      BY <1>2 DEF EngineTyped, ResendLater, Resend, ResendLive
    <3>3. NetworkTyped'
      BY <1>2, InfoFacts, PacketSets
         DEF NetworkTyped, PacketsTyped, ResendLater, Resend, ResendLive
    <3> QED
      BY <3>1, <3>2, <3>3 DEF TypeOK
  <2>2. PacketsReady'
    BY <1>2
       DEF PacketsTyped, EngineTyped, PacketsReady, HasPackets, ResendLater, Resend,
           ResendLive
  <2>3. VersionsSettled' /\ ResendLive'
    BY <1>2
       DEF PacketsTyped, EngineTyped, VersionsSettled, ResendLive, ResendLater, Resend
  <2> QED
    BY <2>1, <2>2, <2>3
<1>3. ASSUME IgnoreTimeout(n) PROVE IInv'
  <2>1. TypeOK'
    <3>1. PacketsTyped'
      BY <1>3 DEF PacketsTyped, IgnoreTimeout
    <3>2. EngineTyped'
      BY <1>3 DEF EngineTyped, IgnoreTimeout
    <3>3. NetworkTyped'
      BY <1>3, InfoFacts, PacketSets DEF NetworkTyped, PacketsTyped, IgnoreTimeout
    <3> QED
      BY <3>1, <3>2, <3>3 DEF TypeOK
  <2>2. PacketsReady'
    BY <1>3 DEF PacketsTyped, EngineTyped, PacketsReady, HasPackets, IgnoreTimeout
  <2>3. VersionsSettled' /\ ResendLive'
    BY <1>3 DEF PacketsTyped, EngineTyped, VersionsSettled, ResendLive, IgnoreTimeout
  <2> QED
    BY <2>1, <2>2, <2>3
<1> QED
  BY <1>1, <1>2, <1>3 DEF ProcessTimeout

LEMMA StartKeeps ==
    ASSUME IInv, NEW n \in Node, Start(n)
    PROVE  IInv'
<1>1. ASSUME Start(n) PROVE IInv'
  <2>1. TypeOK'
    <3>1. PacketsTyped'
      BY <1>1, PacketSets DEF PacketsTyped, Start
    <3>2. EngineTyped'
      BY <1>1, PacketSets DEF EngineTyped, Start
    <3>3. NetworkTyped'
      BY <1>1, PacketSets, InfoFacts, PacketSets DEF NetworkTyped, PacketsTyped, Start
    <3> QED
      BY <3>1, <3>2, <3>3 DEF TypeOK
  <2>2. PacketsReady'
    BY <1>1, PacketSets DEF PacketsTyped, EngineTyped, PacketsReady, HasPackets, Start
  <2>3. VersionsSettled' /\ ResendLive'
    BY <1>1, PacketSets
       DEF PacketsTyped, EngineTyped, VersionsSettled, ResendLive, Start
  <2> QED
    BY <2>1, <2>2, <2>3
<1> QED
  BY <1>1

LEMMA IgnoreKeeps ==
    ASSUME IInv, NEW n \in Node, NEW m \in net[n], IgnoreMessage(n, m)
    PROVE  IInv'
<1>1. ASSUME IgnoreMessage(n, m) PROVE IInv'
  <2>1. TypeOK'
    <3>1. PacketsTyped'
      BY <1>1 DEF PacketsTyped, IgnoreMessage
    <3>2. EngineTyped'
      BY <1>1 DEF EngineTyped, IgnoreMessage
    <3>3. NetworkTyped'
      BY <1>1, ReplyTyped DEF IgnoreMessage
    <3> QED
      BY <3>1, <3>2, <3>3 DEF TypeOK
  <2>2. PacketsReady'
    BY <1>1 DEF PacketsTyped, EngineTyped, PacketsReady, HasPackets, IgnoreMessage
  <2>3. VersionsSettled' /\ ResendLive'
    BY <1>1 DEF PacketsTyped, EngineTyped, VersionsSettled, ResendLive, IgnoreMessage
  <2> QED
    BY <2>1, <2>2, <2>3
<1> QED
  BY <1>1

(* Timers and the network do not touch the engine. *)
LEMMA EnvironmentKeeps ==
    ASSUME IInv, NEW n \in Node,
           \/ TimerExpires(n)
           \/ \E m \in net[n] : Lose(n, m)
           \/ \E m \in net[n] : \E mark \in Damages : DamageTo(n, m, mark)
    PROVE  IInv'
<1>1. UNCHANGED engineVars
  BY DEF TimerExpires, Lose, DamageTo
<1>2. NetworkTyped' /\ timer' \in [Node -> BOOLEAN]
  <2>1. CASE TimerExpires(n)
    BY <2>1 DEF NetworkTyped, EngineTyped, TimerExpires
  <2>2. ASSUME NEW m \in net[n], Lose(n, m)
        PROVE  NetworkTyped' /\ timer' \in [Node -> BOOLEAN]
    BY <2>2 DEF NetworkTyped, EngineTyped, Lose
  <2>3. ASSUME NEW m \in net[n], NEW mark \in Damages, DamageTo(n, m, mark)
        PROVE  NetworkTyped' /\ timer' \in [Node -> BOOLEAN]
    <3>1. \A p \in Damaged(m, mark) : p \in Packets
      BY Received, DamagedPacket
    <3>2. \A p \in Damaged(m, mark) :
             (IF Duplicating THEN net[n] ELSE net[n] \ {m}) \cup {p} \in SUBSET Packets
      BY <3>1 DEF NetworkTyped
    <3>3. net' \in [Node -> SUBSET Packets]
      BY <2>3, <3>2 DEF NetworkTyped, DamageTo
    <3>4. faults' \in [lost : Nat, damaged : Nat]
      BY <2>3 DEF NetworkTyped, DamageTo
    <3> QED
      BY <2>3, <3>3, <3>4 DEF NetworkTyped, EngineTyped, DamageTo
  <2> QED
    BY <2>1, <2>2, <2>3
<1>3. PacketsTyped' /\ EngineTyped'
  BY <1>1, <1>2 DEF engineVars, PacketsTyped, EngineTyped
<1>4. PacketsReady' /\ VersionsSettled' /\ ResendLive'
  BY <1>1 DEF engineVars, PacketsReady, HasPackets, VersionsSettled, ResendLive
<1> QED
  BY <1>2, <1>3, <1>4

-----------------------------------------------------------------------------
(* The strengthened invariant is inductive. *)
LEMMA InitImpliesIInv == Init => IInv
<1> SUFFICES ASSUME Init PROVE IInv
  OBVIOUS
<1>1. \A n \in Node : hello[n] \in Hellos
  <2> SUFFICES ASSUME NEW n \in Node PROVE hello[n] \in Hellos
    OBVIOUS
  <2>1. Info1(n) \in Seq(Version) /\ DOMAIN Info1(n) # {}
    BY InfoFacts, InfoAssumption, NonEmptyDomain DEF Info1
  <2>2. chooseHighestVersion(Info1(n), DOMAIN Info1(n)) \in Version
    BY <2>1, HighestVersion
  <2> QED
    BY <2>2, HelloPacketType DEF Init
<1>2. PacketsTyped
  BY <1>1 DEF Init, PacketsTyped
<1>3. EngineTyped
  BY InfoFacts, RoleAssumption DEF Init, EngineTyped, ReportCap
<1>4. NetworkTyped
  BY LeftoverAssumption DEF Init, NetworkTyped
<1>5. PacketsReady /\ VersionsSettled /\ ResendLive
  BY DEF Init, PacketsReady, HasPackets, VersionsSettled, ResendLive
<1> QED
  BY <1>2, <1>3, <1>4, <1>5

LEMMA NextKeepsIInv == IInv /\ [Next]_vars => IInv'
<1> SUFFICES ASSUME IInv, [Next]_vars PROVE IInv'
  OBVIOUS
<1>1. CASE UNCHANGED vars
  BY <1>1
     DEF vars, PacketsTyped, EngineTyped, NetworkTyped, PacketsReady, HasPackets,
         VersionsSettled, ResendLive
<1>2. CASE Next
  BY <1>2, StartKeeps, TimeoutKeeps, HelloKeeps, HelloAckKeeps, CommitKeeps,
     DHPartKeeps,
     ConfirmKeeps, ErrorKeeps, IgnoreKeeps, EnvironmentKeeps DEF Next, ProcessMessage
<1> QED
  BY <1>1, <1>2

LEMMA EngineInvariant == Spec => []IInv
BY InitImpliesIInv, NextKeepsIInv, PTL DEF Spec

(* Type correctness, for any users, network and leftovers. *)
THEOREM TypeCorrect == Spec => []TypeOK
<1>1. IInv => TypeOK
  OBVIOUS
<1> QED
  BY <1>1, EngineInvariant, PTL

(* No handler reads a packet the session has not got, or has deleted in    *)
(* commit contention, in whatever order packets reach it.                  *)
THEOREM PacketsAreReady == Spec => []PacketsReady
<1>1. IInv => PacketsReady
  OBVIOUS
<1> QED
  BY <1>1, EngineInvariant, PTL

(* A timeout never sends a packet object that was deleted, nor another one *)
(* than the state it is in waits to have answered.                         *)
THEOREM ResendsAreLive == Spec => []ResendLive
<1>1. IInv => ResendLive
  OBVIOUS
<1> QED
  BY <1>1, EngineInvariant, PTL

(* Once an endpoint has answered a Hello, the versions stay the same until *)
(* the Commit, so that an older Hello with a greater version is harmless.  *)
THEOREM VersionsStaySettled == Spec => []VersionsSettled
<1>1. IInv => VersionsSettled
  OBVIOUS
<1> QED
  BY <1>1, EngineInvariant, PTL
=============================================================================
