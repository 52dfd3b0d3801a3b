--------------------------- MODULE NoFailureProofs ---------------------------
(***************************************************************************)
(* Two endpoints whose users are compatible never fail while the network   *)
(* leaves packets as they are: it may lose, delay, reorder and duplicate   *)
(* them, timeouts may come late, and acknowledgements of an earlier        *)
(* session may still be on their way.                                      *)
(*                                                                         *)
(* The argument is that there is one Commit, one DHPart and one secret an  *)
(* endpoint can make once it has settled on a version: every packet in     *)
(* flight is the one its receiver's checks ask for, however old it is.     *)
(*                                                                         *)
(* The last part is about the way processEvent fails altogether: which     *)
(* calls do not leave the critical section they have entered.              *)
(***************************************************************************)
EXTENDS ExchangeProofs

Undamaged == Damages = {}
OnlyAcksLeft == \A n \in Node : Leftover[n] \subseteq {HelloAck, Conf2Ack}

(* Each user supports what every Commit asks for, and both have a key      *)
(* agreement type in common.                                               *)
CompatibleUsers ==
    \A n \in Node :
       /\ "S256" \in UserInfo[n].hashTypes /\ "AES1" \in UserInfo[n].cipherTypes
       /\ "HS32" \in UserInfo[n].authTagTypes /\ "B32 " \in UserInfo[n].sasTypes
       /\ HaveCommonType(MyTypes(n), MyTypes(Peer[n]))

-----------------------------------------------------------------------------
(* The invariant. *)

Settled(n) == actualState[n] \in Negotiated

(* The Commit an endpoint makes, and the secret of initiator and responder.*)
TheCommit(n) == CommitPacket(n, Choice(n), hello[Peer[n]])

TheKeys(i, r) ==
    [dhResult |-> {i, r}, zidI |-> i, zidR |-> r, helloR |-> hello[r],
     commit |-> TheCommit(i),
     dhPart1 |-> DHPartPacket("DHPart1", r), dhPart2 |-> DHPartPacket("DHPart2", i)]

(* What an endpoint has kept is what it and its peer can make. *)
KeepsTrack(n) ==
    LET peer == Peer[n] IN
    /\ Settled(n) => peerHello[n].mark = "intact"
    /\ actualState[n] = "SentHelloAck" => keyAgreement[n] = Choice(n)
    /\ actualState[n] = "SentCommit" =>
          commit[n] = TheCommit(n) /\ dhPart2[n] = DHPartPacket("DHPart2", n)
    /\ actualState[n] \in {"WaitDHPart2", "WaitConfirm2"} =>
          /\ commit[n] = TheCommit(peer) /\ Settled(peer)
          /\ dhPart1[n] = DHPartPacket("DHPart1", n)
    /\ actualState[n] = "WaitConfirm1" =>
          /\ dhPart1[n] = DHPartPacket("DHPart1", peer)
          /\ dhPart2[n] = DHPartPacket("DHPart2", n)
          /\ keys[n] = TheKeys(n, peer)
    /\ actualState[n] = "WaitConfirm2" =>
          /\ dhPart2[n] = DHPartPacket("DHPart2", peer)
          /\ keys[n] = TheKeys(peer, n)
          /\ confirm1[n] = ConfirmPacket("Confirm1", n, "Responder", TheKeys(peer, n))
    /\ actualState[n] = "WaitConf2Ack" =>
          confirm2[n] = ConfirmPacket("Confirm2", n, "Initiator", TheKeys(n, peer))

(* It has not failed. *)
GoesOnWell(n) ==
    /\ actualState[n] # "WaitErrorAck"
    /\ actualState[n] = "Initial" => sentMessage[n] = Unset
    /\ agreementFailed[n] = 0 /\ ~ locked[n]

(* Before the Start event it is in the constructor's state. *)
ToStart(n) == sentMessage[n] = Unset => actualState[n] = "Initial"

(* A packet in flight is what its sender can make. *)
Expected(n) ==
    LET peer == Peer[n] IN
    \A m \in net[n] :
       /\ m.mark = "intact" /\ m.type \notin {"Error", "ErrorACK"}
       /\ m.type = "Commit" => m = TheCommit(peer) /\ Settled(peer)
       /\ m.type = "DHPart1" => m = DHPartPacket("DHPart1", peer)
       /\ m.type = "DHPart2" => m = DHPartPacket("DHPart2", peer) /\ Settled(peer)
       /\ m.type = "Confirm1" =>
             Settled(n) /\ m = ConfirmPacket("Confirm1", peer, "Responder", TheKeys(n, peer))
       /\ m.type = "Confirm2" =>
             Settled(peer) /\ m = ConfirmPacket("Confirm2", peer, "Initiator", TheKeys(peer, n))

WellInv ==
    \A n \in Node : KeepsTrack(n) /\ GoesOnWell(n) /\ ToStart(n) /\ Expected(n)

-----------------------------------------------------------------------------
USE DEF IInv, TypeOK, CanProcess, Handling, HandlingTimeout, Goto, Send, ReplyAndKeep,
        timerStart1, timerStart2, cancelTimer, sendError, helloVars, packetVars,
        timerVars, outcomeVars, IsInitiator, IsResponder, Resending, States

(* All that is known before a step. *)
Known == /\ CompatibleUsers /\ SomeCommonVersion
         /\ IInv /\ HelloInv /\ CommonInv /\ WellInv

LEMMA KnownOf ==
    ASSUME Known, NEW n \in Node
    PROVE  /\ TypeOK /\ KeepsTrack(n) /\ GoesOnWell(n) /\ ToStart(n)
           /\ Expected(n)
           /\ OwnHello(n) /\ PeersHellos(n) /\ SettledOnPeers(n) /\ KeepsCommon(n)
           /\ Peer[n] \in Node /\ Peer[n] # n /\ Peer[Peer[n]] = n
           /\ OwnHello(Peer[n])
BY PeerFacts DEF Known, WellInv, HelloInv, CommonInv

(* Choices are of types both users have. *)
LEMMA ChoiceIsCommon ==
    ASSUME CompatibleUsers, NEW n \in Node
    PROVE  /\ HaveCommonType(MyTypes(n), MyTypes(Peer[n]))
           /\ Choice(n) \in Elements(MyTypes(n)) \cap Elements(MyTypes(Peer[n]))
           /\ Choice(n) # "none"
<1>1. MyTypes(n) \in Seq(Algorithm) /\ MyTypes(Peer[n]) \in Seq(Algorithm)
  BY InfoFacts
<1>2. HaveCommonType(MyTypes(n), MyTypes(Peer[n]))
  BY DEF CompatibleUsers
<1> QED
  BY <1>1, <1>2, ChosenTypeIsCommon, AlgorithmAssumption DEF Choice

-----------------------------------------------------------------------------
(* No check fails. *)

LEMMA HelloPasses ==
    ASSUME Known, NEW n \in Node, NEW m \in net[n], m.type = "Hello"
    PROVE  /\ HelloCheck(n, m) = "none" /\ m.mark = "intact"
           /\ versions[n] # {} /\ LowerVersions(Info1(n), versions[n], m.version) # {}
           /\ HaveCommonType(MyTypes(n), m.keyAgreementTypes)
           /\ chooseAlgorithm(MyTypes(n), m.keyAgreementTypes) = Choice(n)
<1>1. m.mark = "intact" /\ MadeBy(m, Peer[n]) /\ Peer[n] # n
  BY KnownOf DEF Expected, PeersHellos
<1>2. HelloCheck(n, m) = "none"
  BY <1>1 DEF HelloCheck, Malformed, MadeBy
<1>3. versions[n] # {} /\ LowerVersions(Info1(n), versions[n], m.version) # {}
  BY KnownOf, CommonIsKept, CommonLeft DEF Known
<1> QED
  BY <1>1, <1>2, <1>3, ChoiceIsCommon DEF MadeBy, Known, Choice

LEMMA SettledOnHello ==
    ASSUME Known, NEW n \in Node, Settled(n)
    PROVE  /\ peerHello[n] = hello[Peer[n]]
           /\ peerHello[n].src = Peer[n] /\ peerHello[n].mark = "intact"
<1>1. /\ peerHello[n].mark = "intact" /\ MadeBy(peerHello[n], Peer[n])
      /\ peerHello[n].version = hello[Peer[n]].version
      /\ hello[Peer[n]] = HelloPacket(Peer[n], hello[Peer[n]].version)
  BY KnownOf DEF Settled, KeepsTrack, SettledOnPeers, OwnHello
<1>2. actualState[n] \in Negotiated /\ peerHello[n].type = "Hello" => peerHello[n] \in Hellos
  BY DEF Known, PacketsTyped, Null, Blank
<1>3. peerHello[n] \in Hellos
  BY DEF Known, PacketsReady, HasPackets, Settled, Negotiated
<1> QED
  BY <1>1, <1>3, SameHello DEF MadeBy

LEMMA CommitFields ==
    ASSUME NEW n \in Node
    PROVE  /\ TheCommit(n).src = n /\ TheCommit(n).mark = "intact"
           /\ TheCommit(n).type = "Commit" /\ TheCommit(n).keyAgreement = Choice(n)
           /\ TheCommit(n).hash = "S256" /\ TheCommit(n).cipher = "AES1"
           /\ TheCommit(n).authTag = "HS32" /\ TheCommit(n).sas = "B32 "
           /\ TheCommit(n).hvi = Hvi(DHPartPacket("DHPart2", n), hello[Peer[n]])
BY DEF TheCommit, CommitPacket

LEMMA DHPartFields ==
    ASSUME NEW n \in Node, NEW t \in {"DHPart1", "DHPart2"}
    PROVE  /\ DHPartPacket(t, n).src = n /\ DHPartPacket(t, n).mark = "intact"
           /\ DHPartPacket(t, n).type = t
BY DEF DHPartPacket

LEMMA CommitPasses ==
    ASSUME Known, NEW n \in Node, Settled(n), NEW m \in net[n], m.type = "Commit"
    PROVE  /\ m = TheCommit(Peer[n]) /\ Settled(Peer[n]) /\ m.keyAgreement = Choice(Peer[n])
           /\ CommitCheck(n, m) = "none" /\ Compatibility(UserInfo[n], m) = "none"
           /\ Parsed(m) = m
<1>1. m = TheCommit(Peer[n]) /\ Settled(Peer[n]) /\ Peer[n] \in Node /\ Peer[Peer[n]] = n
  BY KnownOf DEF Expected
<1>2. /\ m.src = Peer[n] /\ m.mark = "intact" /\ m.keyAgreement = Choice(Peer[n])
      /\ m.hash = "S256" /\ m.cipher = "AES1" /\ m.authTag = "HS32" /\ m.sas = "B32 "
  BY <1>1, CommitFields
<1>3. peerHello[n].src = Peer[n] /\ peerHello[n].mark = "intact"
  BY SettledOnHello
<1>4. CommitCheck(n, m) = "none"
  BY <1>2, <1>3 DEF CommitCheck, Malformed, SameChain, MacHolds
<1>5. Compatibility(UserInfo[n], m) = "none"
  <2>1. Choice(Peer[n]) \in Elements(UserInfo[n].keyAgreementTypes)
    BY <1>1, ChoiceIsCommon DEF Known, MyTypes
  <2> QED
    BY <1>2, <2>1 DEF Compatibility, CompatibleUsers, Known
<1> QED
  BY <1>1, <1>2, <1>4, <1>5, CheckedIsParsed

LEMMA DHPart1Passes ==
    ASSUME Known, NEW n \in Node, actualState[n] = "SentCommit",
           NEW m \in net[n], m.type = "DHPart1"
    PROVE  /\ m = DHPartPacket("DHPart1", Peer[n]) /\ DHPart1Check(n, m) = "none"
           /\ Parsed(m) = m /\ InitiatorKey(n, m) = TheKeys(n, Peer[n])
<1>1. m = DHPartPacket("DHPart1", Peer[n]) /\ Peer[n] \in Node
  BY KnownOf DEF Expected
<1>2. /\ commit[n] = TheCommit(n) /\ dhPart2[n] = DHPartPacket("DHPart2", n)
      /\ peerHello[n] = hello[Peer[n]]
      /\ peerHello[n].src = Peer[n] /\ peerHello[n].mark = "intact"
  BY KnownOf, SettledOnHello DEF KeepsTrack, Settled, Negotiated
<1>3. m.src = Peer[n] /\ m.mark = "intact"
  BY <1>1, DHPartFields
<1>4. DHPart1Check(n, m) = "none"
  <2>1. peerHello[n].src = Peer[n] /\ peerHello[n].mark = "intact"
    BY <1>2
  <2> QED
    BY <1>3, <2>1 DEF DHPart1Check, Malformed, ValidPv, SameChain, MacHolds
<1>5. InitiatorKey(n, m) = TheKeys(n, Peer[n])
  BY <1>1, <1>2, <1>3 DEF InitiatorKey, TheKeys
<1> QED
  BY <1>1, <1>4, <1>5, CheckedIsParsed

LEMMA DHPart2Passes ==
    ASSUME Known, NEW n \in Node, actualState[n] \in {"WaitDHPart2", "WaitConfirm2"},
           NEW m \in net[n], m.type = "DHPart2"
    PROVE  /\ m = DHPartPacket("DHPart2", Peer[n]) /\ DHPart2Check(n, m) = "none"
           /\ Parsed(m) = m /\ ResponderKey(n, m) = TheKeys(Peer[n], n)
<1>1. m = DHPartPacket("DHPart2", Peer[n]) /\ Peer[n] \in Node /\ Peer[Peer[n]] = n
  BY KnownOf DEF Expected
<1>2. /\ commit[n] = TheCommit(Peer[n]) /\ dhPart1[n] = DHPartPacket("DHPart1", n)
      /\ peerHello[n].src = Peer[n]
  BY KnownOf, SettledOnHello DEF KeepsTrack, Settled, Negotiated
<1>3. m.src = Peer[n] /\ m.mark = "intact"
  BY <1>1, DHPartFields
<1>4. DHPart2Check(n, m) = "none"
  <2>1. /\ commit[n].src = Peer[n] /\ commit[n].mark = "intact"
        /\ commit[n].hvi = Hvi(m, hello[n])
    <3>1. /\ TheCommit(Peer[n]).src = Peer[n] /\ TheCommit(Peer[n]).mark = "intact"
          /\ TheCommit(Peer[n]).hvi = Hvi(DHPartPacket("DHPart2", Peer[n]), hello[n])
      BY <1>1, CommitFields
    <3> QED
      BY <1>1, <1>2, <3>1
  <2> QED
    BY <1>3, <2>1 DEF DHPart2Check, Malformed, ValidPv, SameChain, MacHolds
<1>5. ResponderKey(n, m) = TheKeys(Peer[n], n)
  <2>1. {n, m.src} = {Peer[n], n}
    BY <1>3
  <2> QED
    BY <1>1, <1>2, <2>1 DEF ResponderKey, TheKeys
<1> QED
  BY <1>1, <1>4, <1>5, CheckedIsParsed

(* Each side's keys to send are the other's to receive. *)
LEMMA Confirm1Passes ==
    ASSUME Known, NEW n \in Node, actualState[n] = "WaitConfirm1",
           NEW m \in net[n], m.type = "Confirm1"
    PROVE  ConfirmCheck(n, m, dhPart1[n]) = "none" /\ Parsed(m) = m
<1>1. /\ m = ConfirmPacket("Confirm1", Peer[n], "Responder", TheKeys(n, Peer[n]))
      /\ keys[n] = TheKeys(n, Peer[n]) /\ dhPart1[n] = DHPartPacket("DHPart1", Peer[n])
      /\ Peer[n] \in Node
  BY KnownOf DEF Expected, KeepsTrack
<1>2. myRole[n] = "Initiator"
  BY DEF Known, PacketsReady, HasPackets
<1>3. /\ m.src = Peer[n] /\ m.mark = "intact"
      /\ m.macKey = macKey(keys[n], myRole[n], FALSE)
      /\ m.zrtpKey = zrtpKey(keys[n], myRole[n], FALSE)
  <2> DEFINE s0 == TheKeys(n, Peer[n])
             c == ConfirmPacket("Confirm1", Peer[n], "Responder", s0)
  <2> HIDE DEF s0
  <2>1. /\ c.src = Peer[n] /\ c.mark = "intact"
        /\ c.macKey = macKey(s0, "Initiator", FALSE) /\ c.zrtpKey = zrtpKey(s0, "Initiator", FALSE)
    BY DEF ConfirmPacket, macKey, zrtpKey, KeySide
  <2>2. m = c /\ keys[n] = s0
    BY <1>1 DEF s0
  <2> HIDE DEF c
  <2> QED
    BY <1>2, <2>1, <2>2
<1>4. dhPart1[n].src = Peer[n] /\ dhPart1[n].mark = "intact"
  BY <1>1, DHPartFields
<1>5. ConfirmCheck(n, m, dhPart1[n]) = "none"
  BY <1>3, <1>4 DEF ConfirmCheck, Malformed, SameChain, MacHolds
<1> QED
  BY <1>5, CheckedIsParsed

LEMMA Confirm2Passes ==
    ASSUME Known, NEW n \in Node, actualState[n] = "WaitConfirm2",
           NEW m \in net[n], m.type = "Confirm2"
    PROVE  ConfirmCheck(n, m, dhPart2[n]) = "none" /\ Parsed(m) = m
<1>1. /\ m = ConfirmPacket("Confirm2", Peer[n], "Initiator", TheKeys(Peer[n], n))
      /\ keys[n] = TheKeys(Peer[n], n) /\ dhPart2[n] = DHPartPacket("DHPart2", Peer[n])
      /\ Peer[n] \in Node
  BY KnownOf DEF Expected, KeepsTrack
<1>2. myRole[n] = "Responder"
  BY DEF Known, PacketsReady, HasPackets
<1>3. /\ m.src = Peer[n] /\ m.mark = "intact"
      /\ m.macKey = macKey(keys[n], myRole[n], FALSE)
      /\ m.zrtpKey = zrtpKey(keys[n], myRole[n], FALSE)
  <2> DEFINE s0 == TheKeys(Peer[n], n)
             c == ConfirmPacket("Confirm2", Peer[n], "Initiator", s0)
  <2> HIDE DEF s0
  <2>1. /\ c.src = Peer[n] /\ c.mark = "intact"
        /\ c.macKey = macKey(s0, "Responder", FALSE) /\ c.zrtpKey = zrtpKey(s0, "Responder", FALSE)
    BY DEF ConfirmPacket, macKey, zrtpKey, KeySide
  <2>2. m = c /\ keys[n] = s0
    BY <1>1 DEF s0
  <2> HIDE DEF c
  <2> QED
    BY <1>2, <2>1, <2>2
<1>4. dhPart2[n].src = Peer[n] /\ dhPart2[n].mark = "intact"
  BY <1>1, DHPartFields
<1>5. ConfirmCheck(n, m, dhPart2[n]) = "none"
  BY <1>3, <1>4 DEF ConfirmCheck, Malformed, SameChain, MacHolds
<1> QED
  BY <1>5, CheckedIsParsed

-----------------------------------------------------------------------------
(* An endpoint goes on well, whatever it handles. *)

GoesWell(n) == KeepsTrack(n)' /\ GoesOnWell(n)' /\ (Settled(n) => Settled(n)')

(* The constructor's state, until the Start event. *)
LEMMA StartedWell ==
    ASSUME Known, NEW n \in Node, sentMessage[n] # Unset
    PROVE  actualState[n] \in States \ {"Initial", "WaitErrorAck"}
BY KnownOf DEF GoesOnWell, EngineTyped

LEMMA SameMade ==
    ASSUME hello' = hello, NEW i, NEW r
    PROVE  TheCommit(i)' = TheCommit(i) /\ TheKeys(i, r)' = TheKeys(i, r)
BY DEF TheCommit, TheKeys, Choice, MyTypes

(* What was made before stays as it is in a state that has made no more.   *)
LEMMA StaysWell ==
    ASSUME Known, NEW n \in Node, sentMessage[n] # Unset, sentMessage'[n] # Unset,
           actualState' = actualState, hello' = hello, peerHello'[n] = peerHello[n],
           keyAgreement'[n] = keyAgreement[n], commit'[n] = commit[n],
           dhPart1'[n] = dhPart1[n], dhPart2'[n] = dhPart2[n],
           confirm1'[n] = confirm1[n], confirm2'[n] = confirm2[n], keys'[n] = keys[n],
           agreementFailed'[n] = agreementFailed[n], locked'[n] = locked[n]
    PROVE  GoesWell(n)
<1>1. KeepsTrack(n) /\ GoesOnWell(n)
  BY KnownOf
<1>2. /\ TheCommit(n)' = TheCommit(n) /\ TheCommit(Peer[n])' = TheCommit(Peer[n])
      /\ TheKeys(n, Peer[n])' = TheKeys(n, Peer[n])
      /\ TheKeys(Peer[n], n)' = TheKeys(Peer[n], n)
  BY SameMade
<1>3. (Settled(n)' <=> Settled(n)) /\ (Settled(Peer[n])' <=> Settled(Peer[n]))
  BY DEF Settled
<1>4. KeepsTrack(n)'
  BY <1>1, <1>2, <1>3 DEF KeepsTrack
<1>5. GoesOnWell(n)'
  BY <1>1 DEF GoesOnWell
<1> QED
  BY <1>3, <1>4, <1>5 DEF GoesWell

(* A Hello of the same version is the one the peer goes on with. *)
LEMMA SameVersionHello ==
    ASSUME Known, NEW n \in Node, NEW m \in net[n], m.type = "Hello",
           SameVersion(Info1(n), versions[n], m.version)
    PROVE  m = hello[Peer[n]]
<1>1. m \in Hellos /\ m.mark = "intact" /\ versions[n] # {}
  BY HelloPasses, Received DEF Known
<1>2. /\ MadeBy(m, Peer[n]) /\ hello[Peer[n]] = HelloPacket(Peer[n], hello[Peer[n]].version)
      /\ m.version = hello[Peer[n]].version \/ Prefix(hello[n].version) < Prefix(m.version)
  BY KnownOf DEF PeersHellos, OwnHello
<1>3. Prefix(hello[n].version) = Prefix(m.version)
  BY <1>1, KnownOf DEF OwnHello, SameVersion
<1>4. hello[n].version \in Version /\ m.version \in Version
  BY KnownOf, HelloVersions
<1>5. m.version = hello[Peer[n]].version
  BY <1>2, <1>3, <1>4, PrefixIsNat
<1> QED
  BY <1>1, <1>2, <1>5, SameHello

LEMMA HelloWell ==
    ASSUME Known, NEW n \in Node, ProcessHello(n)
    PROVE  GoesWell(n)
<1>1. KeepsTrack(n) /\ GoesOnWell(n) /\ TypeOK
  BY KnownOf
<1>2. ASSUME NEW m \in net[n], AcceptHello(n, m)
      PROVE  GoesWell(n)
  <2>1. /\ m.type = "Hello" /\ peerHello'[n] = m /\ actualState'[n] = "SentHelloAck"
        /\ keyAgreement'[n] = chooseAlgorithm(MyTypes(n), m.keyAgreementTypes)
        /\ agreementFailed'[n] = agreementFailed[n] /\ locked'[n] = locked[n]
    BY <1>1, <1>2 DEF AcceptHello, NewHello, ChooseType, PacketsTyped, EngineTyped
  <2>2. m.mark = "intact" /\ keyAgreement'[n] = Choice(n)
    BY <2>1, HelloPasses
  <2> QED
    BY <1>1, <2>1, <2>2 DEF GoesWell, KeepsTrack, GoesOnWell, Settled, Negotiated, Choice,
                            MyTypes
<1>3. ASSUME NEW m \in net[n], AcceptHelloAsResponder(n, m)
      PROVE  GoesWell(n)
  <2>1. /\ m.type = "Hello" /\ peerHello'[n] = m /\ actualState'[n] = "WaitCommit"
        /\ agreementFailed'[n] = agreementFailed[n] /\ locked'[n] = locked[n]
    BY <1>1, <1>3 DEF AcceptHelloAsResponder, NewHello, ChooseType, PacketsTyped, EngineTyped
  <2>2. m.mark = "intact"
    BY <2>1, HelloPasses
  <2> QED
    BY <1>1, <2>1, <2>2 DEF GoesWell, KeepsTrack, GoesOnWell, Settled, Negotiated
<1>4. ASSUME NEW m \in net[n], AcceptHelloAsInitiator(n, m)
      PROVE  GoesWell(n)
  <2>1. /\ m.type = "Hello" /\ peerHello'[n] = m /\ actualState'[n] = "SentCommit"
        /\ keyAgreement'[n] = chooseAlgorithm(MyTypes(n), m.keyAgreementTypes)
        /\ commit'[n] = CommitPacket(n, keyAgreement'[n], m)
        /\ dhPart2'[n] = DHPartPacket("DHPart2", n) /\ hello' = hello
        /\ SameVersion(Info1(n), versions[n], m.version)
        /\ agreementFailed'[n] = agreementFailed[n] /\ locked'[n] = locked[n]
    BY <1>1, <1>4 DEF AcceptHelloAsInitiator, NewHello, ChooseType, PacketsTyped, EngineTyped,
                      createCommitPacket, SendCommit
  <2>2. m.mark = "intact" /\ keyAgreement'[n] = Choice(n) /\ m = hello[Peer[n]]
    BY <2>1, HelloPasses, SameVersionHello
  <2>3. commit'[n] = TheCommit(n)'
    BY <2>1, <2>2, SameMade DEF TheCommit
  <2> QED
    BY <1>1, <2>1, <2>2, <2>3 DEF GoesWell, KeepsTrack, GoesOnWell, Settled, Negotiated
<1>5. ASSUME NEW m \in net[n], NegotiateVersion(n, m)
      PROVE  GoesWell(n)
  <2>1. /\ actualState' = actualState /\ actualState[n] \in {"SentHello", "ReceivedHelloAck"}
        /\ agreementFailed'[n] = agreementFailed[n] /\ locked'[n] = locked[n]
    BY <1>1, <1>5 DEF NegotiateVersion, NewHello
  <2> QED
    BY <1>1, <2>1 DEF GoesWell, KeepsTrack, GoesOnWell, Settled, Negotiated
<1>6. ASSUME NEW m \in net[n], RepeatHelloAck(n, m)
      PROVE  GoesWell(n)
  <2>1. SameVersion(Info1(n), versions[n], peerHello[n].version)
    BY <1>6 DEF RepeatHelloAck, Known, VersionsSettled
  <2> QED
    BY <1>6, <2>1, StaysWell DEF RepeatHelloAck
<1>7. ASSUME NEW m \in net[n],
             \/ RejectHello(n, m) \/ NoCommonType(n, m)
             \/ RefuseVersion(n, m) \/ VersionsExhausted(n, m)
      PROVE  FALSE
  <2>1. m.type = "Hello"
    BY <1>7 DEF RejectHello, NoCommonType, RefuseVersion, VersionsExhausted, NewHello
  <2>2. /\ HelloCheck(n, m) = "none" /\ versions[n] # {}
        /\ HaveCommonType(MyTypes(n), m.keyAgreementTypes)
        /\ LowerVersions(Info1(n), versions[n], m.version) # {}
    BY <2>1, HelloPasses
  <2> QED
    BY <1>1, <1>7, <2>2 DEF RejectHello, NoCommonType, RefuseVersion, VersionsExhausted,
                            NewHello, compareVersions, EngineTyped
<1> QED
  BY <1>2, <1>3, <1>4, <1>5, <1>6, <1>7 DEF ProcessHello

LEMMA HelloAckWell ==
    ASSUME Known, NEW n \in Node, ProcessHelloAck(n)
    PROVE  GoesWell(n)
<1>1. KeepsTrack(n) /\ GoesOnWell(n) /\ TypeOK
  BY KnownOf
<1>2. ASSUME NEW m \in net[n], AwaitHello(n, m) \/ AwaitCommit(n, m)
      PROVE  GoesWell(n)
  <2>1. /\ \/ actualState'[n] = "ReceivedHelloAck" /\ actualState[n] = "SentHello"
           \/ actualState'[n] = "WaitCommit" /\ actualState[n] = "SentHelloAck"
        /\ peerHello'[n] = peerHello[n]
        /\ agreementFailed'[n] = agreementFailed[n] /\ locked'[n] = locked[n]
    BY <1>1, <1>2 DEF AwaitHello, AwaitCommit, GoodHelloAck, EngineTyped
  <2> QED
    BY <1>1, <2>1 DEF GoesWell, KeepsTrack, GoesOnWell, Settled, Negotiated
<1>3. ASSUME NEW m \in net[n], CommitNow(n, m)
      PROVE  GoesWell(n)
  <2>1. /\ actualState[n] = "SentHelloAck" /\ actualState'[n] = "SentCommit"
        /\ commit'[n] = CommitPacket(n, keyAgreement[n], peerHello[n])
        /\ dhPart2'[n] = DHPartPacket("DHPart2", n)
        /\ hello' = hello /\ peerHello'[n] = peerHello[n]
        /\ agreementFailed'[n] = agreementFailed[n] /\ locked'[n] = locked[n]
    BY <1>1, <1>3 DEF CommitNow, GoodHelloAck, EngineTyped, PacketsTyped, createCommitPacket,
                      SendCommit
  <2>2. commit'[n] = TheCommit(n)'
    BY <1>1, <2>1, SettledOnHello, SameMade DEF KeepsTrack, Settled, Negotiated, TheCommit
  <2> QED
    BY <1>1, <2>1, <2>2 DEF GoesWell, KeepsTrack, GoesOnWell, Settled, Negotiated
<1>4. ASSUME NEW m \in net[n], RejectHelloAck(n, m)
      PROVE  FALSE
  BY <1>4, KnownOf DEF RejectHelloAck, Malformed, Expected
<1> QED
  BY <1>2, <1>3, <1>4 DEF ProcessHelloAck

LEMMA CommitWell ==
    ASSUME Known, NEW n \in Node, ProcessCommit(n)
    PROVE  GoesWell(n)
<1>1. KeepsTrack(n) /\ GoesOnWell(n) /\ TypeOK
  BY KnownOf
<1>2. ASSUME NEW m \in net[n], m.type = "Commit", Settled(n),
             actualState' = [actualState EXCEPT ![n] = "WaitDHPart2"],
             commit'[n] = m, dhPart1'[n] = DHPartPacket("DHPart1", n), hello' = hello,
             peerHello'[n] = peerHello[n],
             agreementFailed'[n] = agreementFailed[n], locked'[n] = locked[n]
      PROVE  GoesWell(n)
  <2>1. /\ m = TheCommit(Peer[n]) /\ Settled(Peer[n])
        /\ Peer[n] # n /\ Peer[n] \in Node
    BY <1>2, CommitPasses, KnownOf
  <2>2. commit'[n] = TheCommit(Peer[n])'
    BY <1>2, <2>1, SameMade
  <2>3. actualState'[n] = "WaitDHPart2" /\ Settled(Peer[n])'
    BY <1>1, <1>2, <2>1 DEF Settled, EngineTyped
  <2> QED
    BY <1>1, <1>2, <2>2, <2>3 DEF GoesWell, KeepsTrack, GoesOnWell, Settled, Negotiated
<1>3. ASSUME NEW m \in net[n], AcceptCommit(n, m) PROVE GoesWell(n)
  <2>1. m.type = "Commit" /\ Settled(n)
    BY <1>3 DEF AcceptCommit, CommitToResponder, Settled, Negotiated
  <2> QED
    BY <1>1, <1>2, <1>3, <2>1 DEF AcceptCommit, AnswerCommit, CommitToResponder, PacketsTyped,
                                  EngineTyped
<1>4. ASSUME NEW m \in net[n], YieldContention(n, m) PROVE GoesWell(n)
  <2>1. m.type = "Commit" /\ Settled(n)
    BY <1>4 DEF YieldContention, Yield, CommitToInitiator, Settled, Negotiated
  <2> QED
    BY <1>1, <1>2, <1>4, <2>1 DEF YieldContention, Yield, AnswerCommit, CommitToInitiator,
                                  PacketsTyped, EngineTyped
<1>5. ASSUME NEW m \in net[n], WinContention(n, m) PROVE GoesWell(n)
  <2>1. /\ actualState[n] = "SentHelloAck" /\ actualState'[n] = "SentCommit"
        /\ commit'[n] = CommitPacket(n, keyAgreement[n], peerHello[n])
        /\ dhPart2'[n] = DHPartPacket("DHPart2", n)
        /\ hello' = hello /\ peerHello'[n] = peerHello[n]
        /\ agreementFailed'[n] = agreementFailed[n] /\ locked'[n] = locked[n]
    BY <1>1, <1>5 DEF WinContention, CommitToInitiator, EngineTyped, PacketsTyped,
                      createCommitPacket, SendCommit
  <2>2. commit'[n] = TheCommit(n)'
    BY <1>1, <2>1, SettledOnHello, SameMade DEF KeepsTrack, Settled, Negotiated, TheCommit
  <2> QED
    BY <1>1, <2>1, <2>2 DEF GoesWell, KeepsTrack, GoesOnWell, Settled, Negotiated
<1>6. ASSUME NEW m \in net[n], KeepCommit(n, m) \/ RepeatDHPart1(n, m) PROVE GoesWell(n)
  BY <1>6, StaysWell DEF KeepCommit, RepeatDHPart1, CommitToInitiator
<1>7. ASSUME NEW m \in net[n],
             \/ RejectCommit(n, m) \/ RejectRivalCommit(n, m)
             \/ RefuseCommit(n, m) \/ YieldAndRefuse(n, m)
      PROVE  FALSE
  <2>1. m.type = "Commit" /\ Settled(n)
    BY <1>7 DEF RejectCommit, RejectRivalCommit, RefuseCommit, YieldAndRefuse, Yield,
                CommitToResponder, CommitToInitiator, Settled, Negotiated
  <2>2. CommitCheck(n, m) = "none" /\ Compatibility(UserInfo[n], m) = "none"
    BY <2>1, CommitPasses
  <2> QED
    BY <1>7, <2>2 DEF RejectCommit, RejectRivalCommit, RefuseCommit, YieldAndRefuse
<1> QED
  BY <1>3, <1>4, <1>5, <1>6, <1>7 DEF ProcessCommit

LEMMA DHPartWell ==
    ASSUME Known, NEW n \in Node, ProcessDHPart(n)
    PROVE  GoesWell(n)
<1>1. KeepsTrack(n) /\ GoesOnWell(n) /\ TypeOK /\ Peer[n] # n /\ Peer[n] \in Node
  BY KnownOf
<1>2. ASSUME NEW m \in net[n], AcceptDHPart1(n, m) PROVE GoesWell(n)
  <2>1. /\ actualState[n] = "SentCommit" /\ actualState'[n] = "WaitConfirm1"
        /\ m.type = "DHPart1" /\ dhPart1'[n] = Parsed(m) /\ dhPart2'[n] = dhPart2[n]
        /\ keys'[n] = InitiatorKey(n, m)
        /\ hello' = hello /\ peerHello'[n] = peerHello[n]
        /\ agreementFailed'[n] = agreementFailed[n] /\ locked'[n] = locked[n]
    BY <1>1, <1>2 DEF AcceptDHPart1, ReceiveDHPart1, EngineTyped, PacketsTyped
  <2>2. /\ dhPart1'[n] = DHPartPacket("DHPart1", Peer[n])
        /\ keys'[n] = TheKeys(n, Peer[n])'
    BY <2>1, DHPart1Passes, SameMade
  <2> QED
    BY <1>1, <2>1, <2>2 DEF GoesWell, KeepsTrack, GoesOnWell, Settled, Negotiated
<1>3. ASSUME NEW m \in net[n], AcceptDHPart2(n, m) PROVE GoesWell(n)
  <2>1. /\ actualState[n] = "WaitDHPart2" /\ myRole[n] = "Responder"
        /\ actualState' = [actualState EXCEPT ![n] = "WaitConfirm2"]
        /\ m.type = "DHPart2" /\ dhPart2'[n] = m
        /\ keys'[n] = ResponderKey(n, m)
        /\ confirm1'[n] = ConfirmPacket("Confirm1", n, myRole[n], ResponderKey(n, m))
        /\ hello' = hello /\ peerHello'[n] = peerHello[n]
        /\ commit'[n] = commit[n] /\ dhPart1'[n] = dhPart1[n]
        /\ agreementFailed'[n] = agreementFailed[n] /\ locked'[n] = locked[n]
    BY <1>1, <1>3 DEF AcceptDHPart2, ReceiveDHPart2, EngineTyped, PacketsTyped, Known,
                      PacketsReady, HasPackets
  <2>2. /\ dhPart2'[n] = DHPartPacket("DHPart2", Peer[n])
        /\ ResponderKey(n, m) = TheKeys(Peer[n], n)'
    BY <2>1, DHPart2Passes, SameMade
  <2>3. /\ commit'[n] = TheCommit(Peer[n])' /\ actualState'[n] = "WaitConfirm2"
        /\ Settled(Peer[n])'
    BY <1>1, <2>1, SameMade DEF KeepsTrack, EngineTyped, Settled
  <2> QED
    BY <1>1, <2>1, <2>2, <2>3 DEF GoesWell, KeepsTrack, GoesOnWell, Settled, Negotiated
<1>4. ASSUME NEW m \in net[n], RepeatConfirm1(n, m) PROVE GoesWell(n)
  <2>1. actualState[n] = "WaitConfirm2" /\ m.type = "DHPart2" /\ dhPart2'[n] = m
    BY <1>1, <1>4 DEF RepeatConfirm1, ReceiveDHPart2, PacketsTyped
  <2>2. dhPart2'[n] = dhPart2[n]
    BY <1>1, <2>1, DHPart2Passes DEF KeepsTrack
  <2> QED
    BY <1>4, <2>2, StaysWell DEF RepeatConfirm1, ReceiveDHPart2
<1>5. ASSUME NEW m \in net[n],
             RejectDHPart1(n, m) \/ RejectDHPart2(n, m) \/ RejectDHPart2Again(n, m)
      PROVE  FALSE
  BY <1>5, DHPart1Passes, DHPart2Passes
     DEF RejectDHPart1, ReceiveDHPart1, RejectDHPart2, RejectDHPart2Again, ReceiveDHPart2
<1> QED
  BY <1>2, <1>3, <1>4, <1>5 DEF ProcessDHPart

LEMMA ConfirmWell ==
    ASSUME Known, NEW n \in Node, ProcessConfirm(n)
    PROVE  GoesWell(n)
<1>1. KeepsTrack(n) /\ GoesOnWell(n) /\ TypeOK
  BY KnownOf
<1>2. ASSUME NEW m \in net[n], AcceptConfirm1(n, m) PROVE GoesWell(n)
  <2>1. /\ actualState[n] = "WaitConfirm1" /\ actualState'[n] = "WaitConf2Ack"
        /\ myRole[n] = "Initiator"
        /\ confirm2'[n] = ConfirmPacket("Confirm2", n, myRole[n], keys[n])
        /\ hello' = hello /\ peerHello'[n] = peerHello[n]
        /\ agreementFailed'[n] = agreementFailed[n] /\ locked'[n] = locked[n]
    BY <1>1, <1>2 DEF AcceptConfirm1, ReceiveConfirm1, EngineTyped, PacketsTyped, Known,
                      PacketsReady, HasPackets
  <2>2. keys[n] = TheKeys(n, Peer[n])'
    BY <1>1, <2>1, SameMade DEF KeepsTrack
  <2> QED
    BY <1>1, <2>1, <2>2 DEF GoesWell, KeepsTrack, GoesOnWell, Settled, Negotiated
<1>3. ASSUME NEW m \in net[n], AcceptConfirm2(n, m) \/ AcceptConf2Ack(n, m) PROVE GoesWell(n)
  <2>1. /\ actualState[n] \in {"WaitConfirm2", "WaitConf2Ack"} /\ actualState'[n] = "Secured"
        /\ peerHello'[n] = peerHello[n]
        /\ agreementFailed'[n] = agreementFailed[n] /\ locked'[n] = locked[n]
    BY <1>1, <1>3 DEF AcceptConfirm2, ReceiveConfirm2, AcceptConf2Ack, EngineTyped
  <2> QED
    BY <1>1, <2>1 DEF GoesWell, KeepsTrack, GoesOnWell, Settled, Negotiated
<1>4. ASSUME NEW m \in net[n], RepeatConf2Ack(n, m) PROVE GoesWell(n)
  BY <1>4, StaysWell DEF RepeatConf2Ack
<1>5. ASSUME NEW m \in net[n], RejectConfirm1(n, m) \/ RejectConfirm2(n, m) PROVE FALSE
  BY <1>5, Confirm1Passes, Confirm2Passes
     DEF RejectConfirm1, ReceiveConfirm1, RejectConfirm2, ReceiveConfirm2
<1> QED
  BY <1>2, <1>3, <1>4, <1>5 DEF ProcessConfirm

LEMMA NothingFails ==
    ASSUME Known, NEW n \in Node
    PROVE  ~ ProcessError(n)
<1>1. \A m \in net[n] : m.type \notin {"Error", "ErrorACK"}
  BY KnownOf DEF Expected
<1> QED
  BY <1>1 DEF ProcessError, AcceptError, MalformedError, AcceptErrorAck

LEMMA StartWell ==
    ASSUME Known, NEW n \in Node, Start(n)
    PROVE  GoesWell(n)
<1>1. KeepsTrack(n) /\ GoesOnWell(n) /\ TypeOK
  BY KnownOf
<1>2. actualState[n] = "Initial" /\ actualState'[n] = "SentHello"
  BY <1>1, KnownOf DEF Start, ToStart, EngineTyped
<1> QED
  BY <1>1, <1>2 DEF Start, GoesWell, KeepsTrack, GoesOnWell, Settled, Negotiated

-----------------------------------------------------------------------------
(* So does every step. *)

LEMMA NextIsWell ==
    ASSUME Undamaged, Known, [Next]_vars
    PROVE  NetworkStep \/ \E n \in Node : EngineStep(n) /\ GoesWell(n)
<1>1. CASE UNCHANGED vars
  <2>1. ASSUME NEW n \in Node PROVE NetworkStep
    BY <1>1, EnvironmentStep DEF Known
  <2>2. CASE Node = {}
    BY <2>2 DEF NetworkStep
  <2> QED
    BY <2>1, <2>2
<1>2. CASE Next
  <2>1. PICK n \in Node :
           \/ Start(n) \/ ProcessTimeout(n) \/ ProcessMessage(n) \/ TimerExpires(n)
           \/ \E m \in net[n] : Lose(n, m)
           \/ \E m \in net[n] : \E mark \in Damages : DamageTo(n, m, mark)
    BY <1>2 DEF Next
  <2>2. CASE Start(n)
    BY <2>2, StartStep, StartWell DEF Known
  <2>3. CASE ProcessTimeout(n)
    <3>1. GoesWell(n)
      BY <2>3, StaysWell DEF ProcessTimeout, ResendHello, ResendLater, IgnoreTimeout, Resend
    <3> QED
      BY <2>3, <3>1, TimeoutStep DEF Known
  <2>4. CASE ProcessMessage(n)
    <3>1. EngineStep(n)
      BY <2>4, HelloStep, HelloAckStep, CommitStep, DHPartStep, ConfirmStep, ErrorStep,
         IgnoreStep DEF ProcessMessage, Known
    <3>2. ASSUME NEW m \in net[n], IgnoreMessage(n, m) PROVE GoesWell(n)
      BY <3>2, StaysWell DEF IgnoreMessage
    <3>3. GoesWell(n)
      BY <2>4, <3>2, HelloWell, HelloAckWell, CommitWell, DHPartWell, ConfirmWell,
         NothingFails DEF ProcessMessage
    <3> QED
      BY <3>1, <3>3
  <2> QED
    BY <2>1, <2>2, <2>3, <2>4, EnvironmentStep DEF Known
<1> QED
  BY <1>1, <1>2

(* Who has settled stays so, and makes the same. *)
LEMMA SettledStays ==
    ASSUME Undamaged, Known, [Next]_vars, NEW n \in Node, Settled(n)
    PROVE  /\ Settled(n)' /\ hello'[Peer[n]] = hello[Peer[n]]
           /\ TheCommit(n)' = TheCommit(n) /\ TheKeys(n, Peer[n])' = TheKeys(n, Peer[n])
<1>1. Settled(n)'
  BY NextIsWell DEF NetworkStep, EngineStep, Untouched, GoesWell, Settled
<1>2. hello'[Peer[n]] = hello[Peer[n]]
  BY SettledFixes, NextIsExchange DEF Known, Settled
<1>3. TheCommit(n)' = TheCommit(n)
  BY <1>2 DEF TheCommit, Choice, MyTypes
<1> QED
  BY <1>1, <1>2, <1>3 DEF TheKeys

LEMMA KeepsTrackNext ==
    ASSUME Undamaged, Known, [Next]_vars, NEW n \in Node
    PROVE  KeepsTrack(n)' /\ GoesOnWell(n)' /\ ToStart(n)'
<1>1. KeepsTrack(n) /\ GoesOnWell(n) /\ ToStart(n) /\ Peer[n] \in Node /\ Peer[Peer[n]] = n
  BY KnownOf
<1>2. CASE Untouched(n)
  <2>1. Settled(n)' => Settled(n)
    BY <1>2 DEF Untouched, Settled
  <2>2. CASE ~ Settled(n)
    BY <1>1, <1>2, <2>1, <2>2
       DEF Untouched, KeepsTrack, GoesOnWell, ToStart, Settled, Negotiated
  <2>3. CASE Settled(n)
    <3>1. TheCommit(n)' = TheCommit(n) /\ TheKeys(n, Peer[n])' = TheKeys(n, Peer[n])
      BY <2>3, SettledStays
    <3>2. Settled(Peer[n]) => /\ Settled(Peer[n])' /\ TheCommit(Peer[n])' = TheCommit(Peer[n])
                              /\ TheKeys(Peer[n], n)' = TheKeys(Peer[n], n)
      BY <1>1, SettledStays
    <3>3. KeepsTrack(n)'
      BY <1>1, <1>2, <2>1, <2>3, <3>1, <3>2 DEF Untouched, KeepsTrack
    <3> QED
      BY <1>1, <1>2, <3>3 DEF Untouched, GoesOnWell, ToStart
  <2> QED
    BY <2>2, <2>3
<1>3. CASE EngineStep(n) /\ GoesWell(n)
  BY <1>3 DEF GoesWell, ToStart, EngineStep, PacketsKept
<1> QED
  BY <1>2, <1>3, NextIsWell DEF NetworkStep, EngineStep

LEMMA ExpectedNext ==
    ASSUME Undamaged, Known, IInv', HelloInv', [Next]_vars, NEW n \in Node
    PROVE  Expected(n)'
<1> DEFINE peer == Peer[n]
<1>1. peer \in Node /\ Peer[peer] = n /\ Expected(n)
  BY KnownOf
<1>2. /\ Settled(n) => /\ Settled(n)' /\ TheKeys(n, peer)' = TheKeys(n, peer)
      /\ Settled(peer) => /\ Settled(peer)' /\ TheCommit(peer)' = TheCommit(peer)
                          /\ TheKeys(peer, n)' = TheKeys(peer, n)
  BY <1>1, SettledStays
<1> DEFINE Good(m) ==
       /\ m.mark = "intact" /\ m.type \notin {"Error", "ErrorACK"}
       /\ m.type = "Commit" => m = TheCommit(peer)' /\ Settled(peer)'
       /\ m.type = "DHPart1" => m = DHPartPacket("DHPart1", peer)
       /\ m.type = "DHPart2" => m = DHPartPacket("DHPart2", peer) /\ Settled(peer)'
       /\ m.type = "Confirm1" =>
             Settled(n)' /\ m = ConfirmPacket("Confirm1", peer, "Responder", TheKeys(n, peer)')
       /\ m.type = "Confirm2" =>
             Settled(peer)' /\ m = ConfirmPacket("Confirm2", peer, "Initiator", TheKeys(peer, n)')
<1>3. ASSUME NEW p \in net'[n], p \in net[n] PROVE Good(p)
  BY <1>1, <1>2, <1>3 DEF Expected
<1>4. ASSUME NEW p \in net'[n], EngineStep(peer), SentNow(peer, p) PROVE Good(p)
  <2>1. /\ KeepsTrack(peer)' /\ GoesOnWell(peer)' /\ sentMessage'[peer] # Unset
        /\ OwnHello(peer)'
    BY <1>1, <1>4, KeepsTrackNext DEF EngineStep, PacketsKept, HelloInv
  <2>2. CASE p = HelloAck \/ p = Conf2Ack
    BY <2>2 DEF HelloAck, Conf2Ack
  <2>3. CASE p = hello'[peer]
    <3>1. p = HelloPacket(peer, p.version)
      BY <2>1, <2>3 DEF OwnHello
    <3> QED
      BY <3>1 DEF HelloPacket
  <2>4. CASE p = commit'[peer] /\ actualState'[peer] = "SentCommit"
    <3>1. p = TheCommit(peer)' /\ Settled(peer)'
      BY <2>1, <2>4 DEF KeepsTrack, Settled, Negotiated
    <3> QED
      BY <3>1 DEF TheCommit, CommitPacket
  <2>5. CASE p = dhPart1'[peer] /\ actualState'[peer] = "WaitDHPart2"
    <3>1. p = DHPartPacket("DHPart1", peer)
      BY <2>1, <2>5 DEF KeepsTrack
    <3> QED
      BY <3>1 DEF DHPartPacket
  <2>6. CASE p = dhPart2'[peer] /\ actualState'[peer] = "WaitConfirm1"
    <3>1. p = DHPartPacket("DHPart2", peer) /\ Settled(peer)'
      BY <2>1, <2>6 DEF KeepsTrack, Settled, Negotiated
    <3> QED
      BY <3>1 DEF DHPartPacket
  <2>7. CASE p = confirm1'[peer] /\ actualState'[peer] = "WaitConfirm2"
    <3>1. p = ConfirmPacket("Confirm1", peer, "Responder", TheKeys(n, peer)') /\ Settled(n)'
      BY <1>1, <2>1, <2>7 DEF KeepsTrack
    <3> QED
      BY <3>1 DEF ConfirmPacket
  <2>8. CASE p = confirm2'[peer] /\ actualState'[peer] = "WaitConf2Ack"
    <3>1. p = ConfirmPacket("Confirm2", peer, "Initiator", TheKeys(peer, n)') /\ Settled(peer)'
      BY <1>1, <2>1, <2>8 DEF KeepsTrack, Settled, Negotiated
    <3> QED
      BY <3>1 DEF ConfirmPacket
  <2>9. CASE actualState'[peer] \in {"WaitErrorAck", "Initial"}
    BY <2>1, <2>9 DEF GoesOnWell
  <2> QED
    BY <1>4, <2>2, <2>3, <2>4, <2>5, <2>6, <2>7, <2>8, <2>9 DEF SentNow
<1>5. \A p \in net'[n] : p \in net[n] \/ (EngineStep(peer) /\ SentNow(peer, p))
  BY Arriving, NextIsSummary DEF Known, Carried, Undamaged
<1>6. \A p \in net'[n] : Good(p)
  BY <1>3, <1>4, <1>5
<1> QED
  BY <1>6 DEF Expected

LEMMA WellInit ==
    ASSUME OnlyAcksLeft, Init
    PROVE  WellInv
<1> SUFFICES ASSUME NEW n \in Node
             PROVE  KeepsTrack(n) /\ GoesOnWell(n) /\ ToStart(n) /\ Expected(n)
  BY DEF WellInv
<1>1. KeepsTrack(n) /\ GoesOnWell(n) /\ ToStart(n)
  BY DEF Init, KeepsTrack, GoesOnWell, ToStart, Settled, Negotiated
<1>2. \A m \in net[n] : m \in {HelloAck, Conf2Ack}
  BY DEF Init, OnlyAcksLeft
<1>3. Expected(n)
  BY <1>2 DEF Expected, HelloAck, Conf2Ack
<1> QED
  BY <1>1, <1>3

LEMMA AcksAreNoHellos ==
    OnlyAcksLeft => NoEarlierHello
BY DEF OnlyAcksLeft, NoEarlierHello, HelloAck, Conf2Ack

LEMMA UndamagedBodies ==
    Undamaged => BodiesKept
BY DEF Undamaged, BodiesKept

LEMMA WellInvariant ==
    ASSUME Undamaged, OnlyAcksLeft, CompatibleUsers, SomeCommonVersion
    PROVE  Spec => []WellInv
<1>1. Init => WellInv
  BY WellInit
<1>2. IInv /\ HelloInv /\ HelloInv' /\ CommonInv /\ WellInv /\ [Next]_vars => WellInv'
  BY NextKeepsIInv, KeepsTrackNext, ExpectedNext DEF WellInv, Known
<1> QED
  BY <1>1, <1>2, AcksAreNoHellos, UndamagedBodies, EngineInvariant, HelloInvariant,
     CommonInvariant, PTL DEF Spec

(* Compatible endpoints do not fail: no packet that loss, delay,           *)
(* duplication, reordering or a late timeout makes arrive in a state it    *)
(* was not sent for is taken for a wrong one (processEvent, the checks of  *)
(* its handlers).                                                          *)
THEOREM NoEndpointFails ==
    ASSUME Undamaged, OnlyAcksLeft, CompatibleUsers, SomeCommonVersion
    PROVE  Spec => []NeverFails
<1>1. WellInv => NeverFails
  BY DEF WellInv, GoesOnWell, NeverFails
<1> QED
  BY <1>1, WellInvariant, PTL

-----------------------------------------------------------------------------
(* The critical section.  Two paths of processEvent do not leave it: that  *)
(* of an Error whose length is wrong, and the exception for an empty list  *)
(* of versions.  There is no third.                                        *)

(* The network delivers Errors in the length they were sent in. *)
ErrorsWhole ==
    /\ "badLength" \notin Damages
    /\ \A n \in Node : \A m \in Leftover[n] : m.type = "Error" => m.mark # "badLength"

ErrorMade(n) == error[n].type = "Error" => error[n].mark = "intact"

WholeArrive(n) == \A m \in net[n] : m.type = "Error" => m.mark # "badLength"

SectionInv == \A n \in Node : ErrorMade(n) /\ WholeArrive(n) /\ ~ locked[n]

(* All that is known before a step. *)
Before == SomeCommonVersion /\ IInv /\ HelloInv /\ CommonInv /\ SectionInv

LeavesSection(n) ==
    /\ locked' = locked
    /\ \/ error' = error
       \/ error' = [error EXCEPT ![n] = Freed]
       \/ \E code : error' = [error EXCEPT ![n] = ErrorPacket(n, code)]

LEMMA HelloLeaves ==
    ASSUME Before, NEW n \in Node, ProcessHello(n)
    PROVE  LeavesSection(n)
<1>1. \A m \in net[n] : ~ VersionsExhausted(n, m)
  BY CommonIsKept DEF Before, HelloInv, CommonInv, VersionsExhausted
<1>2. ASSUME NEW m \in net[n], RepeatHelloAck(n, m) PROVE LeavesSection(n)
  <2>1. SameVersion(Info1(n), versions[n], peerHello[n].version)
    BY <1>2 DEF RepeatHelloAck, Before, VersionsSettled
  <2> QED
    BY <1>2, <2>1 DEF RepeatHelloAck, LeavesSection
<1>3. ASSUME NEW m \in net[n],
             \/ AcceptHello(n, m) \/ AcceptHelloAsResponder(n, m)
             \/ AcceptHelloAsInitiator(n, m) \/ NegotiateVersion(n, m)
      PROVE  LeavesSection(n)
  BY <1>3 DEF AcceptHello, AcceptHelloAsResponder, AcceptHelloAsInitiator, NegotiateVersion,
              NewHello, LeavesSection
<1>4. ASSUME NEW m \in net[n],
             RejectHello(n, m) \/ NoCommonType(n, m) \/ RefuseVersion(n, m)
      PROVE  LeavesSection(n)
  BY <1>4 DEF RejectHello, NoCommonType, RefuseVersion, NewHello, LeavesSection
<1> QED
  BY <1>1, <1>2, <1>3, <1>4 DEF ProcessHello

LEMMA CommitLeaves ==
    ASSUME Before, NEW n \in Node, ProcessHelloAck(n) \/ ProcessCommit(n)
    PROVE  LeavesSection(n)
<1>1. CASE ProcessHelloAck(n)
  BY <1>1 DEF ProcessHelloAck, RejectHelloAck, AwaitHello, AwaitCommit, CommitNow,
              GoodHelloAck, LeavesSection
<1>2. ASSUME NEW m \in net[n],
             \/ AcceptCommit(n, m) \/ WinContention(n, m) \/ KeepCommit(n, m)
             \/ YieldContention(n, m) \/ RepeatDHPart1(n, m)
      PROVE  LeavesSection(n)
  BY <1>2 DEF AcceptCommit, WinContention, KeepCommit, YieldContention, Yield, AnswerCommit,
              RepeatDHPart1, LeavesSection
<1>3. ASSUME NEW m \in net[n],
             \/ RejectCommit(n, m) \/ RejectRivalCommit(n, m)
             \/ RefuseCommit(n, m) \/ YieldAndRefuse(n, m)
      PROVE  LeavesSection(n)
  BY <1>3 DEF RejectCommit, RejectRivalCommit, RefuseCommit, YieldAndRefuse, Yield,
              AnswerCommit, LeavesSection
<1> QED
  BY <1>1, <1>2, <1>3 DEF ProcessCommit

LEMMA ConfirmLeaves ==
    ASSUME Before, NEW n \in Node, ProcessDHPart(n) \/ ProcessConfirm(n)
    PROVE  LeavesSection(n)
<1>1. ASSUME NEW m \in net[n],
             \/ AcceptDHPart1(n, m) \/ AcceptDHPart2(n, m) \/ RepeatConfirm1(n, m)
             \/ AcceptConfirm1(n, m) \/ AcceptConfirm2(n, m)
             \/ RepeatConf2Ack(n, m) \/ AcceptConf2Ack(n, m)
      PROVE  LeavesSection(n)
  BY <1>1 DEF AcceptDHPart1, ReceiveDHPart1, AcceptDHPart2, RepeatConfirm1, ReceiveDHPart2,
              AcceptConfirm1, ReceiveConfirm1, AcceptConfirm2, ReceiveConfirm2,
              RepeatConf2Ack, AcceptConf2Ack, LeavesSection
<1>2. ASSUME NEW m \in net[n],
             \/ RejectDHPart1(n, m) \/ RejectDHPart2(n, m) \/ RejectDHPart2Again(n, m)
             \/ RejectConfirm1(n, m) \/ RejectConfirm2(n, m)
      PROVE  LeavesSection(n)
  BY <1>2 DEF RejectDHPart1, ReceiveDHPart1, RejectDHPart2, RejectDHPart2Again,
              ReceiveDHPart2, RejectConfirm1, ReceiveConfirm1, RejectConfirm2,
              ReceiveConfirm2, LeavesSection
<1> QED
  BY <1>1, <1>2 DEF ProcessDHPart, ProcessConfirm

LEMMA ErrorLeaves ==
    ASSUME Before, NEW n \in Node, ProcessError(n)
    PROVE  LeavesSection(n)
<1>1. \A m \in net[n] : ~ MalformedError(n, m)
  BY DEF Before, SectionInv, WholeArrive, MalformedError
<1>2. ASSUME NEW m \in net[n], AcceptError(n, m) \/ AcceptErrorAck(n, m)
      PROVE  LeavesSection(n)
  BY <1>2 DEF AcceptError, AcceptErrorAck, LeavesSection
<1> QED
  BY <1>1, <1>2 DEF ProcessError

LEMMA SectionLeft ==
    ASSUME Before, [Next]_vars
    PROVE  (locked' = locked /\ error' = error) \/ \E n \in Node : LeavesSection(n)
<1>1. CASE UNCHANGED vars
  BY <1>1 DEF vars
<1>2. CASE Next
  <2>1. PICK n \in Node :
           \/ Start(n) \/ ProcessTimeout(n) \/ ProcessMessage(n) \/ TimerExpires(n)
           \/ \E m \in net[n] : Lose(n, m)
           \/ \E m \in net[n] : \E mark \in Damages : DamageTo(n, m, mark)
    BY <1>2 DEF Next
  <2>2. CASE ProcessMessage(n)
    <3>1. ASSUME NEW m \in net[n], IgnoreMessage(n, m) PROVE LeavesSection(n)
      BY <3>1 DEF IgnoreMessage, LeavesSection
    <3> QED
      BY <2>2, <3>1, HelloLeaves, CommitLeaves, ConfirmLeaves, ErrorLeaves DEF ProcessMessage
  <2>3. CASE Start(n) \/ ProcessTimeout(n)
    BY <2>3 DEF Start, ProcessTimeout, ResendHello, ResendLater, IgnoreTimeout, Resend
  <2>4. CASE \/ TimerExpires(n)
             \/ \E m \in net[n] : Lose(n, m)
             \/ \E m \in net[n] : \E mark \in Damages : DamageTo(n, m, mark)
    BY <2>4 DEF TimerExpires, Lose, DamageTo, engineVars
  <2> QED
    BY <2>1, <2>2, <2>3, <2>4
<1> QED
  BY <1>1, <1>2

LEMMA SectionNext ==
    ASSUME ErrorsWhole, Before, IInv', [Next]_vars, NEW n \in Node
    PROVE  ErrorMade(n)' /\ WholeArrive(n)' /\ ~ locked'[n]
<1>1. ~ locked'[n]
  BY SectionLeft DEF LeavesSection, Before, SectionInv
<1>2. \A k \in Node : ErrorMade(k)'
  <2>1. ASSUME NEW k \in Node, NEW code
        PROVE  ErrorPacket(k, code).mark = "intact"
    BY DEF ErrorPacket
  <2>2. Freed.type # "Error"
    BY DEF Freed
  <2>3. \A k \in Node : ErrorMade(k)
    BY DEF Before, SectionInv
  <2>4. error \in [Node -> Errors \cup {Unset, Freed}]
    BY DEF Before, PacketsTyped
  <2>5. ASSUME NEW k \in Node, LeavesSection(k) PROVE \A j \in Node : ErrorMade(j)'
    BY <2>1, <2>2, <2>3, <2>4, <2>5 DEF LeavesSection, ErrorMade
  <2> QED
    BY <2>3, <2>5, SectionLeft DEF ErrorMade
<1>3. ASSUME NEW p \in net'[n], p.type = "Error" PROVE p.mark # "badLength"
  <2>1. CASE \E q \in net[n] : Carried(q, p)
    <3>1. PICK q \in net[n] : Carried(q, p)
      BY <2>1
    <3>2. q \in Packets /\ (q.type = "Error" => q.mark # "badLength")
      BY DEF Before, NetworkTyped, SectionInv, WholeArrive
    <3>3. CASE p = q
      BY <1>3, <3>2, <3>3
    <3>4. CASE \E mark \in Damages : p \in Damaged(q, mark)
      <4>1. PICK mark \in Damages : p \in Damaged(q, mark)
        BY <3>4
      <4>2. q.type = "Error"
        BY <1>3, <3>1, <3>2, CarriedFields
      <4>3. p = [q EXCEPT !.mark = mark]
        BY <4>1, <4>2 DEF Damaged, Garbled
      <4>4. p.mark = mark
        BY <3>2, <4>3 DEF Packets, Hellos, Acks, Commits, DHParts, Confirms, Errors
      <4> QED
        BY <4>4 DEF ErrorsWhole
    <3> QED
      BY <3>1, <3>3, <3>4 DEF Carried
  <2>2. CASE SentNow(Peer[n], p)
    <3>1. Peer[n] \in Node
      BY PeerFacts
    <3>2. p = error'[Peer[n]]
      BY <1>3, <2>2, <3>1, SentState
    <3> QED
      BY <1>2, <1>3, <3>1, <3>2 DEF ErrorMade
  <2> QED
    BY <2>1, <2>2, Arriving, NextIsSummary DEF Before
<1> QED
  BY <1>1, <1>2, <1>3 DEF WholeArrive

LEMMA SectionInit ==
    ASSUME ErrorsWhole, Init
    PROVE  SectionInv
<1>1. Unset.type # "Error"
  BY DEF Unset
<1> QED
  BY <1>1 DEF Init, SectionInv, ErrorMade, WholeArrive, ErrorsWhole

(* Every call of processEvent leaves the critical section it entered, if   *)
(* the two users have a version in common, which no damaged Hello hides,   *)
(* and Errors arrive in the length they were sent in: run mutex shows what *)
(* one of another length does.                                             *)
THEOREM CriticalSectionIsLeft ==
    ASSUME BodiesKept, ErrorsWhole, SomeCommonVersion, NoEarlierHello
    PROVE  Spec => []CriticalSectionLeft
<1>1. Init => SectionInv
  BY SectionInit
<1>2. IInv /\ HelloInv /\ CommonInv /\ SectionInv /\ [Next]_vars => SectionInv'
  BY NextKeepsIInv, SectionNext DEF SectionInv, Before
<1>3. SectionInv => CriticalSectionLeft
  BY DEF SectionInv, CriticalSectionLeft
<1> QED
  BY <1>1, <1>2, <1>3, EngineInvariant, HelloInvariant, CommonInvariant, PTL DEF Spec
=============================================================================
