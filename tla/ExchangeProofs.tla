--------------------------- MODULE ExchangeProofs ---------------------------
(***************************************************************************)
(* What two endpoints decide from Hellos and Commits, each alone: the      *)
(* version, the key agreement type and who is the Initiator.  The theorems *)
(* hold for any lists of versions, any users, any order and number of      *)
(* datagrams; the hypotheses say what they need of the datagrams that an   *)
(* earlier session has left on their way.                                  *)
(*                                                                         *)
(* These decisions are taken before a MAC tells whether a Hello or a       *)
(* Commit is the peer's, so most hold only of a network that changes no    *)
(* field of them: BodiesKept, each theorem says whether it needs it.       *)
(***************************************************************************)
EXTENDS SessionProofs

(* Before the endpoint has settled on a Hello of its peer. *)
Exchanging == {"SentHello", "ReceivedHelloAck"}

SameHellos(n) ==
    versions'[n] = versions[n] /\ hello'[n] = hello[n] /\ peerHello'[n] = peerHello[n]

SameChoice(n) == keyAgreement'[n] = keyAgreement[n]
SameCommit(n) == commit'[n] = commit[n]

-----------------------------------------------------------------------------
(* What a step of n does to its Hellos, its type, its Commit and its role. *)

(* Resends, acknowledgements and all that follows the Commit. *)
LeavesExchange(n) ==
    /\ sentMessage[n] # Unset
    /\ SameHellos(n) /\ SameChoice(n) /\ SameCommit(n) /\ SameRole(n)
    /\ actualState'[n] \in Exchanging => actualState[n] \in Exchanging
    /\ actualState'[n] \in Negotiated => actualState[n] \in Negotiated
    /\ actualState'[n] = "SentCommit" => actualState[n] = "SentCommit"

Begins(n) ==
    /\ sentMessage[n] = Unset /\ actualState'[n] = "SentHello"
    /\ SameHellos(n) /\ SameChoice(n) /\ SameCommit(n) /\ SameRole(n)
    /\ hello[n] \in net'[Peer[n]]

(* Hello m arrives, and is not malformed or the own one. *)
Compares(n, m) ==
    /\ actualState[n] \in Exchanging /\ sentMessage[n] # Unset
    /\ m.type = "Hello" /\ HelloCheck(n, m) = "none"

SettlesOn(n, m) ==
    /\ Compares(n, m)
    /\ versions[n] # {} /\ SameVersion(Info1(n), versions[n], m.version)
    /\ actualState'[n] \in {"SentHelloAck", "WaitCommit", "SentCommit"}
    /\ versions'[n] = versions[n] /\ hello'[n] = hello[n] /\ peerHello'[n] = m
    /\ HaveCommonType(MyTypes(n), m.keyAgreementTypes)
    /\ keyAgreement'[n] = chooseAlgorithm(MyTypes(n), m.keyAgreementTypes)
    /\ IF actualState'[n] = "SentCommit"
         THEN commit'[n] = CommitPacket(n, keyAgreement'[n], m)
         ELSE SameCommit(n)
    /\ SameRole(n)

LowersFor(n, m) ==
    /\ Compares(n, m)
    /\ versions[n] # {} /\ ~ SameVersion(Info1(n), versions[n], m.version)
    /\ actualState'[n] = actualState[n]
    /\ versions'[n] = LowerVersions(Info1(n), versions[n], m.version)
    /\ actualState[n] = "SentHello" => versions'[n] # {}
    /\ hello'[n] = IF versions'[n] \in {{}, versions[n]} THEN hello[n]
                   ELSE HelloPacket(n, chooseHighestVersion(Info1(n), versions'[n]))
    /\ hello'[n] \in net'[Peer[n]]
    /\ SameChoice(n) /\ SameCommit(n) /\ SameRole(n)

(* A Hello that cannot be settled on ends the session, or its thread. *)
StopsFor(n, m) ==
    /\ actualState[n] \in Exchanging /\ sentMessage[n] # Unset
    /\ m.type = "Hello" /\ (actualState'[n] = "WaitErrorAck" \/ versions[n] = {})
    /\ actualState'[n] \in {actualState[n], "WaitErrorAck"}
    /\ hello'[n] = hello[n]
    /\ \/ versions'[n] = versions[n]
       \/ /\ versions[n] # {} /\ versions'[n] = {}
          /\ HelloCheck(n, m) = "none"
          /\ LowerVersions(Info1(n), versions[n], m.version) = {}
    /\ peerHello'[n] \in {m, Blank}
    /\ SameChoice(n) /\ SameCommit(n) /\ SameRole(n)

MakesCommit(n) ==
    /\ actualState[n] = "SentHelloAck" /\ actualState'[n] \in {"SentCommit", "WaitErrorAck"}
    /\ sentMessage[n] # Unset
    /\ SameHellos(n) /\ SameChoice(n) /\ SameRole(n)
    /\ commit'[n] = CommitPacket(n, keyAgreement[n], peerHello[n])

RejectsCommit(n) ==
    /\ actualState[n] \in {"SentHelloAck", "WaitCommit"} /\ actualState'[n] = "WaitErrorAck"
    /\ sentMessage[n] # Unset
    /\ SameHellos(n) /\ SameChoice(n) /\ SameRole(n)

(* Contention is decided here: the own hvi is not greater. *)
AnswersCommit(n, m) ==
    /\ actualState[n] \in {"SentHelloAck", "WaitCommit", "SentCommit"}
    /\ actualState'[n] \in {"WaitDHPart2", "WaitErrorAck"}
    /\ sentMessage[n] # Unset
    /\ m.type = "Commit" /\ m.src = peerHello[n].src
    /\ SameHellos(n) /\ commit'[n] = m
    /\ keyAgreement'[n] \in {keyAgreement[n], m.keyAgreement}
    /\ IsResponder(n) \/ HviRank[n] <= HviRank[m.hvi.dhPart2.src]
    /\ myRole'[n] = "Responder"

ExchangeStep(n) ==
    \/ LeavesExchange(n)
    \/ Begins(n)
    \/ \E m \in net[n] : SettlesOn(n, m)
    \/ \E m \in net[n] : LowersFor(n, m)
    \/ \E m \in net[n] : StopsFor(n, m)
    \/ MakesCommit(n)
    \/ RejectsCommit(n)
    \/ \E m \in net[n] : AnswersCommit(n, m)

ExchangeSummary ==
    \/ NetworkStep
    \/ \E n \in Node : EngineStep(n) /\ ExchangeStep(n)

-----------------------------------------------------------------------------
USE DEF IInv, TypeOK, CanProcess, Handling, HandlingTimeout, Goto, Send, ReplyAndKeep,
        timerStart1, timerStart2, cancelTimer, sendError, helloVars, packetVars,
        timerVars, outcomeVars, IsInitiator, IsResponder, Resending, States

LEMMA HviRanks ==
    ASSUME TypeOK, NEW n \in Node, NEW m \in net[n], m.type = "Commit"
    PROVE  HviRank[n] \in Nat /\ HviRank[m.hvi.dhPart2.src] \in Nat
<1>1. m.hvi.dhPart2.src \in Identity
  BY Received DEF Commits, DHParts
<1> QED
  BY <1>1, RankAssumption, NodeAssumption

LEMMA HelloExchange ==
    ASSUME IInv, NEW n \in Node, ProcessHello(n)
    PROVE  ExchangeStep(n)
<1>1. ASSUME NEW m \in net[n], RejectHello(n, m) PROVE ExchangeStep(n)
  <2>1. StopsFor(n, m)
    BY <1>1 DEF PacketsTyped, EngineTyped, StopsFor, Exchanging, SameChoice, SameCommit,
                SameRole, Parsed, RejectHello
  <2> QED
    BY <2>1 DEF ExchangeStep
<1>2. ASSUME NEW m \in net[n], AcceptHello(n, m) PROVE ExchangeStep(n)
  <2>1. SettlesOn(n, m)
    BY <1>2 DEF PacketsTyped, EngineTyped, SettlesOn, Compares, Exchanging, SameCommit,
                SameRole, AcceptHello, NewHello, ChooseType
  <2> QED
    BY <2>1 DEF ExchangeStep
<1>3. ASSUME NEW m \in net[n], AcceptHelloAsResponder(n, m) PROVE ExchangeStep(n)
  <2>1. SettlesOn(n, m)
    BY <1>3 DEF PacketsTyped, EngineTyped, SettlesOn, Compares, Exchanging, SameCommit,
                SameRole, AcceptHelloAsResponder, NewHello, ChooseType
  <2> QED
    BY <2>1 DEF ExchangeStep
<1>4. ASSUME NEW m \in net[n], AcceptHelloAsInitiator(n, m) PROVE ExchangeStep(n)
  <2>1. SettlesOn(n, m)
    BY <1>4 DEF PacketsTyped, EngineTyped, SettlesOn, Compares, Exchanging, SameCommit,
                SameRole, AcceptHelloAsInitiator, NewHello, ChooseType, createCommitPacket,
                SendCommit
  <2> QED
    BY <2>1 DEF ExchangeStep
<1>5. ASSUME NEW m \in net[n], NoCommonType(n, m) PROVE ExchangeStep(n)
  <2>1. StopsFor(n, m)
    BY <1>5 DEF PacketsTyped, EngineTyped, StopsFor, Exchanging, SameChoice, SameCommit,
                SameRole, Parsed, NoCommonType, NewHello
  <2> QED
    BY <2>1 DEF ExchangeStep
<1>6. ASSUME NEW m \in net[n], NegotiateVersion(n, m) PROVE ExchangeStep(n)
  <2>1. LowersFor(n, m)
    BY <1>6, PeerFacts DEF PacketsTyped, EngineTyped, LowersFor, Compares, Exchanging,
                           SameChoice, SameCommit, SameRole, NetworkTyped, Reply,
                           NegotiateVersion, NewHello, compareVersions
  <2> QED
    BY <2>1 DEF ExchangeStep
<1>7. ASSUME NEW m \in net[n], RefuseVersion(n, m) PROVE ExchangeStep(n)
  <2>1. StopsFor(n, m)
    BY <1>7 DEF PacketsTyped, EngineTyped, StopsFor, Exchanging, SameChoice, SameCommit,
                SameRole, Parsed, RefuseVersion, NewHello, compareVersions
  <2> QED
    BY <2>1 DEF ExchangeStep
<1>8. ASSUME NEW m \in net[n], VersionsExhausted(n, m) PROVE ExchangeStep(n)
  <2>1. StopsFor(n, m)
    BY <1>8 DEF PacketsTyped, EngineTyped, StopsFor, Exchanging, SameChoice, SameCommit,
                SameRole, Parsed, VersionsExhausted
  <2> QED
    BY <2>1 DEF ExchangeStep
<1>9. ASSUME NEW m \in net[n], RepeatHelloAck(n, m) PROVE ExchangeStep(n)
  <2>1. LeavesExchange(n)
    BY <1>9 DEF PacketsTyped, EngineTyped, LeavesExchange, Exchanging, Negotiated,
                SameHellos, SameChoice, SameCommit, SameRole, RepeatHelloAck, VersionsSettled
  <2> QED
    BY <2>1 DEF ExchangeStep
<1> QED
  BY <1>1, <1>2, <1>3, <1>4, <1>5, <1>6, <1>7, <1>8, <1>9 DEF ProcessHello

LEMMA HelloAckExchange ==
    ASSUME IInv, NEW n \in Node, ProcessHelloAck(n)
    PROVE  ExchangeStep(n)
<1>1. ASSUME NEW m \in net[n], RejectHelloAck(n, m) PROVE ExchangeStep(n)
  <2>1. LeavesExchange(n)
    BY <1>1 DEF PacketsTyped, EngineTyped, LeavesExchange, Exchanging, Negotiated,
                SameHellos, SameChoice, SameCommit, SameRole, RejectHelloAck
  <2> QED
    BY <2>1 DEF ExchangeStep
<1>2. ASSUME NEW m \in net[n], AwaitHello(n, m) PROVE ExchangeStep(n)
  <2>1. LeavesExchange(n)
    BY <1>2 DEF PacketsTyped, EngineTyped, LeavesExchange, Exchanging, Negotiated,
                SameHellos, SameChoice, SameCommit, SameRole, AwaitHello, GoodHelloAck
  <2> QED
    BY <2>1 DEF ExchangeStep
<1>3. ASSUME NEW m \in net[n], AwaitCommit(n, m) PROVE ExchangeStep(n)
  <2>1. LeavesExchange(n)
    BY <1>3 DEF PacketsTyped, EngineTyped, LeavesExchange, Exchanging, Negotiated,
                SameHellos, SameChoice, SameCommit, SameRole, AwaitCommit, GoodHelloAck
  <2> QED
    BY <2>1 DEF ExchangeStep
<1>4. ASSUME NEW m \in net[n], CommitNow(n, m) PROVE ExchangeStep(n)
  <2>1. MakesCommit(n)
    BY <1>4 DEF PacketsTyped, EngineTyped, MakesCommit, SameHellos, SameChoice, SameRole,
                CommitNow, GoodHelloAck, createCommitPacket, SendCommit
  <2> QED
    BY <2>1 DEF ExchangeStep
<1> QED
  BY <1>1, <1>2, <1>3, <1>4 DEF ProcessHelloAck

LEMMA CommitExchange ==
    ASSUME IInv, NEW n \in Node, ProcessCommit(n)
    PROVE  ExchangeStep(n)
<1>1. ASSUME NEW m \in net[n], RejectCommit(n, m) PROVE ExchangeStep(n)
  <2>1. RejectsCommit(n)
    BY <1>1 DEF PacketsTyped, EngineTyped, RejectsCommit, SameHellos, SameChoice, SameRole,
                RejectCommit, CommitToResponder
  <2> QED
    BY <2>1 DEF ExchangeStep
<1>2. ASSUME NEW m \in net[n], RejectRivalCommit(n, m) PROVE ExchangeStep(n)
  <2>1. CASE actualState[n] = "SentHelloAck"
    <3>1. MakesCommit(n)
      BY <1>2, <2>1 DEF PacketsTyped, EngineTyped, OwnCommit, MakesCommit, SameHellos,
                        SameChoice, SameRole, RejectRivalCommit, CommitToInitiator
    <3> QED
      BY <3>1 DEF ExchangeStep
  <2>2. CASE actualState[n] = "SentCommit"
    <3>1. LeavesExchange(n)
      BY <1>2, <2>2 DEF PacketsTyped, EngineTyped, OwnCommit, LeavesExchange, Exchanging,
                        Negotiated, SameHellos, SameChoice, SameCommit, SameRole,
                        RejectRivalCommit, CommitToInitiator
    <3> QED
      BY <3>1 DEF ExchangeStep
  <2> QED
    BY <1>2, <2>1, <2>2 DEF RejectRivalCommit, CommitToInitiator
<1>3. ASSUME NEW m \in net[n], AcceptCommit(n, m) PROVE ExchangeStep(n)
  <2>1. AnswersCommit(n, m)
    BY <1>3, HviRanks DEF PacketsTyped, EngineTyped, AnswersCommit, SameHellos, CommitCheck,
                          SameChain, PacketsReady, HasPackets, AcceptCommit,
                          CommitToResponder, AnswerCommit
  <2> QED
    BY <2>1 DEF ExchangeStep
<1>4. ASSUME NEW m \in net[n], RefuseCommit(n, m) PROVE ExchangeStep(n)
  <2>1. AnswersCommit(n, m)
    BY <1>4, HviRanks DEF PacketsTyped, EngineTyped, AnswersCommit, SameHellos, CommitCheck,
                          SameChain, PacketsReady, HasPackets, RefuseCommit,
                          CommitToResponder, AnswerCommit
  <2> QED
    BY <2>1 DEF ExchangeStep
<1>5. ASSUME NEW m \in net[n], WinContention(n, m) PROVE ExchangeStep(n)
  <2>1. MakesCommit(n)
    BY <1>5 DEF PacketsTyped, EngineTyped, MakesCommit, SameHellos, SameChoice, SameRole,
                WinContention, CommitToInitiator, createCommitPacket, SendCommit
  <2> QED
    BY <2>1 DEF ExchangeStep
<1>6. ASSUME NEW m \in net[n], KeepCommit(n, m) PROVE ExchangeStep(n)
  <2>1. LeavesExchange(n)
    BY <1>6 DEF PacketsTyped, EngineTyped, LeavesExchange, Exchanging, Negotiated,
                SameHellos, SameChoice, SameCommit, SameRole, KeepCommit, CommitToInitiator
  <2> QED
    BY <2>1 DEF ExchangeStep
<1>7. ASSUME NEW m \in net[n], YieldContention(n, m) PROVE ExchangeStep(n)
  <2>1. AnswersCommit(n, m)
    BY <1>7, HviRanks DEF PacketsTyped, EngineTyped, AnswersCommit, SameHellos, CommitCheck,
                          SameChain, GreaterHvi, YieldContention, CommitToInitiator, Yield,
                          AnswerCommit
  <2> QED
    BY <2>1 DEF ExchangeStep
<1>8. ASSUME NEW m \in net[n], YieldAndRefuse(n, m) PROVE ExchangeStep(n)
  <2>1. AnswersCommit(n, m)
    BY <1>8, HviRanks DEF PacketsTyped, EngineTyped, AnswersCommit, SameHellos, CommitCheck,
                          SameChain, GreaterHvi, YieldAndRefuse, CommitToInitiator, Yield,
                          AnswerCommit
  <2> QED
    BY <2>1 DEF ExchangeStep
<1>9. ASSUME NEW m \in net[n], RepeatDHPart1(n, m) PROVE ExchangeStep(n)
  <2>1. LeavesExchange(n)
    BY <1>9 DEF PacketsTyped, EngineTyped, LeavesExchange, Exchanging, Negotiated,
                SameHellos, SameChoice, SameCommit, SameRole, RepeatDHPart1
  <2> QED
    BY <2>1 DEF ExchangeStep
<1> QED
  BY <1>1, <1>2, <1>3, <1>4, <1>5, <1>6, <1>7, <1>8, <1>9 DEF ProcessCommit

LEMMA DHPartExchange ==
    ASSUME IInv, NEW n \in Node, ProcessDHPart(n)
    PROVE  ExchangeStep(n)
<1>1. ASSUME NEW m \in net[n], RejectDHPart1(n, m) PROVE ExchangeStep(n)
  <2>1. LeavesExchange(n)
    BY <1>1 DEF PacketsTyped, EngineTyped, LeavesExchange, Exchanging, Negotiated,
                SameHellos, SameChoice, SameCommit, SameRole, RejectDHPart1, ReceiveDHPart1
  <2> QED
    BY <2>1 DEF ExchangeStep
<1>2. ASSUME NEW m \in net[n], AcceptDHPart1(n, m) PROVE ExchangeStep(n)
  <2>1. LeavesExchange(n)
    BY <1>2 DEF PacketsTyped, EngineTyped, LeavesExchange, Exchanging, Negotiated,
                SameHellos, SameChoice, SameCommit, SameRole, AcceptDHPart1, ReceiveDHPart1
  <2> QED
    BY <2>1 DEF ExchangeStep
<1>3. ASSUME NEW m \in net[n], RejectDHPart2(n, m) PROVE ExchangeStep(n)
  <2>1. LeavesExchange(n)
    BY <1>3 DEF PacketsTyped, EngineTyped, LeavesExchange, Exchanging, Negotiated,
                SameHellos, SameChoice, SameCommit, SameRole, RejectDHPart2, ReceiveDHPart2
  <2> QED
    BY <2>1 DEF ExchangeStep
<1>4. ASSUME NEW m \in net[n], AcceptDHPart2(n, m) PROVE ExchangeStep(n)
  <2>1. LeavesExchange(n)
    BY <1>4 DEF PacketsTyped, EngineTyped, LeavesExchange, Exchanging, Negotiated,
                SameHellos, SameChoice, SameCommit, SameRole, AcceptDHPart2, ReceiveDHPart2
  <2> QED
    BY <2>1 DEF ExchangeStep
<1>5. ASSUME NEW m \in net[n], RejectDHPart2Again(n, m) PROVE ExchangeStep(n)
  <2>1. LeavesExchange(n)
    BY <1>5 DEF PacketsTyped, EngineTyped, LeavesExchange, Exchanging, Negotiated,
                SameHellos, SameChoice, SameCommit, SameRole, RejectDHPart2Again,
                ReceiveDHPart2
  <2> QED
    BY <2>1 DEF ExchangeStep
<1>6. ASSUME NEW m \in net[n], RepeatConfirm1(n, m) PROVE ExchangeStep(n)
  <2>1. LeavesExchange(n)
    BY <1>6 DEF PacketsTyped, EngineTyped, LeavesExchange, Exchanging, Negotiated,
                SameHellos, SameChoice, SameCommit, SameRole, RepeatConfirm1, ReceiveDHPart2
  <2> QED
    BY <2>1 DEF ExchangeStep
<1> QED
  BY <1>1, <1>2, <1>3, <1>4, <1>5, <1>6 DEF ProcessDHPart

LEMMA ConfirmExchange ==
    ASSUME IInv, NEW n \in Node, ProcessConfirm(n)
    PROVE  ExchangeStep(n)
<1>1. ASSUME NEW m \in net[n], RejectConfirm1(n, m) PROVE ExchangeStep(n)
  <2>1. LeavesExchange(n)
    BY <1>1 DEF PacketsTyped, EngineTyped, LeavesExchange, Exchanging, Negotiated,
                SameHellos, SameChoice, SameCommit, SameRole, RejectConfirm1, ReceiveConfirm1
  <2> QED
    BY <2>1 DEF ExchangeStep
<1>2. ASSUME NEW m \in net[n], AcceptConfirm1(n, m) PROVE ExchangeStep(n)
  <2>1. LeavesExchange(n)
    BY <1>2 DEF PacketsTyped, EngineTyped, LeavesExchange, Exchanging, Negotiated,
                SameHellos, SameChoice, SameCommit, SameRole, AcceptConfirm1, ReceiveConfirm1
  <2> QED
    BY <2>1 DEF ExchangeStep
<1>3. ASSUME NEW m \in net[n], RejectConfirm2(n, m) PROVE ExchangeStep(n)
  <2>1. LeavesExchange(n)
    BY <1>3 DEF PacketsTyped, EngineTyped, LeavesExchange, Exchanging, Negotiated,
                SameHellos, SameChoice, SameCommit, SameRole, RejectConfirm2, ReceiveConfirm2
  <2> QED
    BY <2>1 DEF ExchangeStep
<1>4. ASSUME NEW m \in net[n], AcceptConfirm2(n, m) PROVE ExchangeStep(n)
  <2>1. LeavesExchange(n)
    BY <1>4 DEF PacketsTyped, EngineTyped, LeavesExchange, Exchanging, Negotiated,
                SameHellos, SameChoice, SameCommit, SameRole, AcceptConfirm2, ReceiveConfirm2
  <2> QED
    BY <2>1 DEF ExchangeStep
<1>5. ASSUME NEW m \in net[n], RepeatConf2Ack(n, m) PROVE ExchangeStep(n)
  <2>1. LeavesExchange(n)
    BY <1>5 DEF PacketsTyped, EngineTyped, LeavesExchange, Exchanging, Negotiated,
                SameHellos, SameChoice, SameCommit, SameRole, RepeatConf2Ack
  <2> QED
    BY <2>1 DEF ExchangeStep
<1>6. ASSUME NEW m \in net[n], AcceptConf2Ack(n, m) PROVE ExchangeStep(n)
  <2>1. LeavesExchange(n)
    BY <1>6 DEF PacketsTyped, EngineTyped, LeavesExchange, Exchanging, Negotiated,
                SameHellos, SameChoice, SameCommit, SameRole, AcceptConf2Ack
  <2> QED
    BY <2>1 DEF ExchangeStep
<1> QED
  BY <1>1, <1>2, <1>3, <1>4, <1>5, <1>6 DEF ProcessConfirm

LEMMA ErrorExchange ==
    ASSUME IInv, NEW n \in Node, ProcessError(n)
    PROVE  ExchangeStep(n)
<1>1. ASSUME NEW m \in net[n], AcceptError(n, m) PROVE ExchangeStep(n)
  <2>1. LeavesExchange(n)
    BY <1>1 DEF PacketsTyped, EngineTyped, LeavesExchange, Exchanging, Negotiated,
                SameHellos, SameChoice, SameCommit, SameRole, AcceptError, Fail
  <2> QED
    BY <2>1 DEF ExchangeStep
<1>2. ASSUME NEW m \in net[n], MalformedError(n, m) PROVE ExchangeStep(n)
  <2>1. LeavesExchange(n)
    BY <1>2 DEF PacketsTyped, EngineTyped, LeavesExchange, Exchanging, Negotiated,
                SameHellos, SameChoice, SameCommit, SameRole, MalformedError
  <2> QED
    BY <2>1 DEF ExchangeStep
<1>3. ASSUME NEW m \in net[n], AcceptErrorAck(n, m) PROVE ExchangeStep(n)
  <2>1. LeavesExchange(n)
    BY <1>3 DEF PacketsTyped, EngineTyped, LeavesExchange, Exchanging, Negotiated,
                SameHellos, SameChoice, SameCommit, SameRole, AcceptErrorAck, Fail
  <2> QED
    BY <2>1 DEF ExchangeStep
<1> QED
  BY <1>1, <1>2, <1>3 DEF ProcessError

LEMMA NextIsExchange ==
    ASSUME IInv, [Next]_vars
    PROVE  ExchangeSummary
<1>1. CASE UNCHANGED vars
  <2>1. ASSUME NEW n \in Node PROVE NetworkStep
    BY <1>1, EnvironmentStep
  <2>2. CASE Node = {}
    BY <2>2 DEF ExchangeSummary, NetworkStep
  <2> QED
    BY <2>1, <2>2 DEF ExchangeSummary
<1>2. CASE Next
  <2>1. PICK n \in Node :
           \/ Start(n) \/ ProcessTimeout(n) \/ ProcessMessage(n) \/ TimerExpires(n)
           \/ \E m \in net[n] : Lose(n, m)
           \/ \E m \in net[n] : \E mark \in Damages : DamageTo(n, m, mark)
    BY <1>2 DEF Next
  <2>2. CASE Start(n)
    <3>1. Begins(n)
      BY <2>2, PeerFacts
         DEF PacketsTyped, EngineTyped, NetworkTyped, Begins, SameHellos, SameChoice,
             SameCommit, SameRole, Start
    <3> QED
      BY <2>2, <3>1, StartStep DEF ExchangeStep, ExchangeSummary
  <2>3. CASE ProcessTimeout(n)
    <3>1. LeavesExchange(n)
      BY <2>3
         DEF LeavesExchange, Exchanging, Negotiated, SameHellos, SameChoice, SameCommit,
             SameRole, ProcessTimeout, ResendHello, ResendLater, IgnoreTimeout, Resend
    <3> QED
      BY <2>3, <3>1, TimeoutStep DEF ExchangeStep, ExchangeSummary
  <2>4. CASE ProcessMessage(n)
    <3>1. EngineStep(n)
      BY <2>4, HelloStep, HelloAckStep, CommitStep, DHPartStep, ConfirmStep, ErrorStep,
         IgnoreStep DEF ProcessMessage
    <3>2. ASSUME NEW m \in net[n], IgnoreMessage(n, m) PROVE LeavesExchange(n)
      BY <3>2
         DEF LeavesExchange, Exchanging, Negotiated, SameHellos, SameChoice, SameCommit,
             SameRole, IgnoreMessage
    <3>3. ExchangeStep(n)
      BY <2>4, <3>2, HelloExchange, HelloAckExchange, CommitExchange, DHPartExchange,
         ConfirmExchange, ErrorExchange DEF ProcessMessage, ExchangeStep
    <3> QED
      BY <3>1, <3>3 DEF ExchangeSummary
  <2> QED
    BY <2>1, <2>2, <2>3, <2>4, EnvironmentStep DEF ExchangeSummary
<1> QED
  BY <1>1, <1>2


-----------------------------------------------------------------------------
(* The Initiator. *)

(* Who Alice may take for her peer: it, or the Zrtp object of an earlier   *)
(* session whose Hello is still on its way.                                *)
Correspondents(n) ==
    {Peer[n]} \cup {m.src : m \in {x \in Leftover[n] : x.type = "Hello"}}

(* An earlier session is not gone on with: of none of its Zrtp objects a   *)
(* Hello and a Commit, or a Hello and a DHPart1, are on their way; and     *)
(* each has its own ZID and hash chain.                                    *)
EarlierSessionOver ==
    \A n \in Node : \A m \in Leftover[n] :
       m.type \in {"Commit", "DHPart1"} => m.src \notin Correspondents(n)

(* One user at least asks for the role of the Initiator. *)
SomeInitiator ==
    \A roles \in InitialRoles : \A n \in Node :
       roles[n] = "Initiator" \/ roles[Peer[n]] = "Initiator"

(* memcmp of the two hvi decides. *)
HviDiffer == \A n \in Node : HviRank[n] # HviRank[Peer[n]]

(* Who sends a Hello or is answered. *)
HellosFrom(n) ==
    /\ hello[n].src = n
    /\ \A m \in net[n] : m.type = "Hello" => m.src \in Correspondents(n)
    /\ actualState[n] \in Negotiated => peerHello[n].src \in Correspondents(n)

(* An endpoint whose Commit is in flight is the Initiator, or it has       *)
(* yielded to one with a greater hvi; one that sent a DHPart1 has yielded  *)
(* or was the Responder from the beginning.                                *)
CommitsFrom(n) ==
    \A m \in net[n] : m.type = "Commit" /\ m.src \in Correspondents(n) =>
       /\ m.src = Peer[n] /\ m.hvi.dhPart2.src = Peer[n]
       /\ IsInitiator(Peer[n]) \/ HviRank[Peer[n]] <= HviRank[n]

OwnCommitSent(n) ==
    actualState[n] = "SentCommit" => commit[n].src = n /\ commit[n].hvi.dhPart2.src = n

DHPart1From(n) ==
    \A m \in net[n] : m.type = "DHPart1" /\ m.src \in Correspondents(n) =>
       IsResponder(Peer[n])

(* The roles are settled by the DHPart1. *)
RolesSettled(n) ==
    /\ IsInitiator(n) \/ IsInitiator(Peer[n])
    /\ IsInitiator(n) /\ actualState[n] \in {"WaitConfirm1", "WaitConf2Ack", "Secured"}
         => IsResponder(Peer[n])

RoleInv ==
    \A n \in Node : /\ HellosFrom(n) /\ CommitsFrom(n) /\ OwnCommitSent(n)
                    /\ DHPart1From(n) /\ RolesSettled(n)

LEMMA OneExchanges ==
    ASSUME ExchangeSummary, NEW n \in Node
    PROVE  Untouched(n) \/ (EngineStep(n) /\ ExchangeStep(n))
BY DEF ExchangeSummary, NetworkStep, EngineStep

LEMMA SummaryFollows ==
    ExchangeSummary => StepSummary
BY DEF ExchangeSummary, StepSummary

LEMMA ResponderStays ==
    ASSUME ExchangeSummary, NEW n \in Node, IsResponder(n)
    PROVE  IsResponder(n)'
<1>1. CASE ExchangeStep(n)
  BY <1>1
     DEF ExchangeStep, LeavesExchange, Begins, SettlesOn, LowersFor, StopsFor, MakesCommit,
         RejectsCommit, AnswersCommit, SameRole
<1> QED
  BY <1>1, OneExchanges DEF Untouched

(* Who changes its role has got a Commit of an Initiator with another hvi. *)
LEMMA YieldsToInitiator ==
    ASSUME HviDiffer, IInv, RoleInv, NEW n \in Node, ExchangeStep(n),
           IsInitiator(n), ~ SameRole(n)
    PROVE  IsInitiator(Peer[n]) /\ HviRank[n] <= HviRank[Peer[n]]
<1>1. PICK m \in net[n] : AnswersCommit(n, m)
  BY DEF ExchangeStep, LeavesExchange, Begins, SettlesOn, LowersFor, StopsFor, MakesCommit,
         RejectsCommit
<1>2. /\ m.type = "Commit" /\ m.src \in Correspondents(n)
      /\ HviRank[n] <= HviRank[m.hvi.dhPart2.src]
  BY <1>1 DEF AnswersCommit, RoleInv, HellosFrom, Negotiated
<1>3. /\ m.hvi.dhPart2.src = Peer[n]
      /\ IsInitiator(Peer[n]) \/ HviRank[Peer[n]] <= HviRank[n]
  BY <1>2 DEF RoleInv, CommitsFrom
<1>4. HviRank[n] \in Nat /\ HviRank[Peer[n]] \in Nat /\ HviRank[n] # HviRank[Peer[n]]
  BY PeerFacts, NodeAssumption, RankAssumption DEF HviDiffer
<1> QED
  BY <1>2, <1>3, <1>4

LEMMA HellosFromNext ==
    ASSUME IInv, IInv', RoleInv, ExchangeSummary, NEW n \in Node
    PROVE  HellosFrom(n)'
<1>1. HellosFrom(n) /\ HellosFrom(Peer[n]) /\ Peer[n] \in Node
  BY PeerFacts DEF RoleInv
<1>2. ASSUME NEW k \in Node, HellosFrom(k) PROVE hello'[k].src = k
  <2>1. CASE ExchangeStep(k)
    BY <1>2, <2>1
       DEF ExchangeStep, LeavesExchange, Begins, SettlesOn, LowersFor, StopsFor, MakesCommit,
           RejectsCommit, AnswersCommit, SameHellos, HellosFrom, HelloPacket
  <2> QED
    BY <1>2, <2>1, OneExchanges DEF Untouched, HellosFrom
<1>3. ASSUME NEW p \in net'[n], p.type = "Hello" PROVE p.src \in Correspondents(n)
  <2>1. CASE \E q \in net[n] : Carried(q, p)
    <3>1. PICK q \in net[n] : Carried(q, p)
      BY <2>1
    <3>2. q.type = "Hello" /\ p.src = q.src
      BY <1>3, <3>1, CarriedFields DEF NetworkTyped
    <3> QED
      BY <1>1, <3>2 DEF HellosFrom
  <2>2. CASE SentNow(Peer[n], p)
    BY <1>1, <1>2, <1>3, <2>2, SentState DEF Correspondents
  <2> QED
    BY <2>1, <2>2, Arriving, SummaryFollows
<1>4. ASSUME actualState'[n] \in Negotiated PROVE peerHello'[n].src \in Correspondents(n)
  <2>1. CASE ExchangeStep(n)
    BY <1>1, <1>4, <2>1
       DEF ExchangeStep, LeavesExchange, Begins, SettlesOn, Compares, LowersFor, StopsFor,
           MakesCommit, RejectsCommit, AnswersCommit, SameHellos, HellosFrom, Exchanging,
           Negotiated
  <2> QED
    BY <1>1, <1>4, <2>1, OneExchanges DEF Untouched, HellosFrom
<1> QED
  BY <1>1, <1>2, <1>3, <1>4 DEF HellosFrom, Correspondents

LEMMA OwnCommitNext ==
    ASSUME RoleInv, ExchangeSummary, NEW n \in Node
    PROVE  OwnCommitSent(n)'
<1>1. OwnCommitSent(n)
  BY DEF RoleInv
<1>2. CASE ExchangeStep(n)
  <2>1. \A k, h : /\ CommitPacket(n, k, h).src = n
                  /\ CommitPacket(n, k, h).hvi.dhPart2.src = n
    BY DEF CommitPacket, Hvi, DHPartPacket
  <2> QED
    BY <1>1, <1>2, <2>1
       DEF ExchangeStep, LeavesExchange, Begins, SettlesOn, LowersFor, StopsFor, MakesCommit,
           RejectsCommit, AnswersCommit, SameCommit, OwnCommitSent, Compares, Exchanging
<1> QED
  BY <1>1, <1>2, OneExchanges DEF Untouched, OwnCommitSent

LEMMA CommitsFromNext ==
    ASSUME BodiesKept, HviDiffer, IInv, IInv', RoleInv, ExchangeSummary, NEW n \in Node
    PROVE  CommitsFrom(n)' /\ DHPart1From(n)'
<1>1. Peer[n] \in Node /\ Peer[Peer[n]] = n /\ CommitsFrom(n) /\ DHPart1From(n)
  BY PeerFacts DEF RoleInv
<1>2. myRole[Peer[n]] \in {"Initiator", "Responder"} /\ HasPackets(Peer[n])'
  BY <1>1 DEF EngineTyped, PacketsReady
<1>3. ASSUME NEW p \in net'[n], NEW q \in net[n], Carried(q, p),
             p.type \in {"Commit", "DHPart1"}, p.src \in Correspondents(n)
      PROVE  /\ p.type = "Commit"
                  => /\ p.src = Peer[n] /\ p.hvi.dhPart2.src = Peer[n]
                     /\ IsInitiator(Peer[n])' \/ HviRank[Peer[n]] <= HviRank[n]
             /\ p.type = "DHPart1" => IsResponder(Peer[n])'
  <2>1. p.type = q.type /\ p.src = q.src /\ (p.type = "Commit" => p.hvi = q.hvi)
    BY <1>3, CarriedFields DEF NetworkTyped
  <2>2. ASSUME IsInitiator(Peer[n])
        PROVE  IsInitiator(Peer[n])' \/ HviRank[Peer[n]] <= HviRank[n]
    BY <1>1, <2>2, OneExchanges, YieldsToInitiator DEF Untouched, SameRole
  <2>3. IsResponder(Peer[n]) => IsResponder(Peer[n])'
    BY <1>1, ResponderStays
  <2> QED
    BY <1>1, <1>3, <2>1, <2>2, <2>3 DEF CommitsFrom, DHPart1From
<1>4. ASSUME NEW p \in net'[n], SentNow(Peer[n], p), p.type \in {"Commit", "DHPart1"}
      PROVE  /\ p.type = "Commit" => /\ p.src = Peer[n] /\ p.hvi.dhPart2.src = Peer[n]
                                     /\ IsInitiator(Peer[n])'
             /\ p.type = "DHPart1" => IsResponder(Peer[n])'
  <2>1. OwnCommitSent(Peer[n])'
    BY <1>1, OwnCommitNext
  <2>2. /\ p.type = "Commit" => actualState'[Peer[n]] = "SentCommit" /\ p = commit'[Peer[n]]
        /\ p.type = "DHPart1" => actualState'[Peer[n]] = "WaitDHPart2"
    BY <1>1, <1>4, SentState
  <2> QED
    BY <1>2, <2>1, <2>2 DEF OwnCommitSent, HasPackets
<1> SUFFICES ASSUME NEW p \in net'[n], p.type \in {"Commit", "DHPart1"},
                    p.src \in Correspondents(n)
             PROVE  /\ p.type = "Commit"
                         => /\ p.src = Peer[n] /\ p.hvi.dhPart2.src = Peer[n]
                            /\ IsInitiator(Peer[n])' \/ HviRank[Peer[n]] <= HviRank[n]
                    /\ p.type = "DHPart1" => IsResponder(Peer[n])'
  BY DEF CommitsFrom, DHPart1From, Correspondents
<1> QED
  BY <1>3, <1>4, Arriving, SummaryFollows

LEMMA RolesSettledNext ==
    ASSUME HviDiffer, IInv, IInv', RoleInv, ExchangeSummary, NEW n \in Node
    PROVE  RolesSettled(n)'
<1>1. Peer[n] \in Node /\ Peer[n] # n /\ Peer[Peer[n]] = n
  BY PeerFacts
<1>2. RolesSettled(n) /\ HasPackets(n) /\ DHPart1From(n) /\ HellosFrom(n)
  BY DEF RoleInv, PacketsReady
<1>3. \A k \in Node : myRole[k] \in {"Initiator", "Responder"}
                       /\ myRole'[k] \in {"Initiator", "Responder"}
  BY DEF EngineTyped
<1>4. IsInitiator(n)' \/ IsInitiator(Peer[n])'
  <2>1. CASE ExchangeStep(n) /\ EngineStep(n)
    <3>1. myRole'[Peer[n]] = myRole[Peer[n]]
      BY <1>1, <2>1 DEF EngineStep, Untouched
    <3>2. CASE IsInitiator(n) /\ ~ SameRole(n)
      BY <2>1, <3>1, <3>2, YieldsToInitiator
    <3>3. CASE ~ IsInitiator(n) \/ SameRole(n)
      BY <1>2, <3>1, <3>3 DEF RolesSettled, SameRole
    <3> QED
      BY <3>2, <3>3
  <2>2. CASE ExchangeStep(Peer[n]) /\ EngineStep(Peer[n])
    <3>1. myRole'[n] = myRole[n]
      BY <1>1, <2>2 DEF EngineStep, Untouched
    <3>2. CASE IsInitiator(Peer[n]) /\ ~ SameRole(Peer[n])
      BY <1>1, <2>2, <3>1, <3>2, YieldsToInitiator
    <3>3. CASE ~ IsInitiator(Peer[n]) \/ SameRole(Peer[n])
      BY <1>2, <3>1, <3>3 DEF RolesSettled, SameRole
    <3> QED
      BY <3>2, <3>3
  <2>3. CASE Untouched(n) /\ Untouched(Peer[n])
    BY <1>2, <2>3 DEF Untouched, RolesSettled
  <2> QED
    BY <1>1, <2>1, <2>2, <2>3, OneExchanges
<1>5. ASSUME IsInitiator(n)', actualState'[n] \in {"WaitConfirm1", "WaitConf2Ack", "Secured"}
      PROVE  IsResponder(Peer[n])'
  <2>1. IsInitiator(n)
    BY <1>3, <1>5, ResponderStays
  <2>2. SUFFICES IsResponder(Peer[n])
    BY <1>1, ResponderStays
  <2>3. CASE actualState[n] \in {"WaitConfirm1", "WaitConf2Ack", "Secured"}
    BY <1>2, <2>1, <2>3 DEF RolesSettled
  <2>4. CASE actualState[n] \notin {"WaitConfirm1", "WaitConf2Ack", "Secured"}
    <3>1. EngineStep(n)
      BY <1>5, <2>4, OneExchanges DEF Untouched
    <3>2. ~ AcceptsConfirm2(n)
      BY <1>2, <2>1 DEF AcceptsConfirm2, HasPackets
    <3>3. DerivesAsInitiator(n)
      BY <1>5, <2>4, <3>1, <3>2
         DEF EngineStep, Advances, Stays, Starts, GoesOn, DerivesAsResponder,
             AcceptsConfirm1, AcceptsConf2Ack, StartsFailing, Fails, Opening
    <3>4. PICK m \in net[n] : m.type = "DHPart1" /\ m.src = peerHello[n].src
      BY <3>3 DEF DerivesAsInitiator
    <3>5. m.src \in Correspondents(n)
      BY <1>2, <3>3, <3>4 DEF HellosFrom, DerivesAsInitiator, Negotiated
    <3> QED
      BY <1>2, <3>4, <3>5 DEF DHPart1From
  <2> QED
    BY <2>3, <2>4
<1> QED
  BY <1>4, <1>5 DEF RolesSettled

LEMMA RoleInit ==
    ASSUME EarlierSessionOver, SomeInitiator, Init
    PROVE  RoleInv
<1>1. \A n \in Node : Peer[n] \in Node
  BY PeerFacts
<1>2. \A n \in Node : hello[n].src = n /\ actualState[n] = "Initial" /\ net[n] = Leftover[n]
  BY DEF Init, HelloPacket
<1>3. \A n \in Node : HellosFrom(n) /\ CommitsFrom(n) /\ OwnCommitSent(n) /\ DHPart1From(n)
  BY <1>2 DEF HellosFrom, CommitsFrom, OwnCommitSent, DHPart1From, EarlierSessionOver,
              Correspondents, Negotiated
<1>4. \A n \in Node : RolesSettled(n)
  BY <1>1, <1>2 DEF Init, SomeInitiator, RolesSettled
<1> QED
  BY <1>3, <1>4 DEF RoleInv

LEMMA RoleInvariant ==
    ASSUME BodiesKept, EarlierSessionOver, SomeInitiator, HviDiffer
    PROVE  Spec => []RoleInv
<1>1. Init => RoleInv
  BY RoleInit
<1>2. IInv /\ RoleInv /\ [Next]_vars => RoleInv'
  BY NextIsExchange, NextKeepsIInv, HellosFromNext, OwnCommitNext, CommitsFromNext,
     RolesSettledNext DEF RoleInv
<1> QED
  BY <1>1, <1>2, EngineInvariant, PTL DEF Spec

(* Commit contention, in whatever order the Commits cross and however      *)
(* often they are resent, leaves one Initiator, and two endpoints that     *)
(* have left it behind have different roles; unless a damaged Commit comes *)
(* with another hvi, which is compared before it is checked.               *)
THEOREM OneIsInitiator ==
    ASSUME BodiesKept, EarlierSessionOver, SomeInitiator, HviDiffer
    PROVE  Spec => []OneInitiator
<1>1. IInv /\ RoleInv => OneInitiator
  <2> SUFFICES ASSUME IInv, RoleInv, NEW n \in Node
               PROVE  /\ IsInitiator(n) \/ IsInitiator(Peer[n])
                      /\ actualState[n] \in {"WaitConfirm1", "WaitConfirm2", "WaitConf2Ack",
                                             "Secured"} => myRole[n] # myRole[Peer[n]]
    BY DEF OneInitiator
  <2>1. RolesSettled(n) /\ HasPackets(n) /\ myRole[n] \in {"Initiator", "Responder"}
    BY DEF RoleInv, PacketsReady, EngineTyped
  <2> QED
    BY <2>1 DEF RolesSettled, HasPackets
<1> QED
  BY <1>1, RoleInvariant, EngineInvariant, PTL


-----------------------------------------------------------------------------
(* The Hellos.  Two endpoints lower their versions on their own, from      *)
(* Hellos that come late and in any order.                                 *)

(* Of an earlier session no Hello is on its way. *)
NoEarlierHello == \A n \in Node : \A m \in Leftover[n] : m.type # "Hello"

MadeBy(m, p) == m.src = p /\ m.keyAgreementTypes = MyTypes(p)

(* An endpoint's Hello shows the highest version it has left. *)
OwnHello(n) ==
    /\ hello[n] = HelloPacket(n, hello[n].version)
    /\ versions[n] # {} => hello[n].version = chooseHighestVersion(Info1(n), versions[n])

(* A Hello in flight is the one its sender goes on with, or an older one   *)
(* of a version too high for either to settle on.                          *)
PeersHellos(n) ==
    \A m \in net[n] : m.type = "Hello" =>
       /\ MadeBy(m, Peer[n])
       /\ Prefix(hello[Peer[n]].version) <= Prefix(m.version)
       /\ \/ m.version = hello[Peer[n]].version
          \/ Prefix(hello[n].version) < Prefix(m.version)

(* Who has settled has done so on the version both have. *)
SettledOnPeers(n) ==
    actualState[n] \in Negotiated =>
       /\ MadeBy(peerHello[n], Peer[n])
       /\ peerHello[n].version = hello[Peer[n]].version
       /\ Prefix(hello[n].version) = Prefix(hello[Peer[n]].version)

HelloInv == \A n \in Node : OwnHello(n) /\ PeersHellos(n) /\ SettledOnPeers(n)

LEMMA SameHello ==
    ASSUME NEW p, NEW m \in Hellos, NEW h, h = HelloPacket(p, h.version),
           m.mark = "intact", MadeBy(m, p), m.version = h.version
    PROVE  m = h
<1>1. m = HelloPacket(p, m.version)
  BY DEF Hellos, HelloPacket, MadeBy, MyTypes
<1> QED
  BY <1>1

LEMMA HelloVersions ==
    ASSUME TypeOK, NEW n \in Node
    PROVE  /\ hello[n].version \in Version
           /\ \A m \in net[n] : m.type = "Hello" => m.version \in Version
           /\ versions[n] \in SUBSET DOMAIN Info1(n) /\ Info1(n) \in Seq(Version)
<1>1. hello[n] \in Hellos
  BY DEF PacketsTyped
<1> QED
  BY <1>1, HelloFacts, Received, InfoFacts DEF EngineTyped

LEMMA PrefixIsNat ==
    \A v \in Version : Prefix(v) \in Nat
BY DEF Prefix, Version

(* Lowering never raises the version. *)
LEMMA HighestFalls ==
    ASSUME NEW list \in Seq(Version), NEW kept \in SUBSET DOMAIN list,
           NEW left \in SUBSET kept, left # {}
    PROVE  Prefix(chooseHighestVersion(list, left)) <= Prefix(chooseHighestVersion(list, kept))
<1>1. kept # {} /\ left \in SUBSET DOMAIN list
  OBVIOUS
<1>2. PICK i \in left : chooseHighestVersion(list, left) = list[i]
  BY <1>1, HighestVersion
<1>3. chooseHighestVersion(list, kept) >= list[i] /\ chooseHighestVersion(list, kept) \in Version
  BY <1>1, HighestVersion
<1>4. list[i] \in Version /\ list[i] \in Nat /\ chooseHighestVersion(list, kept) \in Nat
  <2>1. i \in DOMAIN list
    BY <1>1
  <2>2. \A v \in Version : v \in Nat
    BY DEF Version
  <2> QED
    BY <1>3, <2>1, <2>2, EntriesAreVersions
<1>5. list[i] <= chooseHighestVersion(list, kept)
  BY <1>3, <1>4
<1> QED
  BY <1>2, <1>3, <1>4, <1>5, PrefixOrder

(* compareVersions makes a new Hello only for a lower one of the peer. *)
LEMMA HelloLowered ==
    ASSUME IInv, NEW n \in Node, OwnHello(n), NEW m \in net[n], LowersFor(n, m)
    PROVE  /\ OwnHello(n)'
           /\ Prefix(hello'[n].version) <= Prefix(hello[n].version)
           /\ hello'[n].version # hello[n].version
                => Prefix(m.version) < Prefix(hello[n].version)
<1> DEFINE left == LowerVersions(Info1(n), versions[n], m.version)
<1>1. /\ m.type = "Hello" /\ versions[n] # {} /\ versions'[n] = left
      /\ hello'[n] = IF left \in {{}, versions[n]} THEN hello[n]
                     ELSE HelloPacket(n, chooseHighestVersion(Info1(n), left))
  BY DEF LowersFor, Compares
<1>2. /\ m.version \in Version /\ hello[n].version \in Version
      /\ Info1(n) \in Seq(Version) /\ versions[n] \in SUBSET DOMAIN Info1(n)
  BY <1>1, HelloVersions
<1>3. left \subseteq versions[n]
  BY <1>2, LowerVersionsKeeps
<1>4. hello[n].version = chooseHighestVersion(Info1(n), versions[n])
  BY <1>1 DEF OwnHello
<1>5. Prefix(hello[n].version) \in Nat /\ Prefix(m.version) \in Nat
  BY <1>2, PrefixIsNat
<1>6. left # versions[n] => Prefix(m.version) < Prefix(hello[n].version)
  BY <1>4, <1>5 DEF LowerVersions
<1> HIDE DEF left
<1>7. CASE left \in {{}, versions[n]}
  BY <1>1, <1>4, <1>5, <1>7 DEF OwnHello
<1>8. CASE left \notin {{}, versions[n]}
  <2>1. hello'[n] = HelloPacket(n, chooseHighestVersion(Info1(n), left))
    BY <1>1, <1>8
  <2>2. hello'[n].version = chooseHighestVersion(Info1(n), left)
    BY <2>1 DEF HelloPacket
  <2>3. Prefix(chooseHighestVersion(Info1(n), left)) <= Prefix(hello[n].version)
    BY <1>2, <1>3, <1>4, <1>8, HighestFalls
  <2> QED
    BY <1>1, <1>6, <1>8, <2>1, <2>2, <2>3 DEF OwnHello
<1> QED
  BY <1>7, <1>8

LEMMA HelloFalls ==
    ASSUME IInv, ExchangeSummary, NEW n \in Node, OwnHello(n)
    PROVE  /\ OwnHello(n)'
           /\ Prefix(hello'[n].version) <= Prefix(hello[n].version)
           /\ hello'[n].version # hello[n].version
                => \E m \in net[n] : /\ m.type = "Hello" /\ Untouched(Peer[n])
                                     /\ Prefix(m.version) < Prefix(hello[n].version)
<1>1. Prefix(hello[n].version) \in Nat /\ Peer[n] \in Node /\ Peer[n] # n
  BY HelloVersions, PrefixIsNat, PeerFacts
<1>2. ASSUME NEW m \in net[n], LowersFor(n, m), EngineStep(n)
      PROVE  /\ OwnHello(n)'
             /\ Prefix(hello'[n].version) <= Prefix(hello[n].version)
             /\ hello'[n].version # hello[n].version
                  => \E q \in net[n] : /\ q.type = "Hello" /\ Untouched(Peer[n])
                                       /\ Prefix(q.version) < Prefix(hello[n].version)
  BY <1>1, <1>2, HelloLowered DEF LowersFor, Compares, EngineStep
<1>3. CASE hello'[n] = hello[n] /\ (versions'[n] = versions[n] \/ versions'[n] = {})
  BY <1>1, <1>3 DEF OwnHello
<1>4. CASE EngineStep(n) /\ ExchangeStep(n) /\ ~ \E m \in net[n] : LowersFor(n, m)
  BY <1>3, <1>4
     DEF ExchangeStep, LeavesExchange, Begins, SettlesOn, StopsFor, MakesCommit,
         RejectsCommit, AnswersCommit, SameHellos
<1> QED
  BY <1>2, <1>3, <1>4, OneExchanges DEF Untouched

LEMMA PeersHellosNext ==
    ASSUME BodiesKept, IInv, IInv', HelloInv, ExchangeSummary, NEW n \in Node
    PROVE  PeersHellos(n)'
<1> DEFINE peer == Peer[n]
<1>1. peer \in Node /\ peer # n /\ Peer[peer] = n
  BY PeerFacts
<1>2. OwnHello(n) /\ OwnHello(peer) /\ PeersHellos(n) /\ PeersHellos(peer)
  BY <1>1 DEF HelloInv
<1>3. /\ hello[n].version \in Version /\ hello'[n].version \in Version
      /\ hello[peer].version \in Version /\ hello'[peer].version \in Version
  BY <1>1, HelloVersions DEF PacketsTyped, Hellos
<1>4. ASSUME NEW p \in net'[n], p.type = "Hello", NEW q \in net[n], Carried(q, p)
      PROVE  /\ MadeBy(p, peer)
             /\ Prefix(hello'[peer].version) <= Prefix(p.version)
             /\ \/ p.version = hello'[peer].version
                \/ Prefix(hello'[n].version) < Prefix(p.version)
  <2>1. /\ q.type = "Hello" /\ p.src = q.src /\ p.version = q.version
        /\ p.keyAgreementTypes = q.keyAgreementTypes
    BY <1>4, CarriedFields DEF NetworkTyped
  <2>2. /\ MadeBy(q, peer)
        /\ Prefix(hello[peer].version) <= Prefix(q.version)
        /\ q.version = hello[peer].version \/ Prefix(hello[n].version) < Prefix(q.version)
    BY <1>2, <2>1 DEF PeersHellos
  <2>3. q.version \in Version
    BY <2>1, HelloVersions
  <2>4. /\ Prefix(hello'[n].version) <= Prefix(hello[n].version)
        /\ Prefix(hello'[peer].version) <= Prefix(hello[peer].version)
    BY <1>1, <1>2, HelloFalls
  <2>5. CASE q.version = hello[peer].version /\ hello'[peer].version # hello[peer].version
    <3>1. PICK r \in net[peer] : /\ r.type = "Hello" /\ Untouched(n)
                                 /\ Prefix(r.version) < Prefix(hello[peer].version)
      BY <1>1, <1>2, <2>5, HelloFalls
    <3>2. Prefix(hello[n].version) <= Prefix(r.version) /\ hello'[n] = hello[n]
      BY <1>1, <1>2, <3>1 DEF PeersHellos, Untouched
    <3>3. r.version \in Version
      BY <1>1, <3>1, HelloVersions
    <3> QED
      BY <1>3, <2>1, <2>2, <2>4, <2>5, <3>1, <3>2, <3>3, PrefixIsNat DEF MadeBy
  <2> QED
    BY <1>3, <2>1, <2>2, <2>3, <2>4, <2>5, PrefixIsNat DEF MadeBy
<1>5. ASSUME NEW p \in net'[n], p.type = "Hello", SentNow(peer, p)
      PROVE  /\ MadeBy(p, peer) /\ p.version = hello'[peer].version
             /\ Prefix(hello'[peer].version) <= Prefix(p.version)
  <2>1. p = hello'[peer]
    BY <1>1, <1>5, SentState
  <2>2. hello'[peer] = HelloPacket(peer, hello'[peer].version)
    BY <1>1, <1>2, HelloFalls DEF OwnHello
  <2> QED
    BY <1>3, <2>1, <2>2, PrefixIsNat DEF HelloPacket, MadeBy, MyTypes
<1> QED
  BY <1>4, <1>5, Arriving, SummaryFollows DEF PeersHellos

(* Who has settled keeps its peer from lowering its version once more. *)
LEMMA SettledFixes ==
    ASSUME IInv, HelloInv, ExchangeSummary, NEW n \in Node, actualState[n] \in Negotiated
    PROVE  hello'[Peer[n]] = hello[Peer[n]]
<1> DEFINE peer == Peer[n]
<1>1. peer \in Node /\ Peer[peer] = n
  BY PeerFacts
<1>2. OwnHello(peer) /\ PeersHellos(peer) /\ SettledOnPeers(n)
  BY <1>1 DEF HelloInv
<1>3. hello[n].version \in Version /\ hello[peer].version \in Version
  BY <1>1, HelloVersions
<1>4. hello'[peer].version = hello[peer].version
  <2>1. SUFFICES ASSUME NEW r \in net[peer], r.type = "Hello",
                        Prefix(r.version) < Prefix(hello[peer].version)
                 PROVE  FALSE
    BY <1>1, <1>2, HelloFalls
  <2>2. Prefix(hello[n].version) <= Prefix(r.version) /\ r.version \in Version
    BY <1>1, <1>2, <2>1, HelloVersions DEF PeersHellos
  <2>3. Prefix(hello[n].version) = Prefix(hello[peer].version)
    BY <1>2 DEF SettledOnPeers
  <2> QED
    BY <1>3, <2>1, <2>2, <2>3, PrefixIsNat
<1>5. /\ hello[peer] = HelloPacket(peer, hello[peer].version)
      /\ hello'[peer] = HelloPacket(peer, hello'[peer].version)
  BY <1>1, <1>2, HelloFalls DEF OwnHello
<1> QED
  BY <1>4, <1>5

LEMMA SettledOnPeersNext ==
    ASSUME IInv, HelloInv, ExchangeSummary, NEW n \in Node
    PROVE  SettledOnPeers(n)'
<1> DEFINE peer == Peer[n]
<1>1. peer \in Node /\ peer # n /\ Peer[peer] = n
  BY PeerFacts
<1>2. OwnHello(n) /\ OwnHello(peer) /\ PeersHellos(n) /\ PeersHellos(peer) /\ SettledOnPeers(n)
  BY <1>1 DEF HelloInv
<1>3. hello[n].version \in Version /\ hello[peer].version \in Version
  BY <1>1, HelloVersions
<1> SUFFICES ASSUME actualState'[n] \in Negotiated
             PROVE  /\ MadeBy(peerHello'[n], peer)
                    /\ peerHello'[n].version = hello'[peer].version
                    /\ Prefix(hello'[n].version) = Prefix(hello'[peer].version)
  BY DEF SettledOnPeers
<1>4. ASSUME NEW m \in net[n], SettlesOn(n, m), EngineStep(n)
      PROVE  /\ MadeBy(peerHello'[n], peer)
             /\ peerHello'[n].version = hello'[peer].version
             /\ Prefix(hello'[n].version) = Prefix(hello'[peer].version)
  <2>1. /\ hello'[n] = hello[n] /\ hello'[peer] = hello[peer] /\ peerHello'[n] = m
        /\ m.type = "Hello" /\ versions[n] # {}
        /\ SameVersion(Info1(n), versions[n], m.version)
    BY <1>1, <1>4 DEF SettlesOn, Compares, EngineStep, Untouched
  <2>2. Prefix(hello[n].version) = Prefix(m.version)
    BY <1>2, <2>1 DEF OwnHello, SameVersion
  <2>3. /\ MadeBy(m, peer)
        /\ m.version = hello[peer].version \/ Prefix(hello[n].version) < Prefix(m.version)
    BY <1>2, <2>1 DEF PeersHellos
  <2>4. m.version = hello[peer].version
    BY <1>3, <2>2, <2>3, PrefixIsNat
  <2> QED
    BY <2>1, <2>2, <2>3, <2>4
<1>5. CASE ~ \E m \in net[n] : SettlesOn(n, m) /\ EngineStep(n)
  <2>1. /\ actualState[n] \in Negotiated
        /\ hello'[n] = hello[n] /\ peerHello'[n] = peerHello[n]
    <3>1. CASE EngineStep(n) /\ ExchangeStep(n)
      BY <1>5, <3>1
         DEF ExchangeStep, LeavesExchange, Begins, LowersFor, StopsFor, MakesCommit, Compares,
             RejectsCommit, AnswersCommit, SameHellos, Negotiated, Exchanging
    <3> QED
      BY <3>1, OneExchanges DEF Untouched
  <2>2. /\ MadeBy(peerHello[n], peer)
        /\ peerHello[n].version = hello[peer].version
        /\ Prefix(hello[n].version) = Prefix(hello[peer].version)
    BY <1>2, <2>1 DEF SettledOnPeers
  <2>3. hello'[peer] = hello[peer]
    BY <2>1, SettledFixes
  <2> QED
    BY <2>1, <2>2, <2>3
<1> QED
  BY <1>4, <1>5

LEMMA HelloInit ==
    ASSUME NoEarlierHello, Init
    PROVE  HelloInv
<1> SUFFICES ASSUME NEW n \in Node PROVE OwnHello(n) /\ PeersHellos(n) /\ SettledOnPeers(n)
  BY DEF HelloInv
<1>1. /\ hello[n] = HelloPacket(n, chooseHighestVersion(Info1(n), DOMAIN Info1(n)))
      /\ versions[n] = DOMAIN Info1(n)
      /\ net[n] = Leftover[n] /\ actualState[n] = "Initial"
  BY DEF Init
<1>2. hello[n].version = chooseHighestVersion(Info1(n), DOMAIN Info1(n))
  BY <1>1 DEF HelloPacket
<1> QED
  BY <1>1, <1>2 DEF OwnHello, PeersHellos, SettledOnPeers, NoEarlierHello, Negotiated

LEMMA HelloInvariant ==
    ASSUME BodiesKept, NoEarlierHello
    PROVE  Spec => []HelloInv
<1>1. Init => HelloInv
  BY HelloInit
<1>2. IInv /\ HelloInv /\ [Next]_vars => HelloInv'
  BY NextIsExchange, NextKeepsIInv, HelloFalls, PeersHellosNext, SettledOnPeersNext
     DEF HelloInv
<1> QED
  BY <1>1, <1>2, EngineInvariant, PTL DEF Spec

(* Who has left the Hello exchange holds the Hello its peer goes on with,  *)
(* whatever lists the users gave and in whatever order Hellos arrived, as  *)
(* long as no version is damaged: hvi and total hash are computed from the *)
(* same packet at both ends.                                               *)
THEOREM HellosAgreed ==
    ASSUME BodiesKept, NoEarlierHello
    PROVE  Spec => []HelloAgreed
<1>1. IInv /\ HelloInv => HelloAgreed
  <2> SUFFICES ASSUME IInv, HelloInv, NEW n \in Node, actualState[n] \in Negotiated,
                      peerHello[n].mark = "intact"
               PROVE  peerHello[n] = hello[Peer[n]]
    BY DEF HelloAgreed
  <2>1. peerHello[n] \in Hellos
    BY DEF PacketsReady, HasPackets, Negotiated
  <2>2. MadeBy(peerHello[n], Peer[n]) /\ peerHello[n].version = hello[Peer[n]].version
    BY DEF HelloInv, SettledOnPeers
  <2>3. hello[Peer[n]] = HelloPacket(Peer[n], hello[Peer[n]].version)
    BY PeerFacts DEF HelloInv, OwnHello
  <2> QED
    BY <2>1, <2>2, <2>3, SameHello
<1> QED
  BY <1>1, HelloInvariant, EngineInvariant, PTL

-----------------------------------------------------------------------------
(* The key agreement type.                                                 *)

(* chooseFasterType knows every type a user offers: two unknown types are  *)
(* rated the same, and each endpoint would take its own.                   *)
TypesRated == \A n \in Node : MyTypes(n) \in Seq(RatedTypes)

(* What n chooses from the Hellos of the two users. *)
Choice(n) == chooseAlgorithm(MyTypes(n), MyTypes(Peer[n]))
ChosenBy(n, type) == HaveCommonType(MyTypes(n), MyTypes(Peer[n])) /\ type = Choice(n)

TypeChosen(n) ==
    /\ keyAgreement[n] # "none" => ChosenBy(n, keyAgreement[n])
    /\ actualState[n] = "SentCommit" => ChosenBy(n, commit[n].keyAgreement)
    /\ \A m \in net[n] : m.type = "Commit" /\ m.src = Peer[n]
          => ChosenBy(Peer[n], m.keyAgreement)

TypeInv == \A n \in Node : TypeChosen(n)

LEMMA ChoiceShared ==
    ASSUME TypesRated, NEW n \in Node, NEW type
    PROVE  ChosenBy(Peer[n], type) => ChosenBy(n, type)
<1>1. /\ MyTypes(n) \in Seq(RatedTypes) /\ MyTypes(Peer[n]) \in Seq(RatedTypes)
      /\ Peer[Peer[n]] = n
  BY PeerFacts DEF TypesRated
<1>2. HaveCommonType(MyTypes(Peer[n]), MyTypes(n)) => HaveCommonType(MyTypes(n), MyTypes(Peer[n]))
  BY DEF HaveCommonType
<1> QED
  BY <1>1, <1>2, ChoiceCommutes DEF ChosenBy, Choice

LEMMA CommitNames ==
    ASSUME NEW n, NEW k, NEW h
    PROVE  CommitPacket(n, k, h).keyAgreement = k
BY DEF CommitPacket

(* A type is chosen from the peer's Hello, and the Commit that is accepted *)
(* names the same: what is in flight from the peer does.                   *)
LEMMA ChoiceNext ==
    ASSUME TypesRated, IInv, HelloInv, TypeInv, NEW n \in Node, ExchangeStep(n)
    PROVE  /\ keyAgreement'[n] \in {keyAgreement[n], Choice(n)}
           /\ keyAgreement[n] # "none" => keyAgreement'[n] = keyAgreement[n]
           /\ keyAgreement'[n] # "none" => ChosenBy(n, keyAgreement'[n])
           /\ actualState'[n] = "SentCommit" => ChosenBy(n, commit'[n].keyAgreement)
<1>1. TypeChosen(n) /\ PeersHellos(n) /\ SettledOnPeers(n) /\ HasPackets(n)
  BY DEF TypeInv, HelloInv, PacketsReady
<1>2. CASE LeavesExchange(n) \/ Begins(n) \/ RejectsCommit(n)
           \/ \E m \in net[n] : LowersFor(n, m) \/ StopsFor(n, m)
  BY <1>1, <1>2
     DEF LeavesExchange, Begins, RejectsCommit, LowersFor, StopsFor, SameChoice, SameCommit,
         TypeChosen, Compares, Exchanging
<1>3. ASSUME NEW m \in net[n], SettlesOn(n, m)
      PROVE  /\ keyAgreement'[n] = Choice(n)
             /\ ChosenBy(n, keyAgreement'[n])
             /\ actualState'[n] = "SentCommit" => ChosenBy(n, commit'[n].keyAgreement)
  <2>1. m.keyAgreementTypes = MyTypes(Peer[n])
    BY <1>1, <1>3 DEF SettlesOn, Compares, PeersHellos, MadeBy
  <2>2. ChosenBy(n, keyAgreement'[n])
    BY <1>3, <2>1 DEF SettlesOn, ChosenBy, Choice
  <2>3. actualState'[n] = "SentCommit" => commit'[n].keyAgreement = keyAgreement'[n]
    BY <1>3, CommitNames DEF SettlesOn
  <2> QED
    BY <2>2, <2>3 DEF ChosenBy
<1>4. CASE MakesCommit(n)
  <2>1. commit'[n].keyAgreement = keyAgreement[n] /\ keyAgreement'[n] = keyAgreement[n]
    BY <1>4, CommitNames DEF MakesCommit, SameChoice
  <2>2. keyAgreement[n] # "none"
    BY <1>1, <1>4 DEF MakesCommit, HasPackets
  <2> QED
    BY <1>1, <2>1, <2>2 DEF TypeChosen
<1>5. ASSUME NEW m \in net[n], AnswersCommit(n, m)
      PROVE  /\ keyAgreement'[n] \in {keyAgreement[n], Choice(n)}
             /\ keyAgreement'[n] # "none" => ChosenBy(n, keyAgreement'[n])
             /\ actualState'[n] # "SentCommit"
  <2>1. m.type = "Commit" /\ m.src = Peer[n]
    BY <1>1, <1>5 DEF AnswersCommit, SettledOnPeers, MadeBy, Negotiated
  <2>2. ChosenBy(n, m.keyAgreement)
    BY <1>1, <2>1, ChoiceShared DEF TypeChosen
  <2> QED
    BY <1>1, <1>5, <2>2 DEF AnswersCommit, TypeChosen, ChosenBy
<1>6. keyAgreement[n] # "none" => keyAgreement[n] = Choice(n)
  BY <1>1 DEF TypeChosen, ChosenBy
<1> QED
  BY <1>2, <1>3, <1>4, <1>5, <1>6 DEF ExchangeStep

LEMMA TypeChosenNext ==
    ASSUME BodiesKept, TypesRated, IInv, IInv', HelloInv, TypeInv, ExchangeSummary,
           NEW n \in Node
    PROVE  TypeChosen(n)'
<1>1. Peer[n] \in Node /\ Peer[Peer[n]] = n /\ TypeChosen(n) /\ TypeChosen(Peer[n])
  BY PeerFacts DEF TypeInv
<1>2. ASSUME NEW k \in Node, TypeChosen(k)
      PROVE  /\ keyAgreement'[k] # "none" => ChosenBy(k, keyAgreement'[k])
             /\ actualState'[k] = "SentCommit" => ChosenBy(k, commit'[k].keyAgreement)
  BY <1>2, OneExchanges, ChoiceNext DEF Untouched, TypeChosen
<1>3. ASSUME NEW p \in net'[n], p.type = "Commit", p.src = Peer[n]
      PROVE  ChosenBy(Peer[n], p.keyAgreement)
  <2>1. CASE \E q \in net[n] : Carried(q, p)
    BY <1>1, <1>3, <2>1, CarriedFields DEF NetworkTyped, TypeChosen
  <2>2. CASE SentNow(Peer[n], p)
    BY <1>1, <1>2, <1>3, <2>2, SentState
  <2> QED
    BY <2>1, <2>2, Arriving, SummaryFollows
<1> QED
  BY <1>1, <1>2, <1>3 DEF TypeChosen, ChosenBy, Choice

LEMMA TypeInit ==
    ASSUME EarlierSessionOver, Init
    PROVE  TypeInv
BY DEF Init, TypeInv, TypeChosen, EarlierSessionOver, Correspondents

LEMMA TypeInvariant ==
    ASSUME BodiesKept, EarlierSessionOver, NoEarlierHello, TypesRated
    PROVE  Spec => []TypeInv
<1>1. Init => TypeInv
  BY TypeInit
<1>2. IInv /\ HelloInv /\ TypeInv /\ [Next]_vars => TypeInv'
  BY NextIsExchange, NextKeepsIInv, TypeChosenNext DEF TypeInv
<1> QED
  BY <1>1, <1>2, EngineInvariant, HelloInvariant, PTL DEF Spec

(* The type an endpoint chose from the Hellos, alone and before there was  *)
(* a Commit, is the type of the Commit that is accepted, also after        *)
(* contention: nothing the engine does later changes it.  A damaged Commit *)
(* may ask for another type, and only the MAC in the DHPart2 tells.        *)
THEOREM TypeKept ==
    ASSUME BodiesKept, EarlierSessionOver, NoEarlierHello, TypesRated
    PROVE  Spec => KeyTypeKept
<1>1. IInv /\ HelloInv /\ TypeInv /\ [Next]_vars
        => [\A n \in Node : keyAgreement[n] # "none"
                              => keyAgreement'[n] = keyAgreement[n]]_vars
  BY NextIsExchange, OneExchanges, ChoiceNext DEF Untouched
<1> QED
  BY <1>1, TypeInvariant, EngineInvariant, HelloInvariant, PTL DEF Spec, KeyTypeKept

-----------------------------------------------------------------------------
(* The versions two users have in common.                                  *)

CommonVersions(n) == Elements(Info1(n)) \cap Elements(Info1(Peer[n]))

(* Endpoints with no version in common may not notice: ReceivedHelloAck    *)
(* does not look for an empty list.                                        *)
SomeCommonVersion == \A n \in Node : CommonVersions(n) # {}

(* No Hello is below a common version, so none is erased. *)
KeepsCommon(n) ==
    /\ \A i \in DOMAIN Info1(n) : Info1(n)[i] \in CommonVersions(n) => i \in versions[n]
    /\ \A m \in net[n] : m.type = "Hello" =>
          \A version \in CommonVersions(n) : version <= m.version

CommonInv == \A n \in Node : KeepsCommon(n)

LEMMA VersionIsNat == \A version \in Version : version \in Nat
BY DEF Version

LEMMA CommonIsKept ==
    ASSUME SomeCommonVersion, TypeOK, NEW n \in Node, KeepsCommon(n), OwnHello(n)
    PROVE  /\ versions[n] # {}
           /\ \A version \in CommonVersions(n) : /\ version \in Nat
                                                 /\ version <= hello[n].version
<1>1. Info1(n) \in Seq(Version) /\ versions[n] \in SUBSET DOMAIN Info1(n)
  BY HelloVersions
<1>2. \A version \in CommonVersions(n) : \E i \in versions[n] : version = Info1(n)[i]
  BY DEF KeepsCommon, CommonVersions, Elements
<1>3. versions[n] # {}
  BY <1>2 DEF SomeCommonVersion
<1>4. /\ \A i \in versions[n] : hello[n].version >= Info1(n)[i]
      /\ hello[n].version \in Version
  BY <1>1, <1>3, HighestVersion DEF OwnHello
<1>5. hello[n].version \in Nat /\ \A i \in versions[n] : Info1(n)[i] \in Nat
  <2>1. \A i \in versions[n] : Info1(n)[i] \in Nat
    BY <1>1, EntriesAreVersions
  <2> QED
    BY <1>4, <2>1, VersionIsNat
<1> QED
  BY <1>2, <1>3, <1>4, <1>5

LEMMA CommonLeft ==
    ASSUME SomeCommonVersion, TypeOK, NEW n \in Node, KeepsCommon(n), OwnHello(n),
           NEW m \in net[n], m.type = "Hello"
    PROVE  /\ \A i \in DOMAIN Info1(n) : Info1(n)[i] \in CommonVersions(n)
                => i \in LowerVersions(Info1(n), versions[n], m.version)
           /\ LowerVersions(Info1(n), versions[n], m.version) # {}
<1>1. /\ Info1(n) \in Seq(Version) /\ versions[n] \in SUBSET DOMAIN Info1(n)
      /\ m.version \in Version
  BY HelloVersions
<1>2. \A i \in DOMAIN Info1(n) : Info1(n)[i] \in CommonVersions(n)
         => i \in versions[n] /\ Info1(n)[i] <= m.version
  BY DEF KeepsCommon
<1>3. \A i \in DOMAIN Info1(n) : Info1(n)[i] \in CommonVersions(n)
         => i \in LowerVersions(Info1(n), versions[n], m.version)
  BY <1>1, <1>2, LowerVersionsKeeps
<1>4. \E i \in DOMAIN Info1(n) : Info1(n)[i] \in CommonVersions(n)
  BY DEF SomeCommonVersion, CommonVersions, Elements
<1> QED
  BY <1>3, <1>4

LEMMA KeptNext ==
    ASSUME SomeCommonVersion, IInv, HelloInv, CommonInv, ExchangeSummary, NEW n \in Node
    PROVE  \A i \in DOMAIN Info1(n) : Info1(n)[i] \in CommonVersions(n) => i \in versions'[n]
<1>1. KeepsCommon(n) /\ OwnHello(n) /\ versions[n] # {}
  BY CommonIsKept DEF CommonInv, HelloInv
<1>2. ASSUME NEW m \in net[n], LowersFor(n, m) \/ StopsFor(n, m)
      PROVE  versions'[n] \in {versions[n], LowerVersions(Info1(n), versions[n], m.version)}
             /\ m.type = "Hello"
  BY <1>2 DEF LowersFor, StopsFor, Compares
<1>3. CASE ExchangeStep(n)
  <2>1. CASE \E m \in net[n] : LowersFor(n, m) \/ StopsFor(n, m)
    BY <1>1, <1>2, <2>1, CommonLeft DEF KeepsCommon
  <2>2. CASE ~ \E m \in net[n] : LowersFor(n, m) \/ StopsFor(n, m)
    BY <1>1, <1>3, <2>2
       DEF ExchangeStep, LeavesExchange, Begins, SettlesOn, MakesCommit, RejectsCommit,
           AnswersCommit, SameHellos, KeepsCommon
  <2> QED
    BY <2>1, <2>2
<1> QED
  BY <1>1, <1>3, OneExchanges DEF Untouched, KeepsCommon

LEMMA KeepsCommonNext ==
    ASSUME BodiesKept, SomeCommonVersion, IInv, IInv', HelloInv, HelloInv', CommonInv,
           ExchangeSummary, NEW n \in Node
    PROVE  KeepsCommon(n)'
<1> DEFINE peer == Peer[n]
<1>1. peer \in Node /\ Peer[peer] = n
  BY PeerFacts
<1>2. ASSUME NEW p \in net'[n], p.type = "Hello", NEW version \in CommonVersions(n)
      PROVE  version <= p.version
  <2>1. CASE \E q \in net[n] : Carried(q, p)
    BY <1>2, <2>1, CarriedFields DEF NetworkTyped, CommonInv, KeepsCommon
  <2>2. CASE SentNow(peer, p)
    <3>1. p = hello'[peer]
      BY <1>1, <1>2, <2>2, SentState
    <3>2. \E i \in DOMAIN Info1(peer) : Info1(peer)[i] = version /\ i \in versions'[peer]
      <4>1. PICK i \in DOMAIN Info1(peer) : Info1(peer)[i] = version
        BY <1>1 DEF CommonVersions, Elements
      <4>2. version \in CommonVersions(peer)
        BY <1>1 DEF CommonVersions
      <4> QED
        BY <1>1, <4>1, <4>2, KeptNext
    <3>3. /\ Info1(peer) \in Seq(Version) /\ versions'[peer] \in SUBSET DOMAIN Info1(peer)
          /\ hello'[peer].version = chooseHighestVersion(Info1(peer), versions'[peer])
      <4>1. OwnHello(peer)'
        BY <1>1 DEF HelloInv
      <4>2. versions'[peer] \in SUBSET DOMAIN Info1(peer)
        BY <1>1 DEF EngineTyped
      <4> QED
        BY <1>1, <3>2, <4>1, <4>2, InfoFacts DEF OwnHello, Info1
    <3>4. hello'[peer].version >= version /\ hello'[peer].version \in Version
      BY <3>2, <3>3, HighestVersion
    <3>5. version \in Nat /\ hello'[peer].version \in Nat
      <4>1. version \in Nat
        BY <3>2, <3>3, EntriesAreVersions
      <4> QED
        BY <3>4, <4>1, VersionIsNat
    <3> QED
      BY <3>1, <3>4, <3>5
  <2> QED
    BY <2>1, <2>2, Arriving, SummaryFollows
<1>3. \A i \in DOMAIN Info1(n) : Info1(n)[i] \in CommonVersions(n) => i \in versions'[n]
  BY KeptNext
<1> QED
  BY <1>2, <1>3 DEF KeepsCommon, CommonVersions, Info1

LEMMA CommonInit ==
    ASSUME NoEarlierHello, Init
    PROVE  CommonInv
BY DEF Init, CommonInv, KeepsCommon, NoEarlierHello

LEMMA CommonInvariant ==
    ASSUME BodiesKept, SomeCommonVersion, NoEarlierHello
    PROVE  Spec => []CommonInv
<1>1. Init => CommonInv
  BY CommonInit
<1>2. IInv /\ HelloInv /\ HelloInv' /\ CommonInv /\ [Next]_vars => CommonInv'
  BY NextIsExchange, NextKeepsIInv, KeepsCommonNext DEF CommonInv
<1> QED
  BY <1>1, <1>2, EngineInvariant, HelloInvariant, PTL DEF Spec

(* The version that is settled on is no lower than any common one. *)
SettledOnHighest ==
    \A n \in Node : actualState[n] \in Negotiated =>
       \A version \in CommonVersions(n) : Prefix(version) <= Prefix(hello[n].version)

(* An endpoint that has settled, whatever order the Hellos came in, goes   *)
(* on with a version no lower than the best both users have, as long as no *)
(* Hello has been damaged into one of a lower version.                     *)
THEOREM HighestCommonVersion ==
    ASSUME BodiesKept, SomeCommonVersion, NoEarlierHello
    PROVE  Spec => []SettledOnHighest
<1>1. IInv /\ HelloInv /\ CommonInv => SettledOnHighest
  <2> SUFFICES ASSUME IInv, HelloInv, CommonInv, NEW n \in Node,
                      NEW version \in CommonVersions(n)
               PROVE  Prefix(version) <= Prefix(hello[n].version)
    BY DEF SettledOnHighest
  <2>1. version <= hello[n].version /\ hello[n].version \in Version
    BY CommonIsKept, HelloVersions DEF HelloInv, CommonInv
  <2>2. version \in Version
    BY InfoFacts DEF CommonVersions, Elements
  <2> QED
    BY <2>1, <2>2, PrefixOrder
<1> QED
  BY <1>1, CommonInvariant, HelloInvariant, EngineInvariant, PTL

-----------------------------------------------------------------------------
(* The refinement of VersionExchange: `offered` is read off the datagrams  *)
(* in flight, so it is what the two endpoints have offered if none is      *)
(* lost or removed.                                                        *)

NothingForgotten == Duplicating /\ MaxLost = 0

(* The Hello to be resent is one that has been offered. *)
HelloOffered(n) ==
    IF sentMessage[n] = Unset
      THEN \A m \in net[Peer[n]] : m.type # "Hello"
      ELSE \E m \in net[Peer[n]] : m.type = "Hello" /\ m.version = hello[n].version

OfferInv == \A n \in Node : HelloOffered(n)

LEMMA NothingLeaves ==
    ASSUME NothingForgotten, ExchangeSummary, NEW k \in Node
    PROVE  net[k] \subseteq net'[k]
BY DEF ExchangeSummary, NetworkStep, EngineStep, SendsToPeer, NothingForgotten

LEMMA HelloOfferedNext ==
    ASSUME BodiesKept, NothingForgotten, IInv, IInv', OfferInv, ExchangeSummary, NEW n \in Node
    PROVE  HelloOffered(n)'
<1> DEFINE peer == Peer[n]
<1>1. peer \in Node /\ peer # n /\ Peer[peer] = n
  BY PeerFacts
<1>2. HelloOffered(n) /\ net[peer] \subseteq net'[peer]
  BY <1>1, NothingLeaves DEF OfferInv
<1>3. hello'[n].type = "Hello"
  BY DEF PacketsTyped, Hellos
<1>4. CASE EngineStep(n) /\ ExchangeStep(n)
  <2>1. sentMessage'[n] # Unset
    BY <1>4 DEF EngineStep, PacketsKept
  <2>2. CASE hello'[n] \in net'[peer]
    BY <1>3, <2>1, <2>2 DEF HelloOffered
  <2>3. CASE sentMessage[n] # Unset /\ hello'[n] = hello[n]
    BY <1>2, <2>1, <2>3 DEF HelloOffered
  <2>4. CASE sentMessage[n] # Unset /\ ~ \E m \in net[n] : LowersFor(n, m)
    BY <1>4, <2>3, <2>4
       DEF ExchangeStep, LeavesExchange, Begins, SettlesOn, Compares, StopsFor, MakesCommit,
           RejectsCommit, AnswersCommit, SameHellos
  <2> QED
    BY <1>4, <2>2, <2>4
       DEF ExchangeStep, LeavesExchange, Begins, SettlesOn, Compares, LowersFor, StopsFor,
           MakesCommit, RejectsCommit, AnswersCommit, SameHellos
<1>5. CASE Untouched(n)
  <2>1. CASE sentMessage[n] = Unset
    <3>1. ASSUME NEW p \in net'[peer], p.type = "Hello" PROVE FALSE
      <4>1. CASE \E q \in net[peer] : Carried(q, p)
        BY <1>1, <1>2, <2>1, <3>1, <4>1, CarriedFields DEF NetworkTyped, HelloOffered
      <4>2. CASE EngineStep(n)
        BY <1>5, <2>1, <4>2 DEF EngineStep, PacketsKept, Untouched
      <4> QED
        BY <1>1, <4>1, <4>2, Arriving, SummaryFollows
    <3> QED
      BY <1>5, <2>1, <3>1 DEF Untouched, HelloOffered
  <2>2. CASE sentMessage[n] # Unset
    BY <1>2, <1>5, <2>2 DEF Untouched, HelloOffered
  <2> QED
    BY <2>1, <2>2
<1> QED
  BY <1>4, <1>5, OneExchanges

LEMMA OfferInit ==
    ASSUME NoEarlierHello, Init
    PROVE  OfferInv
BY PeerFacts DEF Init, OfferInv, HelloOffered, NoEarlierHello

LEMMA OfferInvariant ==
    ASSUME BodiesKept, NothingForgotten, NoEarlierHello
    PROVE  Spec => []OfferInv
<1>1. Init => OfferInv
  BY OfferInit
<1>2. IInv /\ OfferInv /\ [Next]_vars => OfferInv'
  BY NextIsExchange, NextKeepsIInv, HelloOfferedNext DEF OfferInv
<1> QED
  BY <1>1, <1>2, EngineInvariant, PTL DEF Spec

(* What a step of an endpoint n looks like in VersionExchange. *)

LEMMA OffersMade ==
    ASSUME NothingForgotten, IInv, IInv', OfferInv', ExchangeSummary,
           NEW n \in Node, EngineStep(n)
    PROVE  offered' = [offered EXCEPT ![n] = @ \cup {hello'[n].version}]
<1>1. ASSUME NEW k \in Node
      PROVE  offered'[k] = IF k = n THEN offered[k] \cup {hello'[n].version} ELSE offered[k]
  <2>1. Peer[k] \in Node /\ (Peer[k] = Peer[n] <=> k = n) /\ net[Peer[k]] \subseteq net'[Peer[k]]
    BY PeerAssumption, NothingLeaves
  <2>2. /\ offered[k] = {m.version : m \in {x \in net[Peer[k]] : x.type = "Hello"}}
        /\ offered'[k] = {m.version : m \in {x \in net'[Peer[k]] : x.type = "Hello"}}
    BY DEF offered
  <2>3. ASSUME NEW p \in net'[Peer[k]], p.type = "Hello", p \notin net[Peer[k]]
        PROVE  k = n /\ p = hello'[n]
    BY <2>1, <2>3, SentState DEF EngineStep, SendsToPeer
  <2>4. hello'[n].version \in offered'[n]
    <3>1. HelloOffered(n)' /\ sentMessage'[n] # Unset
      BY DEF OfferInv, EngineStep, PacketsKept
    <3>2. \E m \in net'[Peer[n]] : m.type = "Hello" /\ m.version = hello'[n].version
      BY <3>1 DEF HelloOffered
    <3> QED
      BY <3>2 DEF offered
  <2>5. offered'[k] \subseteq IF k = n THEN offered[k] \cup {hello'[n].version} ELSE offered[k]
    BY <2>2, <2>3
  <2>6. offered[k] \subseteq offered'[k]
    BY <2>1, <2>2
  <2> QED
    BY <2>4, <2>5, <2>6
<1>2. offered = [k \in Node |-> offered[k]] /\ offered' = [k \in Node |-> offered'[k]]
  BY DEF offered
<1> QED
  BY <1>1, <1>2

LEMMA OfferedSoFar ==
    ASSUME OfferInv, NEW n \in Node
    PROVE  /\ offered = [k \in Node |-> offered[k]]
           /\ \A m \in net[n] : m.type = "Hello" => m.version \in offered[Peer[n]]
           /\ IF sentMessage[n] = Unset THEN offered[n] = {}
              ELSE hello[n].version \in offered[n]
<1>1. Peer[n] \in Node /\ Peer[Peer[n]] = n /\ HelloOffered(n)
  BY PeerFacts DEF OfferInv
<1>2. /\ offered[n] = {m.version : m \in {x \in net[Peer[n]] : x.type = "Hello"}}
      /\ offered[Peer[n]] = {m.version : m \in {x \in net[n] : x.type = "Hello"}}
  BY <1>1 DEF offered
<1> QED
  BY <1>1, <1>2, PeerFacts DEF HelloOffered, offered

LEMMA PhasesKept ==
    ASSUME NEW n \in Node, EngineStep(n), NEW there,
           there = IF actualState'[n] \in Exchanging THEN "exchanging"
                   ELSE IF actualState'[n] \in Negotiated THEN "settled" ELSE "stopped"
    PROVE  phase' = [phase EXCEPT ![n] = there]
<1>1. sentMessage'[n] # Unset
  BY DEF EngineStep, PacketsKept
<1>2. phase'[n] = there
  BY <1>1 DEF phase, Exchanging
<1>3. \A k \in Node : k # n => phase'[k] = phase[k]
  BY DEF EngineStep, Untouched, phase
<1>4. phase = [k \in Node |-> phase[k]] /\ phase' = [k \in Node |-> phase'[k]]
  BY DEF phase
<1> QED
  BY <1>2, <1>3, <1>4

LEMMA PhaseNow ==
    ASSUME NEW n \in Node
    PROVE  phase[n] = IF sentMessage[n] = Unset THEN "idle"
                      ELSE IF actualState[n] \in Exchanging THEN "exchanging"
                      ELSE IF actualState[n] \in Negotiated THEN "settled" ELSE "stopped"
BY DEF phase, Exchanging

LEMMA VersionsKept ==
    ASSUME TypeOK, TypeOK', NEW n \in Node, EngineStep(n)
    PROVE  versions' = [versions EXCEPT ![n] = versions'[n]]
BY DEF EngineTyped, EngineStep, Untouched

(* VersionExchange takes its decisions with the operators of the engine. *)
LEMMA SameDecisions ==
    ASSUME NEW list, NEW left, NEW version
    PROVE  /\ Exchange!chooseHighestVersion(list, left) = chooseHighestVersion(list, left)
           /\ Exchange!SameVersion(list, left, version) = SameVersion(list, left, version)
           /\ Exchange!LowerVersions(list, left, version) = LowerVersions(list, left, version)
<1>1. Exchange!chooseHighestVersion(list, left) = chooseHighestVersion(list, left)
  BY DEF Exchange!chooseHighestVersion, chooseHighestVersion
<1>2. \A v : Exchange!Prefix(v) = Prefix(v)
  BY DEF Exchange!Prefix, Prefix
<1>3. Exchange!SameVersion(list, left, version) = SameVersion(list, left, version)
  BY <1>1, <1>2 DEF Exchange!SameVersion, SameVersion
<1>4. \A i : Exchange!HigherRun(list, left, version, i) = HigherRun(list, left, version, i)
  BY DEF Exchange!HigherRun, HigherRun
<1>5. Exchange!Erased(list, left, version) = Erased(list, left, version)
  <2>1. \A S : Exchange!Cardinality(S) = Cardinality(S)
    BY Zenon DEF Exchange!Cardinality, Cardinality
  <2> QED
    BY <1>4, <2>1 DEF Exchange!Erased, Erased
<1>6. Exchange!LowerVersions(list, left, version) = LowerVersions(list, left, version)
  BY <1>1, <1>2, <1>5 DEF Exchange!LowerVersions, LowerVersions
<1> QED
  BY <1>1, <1>3, <1>6

(* A step of the engine is one of VersionExchange or none. *)
LEMMA ExchangeStepImplemented ==
    ASSUME NothingForgotten, SomeCommonVersion, IInv, IInv', HelloInv, HelloInv',
           CommonInv, OfferInv, OfferInv', ExchangeSummary, NEW n \in Node,
           EngineStep(n), ExchangeStep(n)
    PROVE  \/ Exchange!Offer(n) \/ Exchange!Receive(n) \/ Exchange!Stop(n)
           \/ UNCHANGED Exchange!vars
<1> DEFINE lists == [k \in Node |-> Info1(k)]
<1>1. /\ KeepsCommon(n) /\ OwnHello(n) /\ OwnHello(n)' /\ lists[n] = Info1(n)
      /\ lists' = lists /\ versions[n] # {}
  BY CommonIsKept DEF CommonInv, HelloInv, Info1
<1>2. /\ offered' = [offered EXCEPT ![n] = @ \cup {hello'[n].version}]
      /\ offered = [k \in Node |-> offered[k]]
      /\ versions' = [versions EXCEPT ![n] = versions'[n]]
      /\ phase = [k \in Node |-> phase[k]] /\ versions = [k \in Node |-> versions[k]]
  BY OffersMade, OfferedSoFar, VersionsKept DEF phase, EngineTyped
<1>3. ASSUME sentMessage[n] # Unset, hello'[n] = hello[n] PROVE offered' = offered
  <2>1. offered[n] \cup {hello'[n].version} = offered[n]
    BY <1>3, OfferedSoFar
  <2>2. offered' = [offered EXCEPT ![n] = offered[n]]
    BY <1>2, <2>1
  <2> QED
    BY <1>2, <2>2
<1>4. ASSUME versions'[n] = versions[n] PROVE versions' = versions
  BY <1>2, <1>4
<1>5. CASE Begins(n)
  <2>1. /\ phase[n] = "idle" /\ phase' = [phase EXCEPT ![n] = "exchanging"]
    BY <1>5, PhaseNow, PhasesKept DEF Begins, Exchanging
  <2>2. hello'[n] = hello[n] /\ versions' = versions /\ offered[n] = {}
    BY <1>4, <1>5, OfferedSoFar DEF Begins, SameHellos
  <2>3. hello[n].version = chooseHighestVersion(Info1(n), versions[n])
    BY <1>1 DEF OwnHello
  <2>4. Exchange!Highest(n, versions[n]) = hello[n].version
    BY <1>1, <2>3, SameDecisions DEF Exchange!Highest
  <2>5. offered' = [offered EXCEPT ![n] = {hello[n].version}]
    BY <1>2, <2>2
  <2>6. Exchange!Offer(n)
    BY <1>1, <2>1, <2>2, <2>4, <2>5 DEF Exchange!Offer
  <2> QED
    BY <2>6
<1>6. ASSUME NEW m \in net[n], SettlesOn(n, m)
      PROVE  Exchange!Receive(n)
  <2>1. phase[n] = "exchanging" /\ phase' = [phase EXCEPT ![n] = "settled"]
    BY <1>6, PhaseNow, PhasesKept DEF SettlesOn, Compares, Exchanging, Negotiated
  <2>2. versions' = versions /\ offered' = offered /\ m.version \in offered[Peer[n]]
    BY <1>3, <1>4, <1>6, OfferedSoFar DEF SettlesOn, Compares
  <2>3. Exchange!Settle(n, m.version)
    BY <1>1, <1>6, <2>1, <2>2, SameDecisions DEF SettlesOn, Exchange!Settle
  <2> QED
    BY <2>2, <2>3 DEF Exchange!Receive
<1>7. ASSUME NEW m \in net[n], LowersFor(n, m)
      PROVE  Exchange!Receive(n)
  <2>1. /\ phase[n] = "exchanging" /\ phase' = [phase EXCEPT ![n] = "exchanging"]
    BY <1>7, PhaseNow, PhasesKept DEF LowersFor, Compares, Exchanging
  <2>2. phase' = phase
    BY <1>2, <2>1
  <2>3. /\ versions'[n] = LowerVersions(Info1(n), versions[n], m.version)
        /\ versions'[n] # {} /\ m.version \in offered[Peer[n]]
    BY <1>1, <1>7, CommonLeft, OfferedSoFar DEF LowersFor, Compares
  <2>4. hello'[n].version = chooseHighestVersion(Info1(n), versions'[n])
    BY <1>1, <2>3 DEF OwnHello, Info1
  <2>5. /\ Exchange!Highest(n, versions'[n]) = hello'[n].version
        /\ Exchange!LowerVersions(lists[n], versions[n], m.version) = versions'[n]
        /\ ~ Exchange!SameVersion(lists[n], versions[n], m.version)
    BY <1>1, <1>7, <2>3, <2>4, SameDecisions DEF LowersFor, Exchange!Highest
  <2>6. Exchange!Lower(n, m.version)
    BY <1>1, <1>2, <2>1, <2>2, <2>3, <2>5 DEF Exchange!Lower
  <2> QED
    BY <2>3, <2>6 DEF Exchange!Receive
<1>8. ASSUME NEW m \in net[n], StopsFor(n, m)
      PROVE  Exchange!Stop(n)
  <2>1. /\ versions' = versions /\ offered' = offered
    BY <1>1, <1>3, <1>4, <1>8, CommonLeft DEF StopsFor
  <2>2. phase[n] = "exchanging" /\ phase' = [phase EXCEPT ![n] = "stopped"]
    BY <1>1, <1>8, PhaseNow, PhasesKept DEF StopsFor, Exchanging, Negotiated
  <2> QED
    BY <1>1, <2>1, <2>2 DEF Exchange!Stop
<1>9. CASE LeavesExchange(n) \/ MakesCommit(n) \/ RejectsCommit(n)
           \/ \E m \in net[n] : AnswersCommit(n, m)
  <2>1. versions' = versions /\ offered' = offered
    BY <1>3, <1>4, <1>9
       DEF LeavesExchange, MakesCommit, RejectsCommit, AnswersCommit, SameHellos
  <2>2. PICK there \in {"exchanging", "settled", "stopped"} :
           /\ there = IF actualState'[n] \in Exchanging THEN "exchanging"
                      ELSE IF actualState'[n] \in Negotiated THEN "settled" ELSE "stopped"
           /\ phase' = [phase EXCEPT ![n] = there]
    BY PhasesKept
  <2>3. there = phase[n] \/ (there = "stopped" /\ phase[n] \in {"exchanging", "settled"})
    BY <1>9, <2>2, PhaseNow
       DEF LeavesExchange, MakesCommit, RejectsCommit, AnswersCommit, Exchanging, Negotiated
  <2>4. CASE there = phase[n]
    BY <1>1, <1>2, <2>1, <2>2, <2>4 DEF Exchange!vars
  <2>5. CASE there = "stopped" /\ phase[n] \in {"exchanging", "settled"}
    BY <1>1, <2>1, <2>2, <2>5 DEF Exchange!Stop
  <2> QED
    BY <2>3, <2>4, <2>5
<1> QED
  BY <1>5, <1>6, <1>7, <1>8, <1>9 DEF ExchangeStep

LEMMA NetworkStepImplemented ==
    ASSUME BodiesKept, NothingForgotten, IInv, IInv', NetworkStep
    PROVE  UNCHANGED Exchange!vars
<1>1. ASSUME NEW k \in Node PROVE offered'[k] = offered[k] /\ phase'[k] = phase[k]
  <2>1. Peer[k] \in Node /\ net[Peer[k]] \subseteq net'[Peer[k]]
    BY PeerFacts DEF NetworkStep, NothingForgotten
  <2>2. /\ offered[k] = {m.version : m \in {x \in net[Peer[k]] : x.type = "Hello"}}
        /\ offered'[k] = {m.version : m \in {x \in net'[Peer[k]] : x.type = "Hello"}}
    BY DEF offered
  <2>3. ASSUME NEW p \in net'[Peer[k]], p.type = "Hello"
        PROVE  \E q \in net[Peer[k]] : q.type = "Hello" /\ q.version = p.version
    BY <2>1, <2>3, CarriedFields DEF NetworkStep, NetworkTyped
  <2>4. offered'[k] \subseteq offered[k]
    BY <2>2, <2>3
  <2>5. offered[k] \subseteq offered'[k]
    BY <2>1, <2>2
  <2>6. phase'[k] = phase[k]
    BY DEF NetworkStep, Untouched, phase
  <2> QED
    BY <2>4, <2>5, <2>6
<1>2. offered' = offered /\ phase' = phase
  BY <1>1 DEF offered, phase
<1>3. versions' = versions
  BY DEF NetworkStep, Untouched, EngineTyped
<1> QED
  BY <1>2, <1>3 DEF Exchange!vars, Info1

LEMMA ExchangeInitImplemented ==
    ASSUME NoEarlierHello, Init
    PROVE  Exchange!Init
<1>1. \A k \in Node : offered[k] = {} /\ phase[k] = "idle"
  BY PeerFacts DEF Init, NoEarlierHello, offered, phase
<1>2. offered = [k \in Node |-> {}] /\ phase = [k \in Node |-> "idle"]
  BY <1>1 DEF offered, phase
<1> QED
  BY <1>2 DEF Init, Exchange!Init

(* The engine's way of waiting for both a Hello and a HelloACK, in either  *)
(* order, lowers and settles versions as VersionExchange does; so what is  *)
(* proved of that for all lists holds of the engine, while Hellos keep the *)
(* versions they were sent with.                                           *)
THEOREM VersionExchangeImplemented ==
    ASSUME BodiesKept, NothingForgotten, SomeCommonVersion, NoEarlierHello
    PROVE  Spec => ImplementsVersionExchange
<1>1. Init => Exchange!Init
  BY ExchangeInitImplemented
<1>2. IInv /\ IInv' /\ HelloInv /\ HelloInv' /\ CommonInv /\ OfferInv /\ OfferInv'
           /\ [Next]_vars => [Exchange!Next]_(Exchange!vars)
  <2> SUFFICES ASSUME IInv, IInv', HelloInv, HelloInv', CommonInv, OfferInv, OfferInv',
                      [Next]_vars
               PROVE  Exchange!Next \/ UNCHANGED Exchange!vars
    OBVIOUS
  <2>1. ExchangeSummary
    BY NextIsExchange
  <2>2. CASE NetworkStep
    BY <2>2, NetworkStepImplemented
  <2>3. ASSUME NEW n \in Node, EngineStep(n), ExchangeStep(n)
        PROVE  Exchange!Next \/ UNCHANGED Exchange!vars
    BY <2>1, <2>3, ExchangeStepImplemented DEF Exchange!Next
  <2> QED
    BY <2>1, <2>2, <2>3 DEF ExchangeSummary
<1> QED
  BY <1>1, <1>2, EngineInvariant, HelloInvariant, CommonInvariant, OfferInvariant, PTL
     DEF Spec, ImplementsVersionExchange, Exchange!Spec
=============================================================================
