---------------------------- MODULE StateEngine ----------------------------
(***************************************************************************)
(* The protocol engine of one ZRTP endpoint, for every endpoint n of Node  *)
(* (ZRTP/stateengine.cpp with the parts of ZRTP/zrtp.cpp it calls).        *)
(*                                                                         *)
(* A step is one call of StateEngine::processEvent, which the user's       *)
(* critical section makes atomic: one action per handler branch, for a     *)
(* received packet m or a timeout.  ZrtpSession says when they arrive.     *)
(***************************************************************************)
EXTENDS ZrtpPackets

CONSTANTS
    InitialRoles,   \* the Roles the users may give to their constructors
    MaxResend1,     \* T1.maxResend
    MaxResend2,     \* T2.maxResend
    Duplicating,    \* may a delivered datagram arrive again?
    Leftover        \* Leftover[n]: datagrams of an earlier session on their way

ASSUME RoleAssumption == InitialRoles \subseteq [Node -> {"Initiator", "Responder"}]
ASSUME ResendAssumption == MaxResend1 \in Nat /\ MaxResend2 \in Nat
ASSUME DuplicatingAssumption == Duplicating \in BOOLEAN
ASSUME LeftoverAssumption == Leftover \in [Node -> SUBSET Packets]

VARIABLES
    actualState, myRole,
    versions,       \* positions of UserInfo[n].versions not erased yet
    hello, peerHello, keyAgreement,
    commit, dhPart1, dhPart2, confirm1, confirm2, error,
    keys,           \* what keyDerivation derived
    sentMessage,    \* the packet a timeout sends again
    T1, T2,         \* resendCounter of the two timers
    timer,          \* has the user's timer been activated?
    locked,         \* has processEvent left the critical section entered?
    keyAgreed, agreementFailed,     \* calls of the two callbacks
    net,            \* net[n]: the datagrams in flight to n
    expired,        \* expired[n]: timeouts raised and not processed yet
    faults          \* how many datagrams were lost and damaged so far

helloVars   == <<versions, hello, peerHello, keyAgreement>>
packetVars  == <<commit, dhPart1, dhPart2, confirm1, confirm2>>
timerVars   == <<T1, T2, timer>>
outcomeVars == <<keyAgreed, agreementFailed>>
vars == <<actualState, myRole, helloVars, packetVars, error, keys, sentMessage,
          timerVars, locked, outcomeVars, net, expired, faults>>

States == {"Initial", "SentHello", "SentHelloAck", "ReceivedHelloAck",
           "SentCommit", "WaitCommit", "WaitDHPart2", "WaitConfirm1",
           "WaitConfirm2", "WaitConf2Ack", "Secured", "WaitErrorAck"}

(* An Error that keeps arriving is reported each time: counted up to here. *)
ReportCap == 2

Info1(n) == UserInfo[n].versions

(* The constructors of Zrtp and StateEngine, before the Start event. *)
Init ==
    /\ actualState = [n \in Node |-> "Initial"]
    /\ myRole \in InitialRoles
    /\ versions = [n \in Node |-> DOMAIN Info1(n)]
    /\ hello = [n \in Node |->
                  HelloPacket(n, chooseHighestVersion(Info1(n), DOMAIN Info1(n)))]
    /\ peerHello = [n \in Node |-> Null]
    /\ keyAgreement = [n \in Node |-> "none"]
    /\ commit = [n \in Node |-> Unset]
    /\ dhPart1 = [n \in Node |-> Unset]
    /\ dhPart2 = [n \in Node |-> Unset]
    /\ confirm1 = [n \in Node |-> Unset]
    /\ confirm2 = [n \in Node |-> Unset]
    /\ error = [n \in Node |-> Unset]
    /\ keys = [n \in Node |-> Unset]
    /\ sentMessage = [n \in Node |-> Unset]
    /\ T1 = [n \in Node |-> 0]
    /\ T2 = [n \in Node |-> 0]
    /\ timer = [n \in Node |-> FALSE]
    /\ locked = [n \in Node |-> FALSE]
    /\ keyAgreed = [n \in Node |-> 0]
    /\ agreementFailed = [n \in Node |-> 0]
    /\ net = Leftover
    /\ expired = [n \in Node |-> 0]
    /\ faults = [lost |-> 0, damaged |-> 0]

-----------------------------------------------------------------------------
(* Callbacks and helpers. *)

(* processEvent waits for the critical section; the Start event is part of *)
(* the constructor, so no other event precedes it.                         *)
CanProcess(n, states) ==
    /\ ~ locked[n]
    /\ sentMessage[n] # Unset
    /\ actualState[n] \in states
    /\ faults' = faults

(* Handling of a packet, and of a timeout. *)
Handling(n, states) == CanProcess(n, states) /\ expired' = expired

HandlingTimeout(n, states) ==
    /\ CanProcess(n, states)
    /\ expired[n] > 0
    /\ expired' = [expired EXCEPT ![n] = @ - 1]

Goto(n, state) == actualState' = [actualState EXCEPT ![n] = state]

(* sendData outside the handling of a packet. *)
Send(n, packets) == net' = [net EXCEPT ![Peer[n]] = @ \cup packets]

(* sendData while m is handled: m is no longer in flight to n, unless the  *)
(* network duplicates it.                                                  *)
Reply(n, m, packets) ==
    net' = [net EXCEPT ![n] = IF Duplicating THEN @ ELSE @ \ {m},
                       ![Peer[n]] = @ \cup packets]

(* ... and the packet is the one to send again on a timeout. *)
ReplyAndKeep(n, m, packet) ==
    /\ Reply(n, m, {packet})
    /\ sentMessage' = [sentMessage EXCEPT ![n] = packet]

timerStart1(n) ==
    /\ T1' = [T1 EXCEPT ![n] = 0]
    /\ timer' = [timer EXCEPT ![n] = TRUE]
    /\ T2' = T2

(* Mutant: the counter is reset and the timer not activated. *)
resetOnly2(n) ==
    /\ T2' = [T2 EXCEPT ![n] = 0]
    /\ UNCHANGED <<T1, timer>>

timerStart2(n) ==
    /\ T2' = [T2 EXCEPT ![n] = 0]
    /\ timer' = [timer EXCEPT ![n] = TRUE]
    /\ T1' = T1

cancelTimer(n) ==
    /\ timer' = [timer EXCEPT ![n] = FALSE]
    /\ UNCHANGED <<T1, T2>>

(* Mutant: the Error is not the packet to send again. *)
sendErrorOnce(n, m, code, sent) ==
    LET packet == ErrorPacket(n, code) IN
    /\ error' = [error EXCEPT ![n] = packet]
    /\ Reply(n, m, sent \cup {packet})
    /\ sentMessage' = sentMessage
    /\ timerStart2(n)
    /\ Goto(n, "WaitErrorAck")

(* sendError, after the packets `sent` in the same handler. *)
sendError(n, m, code, sent) ==
    LET packet == ErrorPacket(n, code) IN
    /\ error' = [error EXCEPT ![n] = packet]
    /\ Reply(n, m, sent \cup {packet})
    /\ sentMessage' = [sentMessage EXCEPT ![n] = packet]
    /\ timerStart2(n)
    /\ Goto(n, "WaitErrorAck")

(* isCorrectHashImage: the image in `later` hashes to the one in `earlier`. *)
SameChain(earlier, later) ==
    /\ earlier.src = later.src
    /\ "badImage" \notin {earlier.mark, later.mark}

(* generateMac and memcmp: `packet` was made, as it is now, by the owner   *)
(* of the hash image revealed in `later`, which is the MAC key.            *)
MacHolds(packet, later) ==
    /\ packet.mark = "intact"
    /\ packet.src = later.src
    /\ later.mark # "badImage"

(* isValidPeerPv *)
ValidPv(part) == part.mark # "badPv"

(* createDHResult, sharedSecretCalculation, keyDerivation. *)
InitiatorKey(n, part1) ==
    [dhResult |-> {n, part1.src}, zidI |-> n, zidR |-> peerHello[n].src,
     helloR |-> peerHello[n], commit |-> commit[n],
     dhPart1 |-> part1, dhPart2 |-> dhPart2[n]]

ResponderKey(n, part2) ==
    [dhResult |-> {n, part2.src}, zidI |-> peerHello[n].src, zidR |-> n,
     helloR |-> hello[n], commit |-> commit[n],
     dhPart1 |-> dhPart1[n], dhPart2 |-> part2]

-----------------------------------------------------------------------------
(* The checks of a received packet, in the order the handlers make them.   *)
(* Hash images revealed earlier are those of the packets kept from then.   *)

HelloCheck(n, m) ==
    IF Malformed(m) THEN "MalformedPacket"
    ELSE IF m.src = n THEN "EqualZid"
    ELSE "none"

CommitCheck(n, m) ==
    IF Malformed(m) THEN "MalformedPacket"
    ELSE IF SameChain(peerHello[n], m) /\ MacHolds(peerHello[n], m) THEN "none"
    ELSE "CriticalSoftwareError"

(* Mutant: the result of parse is not looked at. *)
UnparsedDHPart1Check(n, m) ==
    IF ~ ValidPv(m) THEN "BadDhPublicValue"
    ELSE IF SameChain(peerHello[n], m) /\ MacHolds(peerHello[n], m) THEN "none"
    ELSE "CriticalSoftwareError"

DHPart1Check(n, m) ==
    IF Malformed(m) THEN "MalformedPacket"
    ELSE IF ~ ValidPv(m) THEN "BadDhPublicValue"
    ELSE IF SameChain(peerHello[n], m) /\ MacHolds(peerHello[n], m) THEN "none"
    ELSE "CriticalSoftwareError"

DHPart2Check(n, m) ==
    IF Malformed(m) THEN "MalformedPacket"
    ELSE IF commit[n].hvi # Hvi(m, hello[n]) THEN "DhHviError"
    ELSE IF ~ ValidPv(m) THEN "BadDhPublicValue"
    ELSE IF SameChain(commit[n], m) /\ MacHolds(commit[n], m) THEN "none"
    ELSE "CriticalSoftwareError"

(* `part` is the DHPart the sender of the Confirm m has sent before. *)
ConfirmCheck(n, m, part) ==
    IF Malformed(m) THEN "MalformedPacket"
    ELSE IF m.macKey # macKey(keys[n], myRole[n], FALSE) \/ m.mark = "badBody"
      THEN "BadConfirm"
    ELSE IF m.zrtpKey = zrtpKey(keys[n], myRole[n], FALSE)
             /\ SameChain(part, m) /\ MacHolds(part, m) THEN "none"
    ELSE "CriticalSoftwareError"

-----------------------------------------------------------------------------
(* handleInitial: the Start event of the constructor. *)
Start(n) ==
    /\ ~ locked[n]
    /\ sentMessage[n] = Unset
    /\ Send(n, {hello[n]})
    /\ sentMessage' = [sentMessage EXCEPT ![n] = hello[n]]
    /\ timerStart1(n)
    /\ Goto(n, "SentHello")
    /\ UNCHANGED <<myRole, helloVars, packetVars, error, keys, locked, outcomeVars,
                   expired, faults>>

-----------------------------------------------------------------------------
(* Hello, before the endpoint knows the peer's: handleSentHello and        *)
(* handleReceivedHelloAck.                                                 *)

RejectHello(n, m) ==
    /\ Handling(n, {"SentHello", "ReceivedHelloAck"})
    /\ m.type = "Hello"
    /\ HelloCheck(n, m) # "none"
    /\ peerHello' = [peerHello EXCEPT ![n] = Parsed(m)]
    /\ sendError(n, m, HelloCheck(n, m), {})
    /\ UNCHANGED <<myRole, versions, hello, keyAgreement, packetVars, keys,
                   locked, outcomeVars>>

(* A Hello that passes the checks and, by compareVersions, has my version. *)
NewHello(n, m, states, same) ==
    /\ Handling(n, states)
    /\ m.type = "Hello"
    /\ HelloCheck(n, m) = "none"
    /\ versions[n] # {}
    /\ SameVersion(Info1(n), versions[n], m.version) = same
    /\ peerHello' = [peerHello EXCEPT ![n] = m]
    /\ UNCHANGED <<myRole, keys, locked, outcomeVars>>

MyTypes(n) == UserInfo[n].keyAgreementTypes

ChooseType(n, m) ==
    /\ HaveCommonType(MyTypes(n), m.keyAgreementTypes)
    /\ keyAgreement' = [keyAgreement EXCEPT
                          ![n] = chooseAlgorithm(MyTypes(n), m.keyAgreementTypes)]
    /\ UNCHANGED <<versions, hello>>

(* SentHello: answer with a HelloACK; T1 goes on resending my Hello. *)
AcceptHello(n, m) ==
    /\ NewHello(n, m, {"SentHello"}, TRUE)
    /\ ChooseType(n, m)
    /\ Reply(n, m, {HelloAck})
    /\ Goto(n, "SentHelloAck")
    /\ UNCHANGED <<packetVars, error, sentMessage, timerVars>>

(* ReceivedHelloAck, Responder: both Hellos are known to both. *)
AcceptHelloAsResponder(n, m) ==
    /\ NewHello(n, m, {"ReceivedHelloAck"}, TRUE)
    /\ myRole[n] = "Responder"
    /\ ChooseType(n, m)
    /\ Reply(n, m, {HelloAck})
    /\ Goto(n, "WaitCommit")
    /\ UNCHANGED <<packetVars, error, sentMessage, timerVars>>

(* Mutant: the Commit is built before the key agreement type is chosen. *)
createCommitFirst(n, type, helloR) ==
    /\ commit' = [commit EXCEPT ![n] = CommitPacket(n, keyAgreement[n], helloR)]
    /\ dhPart2' = [dhPart2 EXCEPT ![n] = DHPartPacket("DHPart2", n)]
    /\ UNCHANGED <<dhPart1, confirm1, confirm2>>

(* createCommitPacket builds DHPart2 too, for the hvi. *)
createCommitPacket(n, type, helloR) ==
    /\ commit' = [commit EXCEPT ![n] = CommitPacket(n, type, helloR)]
    /\ dhPart2' = [dhPart2 EXCEPT ![n] = DHPartPacket("DHPart2", n)]
    /\ UNCHANGED <<dhPart1, confirm1, confirm2>>

SendCommit(n, m) ==
    /\ ReplyAndKeep(n, m, commit'[n])
    /\ timerStart2(n)
    /\ Goto(n, "SentCommit")

(* ReceivedHelloAck, Initiator: the Commit stands for the HelloACK. *)
AcceptHelloAsInitiator(n, m) ==
    /\ NewHello(n, m, {"ReceivedHelloAck"}, TRUE)
    /\ myRole[n] = "Initiator"
    /\ ChooseType(n, m)
    /\ createCommitPacket(n, keyAgreement'[n], m)
    /\ SendCommit(n, m)
    /\ error' = error

(* chooseAlgorithm fails: in SentHello the HelloACK is out already. *)
NoCommonType(n, m) ==
    /\ NewHello(n, m, {"SentHello", "ReceivedHelloAck"}, TRUE)
    /\ ~ HaveCommonType(MyTypes(n), m.keyAgreementTypes)
    /\ sendError(n, m, "KeyExchangeNotSupported",
                 IF actualState[n] = "SentHello" THEN {HelloAck} ELSE {})
    /\ UNCHANGED <<versions, hello, keyAgreement, packetVars>>

(* Mutant: the new Hello is built before the versions are erased. *)
HelloBeforeErasing(n, peerVersion) ==
    LET left == LowerVersions(Info1(n), versions[n], peerVersion) IN
    /\ versions' = [versions EXCEPT ![n] = left]
    /\ hello' = [hello EXCEPT
                   ![n] = HelloPacket(n, chooseHighestVersion(Info1(n), versions[n]))]
    /\ keyAgreement' = keyAgreement

(* compareVersions on different versions: versions[n] without those above  *)
(* the peer's, and a new Hello if that changed something and left some.    *)
compareVersions(n, peerVersion) ==
    LET left == LowerVersions(Info1(n), versions[n], peerVersion) IN
    /\ versions' = [versions EXCEPT ![n] = left]
    /\ hello' = [hello EXCEPT
                   ![n] = IF left \in {{}, versions[n]} THEN @
                          ELSE HelloPacket(n, chooseHighestVersion(Info1(n), left))]
    /\ keyAgreement' = keyAgreement

(* Mutant: sentMessage stays at the Hello sent first. *)
KeepFirstHello(n, m) ==
    /\ NewHello(n, m, {"SentHello", "ReceivedHelloAck"}, FALSE)
    /\ compareVersions(n, m.version)
    /\ actualState[n] = "SentHello" => versions'[n] # {}
    /\ Reply(n, m, {hello'[n]})
    /\ timerStart1(n)
    /\ UNCHANGED <<actualState, sentMessage, packetVars, error>>

(* Different versions: send my Hello, a new one perhaps, and start T1. The *)
(* old Hello object is deleted, so sentMessage must move to the new one.   *)
NegotiateVersion(n, m) ==
    /\ NewHello(n, m, {"SentHello", "ReceivedHelloAck"}, FALSE)
    /\ compareVersions(n, m.version)
    /\ actualState[n] = "SentHello" => versions'[n] # {}
    /\ ReplyAndKeep(n, m, hello'[n])
    /\ timerStart1(n)
    /\ UNCHANGED <<actualState, packetVars, error>>

(* SentHello: no version is left. *)
RefuseVersion(n, m) ==
    /\ NewHello(n, m, {"SentHello"}, FALSE)
    /\ compareVersions(n, m.version)
    /\ versions'[n] = {}
    /\ sendError(n, m, "UnsupportedVersion", {})
    /\ UNCHANGED packetVars

(* ReceivedHelloAck does not look for an empty list, and versions.at(0) of *)
(* the next Hello throws out of processEvent, which leaves the critical    *)
(* section entered.                                                        *)
VersionsExhausted(n, m) ==
    /\ Handling(n, {"ReceivedHelloAck"})
    /\ m.type = "Hello"
    /\ HelloCheck(n, m) = "none"
    /\ versions[n] = {}
    /\ peerHello' = [peerHello EXCEPT ![n] = m]
    /\ locked' = [locked EXCEPT ![n] = TRUE]
    /\ Reply(n, m, {})
    /\ UNCHANGED <<actualState, myRole, versions, hello, keyAgreement, packetVars,
                   error, keys, sentMessage, timerVars, outcomeVars>>

-----------------------------------------------------------------------------
(* Hello again, in handleSentHelloAck and handleWaitCommit.                *)

(* The Hello kept so far has another version than mine: compare once more  *)
(* (which may delete my old Hello under sentMessage), parse the new Hello  *)
(* into peerHello and compare with that.                                   *)
ReparseHello(n, m) ==
    LET left  == LowerVersions(Info1(n), versions[n], peerHello[n].version)
        mine  == IF left = versions[n] THEN hello[n]
                 ELSE HelloPacket(n, chooseHighestVersion(Info1(n), left))
        left2 == LowerVersions(Info1(n), left, m.version)
        mine2 == IF left2 \in {{}, left} THEN mine
                 ELSE HelloPacket(n, chooseHighestVersion(Info1(n), left2))
    IN  IF left = {}
          THEN /\ locked' = [locked EXCEPT ![n] = TRUE]
               /\ versions' = [versions EXCEPT ![n] = left]
               /\ Reply(n, m, {})
               /\ UNCHANGED <<actualState, hello, peerHello, error, sentMessage, timerVars>>
        ELSE IF Malformed(m)
          THEN /\ sendError(n, m, "MalformedPacket", {})
               /\ versions' = [versions EXCEPT ![n] = left]
               /\ hello' = [hello EXCEPT ![n] = mine]
               /\ peerHello' = IF m.mark = "badLength"
                                 THEN [peerHello EXCEPT ![n] = m] ELSE peerHello
               /\ locked' = locked
        ELSE /\ peerHello' = [peerHello EXCEPT ![n] = m]
             /\ versions' = [versions EXCEPT ![n] = left2]
             /\ hello' = [hello EXCEPT ![n] = mine2]
             /\ IF SameVersion(Info1(n), left, m.version)
                  THEN /\ Reply(n, m, {HelloAck})
                       /\ sentMessage' = IF left = versions[n] THEN sentMessage
                                         ELSE [sentMessage EXCEPT ![n] = Freed]
                       /\ timer' = IF left = versions[n] THEN timer
                                   ELSE [timer EXCEPT ![n] = FALSE]
                       /\ UNCHANGED <<T1, T2>>
                  ELSE ReplyAndKeep(n, m, mine2) /\ timerStart1(n)
             /\ UNCHANGED <<actualState, error, locked>>

(* Mutant: the Hello is parsed, and an older one with a greater version    *)
(* replaces the one agreed on.                                             *)
ParseAndRepeat(n, m) ==
    /\ Handling(n, {"SentHelloAck", "WaitCommit"})
    /\ m.type = "Hello"
    /\ peerHello' = [peerHello EXCEPT ![n] = m]
    /\ Reply(n, m, {HelloAck})
    /\ UNCHANGED <<actualState, myRole, versions, hello, keyAgreement, packetVars,
                   error, keys, sentMessage, timerVars, locked, outcomeVars>>

(* The peer has not seen my HelloACK; its Hello is not even parsed. *)
RepeatHelloAck(n, m) ==
    /\ Handling(n, {"SentHelloAck", "WaitCommit"})
    /\ m.type = "Hello"
    /\ IF SameVersion(Info1(n), versions[n], peerHello[n].version)
         THEN /\ Reply(n, m, {HelloAck})
              /\ UNCHANGED <<actualState, versions, hello, peerHello, error,
                             sentMessage, timerVars, locked>>
         ELSE ReparseHello(n, m)
    /\ UNCHANGED <<myRole, keyAgreement, packetVars, keys, outcomeVars>>

-----------------------------------------------------------------------------
(* HelloACK *)

RejectHelloAck(n, m) ==
    /\ Handling(n, {"SentHello", "SentHelloAck"})
    /\ m.type = "HelloACK"
    /\ Malformed(m)
    /\ sendError(n, m, "MalformedPacket", {})
    /\ UNCHANGED <<myRole, helloVars, packetVars, keys, locked, outcomeVars>>

GoodHelloAck(n, m, state) ==
    /\ Handling(n, {state})
    /\ m.type = "HelloACK"
    /\ ~ Malformed(m)
    /\ UNCHANGED <<myRole, helloVars, error, keys, locked, outcomeVars>>

(* SentHello: the peer's Hello is still to come. *)
AwaitHello(n, m) ==
    /\ GoodHelloAck(n, m, "SentHello")
    /\ cancelTimer(n)
    /\ Reply(n, m, {})
    /\ Goto(n, "ReceivedHelloAck")
    /\ UNCHANGED <<packetVars, sentMessage>>

(* Mutant: the role is not looked at. *)
AwaitAnyCommit(n, m) ==
    /\ GoodHelloAck(n, m, "SentHelloAck")
    /\ cancelTimer(n)
    /\ Reply(n, m, {})
    /\ Goto(n, "WaitCommit")
    /\ UNCHANGED <<packetVars, sentMessage>>

(* SentHelloAck, Responder: wait for the Initiator. *)
AwaitCommit(n, m) ==
    /\ GoodHelloAck(n, m, "SentHelloAck")
    /\ myRole[n] = "Responder"
    /\ cancelTimer(n)
    /\ Reply(n, m, {})
    /\ Goto(n, "WaitCommit")
    /\ UNCHANGED <<packetVars, sentMessage>>

(* SentHelloAck, Initiator. *)
CommitNow(n, m) ==
    /\ GoodHelloAck(n, m, "SentHelloAck")
    /\ myRole[n] = "Initiator"
    /\ createCommitPacket(n, keyAgreement[n], peerHello[n])
    /\ SendCommit(n, m)

-----------------------------------------------------------------------------
(* Commit, to a Responder in SentHelloAck or WaitCommit, and commit        *)
(* contention: to an Initiator in SentHelloAck or SentCommit.              *)

CommitToResponder(n, m) ==
    /\ \/ Handling(n, {"WaitCommit"})
       \/ Handling(n, {"SentHelloAck"}) /\ myRole[n] = "Responder"
    /\ m.type = "Commit"

CommitToInitiator(n, m, states) ==
    /\ Handling(n, states)
    /\ actualState[n] = "SentHelloAck" => myRole[n] # "Responder"
    /\ m.type = "Commit"

(* The own Commit and DHPart2 as they are when the peer's Commit is        *)
(* parsed: handleSentHelloAck creates them first.                          *)
OwnCommit(n) ==
    IF actualState[n] = "SentHelloAck"
      THEN CommitPacket(n, keyAgreement[n], peerHello[n])
      ELSE commit[n]

OwnDHPart2(n) ==
    IF actualState[n] = "SentHelloAck"
      THEN DHPartPacket("DHPart2", n)
      ELSE dhPart2[n]

RejectCommit(n, m) ==
    /\ CommitToResponder(n, m)
    /\ CommitCheck(n, m) # "none"
    /\ commit' = [commit EXCEPT ![n] = Parsed(m)]
    /\ sendError(n, m, CommitCheck(n, m), {})
    /\ UNCHANGED <<myRole, helloVars, dhPart1, dhPart2, confirm1, confirm2, keys,
                   locked, outcomeVars>>

RejectRivalCommit(n, m) ==
    /\ CommitToInitiator(n, m, {"SentHelloAck", "SentCommit"})
    /\ CommitCheck(n, m) # "none"
    /\ commit' = [commit EXCEPT ![n] = OwnCommit(n)]
    /\ dhPart2' = [dhPart2 EXCEPT ![n] = OwnDHPart2(n)]
    /\ sendError(n, m, CommitCheck(n, m), {})
    /\ UNCHANGED <<myRole, helloVars, dhPart1, confirm1, confirm2, keys, locked,
                   outcomeVars>>

(* checkCompatibility on the accepted Commit m, and DHPart1 or the error.  *)
(* keyAgreement is overwritten unless a check up to that one fails.        *)
AnswerCommit(n, m) ==
    LET code == Compatibility(UserInfo[n], m) IN
    /\ commit' = [commit EXCEPT ![n] = m]
    /\ keyAgreement' = IF code \in {"none", "SasNotSupported"}
                         THEN [keyAgreement EXCEPT ![n] = m.keyAgreement]
                         ELSE keyAgreement
    /\ UNCHANGED <<versions, hello, peerHello, confirm1, confirm2, keys, locked,
                   outcomeVars>>

AcceptCommit(n, m) ==
    /\ CommitToResponder(n, m)
    /\ CommitCheck(n, m) = "none"
    /\ Compatibility(UserInfo[n], m) = "none"
    /\ AnswerCommit(n, m)
    /\ dhPart1' = [dhPart1 EXCEPT ![n] = DHPartPacket("DHPart1", n)]
    /\ Reply(n, m, {dhPart1'[n]})
    /\ Goto(n, "WaitDHPart2")
    /\ UNCHANGED <<myRole, dhPart2, error, sentMessage, timerVars>>

RefuseCommit(n, m) ==
    /\ CommitToResponder(n, m)
    /\ CommitCheck(n, m) = "none"
    /\ Compatibility(UserInfo[n], m) # "none"
    /\ AnswerCommit(n, m)
    /\ sendError(n, m, Compatibility(UserInfo[n], m), {})
    /\ UNCHANGED <<myRole, dhPart1, dhPart2>>

(* Mutant: the peer's Commit is compared with itself. *)
SameHvi(n, m) == HviRank[m.hvi.dhPart2.src] > HviRank[m.hvi.dhPart2.src]

(* hasGreaterHvi, on the hvi as it was received: of a Commit only the hash *)
(* image has been checked, its MAC waits for the DHPart2.                  *)
GreaterHvi(n, m) == HviRank[n] > HviRank[m.hvi.dhPart2.src]

(* Contention won before sending a Commit: send it. *)
WinContention(n, m) ==
    /\ CommitToInitiator(n, m, {"SentHelloAck"})
    /\ CommitCheck(n, m) = "none"
    /\ GreaterHvi(n, m)
    /\ createCommitPacket(n, keyAgreement[n], peerHello[n])
    /\ SendCommit(n, m)
    /\ UNCHANGED <<myRole, helloVars, error, keys, locked, outcomeVars>>

(* Contention won with the Commit already sent: the peer will yield. *)
KeepCommit(n, m) ==
    /\ CommitToInitiator(n, m, {"SentCommit"})
    /\ CommitCheck(n, m) = "none"
    /\ GreaterHvi(n, m)
    /\ Reply(n, m, {})
    /\ UNCHANGED <<actualState, myRole, helloVars, packetVars, error, keys,
                   sentMessage, timerVars, locked, outcomeVars>>

(* Contention lost: take the Responder's role.  The own Commit and DHPart2 *)
(* are deleted, sentMessage may point into the former; only SentCommit     *)
(* cancels the timer.                                                      *)
Yield(n, m) ==
    /\ CommitToInitiator(n, m, {"SentHelloAck", "SentCommit"})
    /\ CommitCheck(n, m) = "none"
    /\ ~ GreaterHvi(n, m)
    /\ myRole' = [myRole EXCEPT ![n] = "Responder"]
    /\ dhPart2' = [dhPart2 EXCEPT ![n] = Freed]
    /\ AnswerCommit(n, m)

YieldContention(n, m) ==
    /\ Yield(n, m)
    /\ Compatibility(UserInfo[n], m) = "none"
    /\ dhPart1' = [dhPart1 EXCEPT ![n] = DHPartPacket("DHPart1", n)]
    /\ Reply(n, m, {dhPart1'[n]})
    /\ Goto(n, "WaitDHPart2")
    /\ IF actualState[n] = "SentCommit"
         THEN /\ sentMessage' = [sentMessage EXCEPT ![n] = Freed]
              /\ cancelTimer(n)
         ELSE UNCHANGED <<sentMessage, timerVars>>
    /\ error' = error

YieldAndRefuse(n, m) ==
    /\ Yield(n, m)
    /\ Compatibility(UserInfo[n], m) # "none"
    /\ sendError(n, m, Compatibility(UserInfo[n], m), {})
    /\ dhPart1' = dhPart1

-----------------------------------------------------------------------------
(* handleSentCommit: DHPart1. *)

ReceiveDHPart1(n, m) ==
    /\ Handling(n, {"SentCommit"})
    /\ m.type = "DHPart1"
    /\ dhPart1' = [dhPart1 EXCEPT ![n] = Parsed(m)]
    /\ UNCHANGED <<myRole, helloVars, commit, dhPart2, confirm1, confirm2, locked,
                   outcomeVars>>

RejectDHPart1(n, m) ==
    /\ ReceiveDHPart1(n, m)
    /\ DHPart1Check(n, m) # "none"
    /\ sendError(n, m, DHPart1Check(n, m), {})
    /\ keys' = keys

AcceptDHPart1(n, m) ==
    /\ ReceiveDHPart1(n, m)
    /\ DHPart1Check(n, m) = "none"
    /\ keys' = [keys EXCEPT ![n] = InitiatorKey(n, m)]
    /\ ReplyAndKeep(n, m, dhPart2[n])
    /\ timerStart2(n)
    /\ Goto(n, "WaitConfirm1")
    /\ error' = error

-----------------------------------------------------------------------------
(* handleWaitDHPart2: every packet cancels the timer first. *)

(* The peer has not seen my DHPart1; its Commit is not parsed again. *)
RepeatDHPart1(n, m) ==
    /\ Handling(n, {"WaitDHPart2"})
    /\ m.type = "Commit"
    /\ cancelTimer(n)
    /\ Reply(n, m, {dhPart1[n]})
    /\ UNCHANGED <<actualState, myRole, helloVars, packetVars, error, keys,
                   sentMessage, locked, outcomeVars>>

ReceiveDHPart2(n, m, state) ==
    /\ Handling(n, {state})
    /\ m.type = "DHPart2"
    /\ UNCHANGED <<myRole, helloVars, commit, dhPart1, confirm2, locked, outcomeVars>>

RejectDHPart2(n, m) ==
    /\ ReceiveDHPart2(n, m, "WaitDHPart2")
    /\ DHPart2Check(n, m) # "none"
    /\ dhPart2' = [dhPart2 EXCEPT ![n] = Parsed(m)]
    /\ sendError(n, m, DHPart2Check(n, m), {})
    /\ UNCHANGED <<confirm1, keys>>

AcceptDHPart2(n, m) ==
    /\ ReceiveDHPart2(n, m, "WaitDHPart2")
    /\ DHPart2Check(n, m) = "none"
    /\ dhPart2' = [dhPart2 EXCEPT ![n] = m]
    /\ keys' = [keys EXCEPT ![n] = ResponderKey(n, m)]
    /\ confirm1' = [confirm1 EXCEPT
                      ![n] = ConfirmPacket("Confirm1", n, myRole[n], ResponderKey(n, m))]
    /\ Reply(n, m, {confirm1'[n]})
    /\ cancelTimer(n)
    /\ Goto(n, "WaitConfirm2")
    /\ UNCHANGED <<error, sentMessage>>

-----------------------------------------------------------------------------
(* handleWaitConfirm2: DHPart2 again, parsed over the one kept. *)

(* Mutant: keys are derived again before the packet is checked. *)
DeriveThenReject(n, m) ==
    /\ ReceiveDHPart2(n, m, "WaitConfirm2")
    /\ DHPart2Check(n, m) # "none"
    /\ dhPart2' = [dhPart2 EXCEPT ![n] = m]
    /\ sendError(n, m, DHPart2Check(n, m), {})
    /\ keys' = [keys EXCEPT ![n] = ResponderKey(n, m)]
    /\ confirm1' = confirm1

RejectDHPart2Again(n, m) ==
    /\ ReceiveDHPart2(n, m, "WaitConfirm2")
    /\ DHPart2Check(n, m) # "none"
    /\ dhPart2' = IF m.mark = "badIdentifier" THEN dhPart2
                  ELSE [dhPart2 EXCEPT ![n] = m]
    /\ sendError(n, m, DHPart2Check(n, m), {})
    /\ UNCHANGED <<confirm1, keys>>

RepeatConfirm1(n, m) ==
    /\ ReceiveDHPart2(n, m, "WaitConfirm2")
    /\ DHPart2Check(n, m) = "none"
    /\ dhPart2' = [dhPart2 EXCEPT ![n] = m]
    /\ Reply(n, m, {confirm1[n]})
    /\ UNCHANGED <<actualState, confirm1, error, keys, sentMessage, timerVars>>

-----------------------------------------------------------------------------
(* handleWaitConfirm1: Confirm1. *)

ReceiveConfirm1(n, m) ==
    /\ Handling(n, {"WaitConfirm1"})
    /\ m.type = "Confirm1"
    /\ confirm1' = [confirm1 EXCEPT ![n] = Parsed(m)]
    /\ UNCHANGED <<myRole, helloVars, commit, dhPart1, dhPart2, keys, locked,
                   outcomeVars>>

RejectConfirm1(n, m) ==
    /\ ReceiveConfirm1(n, m)
    /\ ConfirmCheck(n, m, dhPart1[n]) # "none"
    /\ sendError(n, m, ConfirmCheck(n, m, dhPart1[n]), {})
    /\ confirm2' = confirm2

(* Mutant: the agreement is reported with the Confirm2, not the Conf2ACK. *)
ReportEarly(n, m) ==
    /\ Handling(n, {"WaitConfirm1"})
    /\ m.type = "Confirm1"
    /\ ConfirmCheck(n, m, dhPart1[n]) = "none"
    /\ confirm1' = [confirm1 EXCEPT ![n] = m]
    /\ confirm2' = [confirm2 EXCEPT ![n] = ConfirmPacket("Confirm2", n, myRole[n], keys[n])]
    /\ ReplyAndKeep(n, m, confirm2'[n])
    /\ timerStart2(n)
    /\ Goto(n, "WaitConf2Ack")
    /\ keyAgreed' = [keyAgreed EXCEPT ![n] = @ + 1]
    /\ UNCHANGED <<myRole, helloVars, commit, dhPart1, dhPart2, error, keys, locked,
                   agreementFailed>>

AcceptConfirm1(n, m) ==
    /\ ReceiveConfirm1(n, m)
    /\ ConfirmCheck(n, m, dhPart1[n]) = "none"
    /\ confirm2' = [confirm2 EXCEPT ![n] = ConfirmPacket("Confirm2", n, myRole[n], keys[n])]
    /\ ReplyAndKeep(n, m, confirm2'[n])
    /\ timerStart2(n)
    /\ Goto(n, "WaitConf2Ack")
    /\ error' = error

-----------------------------------------------------------------------------
(* handleWaitConfirm2: Confirm2. *)

(* Mutant: the Confirm2 is parsed into a packet of its own. *)
ReceiveIntoLocal(n, m) ==
    /\ Handling(n, {"WaitConfirm2"})
    /\ m.type = "Confirm2"
    /\ UNCHANGED <<myRole, helloVars, packetVars, keys, locked, agreementFailed>>

ReceiveConfirm2(n, m) ==
    /\ Handling(n, {"WaitConfirm2"})
    /\ m.type = "Confirm2"
    /\ confirm2' = [confirm2 EXCEPT ![n] = Parsed(m)]
    /\ UNCHANGED <<myRole, helloVars, commit, dhPart1, dhPart2, confirm1, keys,
                   locked, agreementFailed>>

RejectConfirm2(n, m) ==
    /\ ReceiveConfirm2(n, m)
    /\ ConfirmCheck(n, m, dhPart2[n]) # "none"
    /\ sendError(n, m, ConfirmCheck(n, m, dhPart2[n]), {})
    /\ keyAgreed' = keyAgreed

AcceptConfirm2(n, m) ==
    /\ ReceiveConfirm2(n, m)
    /\ ConfirmCheck(n, m, dhPart2[n]) = "none"
    /\ Reply(n, m, {Conf2Ack})
    /\ Goto(n, "Secured")
    /\ keyAgreed' = [keyAgreed EXCEPT ![n] = @ + 1]
    /\ UNCHANGED <<error, sentMessage, timerVars>>

(* Mutant: the agreement is reported for every Confirm2. *)
RepeatAndReport(n, m) ==
    /\ Handling(n, {"Secured"})
    /\ m.type = "Confirm2"
    /\ Reply(n, m, {Conf2Ack})
    /\ keyAgreed' = [keyAgreed EXCEPT ![n] = @ + 1]
    /\ UNCHANGED <<actualState, myRole, helloVars, packetVars, error, keys,
                   sentMessage, timerVars, locked, agreementFailed>>

(* handleSecured: the Initiator has not seen my Conf2ACK. *)
RepeatConf2Ack(n, m) ==
    /\ Handling(n, {"Secured"})
    /\ m.type = "Confirm2"
    /\ Reply(n, m, {Conf2Ack})
    /\ UNCHANGED <<actualState, myRole, helloVars, packetVars, error, keys,
                   sentMessage, timerVars, locked, outcomeVars>>

(* handleWaitConf2Ack: Conf2ACK, which is not parsed. *)
AcceptConf2Ack(n, m) ==
    /\ Handling(n, {"WaitConf2Ack"})
    /\ m.type = "Conf2ACK"
    /\ cancelTimer(n)
    /\ Reply(n, m, {})
    /\ Goto(n, "Secured")
    /\ keyAgreed' = [keyAgreed EXCEPT ![n] = @ + 1]
    /\ UNCHANGED <<myRole, helloVars, packetVars, error, keys, sentMessage, locked,
                   agreementFailed>>

-----------------------------------------------------------------------------
(* Error and ErrorACK. *)

Fail(n) ==
    agreementFailed' = [agreementFailed EXCEPT
                          ![n] = IF @ < ReportCap THEN @ + 1 ELSE @]

(* Mutant: no ErrorACK is sent. *)
FailSilently(n, m) ==
    /\ Handling(n, States)
    /\ m.type = "Error"
    /\ m.mark # "badLength"
    /\ error' = [error EXCEPT ![n] = Freed]
    /\ Reply(n, m, {})
    /\ Fail(n)
    /\ Goto(n, "Initial")
    /\ UNCHANGED <<myRole, helloVars, packetVars, keys, sentMessage, timerVars,
                   locked, keyAgreed>>

(* processEvent: an Error in any state.  Its identifier is not enforced    *)
(* and the timer goes on.                                                  *)
AcceptError(n, m) ==
    /\ Handling(n, States)
    /\ m.type = "Error"
    /\ m.mark # "badLength"
    /\ error' = [error EXCEPT ![n] = Freed]
    /\ Reply(n, m, {ErrorAck})
    /\ Fail(n)
    /\ Goto(n, "Initial")
    /\ UNCHANGED <<myRole, helloVars, packetVars, keys, sentMessage, timerVars,
                   locked, keyAgreed>>

(* processEvent returns from here without leaveCriticalSection. *)
MalformedError(n, m) ==
    /\ Handling(n, States)
    /\ m.type = "Error"
    /\ m.mark = "badLength"
    /\ sendError(n, m, "MalformedPacket", {})
    /\ locked' = [locked EXCEPT ![n] = TRUE]
    /\ UNCHANGED <<myRole, helloVars, packetVars, keys, outcomeVars>>

(* handleWaitErrorAck: ErrorACK, which is not parsed. *)
AcceptErrorAck(n, m) ==
    /\ Handling(n, {"WaitErrorAck"})
    /\ m.type = "ErrorACK"
    /\ cancelTimer(n)
    /\ error' = [error EXCEPT ![n] = Freed]
    /\ Reply(n, m, {})
    /\ Fail(n)
    /\ Goto(n, "Initial")
    /\ UNCHANGED <<myRole, helloVars, packetVars, keys, sentMessage, locked,
                   keyAgreed>>

-----------------------------------------------------------------------------
(* The packets each handler has a branch for; processEvent takes Errors. *)
Handled ==
    [Initial          |-> {},
     SentHello        |-> {"Hello", "HelloACK"},
     SentHelloAck     |-> {"Hello", "HelloACK", "Commit"},
     ReceivedHelloAck |-> {"Hello"},
     SentCommit       |-> {"DHPart1", "Commit"},
     WaitCommit       |-> {"Hello", "Commit"},
     WaitDHPart2      |-> {"Commit", "DHPart2"},
     WaitConfirm1     |-> {"Confirm1"},
     WaitConfirm2     |-> {"DHPart2", "Confirm2"},
     WaitConf2Ack     |-> {"Conf2ACK"},
     Secured          |-> {"Confirm2"},
     WaitErrorAck     |-> {"ErrorACK"}]

(* Any other packet is dropped; handleWaitDHPart2 still cancels the timer. *)
IgnoreMessage(n, m) ==
    /\ Handling(n, States)
    /\ m.type \notin Handled[actualState[n]] \cup {"Error"}
    /\ Reply(n, m, {})
    /\ IF actualState[n] = "WaitDHPart2" THEN cancelTimer(n) ELSE UNCHANGED timerVars
    /\ UNCHANGED <<actualState, myRole, helloVars, packetVars, error, keys,
                   sentMessage, locked, outcomeVars>>

-----------------------------------------------------------------------------
(* Timeouts: send again and timerNext, which activates the timer up to     *)
(* maxResend times and then gives up: the timer is cancelled for good.     *)

Resend(n, states) ==
    /\ HandlingTimeout(n, states)
    /\ Send(n, {sentMessage[n]})
    /\ UNCHANGED <<actualState, myRole, helloVars, packetVars, error, keys,
                   sentMessage, locked, outcomeVars>>

ResendHello(n) ==
    /\ Resend(n, {"SentHello", "SentHelloAck"})
    /\ T1' = [T1 EXCEPT ![n] = @ + 1]
    /\ timer' = [timer EXCEPT ![n] = T1[n] < MaxResend1]
    /\ T2' = T2

(* Mutant: the last timeout reports a failure. *)
ResendOrFail(n) ==
    /\ HandlingTimeout(n, {"SentCommit", "WaitConfirm1", "WaitConf2Ack", "WaitErrorAck"})
    /\ Send(n, {sentMessage[n]})
    /\ T2' = [T2 EXCEPT ![n] = @ + 1]
    /\ timer' = [timer EXCEPT ![n] = T2[n] < MaxResend2]
    /\ IF T2[n] < MaxResend2 THEN agreementFailed' = agreementFailed ELSE Fail(n)
    /\ UNCHANGED <<actualState, myRole, helloVars, packetVars, error, keys,
                   sentMessage, T1, locked, keyAgreed>>

(* Mutant: the timer is not activated for a second resend. *)
ResendOnce(n) ==
    /\ Resend(n, {"SentCommit", "WaitConfirm1", "WaitConf2Ack", "WaitErrorAck"})
    /\ T2' = [T2 EXCEPT ![n] = @ + 1]
    /\ timer' = [timer EXCEPT ![n] = FALSE]
    /\ T1' = T1

ResendLater(n) ==
    /\ Resend(n, {"SentCommit", "WaitConfirm1", "WaitConf2Ack", "WaitErrorAck"})
    /\ T2' = [T2 EXCEPT ![n] = @ + 1]
    /\ timer' = [timer EXCEPT ![n] = T2[n] < MaxResend2]
    /\ T1' = T1

IgnoreTimeout(n) ==
    /\ HandlingTimeout(n, {"Initial", "ReceivedHelloAck", "WaitCommit",
                           "WaitDHPart2", "WaitConfirm2", "Secured"})
    /\ UNCHANGED <<actualState, myRole, helloVars, packetVars, error, keys,
                   sentMessage, timerVars, locked, outcomeVars, net>>
=============================================================================
