--------------------------- MODULE SessionProofs ---------------------------
(***************************************************************************)
(* What two endpoints may rely on: the keys they confirmed are the same,   *)
(* their users are told the same, and the Initiator is one of them.  The   *)
(* theorems hold for any users, any loss, delay, duplication and damage;   *)
(* what a theorem needs of the datagrams an earlier session has left on    *)
(* their way is its hypothesis.                                            *)
(*                                                                         *)
(* StepSummary says once what a call of processEvent does to the state,    *)
(* the keys, the callbacks and the packets in flight; the invariants are   *)
(* proved from it, not from the handlers.                                  *)
(***************************************************************************)
EXTENDS EngineProofs

(* Before the endpoint has derived any keys. *)
Opening == {"SentHello", "SentHelloAck", "ReceivedHelloAck", "SentCommit",
            "WaitCommit", "WaitDHPart2"}

(* The endpoint has failed or is failing. *)
Failing(n) == sentMessage[n] # Unset /\ actualState[n] \in {"WaitErrorAck", "Initial"}

(* All that belongs to endpoint k alone. *)
Untouched(k) ==
    /\ actualState'[k] = actualState[k] /\ myRole'[k] = myRole[k]
    /\ versions'[k] = versions[k] /\ hello'[k] = hello[k]
    /\ peerHello'[k] = peerHello[k] /\ keyAgreement'[k] = keyAgreement[k]
    /\ commit'[k] = commit[k] /\ dhPart1'[k] = dhPart1[k] /\ dhPart2'[k] = dhPart2[k]
    /\ confirm1'[k] = confirm1[k] /\ confirm2'[k] = confirm2[k]
    /\ keys'[k] = keys[k] /\ sentMessage'[k] = sentMessage[k] /\ locked'[k] = locked[k]
    /\ keyAgreed'[k] = keyAgreed[k] /\ agreementFailed'[k] = agreementFailed[k]

(* A packet n sends is the one the state it is in afterwards stands for. *)
SentNow(n, p) ==
    \/ p = HelloAck
    \/ p = hello'[n] /\ actualState'[n] \in {"SentHello", "SentHelloAck", "ReceivedHelloAck"}
    \/ p = commit'[n] /\ actualState'[n] = "SentCommit"
    \/ p = dhPart1'[n] /\ actualState'[n] = "WaitDHPart2"
    \/ p = dhPart2'[n] /\ actualState'[n] = "WaitConfirm1"
    \/ p = confirm1'[n] /\ actualState'[n] = "WaitConfirm2"
    \/ p = confirm2'[n] /\ actualState'[n] = "WaitConf2Ack"
    \/ p = Conf2Ack /\ actualState'[n] = "Secured"
    \/ p = error'[n] /\ actualState'[n] = "WaitErrorAck"
    \/ p = ErrorAck /\ actualState'[n] = "Initial"

(* n sends to its peer only, and what it receives may arrive again if the  *)
(* network duplicates.                                                     *)
SendsToPeer(n) ==
    /\ \A k \in Node : \A p \in net'[k] : p \in net[k] \/ (k = Peer[n] /\ SentNow(n, p))
    /\ Duplicating => \A k \in Node : net[k] \subseteq net'[k]

-----------------------------------------------------------------------------
(* What a step of n does to its state, its keys and its callbacks, and     *)
(* which packet lets it.                                                   *)

SameRole(n) == myRole'[n] = myRole[n]
SameKeys(n) == keys'[n] = keys[n]
SameOutcome(n) == keyAgreed'[n] = keyAgreed[n] /\ agreementFailed'[n] = agreementFailed[n]
SameConfirms(n) == confirm1'[n] = confirm1[n] /\ confirm2'[n] = confirm2[n]

Stays(n) ==
    /\ actualState'[n] = actualState[n] /\ sentMessage[n] # Unset
    /\ SameRole(n) /\ SameKeys(n) /\ SameOutcome(n) /\ SameConfirms(n)

Starts(n) ==
    /\ sentMessage[n] = Unset /\ actualState'[n] = "SentHello"
    /\ SameRole(n) /\ SameKeys(n) /\ SameOutcome(n)

GoesOn(n) ==
    /\ actualState[n] \in Opening /\ actualState'[n] \in Opening
    /\ SameKeys(n) /\ SameOutcome(n)

DerivesAsInitiator(n) ==
    /\ actualState[n] = "SentCommit" /\ actualState'[n] = "WaitConfirm1"
    /\ \E m \in net[n] : m.type = "DHPart1" /\ m.src = peerHello[n].src
    /\ n \in keys'[n].dhResult
    /\ SameRole(n) /\ SameOutcome(n)

DerivesAsResponder(n) ==
    /\ actualState[n] = "WaitDHPart2" /\ actualState'[n] = "WaitConfirm2"
    /\ n \in keys'[n].dhResult /\ confirm1'[n].macKey.s0 = keys'[n]
    /\ SameRole(n) /\ SameOutcome(n)

AcceptsConfirm1(n) ==
    /\ actualState[n] = "WaitConfirm1" /\ actualState'[n] = "WaitConf2Ack"
    /\ \E m \in net[n] : m.type = "Confirm1" /\ m.macKey.s0 = keys[n]
    /\ confirm1'[n] # Unset /\ confirm2'[n] # Unset
    /\ confirm2'[n].macKey.s0 = keys[n]
    /\ SameRole(n) /\ SameKeys(n) /\ SameOutcome(n)

AcceptsConfirm2(n) ==
    /\ actualState[n] = "WaitConfirm2" /\ actualState'[n] = "Secured"
    /\ \E m \in net[n] : m.type = "Confirm2" /\ m.macKey.s0 = keys[n]
    /\ confirm2'[n] # Unset
    /\ SameRole(n) /\ SameKeys(n)
    /\ keyAgreed'[n] = keyAgreed[n] + 1 /\ agreementFailed'[n] = agreementFailed[n]

AcceptsConf2Ack(n) ==
    /\ actualState[n] = "WaitConf2Ack" /\ actualState'[n] = "Secured"
    /\ \E m \in net[n] : m.type = "Conf2ACK"
    /\ SameRole(n) /\ SameKeys(n) /\ SameConfirms(n)
    /\ keyAgreed'[n] = keyAgreed[n] + 1 /\ agreementFailed'[n] = agreementFailed[n]

(* An own check fails only before the keys are confirmed. *)
StartsFailing(n) ==
    /\ sentMessage[n] # Unset /\ actualState'[n] = "WaitErrorAck"
    /\ \/ actualState[n] \in Opening \cup {"WaitConfirm1", "WaitConfirm2"}
       \/ \E m \in net[n] : m.type = "Error"
    /\ SameKeys(n) /\ SameOutcome(n)

Fails(n) ==
    /\ sentMessage[n] # Unset /\ actualState'[n] = "Initial"
    /\ actualState[n] = "WaitErrorAck" \/ \E m \in net[n] : m.type = "Error"
    /\ SameRole(n) /\ SameKeys(n) /\ keyAgreed'[n] = keyAgreed[n]
    /\ agreementFailed[n] > 0 => agreementFailed'[n] > 0

Advances(n) ==
    \/ Stays(n)
    \/ Starts(n)
    \/ GoesOn(n)
    \/ DerivesAsInitiator(n)
    \/ DerivesAsResponder(n)
    \/ AcceptsConfirm1(n)
    \/ AcceptsConfirm2(n)
    \/ AcceptsConf2Ack(n)
    \/ StartsFailing(n)
    \/ Fails(n)

(* The packets the destructor deletes: none becomes unset again, and the   *)
(* own DHPart2 is freed only on the way to the Responder's states.         *)
PacketsKept(n) ==
    /\ commit[n] # Unset => commit'[n] # Unset
    /\ dhPart1[n] # Unset => dhPart1'[n] # Unset
    /\ dhPart2[n] \notin {Unset, Freed} /\ actualState'[n] \notin {"WaitDHPart2", "WaitErrorAck"}
         => dhPart2'[n] \notin {Unset, Freed}
    /\ confirm1[n] # Unset => confirm1'[n] # Unset
    /\ confirm2[n] # Unset => confirm2'[n] # Unset
    /\ sentMessage'[n] # Unset

EngineStep(n) ==
    /\ \A k \in Node : k # n => Untouched(k)
    /\ SendsToPeer(n)
    /\ Advances(n)
    /\ PacketsKept(n)

(* p is the packet q, as the network delivers it. *)
Carried(q, p) == p = q \/ \E mark \in Damages : p \in Damaged(q, mark)

(* The network and the timers. *)
NetworkStep ==
    /\ \A k \in Node : Untouched(k)
    /\ \A k \in Node : \A p \in net'[k] : \E q \in net[k] : Carried(q, p)
    /\ Duplicating /\ MaxLost = 0 => \A k \in Node : net[k] \subseteq net'[k]

StepSummary == NetworkStep \/ \E n \in Node : EngineStep(n)

-----------------------------------------------------------------------------
(* Every step is one of these. *)

USE DEF IInv, TypeOK, CanProcess, Handling, HandlingTimeout, Goto, Send, ReplyAndKeep,
        timerStart1, timerStart2, cancelTimer, sendError, helloVars, packetVars,
        timerVars, outcomeVars, IsInitiator, IsResponder, Resending, States

(* A pointer that holds a packet is neither unset nor freed. *)
LEMMA KeptPackets ==
    \A p \in Packets \cup {Blank} : p \notin {Unset, Freed}
<1>1. /\ \A p \in Packets : p.type \notin {"Unset", "Freed"}
      /\ Unset.type = "Unset" /\ Freed.type = "Freed" /\ Blank.type = "Blank"
  BY DEF Packets, Hellos, Acks, Commits, DHParts, Confirms, Errors, Unset, Freed, Blank
<1> QED
  BY <1>1

LEMMA FreedIsSet ==
    Freed # Unset
<1>1. Freed.type = "Freed" /\ Unset.type = "Unset"
  BY DEF Freed, Unset
<1> QED
  BY <1>1

LEMMA ReceivedKept ==
    ASSUME TypeOK, NEW n \in Node, NEW m \in net[n]
    PROVE  m \notin {Unset, Freed} /\ Parsed(m) \notin {Unset, Freed}
BY KeptPackets DEF NetworkTyped, Parsed

LEMMA MadeHello ==
    ASSUME NEW n, NEW v
    PROVE  HelloPacket(n, v) # Unset
<1>1. HelloPacket(n, v).type = "Hello" /\ Unset.type = "Unset"
  BY DEF HelloPacket, Unset
<1> QED
  BY <1>1

LEMMA MadeError ==
    ASSUME NEW n, NEW code
    PROVE  ErrorPacket(n, code) # Unset
<1>1. ErrorPacket(n, code).type = "Error" /\ Unset.type = "Unset"
  BY DEF ErrorPacket, Unset
<1> QED
  BY <1>1

LEMMA MadeCommit ==
    ASSUME NEW n, NEW k, NEW h
    PROVE  CommitPacket(n, k, h) \notin {Unset, Freed}
<1>1. CommitPacket(n, k, h).type = "Commit" /\ Unset.type = "Unset" /\ Freed.type = "Freed"
  BY DEF CommitPacket, Unset, Freed
<1> QED
  BY <1>1

LEMMA MadeDHPart ==
    ASSUME NEW n, NEW t \in {"DHPart1", "DHPart2"}
    PROVE  DHPartPacket(t, n) \notin {Unset, Freed}
<1>1. DHPartPacket(t, n).type = t /\ Unset.type = "Unset" /\ Freed.type = "Freed"
  BY DEF DHPartPacket, Unset, Freed
<1> QED
  BY <1>1

(* A Confirm carries the secret it was made from ... *)
LEMMA MadeConfirm ==
    ASSUME NEW n, NEW t \in {"Confirm1", "Confirm2"}, NEW role, NEW s0
    PROVE  /\ ConfirmPacket(t, n, role, s0) \notin {Unset, Freed}
           /\ ConfirmPacket(t, n, role, s0).macKey.s0 = s0
<1>1. /\ ConfirmPacket(t, n, role, s0).type = t
      /\ Unset.type = "Unset" /\ Freed.type = "Freed"
  BY DEF ConfirmPacket, Unset, Freed
<1>2. /\ ConfirmPacket(t, n, role, s0).macKey = macKey(s0, role, TRUE)
      /\ macKey(s0, role, TRUE).s0 = s0
  BY DEF ConfirmPacket, macKey, kdf
<1> QED
  BY <1>1, <1>2

(* ... and passes the checks of an endpoint that has the same. *)
LEMMA SecretConfirmed ==
    ASSUME NEW n, NEW m, NEW part, ConfirmCheck(n, m, part) = "none"
    PROVE  m.macKey.s0 = keys[n]
<1>1. m.macKey = macKey(keys[n], myRole[n], FALSE)
  BY DEF ConfirmCheck
<1>2. macKey(keys[n], myRole[n], FALSE).s0 = keys[n]
  BY DEF macKey, kdf
<1> QED
  BY <1>1, <1>2

LEMMA ReplySends ==
    ASSUME IInv, NEW n \in Node, NEW m, NEW packets, Reply(n, m, packets),
           \A p \in packets : SentNow(n, p)
    PROVE  SendsToPeer(n)
<1>1. Peer[n] \in Node /\ Peer[n] # n
  BY PeerAssumption
<1> QED
  BY <1>1 DEF SendsToPeer, Reply, NetworkTyped

LEMMA HelloStep ==
    ASSUME IInv, NEW n \in Node, ProcessHello(n)
    PROVE  EngineStep(n)
<1>1. ASSUME NEW m \in net[n], RejectHello(n, m)
      PROVE  EngineStep(n)
  <2>1. \A k \in Node : k # n => Untouched(k)
    BY <1>1 DEF PacketsTyped, EngineTyped, Untouched, RejectHello
  <2>2. Reply(n, m, {ErrorPacket(n, HelloCheck(n, m))})
    BY <1>1 DEF PacketsTyped, EngineTyped, VersionsSettled, RejectHello
  <2>3. SendsToPeer(n)
    <3>1. SentNow(n, ErrorPacket(n, HelloCheck(n, m)))
      BY <1>1 DEF PacketsTyped, EngineTyped, SentNow, RejectHello
    <3> QED
      BY <2>2, <3>1, ReplySends
  <2>4. StartsFailing(n)
    BY <1>1, Received DEF PacketsTyped, EngineTyped, StartsFailing, SameRole, SameKeys,
                          SameOutcome, SameConfirms, Opening, RejectHello
  <2>5. PacketsKept(n)
    BY <1>1, ReceivedKept, MadeError DEF PacketsTyped, EngineTyped, PacketsKept, RejectHello
  <2> QED
    BY <2>1, <2>3, <2>4, <2>5 DEF EngineStep, Advances
<1>2. ASSUME NEW m \in net[n], AcceptHello(n, m)
      PROVE  EngineStep(n)
  <2>1. \A k \in Node : k # n => Untouched(k)
    BY <1>2 DEF PacketsTyped, EngineTyped, Untouched, AcceptHello, NewHello, ChooseType
  <2>2. Reply(n, m, {HelloAck})
    BY <1>2 DEF PacketsTyped, EngineTyped, VersionsSettled, AcceptHello, NewHello, ChooseType
  <2>3. SendsToPeer(n)
    <3>1. SentNow(n, HelloAck)
      BY <1>2 DEF PacketsTyped, EngineTyped, SentNow, AcceptHello, NewHello, ChooseType
    <3> QED
      BY <2>2, <3>1, ReplySends
  <2>4. GoesOn(n)
    BY <1>2, Received DEF PacketsTyped, EngineTyped, GoesOn, SameRole, SameKeys, SameOutcome,
                          SameConfirms, Opening, AcceptHello, NewHello, ChooseType
  <2>5. PacketsKept(n)
    BY <1>2 DEF PacketsTyped, EngineTyped, PacketsKept, AcceptHello, NewHello, ChooseType
  <2> QED
    BY <2>1, <2>3, <2>4, <2>5 DEF EngineStep, Advances
<1>3. ASSUME NEW m \in net[n], AcceptHelloAsResponder(n, m)
      PROVE  EngineStep(n)
  <2>1. \A k \in Node : k # n => Untouched(k)
    BY <1>3 DEF PacketsTyped, EngineTyped, Untouched, AcceptHelloAsResponder, NewHello,
                ChooseType
  <2>2. Reply(n, m, {HelloAck})
    BY <1>3 DEF PacketsTyped, EngineTyped, VersionsSettled, AcceptHelloAsResponder, NewHello,
                ChooseType
  <2>3. SendsToPeer(n)
    <3>1. SentNow(n, HelloAck)
      BY <1>3 DEF PacketsTyped, EngineTyped, SentNow, AcceptHelloAsResponder, NewHello,
                  ChooseType
    <3> QED
      BY <2>2, <3>1, ReplySends
  <2>4. GoesOn(n)
    BY <1>3, Received DEF PacketsTyped, EngineTyped, GoesOn, SameRole, SameKeys, SameOutcome,
                          SameConfirms, Opening, AcceptHelloAsResponder, NewHello, ChooseType
  <2>5. PacketsKept(n)
    BY <1>3 DEF PacketsTyped, EngineTyped, PacketsKept, AcceptHelloAsResponder, NewHello,
                ChooseType
  <2> QED
    BY <2>1, <2>3, <2>4, <2>5 DEF EngineStep, Advances
<1>4. ASSUME NEW m \in net[n], AcceptHelloAsInitiator(n, m)
      PROVE  EngineStep(n)
  <2>1. \A k \in Node : k # n => Untouched(k)
    BY <1>4 DEF PacketsTyped, EngineTyped, Untouched, AcceptHelloAsInitiator, NewHello,
                ChooseType, createCommitPacket, SendCommit
  <2>2. Reply(n, m, {commit'[n]})
    BY <1>4 DEF PacketsTyped, EngineTyped, VersionsSettled, AcceptHelloAsInitiator, NewHello,
                ChooseType, createCommitPacket, SendCommit
  <2>3. SendsToPeer(n)
    <3>1. SentNow(n, commit'[n])
      BY <1>4 DEF PacketsTyped, EngineTyped, SentNow, AcceptHelloAsInitiator, NewHello,
                  ChooseType, createCommitPacket, SendCommit
    <3> QED
      BY <2>2, <3>1, ReplySends
  <2>4. GoesOn(n)
    BY <1>4, Received DEF PacketsTyped, EngineTyped, GoesOn, SameRole, SameKeys, SameOutcome,
                          SameConfirms, Opening, AcceptHelloAsInitiator, NewHello,
                          ChooseType, createCommitPacket, SendCommit
  <2>5. PacketsKept(n)
    BY <1>4, MadeCommit, MadeDHPart DEF PacketsTyped, EngineTyped, PacketsKept,
                                        AcceptHelloAsInitiator, NewHello, ChooseType,
                                        createCommitPacket, SendCommit
  <2> QED
    BY <2>1, <2>3, <2>4, <2>5 DEF EngineStep, Advances
<1>5. ASSUME NEW m \in net[n], NoCommonType(n, m)
      PROVE  EngineStep(n)
  <2>1. \A k \in Node : k # n => Untouched(k)
    BY <1>5 DEF PacketsTyped, EngineTyped, Untouched, NoCommonType, NewHello
  <2>2. PICK packets : Reply(n, m, packets) /\ \A p \in packets : SentNow(n, p)
    BY <1>5 DEF PacketsTyped, EngineTyped, SentNow, NoCommonType, NewHello
  <2>3. SendsToPeer(n)
    BY <2>2, ReplySends
  <2>4. StartsFailing(n)
    BY <1>5, Received DEF PacketsTyped, EngineTyped, StartsFailing, SameRole, SameKeys,
                          SameOutcome, SameConfirms, Opening, NoCommonType, NewHello
  <2>5. PacketsKept(n)
    BY <1>5, MadeError DEF PacketsTyped, EngineTyped, PacketsKept, NoCommonType, NewHello
  <2> QED
    BY <2>1, <2>3, <2>4, <2>5 DEF EngineStep, Advances
<1>6. ASSUME NEW m \in net[n], NegotiateVersion(n, m)
      PROVE  EngineStep(n)
  <2>1. \A k \in Node : k # n => Untouched(k)
    BY <1>6 DEF PacketsTyped, EngineTyped, Untouched, NegotiateVersion, NewHello,
                compareVersions
  <2>2. Reply(n, m, {hello'[n]})
    BY <1>6 DEF PacketsTyped, EngineTyped, VersionsSettled, NegotiateVersion, NewHello,
                compareVersions
  <2>3. SendsToPeer(n)
    <3>1. SentNow(n, hello'[n])
      BY <1>6 DEF PacketsTyped, EngineTyped, SentNow, NegotiateVersion, NewHello,
                  compareVersions
    <3> QED
      BY <2>2, <3>1, ReplySends
  <2>4. Stays(n)
    BY <1>6, Received DEF PacketsTyped, EngineTyped, Stays, SameRole, SameKeys, SameOutcome,
                          SameConfirms, Opening, NegotiateVersion, NewHello, compareVersions
  <2>5. PacketsKept(n)
    <3>1. hello[n] # Unset
      BY KeptPackets, PacketSets DEF PacketsTyped
    <3>2. hello'[n] # Unset
      BY <1>6, <3>1, MadeHello DEF PacketsTyped, NegotiateVersion, compareVersions
    <3>3. sentMessage'[n] = hello'[n]
      BY <1>6 DEF PacketsTyped, NegotiateVersion
    <3> QED
      BY <1>6, <3>2, <3>3 DEF PacketsKept, NegotiateVersion, NewHello
  <2> QED
    BY <2>1, <2>3, <2>4, <2>5 DEF EngineStep, Advances
<1>7. ASSUME NEW m \in net[n], RefuseVersion(n, m)
      PROVE  EngineStep(n)
  <2>1. \A k \in Node : k # n => Untouched(k)
    BY <1>7 DEF PacketsTyped, EngineTyped, Untouched, RefuseVersion, NewHello,
                compareVersions
  <2>2. Reply(n, m, {ErrorPacket(n, "UnsupportedVersion")})
    BY <1>7 DEF PacketsTyped, EngineTyped, VersionsSettled, RefuseVersion, NewHello,
                compareVersions
  <2>3. SendsToPeer(n)
    <3>1. SentNow(n, ErrorPacket(n, "UnsupportedVersion"))
      BY <1>7 DEF PacketsTyped, EngineTyped, SentNow, RefuseVersion, NewHello,
                  compareVersions
    <3> QED
      BY <2>2, <3>1, ReplySends
  <2>4. StartsFailing(n)
    BY <1>7, Received DEF PacketsTyped, EngineTyped, StartsFailing, SameRole, SameKeys,
                          SameOutcome, SameConfirms, Opening, RefuseVersion, NewHello,
                          compareVersions
  <2>5. PacketsKept(n)
    BY <1>7, ReceivedKept, MadeError DEF PacketsTyped, EngineTyped, PacketsKept,
                                         RefuseVersion, NewHello, compareVersions
  <2> QED
    BY <2>1, <2>3, <2>4, <2>5 DEF EngineStep, Advances
<1>8. ASSUME NEW m \in net[n], VersionsExhausted(n, m)
      PROVE  EngineStep(n)
  <2>1. \A k \in Node : k # n => Untouched(k)
    BY <1>8 DEF PacketsTyped, EngineTyped, Untouched, VersionsExhausted
  <2>2. Reply(n, m, {})
    BY <1>8 DEF PacketsTyped, EngineTyped, VersionsSettled, VersionsExhausted
  <2>3. SendsToPeer(n)
    BY <2>2, ReplySends
  <2>4. Stays(n)
    BY <1>8, Received DEF PacketsTyped, EngineTyped, Stays, SameRole, SameKeys, SameOutcome,
                          SameConfirms, Opening, VersionsExhausted
  <2>5. PacketsKept(n)
    BY <1>8 DEF PacketsTyped, EngineTyped, PacketsKept, VersionsExhausted
  <2> QED
    BY <2>1, <2>3, <2>4, <2>5 DEF EngineStep, Advances
<1>9. ASSUME NEW m \in net[n], RepeatHelloAck(n, m)
      PROVE  EngineStep(n)
  <2>1. \A k \in Node : k # n => Untouched(k)
    BY <1>9 DEF PacketsTyped, EngineTyped, Untouched, RepeatHelloAck, VersionsSettled
  <2>2. Reply(n, m, {HelloAck})
    BY <1>9 DEF PacketsTyped, EngineTyped, RepeatHelloAck, VersionsSettled
  <2>3. SendsToPeer(n)
    <3>1. SentNow(n, HelloAck)
      BY <1>9 DEF PacketsTyped, EngineTyped, SentNow, RepeatHelloAck, VersionsSettled
    <3> QED
      BY <2>2, <3>1, ReplySends
  <2>4. Stays(n)
    BY <1>9, Received DEF PacketsTyped, EngineTyped, Stays, SameRole, SameKeys, SameOutcome,
                          SameConfirms, Opening, RepeatHelloAck, VersionsSettled
  <2>5. PacketsKept(n)
    BY <1>9 DEF PacketsTyped, EngineTyped, PacketsKept, RepeatHelloAck, VersionsSettled
  <2> QED
    BY <2>1, <2>3, <2>4, <2>5 DEF EngineStep, Advances
<1> QED
  BY <1>1, <1>2, <1>3, <1>4, <1>5, <1>6, <1>7, <1>8, <1>9 DEF ProcessHello

LEMMA HelloAckStep ==
    ASSUME IInv, NEW n \in Node, ProcessHelloAck(n)
    PROVE  EngineStep(n)
<1>1. ASSUME NEW m \in net[n], RejectHelloAck(n, m)
      PROVE  EngineStep(n)
  <2>1. \A k \in Node : k # n => Untouched(k)
    BY <1>1 DEF PacketsTyped, EngineTyped, Untouched, RejectHelloAck
  <2>2. Reply(n, m, {ErrorPacket(n, "MalformedPacket")})
    BY <1>1 DEF PacketsTyped, EngineTyped, VersionsSettled, RejectHelloAck
  <2>3. SendsToPeer(n)
    <3>1. SentNow(n, ErrorPacket(n, "MalformedPacket"))
      BY <1>1 DEF PacketsTyped, EngineTyped, SentNow, RejectHelloAck
    <3> QED
      BY <2>2, <3>1, ReplySends
  <2>4. StartsFailing(n)
    BY <1>1, Received DEF PacketsTyped, EngineTyped, StartsFailing, SameRole, SameKeys,
                          SameOutcome, SameConfirms, Opening, RejectHelloAck
  <2>5. PacketsKept(n)
    BY <1>1, ReceivedKept, MadeError DEF PacketsTyped, EngineTyped, PacketsKept,
                                         RejectHelloAck
  <2> QED
    BY <2>1, <2>3, <2>4, <2>5 DEF EngineStep, Advances
<1>2. ASSUME NEW m \in net[n], AwaitHello(n, m)
      PROVE  EngineStep(n)
  <2>1. \A k \in Node : k # n => Untouched(k)
    BY <1>2 DEF PacketsTyped, EngineTyped, Untouched, AwaitHello, GoodHelloAck
  <2>2. Reply(n, m, {})
    BY <1>2 DEF PacketsTyped, EngineTyped, VersionsSettled, AwaitHello, GoodHelloAck
  <2>3. SendsToPeer(n)
    BY <2>2, ReplySends
  <2>4. GoesOn(n)
    BY <1>2, Received DEF PacketsTyped, EngineTyped, GoesOn, SameRole, SameKeys, SameOutcome,
                          SameConfirms, Opening, AwaitHello, GoodHelloAck
  <2>5. PacketsKept(n)
    BY <1>2 DEF PacketsTyped, EngineTyped, PacketsKept, AwaitHello, GoodHelloAck
  <2> QED
    BY <2>1, <2>3, <2>4, <2>5 DEF EngineStep, Advances
<1>3. ASSUME NEW m \in net[n], AwaitCommit(n, m)
      PROVE  EngineStep(n)
  <2>1. \A k \in Node : k # n => Untouched(k)
    BY <1>3 DEF PacketsTyped, EngineTyped, Untouched, AwaitCommit, GoodHelloAck
  <2>2. Reply(n, m, {})
    BY <1>3 DEF PacketsTyped, EngineTyped, VersionsSettled, AwaitCommit, GoodHelloAck
  <2>3. SendsToPeer(n)
    BY <2>2, ReplySends
  <2>4. GoesOn(n)
    BY <1>3, Received DEF PacketsTyped, EngineTyped, GoesOn, SameRole, SameKeys, SameOutcome,
                          SameConfirms, Opening, AwaitCommit, GoodHelloAck
  <2>5. PacketsKept(n)
    BY <1>3 DEF PacketsTyped, EngineTyped, PacketsKept, AwaitCommit, GoodHelloAck
  <2> QED
    BY <2>1, <2>3, <2>4, <2>5 DEF EngineStep, Advances
<1>4. ASSUME NEW m \in net[n], CommitNow(n, m)
      PROVE  EngineStep(n)
  <2>1. \A k \in Node : k # n => Untouched(k)
    BY <1>4 DEF PacketsTyped, EngineTyped, Untouched, CommitNow, GoodHelloAck,
                createCommitPacket, SendCommit
  <2>2. Reply(n, m, {commit'[n]})
    BY <1>4 DEF PacketsTyped, EngineTyped, VersionsSettled, CommitNow, GoodHelloAck,
                createCommitPacket, SendCommit
  <2>3. SendsToPeer(n)
    <3>1. SentNow(n, commit'[n])
      BY <1>4 DEF PacketsTyped, EngineTyped, SentNow, CommitNow, GoodHelloAck,
                  createCommitPacket, SendCommit
    <3> QED
      BY <2>2, <3>1, ReplySends
  <2>4. GoesOn(n)
    BY <1>4, Received DEF PacketsTyped, EngineTyped, GoesOn, SameRole, SameKeys, SameOutcome,
                          SameConfirms, Opening, CommitNow, GoodHelloAck, createCommitPacket,
                          SendCommit
  <2>5. PacketsKept(n)
    BY <1>4, MadeCommit, MadeDHPart DEF PacketsTyped, EngineTyped, PacketsKept, CommitNow,
                                        GoodHelloAck, createCommitPacket, SendCommit
  <2> QED
    BY <2>1, <2>3, <2>4, <2>5 DEF EngineStep, Advances
<1> QED
  BY <1>1, <1>2, <1>3, <1>4 DEF ProcessHelloAck

LEMMA CommitStep ==
    ASSUME IInv, NEW n \in Node, ProcessCommit(n)
    PROVE  EngineStep(n)
<1>1. ASSUME NEW m \in net[n], RejectCommit(n, m)
      PROVE  EngineStep(n)
  <2>1. \A k \in Node : k # n => Untouched(k)
    BY <1>1 DEF PacketsTyped, EngineTyped, Untouched, RejectCommit, CommitToResponder
  <2>2. Reply(n, m, {ErrorPacket(n, CommitCheck(n, m))})
    BY <1>1 DEF PacketsTyped, EngineTyped, VersionsSettled, RejectCommit, CommitToResponder
  <2>3. SendsToPeer(n)
    <3>1. SentNow(n, ErrorPacket(n, CommitCheck(n, m)))
      BY <1>1 DEF PacketsTyped, EngineTyped, SentNow, RejectCommit, CommitToResponder
    <3> QED
      BY <2>2, <3>1, ReplySends
  <2>4. StartsFailing(n)
    BY <1>1, Received DEF PacketsTyped, EngineTyped, StartsFailing, SameRole, SameKeys,
                          SameOutcome, SameConfirms, Opening, RejectCommit, CommitToResponder
  <2>5. PacketsKept(n)
    BY <1>1, ReceivedKept, MadeError DEF PacketsTyped, EngineTyped, PacketsKept,
                                         RejectCommit, CommitToResponder
  <2> QED
    BY <2>1, <2>3, <2>4, <2>5 DEF EngineStep, Advances
<1>2. ASSUME NEW m \in net[n], RejectRivalCommit(n, m)
      PROVE  EngineStep(n)
  <2>1. \A k \in Node : k # n => Untouched(k)
    BY <1>2 DEF PacketsTyped, EngineTyped, Untouched, RejectRivalCommit, CommitToInitiator
  <2>2. Reply(n, m, {ErrorPacket(n, CommitCheck(n, m))})
    BY <1>2 DEF PacketsTyped, EngineTyped, VersionsSettled, RejectRivalCommit,
                CommitToInitiator
  <2>3. SendsToPeer(n)
    <3>1. SentNow(n, ErrorPacket(n, CommitCheck(n, m)))
      BY <1>2 DEF PacketsTyped, EngineTyped, SentNow, RejectRivalCommit, CommitToInitiator
    <3> QED
      BY <2>2, <3>1, ReplySends
  <2>4. StartsFailing(n)
    BY <1>2, Received DEF PacketsTyped, EngineTyped, StartsFailing, SameRole, SameKeys,
                          SameOutcome, SameConfirms, Opening, RejectRivalCommit,
                          CommitToInitiator
  <2>5. PacketsKept(n)
    <3>1. commit'[n] = OwnCommit(n) /\ dhPart2'[n] = OwnDHPart2(n)
      BY <1>2 DEF PacketsTyped, RejectRivalCommit
    <3>2. commit'[n] # Unset
      BY <3>1, <1>2, MadeCommit, KeptPackets, PacketSets
         DEF OwnCommit, RejectRivalCommit, CommitToInitiator, PacketsReady, HasPackets
    <3>3. sentMessage'[n] # Unset
      BY <1>2, MadeError DEF PacketsTyped, RejectRivalCommit
    <3> QED
      BY <1>2, <3>2, <3>3 DEF EngineTyped, PacketsKept, RejectRivalCommit
  <2> QED
    BY <2>1, <2>3, <2>4, <2>5 DEF EngineStep, Advances
<1>3. ASSUME NEW m \in net[n], AcceptCommit(n, m)
      PROVE  EngineStep(n)
  <2>1. \A k \in Node : k # n => Untouched(k)
    BY <1>3 DEF PacketsTyped, EngineTyped, Untouched, AcceptCommit, CommitToResponder,
                AnswerCommit
  <2>2. Reply(n, m, {dhPart1'[n]})
    BY <1>3 DEF PacketsTyped, EngineTyped, VersionsSettled, AcceptCommit, CommitToResponder,
                AnswerCommit
  <2>3. SendsToPeer(n)
    <3>1. SentNow(n, dhPart1'[n])
      BY <1>3 DEF PacketsTyped, EngineTyped, SentNow, AcceptCommit, CommitToResponder,
                  AnswerCommit
    <3> QED
      BY <2>2, <3>1, ReplySends
  <2>4. GoesOn(n)
    BY <1>3, Received DEF PacketsTyped, EngineTyped, GoesOn, SameRole, SameKeys, SameOutcome,
                          SameConfirms, Opening, AcceptCommit, CommitToResponder,
                          AnswerCommit
  <2>5. PacketsKept(n)
    BY <1>3, ReceivedKept, MadeDHPart DEF PacketsTyped, EngineTyped, PacketsKept,
                                          AcceptCommit, CommitToResponder, AnswerCommit
  <2> QED
    BY <2>1, <2>3, <2>4, <2>5 DEF EngineStep, Advances
<1>4. ASSUME NEW m \in net[n], RefuseCommit(n, m)
      PROVE  EngineStep(n)
  <2>1. \A k \in Node : k # n => Untouched(k)
    BY <1>4 DEF PacketsTyped, EngineTyped, Untouched, RefuseCommit, CommitToResponder,
                AnswerCommit
  <2>2. Reply(n, m, {ErrorPacket(n, Compatibility(UserInfo[n], m))})
    BY <1>4 DEF PacketsTyped, EngineTyped, VersionsSettled, RefuseCommit, CommitToResponder,
                AnswerCommit
  <2>3. SendsToPeer(n)
    <3>1. SentNow(n, ErrorPacket(n, Compatibility(UserInfo[n], m)))
      BY <1>4 DEF PacketsTyped, EngineTyped, SentNow, RefuseCommit, CommitToResponder,
                  AnswerCommit
    <3> QED
      BY <2>2, <3>1, ReplySends
  <2>4. StartsFailing(n)
    BY <1>4, Received DEF PacketsTyped, EngineTyped, StartsFailing, SameRole, SameKeys,
                          SameOutcome, SameConfirms, Opening, RefuseCommit,
                          CommitToResponder, AnswerCommit
  <2>5. PacketsKept(n)
    BY <1>4, ReceivedKept, MadeError DEF PacketsTyped, EngineTyped, PacketsKept,
                                         RefuseCommit, CommitToResponder, AnswerCommit
  <2> QED
    BY <2>1, <2>3, <2>4, <2>5 DEF EngineStep, Advances
<1>5. ASSUME NEW m \in net[n], WinContention(n, m)
      PROVE  EngineStep(n)
  <2>1. \A k \in Node : k # n => Untouched(k)
    BY <1>5 DEF PacketsTyped, EngineTyped, Untouched, WinContention, CommitToInitiator,
                createCommitPacket, SendCommit
  <2>2. Reply(n, m, {commit'[n]})
    BY <1>5 DEF PacketsTyped, EngineTyped, VersionsSettled, WinContention, CommitToInitiator,
                createCommitPacket, SendCommit
  <2>3. SendsToPeer(n)
    <3>1. SentNow(n, commit'[n])
      BY <1>5 DEF PacketsTyped, EngineTyped, SentNow, WinContention, CommitToInitiator,
                  createCommitPacket, SendCommit
    <3> QED
      BY <2>2, <3>1, ReplySends
  <2>4. GoesOn(n)
    BY <1>5, Received DEF PacketsTyped, EngineTyped, GoesOn, SameRole, SameKeys, SameOutcome,
                          SameConfirms, Opening, WinContention, CommitToInitiator,
                          createCommitPacket, SendCommit
  <2>5. PacketsKept(n)
    BY <1>5, MadeCommit, MadeDHPart DEF PacketsTyped, EngineTyped, PacketsKept,
                                        WinContention, CommitToInitiator, createCommitPacket,
                                        SendCommit
  <2> QED
    BY <2>1, <2>3, <2>4, <2>5 DEF EngineStep, Advances
<1>6. ASSUME NEW m \in net[n], KeepCommit(n, m)
      PROVE  EngineStep(n)
  <2>1. \A k \in Node : k # n => Untouched(k)
    BY <1>6 DEF PacketsTyped, EngineTyped, Untouched, KeepCommit, CommitToInitiator
  <2>2. Reply(n, m, {})
    BY <1>6 DEF PacketsTyped, EngineTyped, VersionsSettled, KeepCommit, CommitToInitiator
  <2>3. SendsToPeer(n)
    BY <2>2, ReplySends
  <2>4. Stays(n)
    BY <1>6, Received DEF PacketsTyped, EngineTyped, Stays, SameRole, SameKeys, SameOutcome,
                          SameConfirms, Opening, KeepCommit, CommitToInitiator
  <2>5. PacketsKept(n)
    BY <1>6 DEF PacketsTyped, EngineTyped, PacketsKept, KeepCommit, CommitToInitiator
  <2> QED
    BY <2>1, <2>3, <2>4, <2>5 DEF EngineStep, Advances
<1>7. ASSUME NEW m \in net[n], YieldContention(n, m)
      PROVE  EngineStep(n)
  <2>1. \A k \in Node : k # n => Untouched(k)
    BY <1>7 DEF PacketsTyped, EngineTyped, Untouched, YieldContention, CommitToInitiator,
                Yield, AnswerCommit
  <2>2. Reply(n, m, {dhPart1'[n]})
    BY <1>7 DEF PacketsTyped, EngineTyped, VersionsSettled, YieldContention,
                CommitToInitiator, Yield, AnswerCommit
  <2>3. SendsToPeer(n)
    <3>1. SentNow(n, dhPart1'[n])
      BY <1>7 DEF PacketsTyped, EngineTyped, SentNow, YieldContention, CommitToInitiator,
                  Yield, AnswerCommit
    <3> QED
      BY <2>2, <3>1, ReplySends
  <2>4. GoesOn(n)
    BY <1>7, Received DEF PacketsTyped, EngineTyped, GoesOn, SameRole, SameKeys, SameOutcome,
                          SameConfirms, Opening, YieldContention, CommitToInitiator, Yield,
                          AnswerCommit
  <2>5. PacketsKept(n)
    <3>1. dhPart1'[n] = DHPartPacket("DHPart1", n) /\ commit'[n] = m
      BY <1>7 DEF PacketsTyped, YieldContention, Yield, AnswerCommit
    <3>2. dhPart1'[n] # Unset /\ commit'[n] # Unset
      BY <3>1, MadeDHPart, ReceivedKept
    <3>3. sentMessage'[n] # Unset
      BY <1>7, FreedIsSet
         DEF PacketsTyped, YieldContention, Yield, CommitToInitiator
    <3> QED
      BY <1>7, <3>2, <3>3
         DEF EngineTyped, PacketsKept, YieldContention, Yield, AnswerCommit
  <2> QED
    BY <2>1, <2>3, <2>4, <2>5 DEF EngineStep, Advances
<1>8. ASSUME NEW m \in net[n], YieldAndRefuse(n, m)
      PROVE  EngineStep(n)
  <2>1. \A k \in Node : k # n => Untouched(k)
    BY <1>8 DEF PacketsTyped, EngineTyped, Untouched, YieldAndRefuse, CommitToInitiator,
                Yield, AnswerCommit
  <2>2. Reply(n, m, {ErrorPacket(n, Compatibility(UserInfo[n], m))})
    BY <1>8 DEF PacketsTyped, EngineTyped, VersionsSettled, YieldAndRefuse,
                CommitToInitiator, Yield, AnswerCommit
  <2>3. SendsToPeer(n)
    <3>1. SentNow(n, ErrorPacket(n, Compatibility(UserInfo[n], m)))
      BY <1>8 DEF PacketsTyped, EngineTyped, SentNow, YieldAndRefuse, CommitToInitiator,
                  Yield, AnswerCommit
    <3> QED
      BY <2>2, <3>1, ReplySends
  <2>4. StartsFailing(n)
    BY <1>8, Received DEF PacketsTyped, EngineTyped, StartsFailing, SameRole, SameKeys,
                          SameOutcome, SameConfirms, Opening, YieldAndRefuse,
                          CommitToInitiator, Yield, AnswerCommit
  <2>5. PacketsKept(n)
    BY <1>8, ReceivedKept, MadeError DEF PacketsTyped, EngineTyped, PacketsKept,
                                         YieldAndRefuse, CommitToInitiator, Yield,
                                         AnswerCommit
  <2> QED
    BY <2>1, <2>3, <2>4, <2>5 DEF EngineStep, Advances
<1>9. ASSUME NEW m \in net[n], RepeatDHPart1(n, m)
      PROVE  EngineStep(n)
  <2>1. \A k \in Node : k # n => Untouched(k)
    BY <1>9 DEF PacketsTyped, EngineTyped, Untouched, RepeatDHPart1
  <2>2. Reply(n, m, {dhPart1[n]})
    BY <1>9 DEF PacketsTyped, EngineTyped, VersionsSettled, RepeatDHPart1
  <2>3. SendsToPeer(n)
    <3>1. SentNow(n, dhPart1[n])
      BY <1>9 DEF PacketsTyped, EngineTyped, SentNow, RepeatDHPart1
    <3> QED
      BY <2>2, <3>1, ReplySends
  <2>4. Stays(n)
    BY <1>9, Received DEF PacketsTyped, EngineTyped, Stays, SameRole, SameKeys, SameOutcome,
                          SameConfirms, Opening, RepeatDHPart1
  <2>5. PacketsKept(n)
    BY <1>9 DEF PacketsTyped, EngineTyped, PacketsKept, RepeatDHPart1
  <2> QED
    BY <2>1, <2>3, <2>4, <2>5 DEF EngineStep, Advances
<1> QED
  BY <1>1, <1>2, <1>3, <1>4, <1>5, <1>6, <1>7, <1>8, <1>9 DEF ProcessCommit

LEMMA DHPartStep ==
    ASSUME IInv, NEW n \in Node, ProcessDHPart(n)
    PROVE  EngineStep(n)
<1>1. ASSUME NEW m \in net[n], RejectDHPart1(n, m)
      PROVE  EngineStep(n)
  <2>1. \A k \in Node : k # n => Untouched(k)
    BY <1>1 DEF PacketsTyped, EngineTyped, Untouched, RejectDHPart1, ReceiveDHPart1
  <2>2. Reply(n, m, {ErrorPacket(n, DHPart1Check(n, m))})
    BY <1>1 DEF PacketsTyped, EngineTyped, VersionsSettled, RejectDHPart1, ReceiveDHPart1
  <2>3. SendsToPeer(n)
    <3>1. SentNow(n, ErrorPacket(n, DHPart1Check(n, m)))
      BY <1>1 DEF PacketsTyped, EngineTyped, SentNow, RejectDHPart1, ReceiveDHPart1
    <3> QED
      BY <2>2, <3>1, ReplySends
  <2>4. StartsFailing(n)
    BY <1>1, Received DEF PacketsTyped, EngineTyped, StartsFailing, SameRole, SameKeys,
                          SameOutcome, SameConfirms, Opening, RejectDHPart1, ReceiveDHPart1
  <2>5. PacketsKept(n)
    BY <1>1, ReceivedKept, MadeError DEF PacketsTyped, EngineTyped, PacketsKept,
                                         RejectDHPart1, ReceiveDHPart1
  <2> QED
    BY <2>1, <2>3, <2>4, <2>5 DEF EngineStep, Advances
<1>2. ASSUME NEW m \in net[n], AcceptDHPart1(n, m)
      PROVE  EngineStep(n)
  <2>1. \A k \in Node : k # n => Untouched(k)
    BY <1>2 DEF PacketsTyped, EngineTyped, Untouched, AcceptDHPart1, ReceiveDHPart1
  <2>2. Reply(n, m, {dhPart2[n]})
    BY <1>2 DEF PacketsTyped, EngineTyped, VersionsSettled, AcceptDHPart1, ReceiveDHPart1
  <2>3. SendsToPeer(n)
    <3>1. SentNow(n, dhPart2[n])
      BY <1>2 DEF PacketsTyped, EngineTyped, SentNow, AcceptDHPart1, ReceiveDHPart1
    <3> QED
      BY <2>2, <3>1, ReplySends
  <2>4. DerivesAsInitiator(n)
    <3>1. keys'[n] = InitiatorKey(n, m)
      BY <1>2 DEF EngineTyped, AcceptDHPart1, ReceiveDHPart1
    <3>2. n \in keys'[n].dhResult
      BY <3>1 DEF InitiatorKey
    <3>3. m.src = peerHello[n].src
      BY <1>2 DEF AcceptDHPart1, DHPart1Check, SameChain
    <3> QED
      BY <1>2, <3>2, <3>3
         DEF EngineTyped, DerivesAsInitiator, SameRole, SameOutcome, AcceptDHPart1,
             ReceiveDHPart1
  <2>5. PacketsKept(n)
    <3>1. dhPart2[n] \in Packets
      BY <1>2, PacketSets DEF PacketsReady, HasPackets, AcceptDHPart1, ReceiveDHPart1
    <3>2. sentMessage'[n] = dhPart2[n] /\ dhPart1'[n] = Parsed(m)
      BY <1>2 DEF PacketsTyped, AcceptDHPart1, ReceiveDHPart1
    <3> QED
      BY <1>2, <3>1, <3>2, ReceivedKept, KeptPackets
         DEF PacketsKept, AcceptDHPart1, ReceiveDHPart1
  <2> QED
    BY <2>1, <2>3, <2>4, <2>5 DEF EngineStep, Advances
<1>3. ASSUME NEW m \in net[n], RejectDHPart2(n, m)
      PROVE  EngineStep(n)
  <2>1. \A k \in Node : k # n => Untouched(k)
    BY <1>3 DEF PacketsTyped, EngineTyped, Untouched, RejectDHPart2, ReceiveDHPart2
  <2>2. Reply(n, m, {ErrorPacket(n, DHPart2Check(n, m))})
    BY <1>3 DEF PacketsTyped, EngineTyped, VersionsSettled, RejectDHPart2, ReceiveDHPart2
  <2>3. SendsToPeer(n)
    <3>1. SentNow(n, ErrorPacket(n, DHPart2Check(n, m)))
      BY <1>3 DEF PacketsTyped, EngineTyped, SentNow, RejectDHPart2, ReceiveDHPart2
    <3> QED
      BY <2>2, <3>1, ReplySends
  <2>4. StartsFailing(n)
    BY <1>3, Received DEF PacketsTyped, EngineTyped, StartsFailing, SameRole, SameKeys,
                          SameOutcome, SameConfirms, Opening, RejectDHPart2, ReceiveDHPart2
  <2>5. PacketsKept(n)
    BY <1>3, ReceivedKept, MadeError DEF PacketsTyped, EngineTyped, PacketsKept,
                                         RejectDHPart2, ReceiveDHPart2
  <2> QED
    BY <2>1, <2>3, <2>4, <2>5 DEF EngineStep, Advances
<1>4. ASSUME NEW m \in net[n], AcceptDHPart2(n, m)
      PROVE  EngineStep(n)
  <2>1. \A k \in Node : k # n => Untouched(k)
    BY <1>4 DEF PacketsTyped, EngineTyped, Untouched, AcceptDHPart2, ReceiveDHPart2
  <2>2. Reply(n, m, {confirm1'[n]})
    BY <1>4 DEF PacketsTyped, EngineTyped, VersionsSettled, AcceptDHPart2, ReceiveDHPart2
  <2>3. SendsToPeer(n)
    <3>1. SentNow(n, confirm1'[n])
      BY <1>4 DEF PacketsTyped, EngineTyped, SentNow, AcceptDHPart2, ReceiveDHPart2
    <3> QED
      BY <2>2, <3>1, ReplySends
  <2>4. DerivesAsResponder(n)
    <3>1. /\ confirm1'[n] = ConfirmPacket("Confirm1", n, myRole[n], ResponderKey(n, m))
          /\ keys'[n] = ResponderKey(n, m)
      BY <1>4 DEF PacketsTyped, EngineTyped, AcceptDHPart2, ReceiveDHPart2
    <3>2. confirm1'[n].macKey.s0 = keys'[n]
      BY <3>1, MadeConfirm
    <3>3. n \in keys'[n].dhResult
      BY <3>1 DEF ResponderKey
    <3> QED
      BY <1>4, <3>2, <3>3
         DEF EngineTyped, DerivesAsResponder, SameRole, SameOutcome, AcceptDHPart2, ReceiveDHPart2
  <2>5. PacketsKept(n)
    <3>1. confirm1'[n] = ConfirmPacket("Confirm1", n, myRole[n], ResponderKey(n, m))
      BY <1>4 DEF PacketsTyped, AcceptDHPart2, ReceiveDHPart2
    <3>2. confirm1'[n] # Unset
      BY <3>1, MadeConfirm
    <3> QED
      BY <1>4, <3>2, ReceivedKept DEF PacketsTyped, PacketsKept, AcceptDHPart2, ReceiveDHPart2
  <2> QED
    BY <2>1, <2>3, <2>4, <2>5 DEF EngineStep, Advances
<1>5. ASSUME NEW m \in net[n], RejectDHPart2Again(n, m)
      PROVE  EngineStep(n)
  <2>1. \A k \in Node : k # n => Untouched(k)
    BY <1>5 DEF PacketsTyped, EngineTyped, Untouched, RejectDHPart2Again, ReceiveDHPart2
  <2>2. Reply(n, m, {ErrorPacket(n, DHPart2Check(n, m))})
    BY <1>5 DEF PacketsTyped, EngineTyped, VersionsSettled, RejectDHPart2Again,
                ReceiveDHPart2
  <2>3. SendsToPeer(n)
    <3>1. SentNow(n, ErrorPacket(n, DHPart2Check(n, m)))
      BY <1>5 DEF PacketsTyped, EngineTyped, SentNow, RejectDHPart2Again, ReceiveDHPart2
    <3> QED
      BY <2>2, <3>1, ReplySends
  <2>4. StartsFailing(n)
    BY <1>5, Received DEF PacketsTyped, EngineTyped, StartsFailing, SameRole, SameKeys,
                          SameOutcome, SameConfirms, Opening, RejectDHPart2Again,
                          ReceiveDHPart2
  <2>5. PacketsKept(n)
    BY <1>5, ReceivedKept, MadeError DEF PacketsTyped, EngineTyped, PacketsKept,
                                         RejectDHPart2Again, ReceiveDHPart2
  <2> QED
    BY <2>1, <2>3, <2>4, <2>5 DEF EngineStep, Advances
<1>6. ASSUME NEW m \in net[n], RepeatConfirm1(n, m)
      PROVE  EngineStep(n)
  <2>1. \A k \in Node : k # n => Untouched(k)
    BY <1>6 DEF PacketsTyped, EngineTyped, Untouched, RepeatConfirm1, ReceiveDHPart2
  <2>2. Reply(n, m, {confirm1[n]})
    BY <1>6 DEF PacketsTyped, EngineTyped, VersionsSettled, RepeatConfirm1, ReceiveDHPart2
  <2>3. SendsToPeer(n)
    <3>1. SentNow(n, confirm1[n])
      BY <1>6 DEF PacketsTyped, EngineTyped, SentNow, RepeatConfirm1, ReceiveDHPart2
    <3> QED
      BY <2>2, <3>1, ReplySends
  <2>4. Stays(n)
    BY <1>6, Received DEF PacketsTyped, EngineTyped, Stays, SameRole, SameKeys, SameOutcome,
                          SameConfirms, Opening, RepeatConfirm1, ReceiveDHPart2
  <2>5. PacketsKept(n)
    BY <1>6, ReceivedKept DEF PacketsTyped, EngineTyped, PacketsKept, RepeatConfirm1,
                              ReceiveDHPart2
  <2> QED
    BY <2>1, <2>3, <2>4, <2>5 DEF EngineStep, Advances
<1> QED
  BY <1>1, <1>2, <1>3, <1>4, <1>5, <1>6 DEF ProcessDHPart

LEMMA ConfirmStep ==
    ASSUME IInv, NEW n \in Node, ProcessConfirm(n)
    PROVE  EngineStep(n)
<1>1. ASSUME NEW m \in net[n], RejectConfirm1(n, m)
      PROVE  EngineStep(n)
  <2>1. \A k \in Node : k # n => Untouched(k)
    BY <1>1 DEF PacketsTyped, EngineTyped, Untouched, RejectConfirm1, ReceiveConfirm1
  <2>2. Reply(n, m, {ErrorPacket(n, ConfirmCheck(n, m, dhPart1[n]))})
    BY <1>1 DEF PacketsTyped, EngineTyped, VersionsSettled, RejectConfirm1, ReceiveConfirm1
  <2>3. SendsToPeer(n)
    <3>1. SentNow(n, ErrorPacket(n, ConfirmCheck(n, m, dhPart1[n])))
      BY <1>1 DEF PacketsTyped, EngineTyped, SentNow, RejectConfirm1, ReceiveConfirm1
    <3> QED
      BY <2>2, <3>1, ReplySends
  <2>4. StartsFailing(n)
    BY <1>1, Received DEF PacketsTyped, EngineTyped, StartsFailing, SameRole, SameKeys,
                          SameOutcome, SameConfirms, Opening, RejectConfirm1, ReceiveConfirm1
  <2>5. PacketsKept(n)
    BY <1>1, ReceivedKept, MadeError DEF PacketsTyped, EngineTyped, PacketsKept,
                                         RejectConfirm1, ReceiveConfirm1
  <2> QED
    BY <2>1, <2>3, <2>4, <2>5 DEF EngineStep, Advances
<1>2. ASSUME NEW m \in net[n], AcceptConfirm1(n, m)
      PROVE  EngineStep(n)
  <2>1. \A k \in Node : k # n => Untouched(k)
    BY <1>2 DEF PacketsTyped, EngineTyped, Untouched, AcceptConfirm1, ReceiveConfirm1
  <2>2. Reply(n, m, {confirm2'[n]})
    BY <1>2 DEF PacketsTyped, EngineTyped, VersionsSettled, AcceptConfirm1, ReceiveConfirm1
  <2>3. SendsToPeer(n)
    <3>1. SentNow(n, confirm2'[n])
      BY <1>2 DEF PacketsTyped, EngineTyped, SentNow, AcceptConfirm1, ReceiveConfirm1
    <3> QED
      BY <2>2, <3>1, ReplySends
  <2>4. AcceptsConfirm1(n)
    <3>1. /\ confirm2'[n] = ConfirmPacket("Confirm2", n, myRole[n], keys[n])
          /\ confirm1'[n] = Parsed(m) /\ ConfirmCheck(n, m, dhPart1[n]) = "none"
      BY <1>2 DEF PacketsTyped, AcceptConfirm1, ReceiveConfirm1
    <3>2. /\ m.macKey.s0 = keys[n]
          /\ confirm2'[n] # Unset /\ confirm2'[n].macKey.s0 = keys[n]
      BY <3>1, MadeConfirm, SecretConfirmed
    <3> QED
      BY <1>2, <3>1, <3>2, ReceivedKept
         DEF EngineTyped, AcceptsConfirm1, SameRole, SameKeys, SameOutcome, AcceptConfirm1,
             ReceiveConfirm1
  <2>5. PacketsKept(n)
    <3>1. /\ confirm2'[n] = ConfirmPacket("Confirm2", n, myRole[n], keys[n])
          /\ confirm1'[n] = Parsed(m)
      BY <1>2 DEF PacketsTyped, AcceptConfirm1, ReceiveConfirm1
    <3>2. confirm2'[n] # Unset /\ sentMessage'[n] = confirm2'[n]
      BY <1>2, <3>1, MadeConfirm DEF PacketsTyped, AcceptConfirm1, ReceiveConfirm1
    <3> QED
      BY <1>2, <3>1, <3>2, ReceivedKept DEF PacketsKept, AcceptConfirm1, ReceiveConfirm1
  <2> QED
    BY <2>1, <2>3, <2>4, <2>5 DEF EngineStep, Advances
<1>3. ASSUME NEW m \in net[n], RejectConfirm2(n, m)
      PROVE  EngineStep(n)
  <2>1. \A k \in Node : k # n => Untouched(k)
    BY <1>3 DEF PacketsTyped, EngineTyped, Untouched, RejectConfirm2, ReceiveConfirm2
  <2>2. Reply(n, m, {ErrorPacket(n, ConfirmCheck(n, m, dhPart2[n]))})
    BY <1>3 DEF PacketsTyped, EngineTyped, VersionsSettled, RejectConfirm2, ReceiveConfirm2
  <2>3. SendsToPeer(n)
    <3>1. SentNow(n, ErrorPacket(n, ConfirmCheck(n, m, dhPart2[n])))
      BY <1>3 DEF PacketsTyped, EngineTyped, SentNow, RejectConfirm2, ReceiveConfirm2
    <3> QED
      BY <2>2, <3>1, ReplySends
  <2>4. StartsFailing(n)
    BY <1>3, Received DEF PacketsTyped, EngineTyped, StartsFailing, SameRole, SameKeys,
                          SameOutcome, SameConfirms, Opening, RejectConfirm2, ReceiveConfirm2
  <2>5. PacketsKept(n)
    BY <1>3, ReceivedKept, MadeError DEF PacketsTyped, EngineTyped, PacketsKept,
                                         RejectConfirm2, ReceiveConfirm2
  <2> QED
    BY <2>1, <2>3, <2>4, <2>5 DEF EngineStep, Advances
<1>4. ASSUME NEW m \in net[n], AcceptConfirm2(n, m)
      PROVE  EngineStep(n)
  <2>1. \A k \in Node : k # n => Untouched(k)
    BY <1>4 DEF PacketsTyped, EngineTyped, Untouched, AcceptConfirm2, ReceiveConfirm2
  <2>2. Reply(n, m, {Conf2Ack})
    BY <1>4 DEF PacketsTyped, EngineTyped, VersionsSettled, AcceptConfirm2, ReceiveConfirm2
  <2>3. SendsToPeer(n)
    <3>1. SentNow(n, Conf2Ack)
      BY <1>4 DEF PacketsTyped, EngineTyped, SentNow, AcceptConfirm2, ReceiveConfirm2
    <3> QED
      BY <2>2, <3>1, ReplySends
  <2>4. AcceptsConfirm2(n)
    BY <1>4, Received, ReceivedKept, SecretConfirmed DEF PacketsTyped, EngineTyped,
                                                         AcceptsConfirm2, SameRole, SameKeys,
                                                         SameOutcome, SameConfirms, Opening,
                                                         AcceptConfirm2, ReceiveConfirm2
  <2>5. PacketsKept(n)
    BY <1>4, ReceivedKept DEF PacketsTyped, EngineTyped, PacketsKept, AcceptConfirm2,
                              ReceiveConfirm2
  <2> QED
    BY <2>1, <2>3, <2>4, <2>5 DEF EngineStep, Advances
<1>5. ASSUME NEW m \in net[n], RepeatConf2Ack(n, m)
      PROVE  EngineStep(n)
  <2>1. \A k \in Node : k # n => Untouched(k)
    BY <1>5 DEF PacketsTyped, EngineTyped, Untouched, RepeatConf2Ack
  <2>2. Reply(n, m, {Conf2Ack})
    BY <1>5 DEF PacketsTyped, EngineTyped, VersionsSettled, RepeatConf2Ack
  <2>3. SendsToPeer(n)
    <3>1. SentNow(n, Conf2Ack)
      BY <1>5 DEF PacketsTyped, EngineTyped, SentNow, RepeatConf2Ack
    <3> QED
      BY <2>2, <3>1, ReplySends
  <2>4. Stays(n)
    BY <1>5, Received DEF PacketsTyped, EngineTyped, Stays, SameRole, SameKeys, SameOutcome,
                          SameConfirms, Opening, RepeatConf2Ack
  <2>5. PacketsKept(n)
    BY <1>5 DEF PacketsTyped, EngineTyped, PacketsKept, RepeatConf2Ack
  <2> QED
    BY <2>1, <2>3, <2>4, <2>5 DEF EngineStep, Advances
<1>6. ASSUME NEW m \in net[n], AcceptConf2Ack(n, m)
      PROVE  EngineStep(n)
  <2>1. \A k \in Node : k # n => Untouched(k)
    BY <1>6 DEF PacketsTyped, EngineTyped, Untouched, AcceptConf2Ack
  <2>2. Reply(n, m, {})
    BY <1>6 DEF PacketsTyped, EngineTyped, VersionsSettled, AcceptConf2Ack
  <2>3. SendsToPeer(n)
    BY <2>2, ReplySends
  <2>4. AcceptsConf2Ack(n)
    BY <1>6, Received DEF PacketsTyped, EngineTyped, AcceptsConf2Ack, SameRole, SameKeys,
                          SameOutcome, SameConfirms, Opening, AcceptConf2Ack
  <2>5. PacketsKept(n)
    BY <1>6 DEF PacketsTyped, EngineTyped, PacketsKept, AcceptConf2Ack
  <2> QED
    BY <2>1, <2>3, <2>4, <2>5 DEF EngineStep, Advances
<1> QED
  BY <1>1, <1>2, <1>3, <1>4, <1>5, <1>6 DEF ProcessConfirm

LEMMA ErrorStep ==
    ASSUME IInv, NEW n \in Node, ProcessError(n)
    PROVE  EngineStep(n)
<1>1. ASSUME NEW m \in net[n], AcceptError(n, m)
      PROVE  EngineStep(n)
  <2>1. \A k \in Node : k # n => Untouched(k)
    BY <1>1 DEF PacketsTyped, EngineTyped, Untouched, AcceptError, Fail
  <2>2. Reply(n, m, {ErrorAck})
    BY <1>1 DEF PacketsTyped, EngineTyped, VersionsSettled, AcceptError, Fail
  <2>3. SendsToPeer(n)
    <3>1. SentNow(n, ErrorAck)
      BY <1>1 DEF PacketsTyped, EngineTyped, SentNow, AcceptError, Fail
    <3> QED
      BY <2>2, <3>1, ReplySends
  <2>4. Fails(n)
    BY <1>1, Received DEF PacketsTyped, EngineTyped, Fails, SameRole, SameKeys, SameOutcome,
                          SameConfirms, Opening, AcceptError, Fail
  <2>5. PacketsKept(n)
    BY <1>1 DEF PacketsTyped, EngineTyped, PacketsKept, AcceptError, Fail
  <2> QED
    BY <2>1, <2>3, <2>4, <2>5 DEF EngineStep, Advances
<1>2. ASSUME NEW m \in net[n], MalformedError(n, m)
      PROVE  EngineStep(n)
  <2>1. \A k \in Node : k # n => Untouched(k)
    BY <1>2 DEF PacketsTyped, EngineTyped, Untouched, MalformedError
  <2>2. Reply(n, m, {ErrorPacket(n, "MalformedPacket")})
    BY <1>2 DEF PacketsTyped, EngineTyped, VersionsSettled, MalformedError
  <2>3. SendsToPeer(n)
    <3>1. SentNow(n, ErrorPacket(n, "MalformedPacket"))
      BY <1>2 DEF PacketsTyped, EngineTyped, SentNow, MalformedError
    <3> QED
      BY <2>2, <3>1, ReplySends
  <2>4. StartsFailing(n)
    BY <1>2, Received DEF PacketsTyped, EngineTyped, StartsFailing, SameRole, SameKeys,
                          SameOutcome, SameConfirms, Opening, MalformedError
  <2>5. PacketsKept(n)
    BY <1>2, MadeError DEF PacketsTyped, EngineTyped, PacketsKept, MalformedError
  <2> QED
    BY <2>1, <2>3, <2>4, <2>5 DEF EngineStep, Advances
<1>3. ASSUME NEW m \in net[n], AcceptErrorAck(n, m)
      PROVE  EngineStep(n)
  <2>1. \A k \in Node : k # n => Untouched(k)
    BY <1>3 DEF PacketsTyped, EngineTyped, Untouched, AcceptErrorAck, Fail
  <2>2. Reply(n, m, {})
    BY <1>3 DEF PacketsTyped, EngineTyped, VersionsSettled, AcceptErrorAck, Fail
  <2>3. SendsToPeer(n)
    BY <2>2, ReplySends
  <2>4. Fails(n)
    BY <1>3, Received DEF PacketsTyped, EngineTyped, Fails, SameRole, SameKeys, SameOutcome,
                          SameConfirms, Opening, AcceptErrorAck, Fail
  <2>5. PacketsKept(n)
    BY <1>3 DEF PacketsTyped, EngineTyped, PacketsKept, AcceptErrorAck, Fail
  <2> QED
    BY <2>1, <2>3, <2>4, <2>5 DEF EngineStep, Advances
<1> QED
  BY <1>1, <1>2, <1>3 DEF ProcessError

LEMMA StartStep ==
    ASSUME IInv, NEW n \in Node, Start(n)
    PROVE  EngineStep(n)
<1>1. \A k \in Node : k # n => Untouched(k)
  BY DEF PacketsTyped, EngineTyped, Untouched, Start
<1>2. SendsToPeer(n)
  <2>1. SentNow(n, hello[n])
    BY DEF PacketsTyped, EngineTyped, SentNow, Start
  <2> QED
    BY <2>1 DEF NetworkTyped, SendsToPeer, Start
<1>3. Starts(n)
  BY DEF PacketsTyped, EngineTyped, Starts, SameRole, SameKeys, SameOutcome, Start
<1>4. PacketsKept(n)
  <2>1. hello[n] # Unset /\ sentMessage'[n] = hello[n]
    BY KeptPackets, PacketSets DEF PacketsTyped, Start
  <2> QED
    BY <2>1 DEF PacketsKept, Start
<1> QED
  BY <1>1, <1>2, <1>3, <1>4 DEF EngineStep, Advances

LEMMA TimeoutStep ==
    ASSUME IInv, NEW n \in Node, ProcessTimeout(n)
    PROVE  EngineStep(n)
<1>1. \A k \in Node : k # n => Untouched(k)
  BY DEF PacketsTyped, EngineTyped, Untouched, ProcessTimeout, ResendHello, ResendLater,
         IgnoreTimeout, Resend
<1>2. SendsToPeer(n)
  <2>1. CASE ResendHello(n)
    <3>1. sentMessage[n] = hello[n]
      BY <2>1 DEF ResendLive, ResendHello, Resend
    <3>2. SentNow(n, sentMessage[n])
      BY <2>1, <3>1 DEF SentNow, ResendHello, Resend
    <3> QED
      BY <2>1, <3>2 DEF NetworkTyped, SendsToPeer, ResendHello, Resend
  <2>2. CASE ResendLater(n)
    <3>1. SentNow(n, sentMessage[n])
      BY <2>2 DEF ResendLive, SentNow, ResendLater, Resend
    <3> QED
      BY <2>2, <3>1 DEF NetworkTyped, SendsToPeer, ResendLater, Resend
  <2>3. CASE IgnoreTimeout(n)
    BY <2>3 DEF SendsToPeer, IgnoreTimeout
  <2> QED
    BY <2>1, <2>2, <2>3 DEF ProcessTimeout
<1>3. Stays(n) /\ PacketsKept(n)
  BY DEF Stays, SameRole, SameKeys, SameOutcome, SameConfirms, PacketsKept, ProcessTimeout,
         ResendHello, ResendLater, IgnoreTimeout, Resend
<1> QED
  BY <1>1, <1>2, <1>3 DEF EngineStep, Advances

LEMMA IgnoreStep ==
    ASSUME IInv, NEW n \in Node, NEW m \in net[n], IgnoreMessage(n, m)
    PROVE  EngineStep(n)
<1>1. \A k \in Node : k # n => Untouched(k)
  BY DEF PacketsTyped, EngineTyped, Untouched, IgnoreMessage
<1>2. SendsToPeer(n)
  BY ReplySends DEF IgnoreMessage
<1>3. Stays(n) /\ PacketsKept(n)
  BY DEF Stays, SameRole, SameKeys, SameOutcome, SameConfirms, PacketsKept, IgnoreMessage
<1> QED
  BY <1>1, <1>2, <1>3 DEF EngineStep, Advances

LEMMA EnvironmentStep ==
    ASSUME IInv, NEW n \in Node,
           \/ TimerExpires(n)
           \/ \E m \in net[n] : Lose(n, m)
           \/ \E m \in net[n] : \E mark \in Damages : DamageTo(n, m, mark)
           \/ UNCHANGED vars
    PROVE  NetworkStep
<1>1. \A k \in Node : Untouched(k)
  BY DEF Untouched, TimerExpires, Lose, DamageTo, engineVars, vars
<1>2. ASSUME NEW m \in net[n], Lose(n, m) PROVE NetworkStep
  BY <1>1, <1>2 DEF NetworkStep, Carried, NetworkTyped, Lose
<1>3. ASSUME NEW m \in net[n], NEW mark \in Damages, DamageTo(n, m, mark) PROVE NetworkStep
  BY <1>1, <1>3 DEF NetworkStep, Carried, NetworkTyped, DamageTo
<1>4. CASE TimerExpires(n) \/ UNCHANGED vars
  BY <1>1, <1>4 DEF NetworkStep, Carried, TimerExpires, vars
<1> QED
  BY <1>2, <1>3, <1>4

LEMMA NextIsSummary ==
    ASSUME IInv, [Next]_vars
    PROVE  StepSummary
<1>1. CASE UNCHANGED vars
  <2>1. ASSUME NEW n \in Node PROVE NetworkStep
    BY <1>1, EnvironmentStep
  <2>2. CASE Node = {}
    BY <2>2 DEF StepSummary, NetworkStep
  <2> QED
    BY <2>1, <2>2 DEF StepSummary
<1>2. CASE Next
  <2>1. PICK n \in Node :
           \/ Start(n) \/ ProcessTimeout(n) \/ ProcessMessage(n) \/ TimerExpires(n)
           \/ \E m \in net[n] : Lose(n, m)
           \/ \E m \in net[n] : \E mark \in Damages : DamageTo(n, m, mark)
    BY <1>2 DEF Next
  <2>2. CASE ProcessMessage(n)
    <3>1. EngineStep(n)
      BY <2>2, HelloStep, HelloAckStep, CommitStep, DHPartStep, ConfirmStep, ErrorStep,
         IgnoreStep DEF ProcessMessage
    <3> QED
      BY <3>1 DEF StepSummary
  <2> QED
    BY <2>1, <2>2, StartStep, TimeoutStep, EnvironmentStep DEF StepSummary
<1> QED
  BY <1>1, <1>2

-----------------------------------------------------------------------------
(* What arrives.  A packet in flight was there before, was left from an    *)
(* earlier session, or has just been sent by the peer.                     *)

LEMMA Arriving ==
    ASSUME IInv, StepSummary, NEW k \in Node, NEW p \in net'[k]
    PROVE  \/ \E q \in net[k] : Carried(q, p)
           \/ EngineStep(Peer[k]) /\ SentNow(Peer[k], p)
<1>1. \A n \in Node : k = Peer[n] => n = Peer[k]
  BY PeerAssumption
<1> QED
  BY <1>1 DEF StepSummary, NetworkStep, EngineStep, SendsToPeer, Carried

(* The network delivers a packet of the same type and of the same sender ...*)
LEMMA GarbledFields ==
    ASSUME NEW q \in Packets, NEW g \in Garbled(q)
    PROVE  /\ g \in Packets /\ g.type = q.type
           /\ q.type \in {"Hello", "Commit", "DHPart1"} => g.src = q.src
           /\ q.type \in {"Confirm1", "Confirm2"} => g.macKey = q.macKey
<1>1. CASE g = q
  BY <1>1
<1>2. CASE q.type = "Hello" /\ g \in OtherHellos(q)
  <2>1. q \in Hellos
    BY <1>2, ByType
  <2>2. \/ \E v \in OtherVersions : g = [q EXCEPT !.version = v]
        \/ \E types \in OtherTypes : g = [q EXCEPT !.keyAgreementTypes = types]
    BY <1>2, Zenon DEF OtherHellos
  <2>3. g.type = q.type /\ g.src = q.src
    BY <2>1, <2>2 DEF Hellos
  <2> QED
    BY <1>2, <2>3, GarbledPacket
<1>3. CASE q.type = "Commit" /\ g \in OtherCommits(q)
  <2>1. q \in Commits
    BY <1>3, ByType
  <2>2. \/ \E i \in Identity : g = [q EXCEPT !.hvi.dhPart2.src = i]
        \/ \E a \in Algorithm : \/ g = [q EXCEPT !.hash = a]
                                \/ g = [q EXCEPT !.cipher = a]
                                \/ g = [q EXCEPT !.authTag = a]
                                \/ g = [q EXCEPT !.keyAgreement = a]
                                \/ g = [q EXCEPT !.sas = a]
    BY <1>3, FaultAssumption, Zenon DEF OtherCommits
  <2>3. g.type = q.type /\ g.src = q.src
    BY <2>1, <2>2 DEF Commits
  <2> QED
    BY <1>3, <2>3, GarbledPacket
<1> QED
  BY <1>1, <1>2, <1>3 DEF Garbled

LEMMA MarkedFields ==
    ASSUME NEW q \in Packets, NEW mark
    PROVE  LET p == [q EXCEPT !.mark = mark] IN
           /\ p.type = q.type
           /\ q.type \in {"Hello", "Commit", "DHPart1"} => p.src = q.src
           /\ q.type = "Hello"
                => p.version = q.version /\ p.keyAgreementTypes = q.keyAgreementTypes
           /\ q.type = "Commit" => p.keyAgreement = q.keyAgreement /\ p.hvi = q.hvi
           /\ q.type \in {"Confirm1", "Confirm2"} => p.macKey = q.macKey
BY ByType DEF Packets, Hellos, Acks, Commits, DHParts, Confirms, Errors

(* ... and where it damages no body, with the same fields but the mark. *)
BodiesKept == "badBody" \notin Damages

LEMMA CarriedFields ==
    ASSUME NEW q \in Packets, NEW p, Carried(q, p)
    PROVE  /\ p.type = q.type
           /\ q.type \in {"Hello", "Commit", "DHPart1"} => p.src = q.src
           /\ q.type \in {"Confirm1", "Confirm2"} => p.macKey = q.macKey
           /\ BodiesKept =>
                /\ q.type = "Hello"
                     => p.version = q.version /\ p.keyAgreementTypes = q.keyAgreementTypes
                /\ q.type = "Commit" => p.keyAgreement = q.keyAgreement /\ p.hvi = q.hvi
<1>1. CASE p = q
  BY <1>1
<1>2. ASSUME NEW mark \in Damages, p \in Damaged(q, mark), mark # "badBody"
      PROVE  p = [q EXCEPT !.mark = mark]
  BY <1>2 DEF Damaged
<1>3. ASSUME NEW mark \in Damages, p \in Damaged(q, mark), mark = "badBody"
      PROVE  /\ p.type = q.type
             /\ q.type \in {"Hello", "Commit", "DHPart1"} => p.src = q.src
             /\ q.type \in {"Confirm1", "Confirm2"} => p.macKey = q.macKey
  <2>1. PICK g \in Garbled(q) : p = [g EXCEPT !.mark = mark]
    BY <1>3 DEF Damaged
  <2>2. /\ g \in Packets /\ g.type = q.type
        /\ q.type \in {"Hello", "Commit", "DHPart1"} => g.src = q.src
        /\ q.type \in {"Confirm1", "Confirm2"} => g.macKey = q.macKey
    BY GarbledFields
  <2>3. /\ p.type = g.type
        /\ g.type \in {"Hello", "Commit", "DHPart1"} => p.src = g.src
        /\ g.type \in {"Confirm1", "Confirm2"} => p.macKey = g.macKey
    BY <2>1, <2>2, MarkedFields
  <2> QED
    BY <2>2, <2>3
<1>4. ASSUME NEW mark \in Damages, p = [q EXCEPT !.mark = mark]
      PROVE  /\ p.type = q.type
             /\ q.type \in {"Hello", "Commit", "DHPart1"} => p.src = q.src
             /\ q.type = "Hello"
                  => p.version = q.version /\ p.keyAgreementTypes = q.keyAgreementTypes
             /\ q.type = "Commit" => p.keyAgreement = q.keyAgreement /\ p.hvi = q.hvi
             /\ q.type \in {"Confirm1", "Confirm2"} => p.macKey = q.macKey
  BY <1>4, MarkedFields
<1>5. CASE \E mark \in Damages : p \in Damaged(q, mark)
  <2>1. PICK mark \in Damages : p \in Damaged(q, mark)
    BY <1>5
  <2>2. CASE mark = "badBody"
    BY <1>3, <2>1, <2>2 DEF BodiesKept
  <2>3. CASE mark # "badBody"
    BY <1>2, <1>4, <2>1, <2>3
  <2> QED
    BY <2>2, <2>3
<1> QED
  BY <1>1, <1>5 DEF Carried

(* The type of a packet just sent tells the sender's state. *)
LEMMA SentState ==
    ASSUME IInv', NEW n \in Node, NEW p, SentNow(n, p)
    PROVE  /\ p.type = "Hello" => p = hello'[n]
           /\ p.type = "Commit" => actualState'[n] = "SentCommit" /\ p = commit'[n]
           /\ p.type = "DHPart1" => actualState'[n] = "WaitDHPart2"
           /\ p.type = "Confirm1" => actualState'[n] = "WaitConfirm2" /\ p = confirm1'[n]
           /\ p.type = "Confirm2" => actualState'[n] = "WaitConf2Ack" /\ p = confirm2'[n]
           /\ p.type = "Conf2ACK" => actualState'[n] = "Secured"
           /\ p.type = "Error" => actualState'[n] = "WaitErrorAck" /\ p = error'[n]
<1>1. /\ HelloAck.type = "HelloACK" /\ Conf2Ack.type = "Conf2ACK" /\ ErrorAck.type = "ErrorACK"
      /\ hello'[n].type = "Hello"
      /\ commit'[n].type \in {"Commit", "Unset", "Blank"}
      /\ dhPart1'[n].type \in {"DHPart1", "Unset", "Blank"}
      /\ dhPart2'[n].type \in {"DHPart2", "Unset", "Freed", "Blank"}
      /\ confirm1'[n].type \in {"Confirm1", "Unset", "Blank"}
      /\ confirm2'[n].type \in {"Confirm2", "Unset", "Blank"}
      /\ error'[n].type \in {"Error", "Unset", "Freed"}
  BY DEF PacketsTyped, Hellos, Commits, DHParts, Confirms, Errors, HelloAck, Conf2Ack,
         ErrorAck, Unset, Freed, Blank
<1> QED
  BY <1>1 DEF SentNow

LEMMA PeerFacts ==
    ASSUME NEW n \in Node
    PROVE  Peer[n] \in Node /\ Peer[n] # n /\ Peer[Peer[n]] = n
BY PeerAssumption

(* A step leaves alone all but one endpoint. *)
LEMMA OneMoves ==
    ASSUME StepSummary, NEW k \in Node
    PROVE  Untouched(k) \/ EngineStep(k)
BY DEF StepSummary, NetworkStep, EngineStep

-----------------------------------------------------------------------------
(* The packets of a session that agreed. *)

PacketsThere(n) ==
    /\ actualState[n] = "WaitConfirm2" => dhPart1[n] # Unset
    /\ actualState[n] \in {"WaitConfirm1", "WaitConf2Ack", "Secured"}
         => commit[n] # Unset /\ dhPart2[n] \notin {Unset, Freed}
    /\ actualState[n] \in {"WaitConf2Ack", "Secured"}
         => confirm1[n] # Unset /\ confirm2[n] # Unset
    /\ actualState[n] = "Secured" => dhPart1[n] # Unset

DestructorInv == \A n \in Node : PacketsThere(n)

LEMMA DestructorNext == IInv /\ DestructorInv /\ [Next]_vars => DestructorInv'
<1> SUFFICES ASSUME IInv, DestructorInv, [Next]_vars, NEW n \in Node
             PROVE  PacketsThere(n)'
  BY DEF DestructorInv
<1>1. PacketsThere(n) /\ HasPackets(n)
  BY DEF DestructorInv, PacketsReady
<1>2. CASE Untouched(n)
  BY <1>1, <1>2 DEF Untouched, PacketsThere
<1>3. CASE EngineStep(n)
  <2>1. PacketsKept(n) /\ Advances(n)
    BY <1>3 DEF EngineStep
  <2>2. /\ \A p \in Commits \cup DHParts("DHPart1") : p # Unset
        /\ \A p \in DHParts("DHPart2") : p \notin {Unset, Freed}
        /\ \A p \in Confirms("Confirm1") : p # Unset
    BY KeptPackets, PacketSets
  <2>3. CASE Stays(n)
    BY <1>1, <2>1, <2>3 DEF PacketsThere, PacketsKept, Stays
  <2>4. CASE Starts(n) \/ GoesOn(n) \/ StartsFailing(n) \/ Fails(n)
    BY <2>4 DEF PacketsThere, Starts, GoesOn, StartsFailing, Fails, Opening
  <2>5. CASE DerivesAsInitiator(n) \/ DerivesAsResponder(n)
    BY <1>1, <2>1, <2>2, <2>5
       DEF PacketsThere, HasPackets, PacketsKept, DerivesAsInitiator, DerivesAsResponder
  <2>6. CASE AcceptsConfirm1(n)
    BY <1>1, <2>1, <2>6 DEF PacketsThere, PacketsKept, AcceptsConfirm1
  <2>7. CASE AcceptsConfirm2(n)
    BY <1>1, <2>1, <2>2, <2>7 DEF PacketsThere, HasPackets, PacketsKept, AcceptsConfirm2
  <2>8. CASE AcceptsConf2Ack(n)
    BY <1>1, <2>1, <2>2, <2>8 DEF PacketsThere, HasPackets, PacketsKept, AcceptsConf2Ack
  <2> QED
    BY <2>1, <2>3, <2>4, <2>5, <2>6, <2>7, <2>8 DEF Advances
<1> QED
  BY <1>2, <1>3, NextIsSummary, OneMoves

(* The destructor of a session that agreed deletes packets it has: though  *)
(* each role sets them in another order, an Initiator that yielded lost    *)
(* two of them, and handlers parse into them whatever arrives.             *)
THEOREM DestructorIsSafe == Spec => []DestructorSafe
<1>1. Init => DestructorInv
  BY DEF Init, DestructorInv, PacketsThere
<1>2. DestructorInv => DestructorSafe
  BY DEF DestructorInv, PacketsThere, DestructorSafe
<1> QED
  BY <1>1, <1>2, DestructorNext, EngineInvariant, PTL DEF Spec

-----------------------------------------------------------------------------
(* Keys. *)

(* An earlier session's secret was made by Zrtp objects of that session:   *)
(* each has its own ZID, hash chain and key pair.                          *)
EarlierSecrets ==
    \A n \in Node : \A m \in Leftover[n] :
       m.type \in {"Confirm1", "Confirm2"} => m.macKey.s0.dhResult \cap Node = {}

(* A Confirm of this session. *)
ConfirmsHere(m) ==
    m.type \in {"Confirm1", "Confirm2"} /\ m.macKey.s0.dhResult \cap Node # {}

(* The secret is derived once ... *)
DerivedOnce(n) ==
    /\ actualState[n] \in Opening \/ sentMessage[n] = Unset => keys[n] = Unset
    /\ keys[n] # Unset => n \in keys[n].dhResult

(* ... the own Confirm carries it ... *)
ConfirmsOwn(n) ==
    /\ actualState[n] = "WaitConfirm2" => confirm1[n].macKey.s0 = keys[n]
    /\ actualState[n] = "WaitConf2Ack" => confirm2[n].macKey.s0 = keys[n]

(* ... so does one in flight from the peer ... *)
ConfirmsArrive(n) ==
    \A m \in net[n] : ConfirmsHere(m) =>
       keys[Peer[n]] # Unset /\ m.macKey.s0 = keys[Peer[n]]

(* ... and it is the peer's once its Confirm was accepted. *)
ConfirmsPeer(n) ==
    Confirmed(n) => keys[n] # Unset /\ keys[n] = keys[Peer[n]]

SecretInv ==
    \A n \in Node : DerivedOnce(n) /\ ConfirmsOwn(n) /\ ConfirmsArrive(n) /\ ConfirmsPeer(n)

LEMMA KeysAreNotUnset ==
    \A s0 \in Keys : s0 # Unset
<1>1. /\ \A s0 \in Keys : DOMAIN s0 = {"dhResult", "zidI", "zidR", "helloR", "commit",
                                       "dhPart1", "dhPart2"}
      /\ DOMAIN Unset = {"type"}
  BY DEF Keys, Unset
<1> QED
  BY <1>1

(* Who has keys keeps them. *)
LEMMA KeysStay ==
    ASSUME IInv, SecretInv, StepSummary, NEW n \in Node, keys[n] # Unset
    PROVE  keys'[n] = keys[n]
<1>1. actualState[n] \notin Opening
  BY DEF SecretInv, DerivedOnce
<1>2. CASE EngineStep(n)
  BY <1>1, <1>2
     DEF EngineStep, Advances, Stays, Starts, GoesOn, DerivesAsInitiator, DerivesAsResponder,
         AcceptsConfirm1, AcceptsConfirm2, AcceptsConf2Ack, StartsFailing, Fails, SameKeys,
         Opening
<1> QED
  BY <1>2, OneMoves DEF Untouched

(* Only a packet of this session passes the check of a Confirm. *)
LEMMA AcceptedConfirm ==
    ASSUME IInv, SecretInv, NEW n \in Node, keys[n] # Unset,
           NEW m \in net[n], m.type \in {"Confirm1", "Confirm2"}, m.macKey.s0 = keys[n]
    PROVE  keys[n] = keys[Peer[n]]
BY DEF SecretInv, DerivedOnce, ConfirmsArrive, ConfirmsHere

LEMMA SecretNext == IInv /\ SecretInv /\ [Next]_vars => SecretInv'
<1> SUFFICES ASSUME IInv, SecretInv, [Next]_vars, NEW n \in Node
             PROVE  (DerivedOnce(n) /\ ConfirmsOwn(n) /\ ConfirmsArrive(n) /\ ConfirmsPeer(n))'
  BY DEF SecretInv
<1>1. StepSummary /\ IInv'
  BY NextIsSummary, NextKeepsIInv
<1>2. DerivedOnce(n) /\ ConfirmsOwn(n) /\ ConfirmsArrive(n) /\ ConfirmsPeer(n)
  BY DEF SecretInv
<1>3. HasPackets(n) /\ HasPackets(n)' /\ Peer[n] \in Node
  BY <1>1, PeerFacts DEF PacketsReady
<1>4. DerivedOnce(n)'
  <2>1. CASE Untouched(n)
    BY <1>2, <2>1 DEF Untouched, DerivedOnce
  <2>2. CASE EngineStep(n)
    <3>1. sentMessage'[n] # Unset
      BY <2>2 DEF EngineStep, PacketsKept
    <3> QED
      BY <1>2, <2>2, <3>1
         DEF EngineStep, Advances, Stays, Starts, GoesOn, DerivesAsInitiator,
             DerivesAsResponder, AcceptsConfirm1, AcceptsConfirm2, AcceptsConf2Ack,
             StartsFailing, Fails, SameKeys, Opening, DerivedOnce
  <2> QED
    BY <1>1, <2>1, <2>2, OneMoves
<1>5. ConfirmsOwn(n)'
  <2>1. CASE Untouched(n)
    BY <1>2, <2>1 DEF Untouched, ConfirmsOwn
  <2>2. CASE EngineStep(n)
    BY <1>2, <2>2
       DEF EngineStep, Advances, Stays, Starts, GoesOn, DerivesAsInitiator,
           DerivesAsResponder, AcceptsConfirm1, AcceptsConfirm2, AcceptsConf2Ack,
           StartsFailing, Fails, SameKeys, SameConfirms, Opening, ConfirmsOwn
  <2> QED
    BY <1>1, <2>1, <2>2, OneMoves
<1>6. ConfirmsArrive(n)'
  <2> SUFFICES ASSUME NEW p \in net'[n], ConfirmsHere(p)
               PROVE  keys'[Peer[n]] # Unset /\ p.macKey.s0 = keys'[Peer[n]]
    BY DEF ConfirmsArrive, ConfirmsHere
  <2>1. CASE \E q \in net[n] : Carried(q, p)
    <3>1. PICK q \in net[n] : Carried(q, p)
      BY <2>1
    <3>2. q \in Packets
      BY DEF NetworkTyped
    <3>3. p.type = q.type /\ p.macKey = q.macKey
      BY <3>1, <3>2, CarriedFields DEF ConfirmsHere
    <3>4. ConfirmsHere(q)
      BY <3>3 DEF ConfirmsHere
    <3>5. keys[Peer[n]] # Unset /\ q.macKey.s0 = keys[Peer[n]]
      BY <1>2, <3>4 DEF ConfirmsArrive
    <3> QED
      BY <1>1, <1>3, <3>3, <3>5, KeysStay
  <2>2. CASE EngineStep(Peer[n]) /\ SentNow(Peer[n], p)
    <3>1. ConfirmsOwn(Peer[n])'
      <4>1. ConfirmsOwn(Peer[n])
        BY <1>3 DEF SecretInv
      <4> QED
        BY <2>2, <4>1
           DEF EngineStep, Advances, Stays, Starts, GoesOn, DerivesAsInitiator,
               DerivesAsResponder, AcceptsConfirm1, AcceptsConfirm2, AcceptsConf2Ack,
               StartsFailing, Fails, SameKeys, SameConfirms, Opening, ConfirmsOwn
    <3>2. \/ actualState'[Peer[n]] = "WaitConfirm2" /\ p = confirm1'[Peer[n]]
          \/ actualState'[Peer[n]] = "WaitConf2Ack" /\ p = confirm2'[Peer[n]]
      BY <1>1, <1>3, <2>2, SentState DEF ConfirmsHere
    <3>3. p.macKey.s0 = keys'[Peer[n]]
      BY <3>1, <3>2 DEF ConfirmsOwn
    <3>4. keys'[Peer[n]] \in Keys
      BY <1>1, <1>3, <3>2 DEF PacketsReady, HasPackets
    <3> QED
      BY <3>3, <3>4, KeysAreNotUnset
  <2> QED
    BY <1>1, <2>1, <2>2, Arriving
<1>7. ConfirmsPeer(n)'
  <2>1. ASSUME Confirmed(n) PROVE ConfirmsPeer(n)'
    BY <1>1, <1>2, <1>3, <2>1, KeysStay DEF ConfirmsPeer
  <2>2. ASSUME actualState[n] \in {"WaitConfirm1", "WaitConfirm2"}, keys'[n] = keys[n],
               NEW m \in net[n], m.type \in {"Confirm1", "Confirm2"}, m.macKey.s0 = keys[n]
        PROVE  ConfirmsPeer(n)'
    <3>1. keys[n] # Unset
      BY <1>3, <2>2, KeysAreNotUnset DEF HasPackets
    <3>2. keys[n] = keys[Peer[n]]
      BY <2>2, <3>1, AcceptedConfirm
    <3> QED
      BY <1>1, <1>3, <3>1, <3>2, KeysStay DEF ConfirmsPeer
  <2>3. CASE Untouched(n)
    BY <2>1, <2>3 DEF Untouched, ConfirmsPeer, Confirmed
  <2>4. CASE EngineStep(n)
    <3>1. CASE AcceptsConfirm1(n)
      BY <2>2, <3>1 DEF AcceptsConfirm1, SameKeys
    <3>2. CASE AcceptsConfirm2(n)
      BY <2>2, <3>2 DEF AcceptsConfirm2, SameKeys
    <3>3. CASE ~ AcceptsConfirm1(n) /\ ~ AcceptsConfirm2(n)
      BY <2>1, <2>4, <3>3
         DEF EngineStep, Advances, Stays, Starts, GoesOn, DerivesAsInitiator,
             DerivesAsResponder, AcceptsConf2Ack, StartsFailing, Fails, Opening,
             ConfirmsPeer, Confirmed
    <3> QED
      BY <3>1, <3>2, <3>3
  <2> QED
    BY <1>1, <2>3, <2>4, OneMoves
<1> QED
  BY <1>4, <1>5, <1>6, <1>7

LEMMA SecretInit ==
    ASSUME EarlierSecrets, Init
    PROVE  SecretInv
BY DEF Init, EarlierSecrets, SecretInv, DerivedOnce, ConfirmsOwn, ConfirmsArrive,
       ConfirmsPeer, ConfirmsHere, Confirmed, Opening

LEMMA SecretInvariant ==
    ASSUME EarlierSecrets
    PROVE  Spec => []SecretInv
<1>1. Init => SecretInv
  BY SecretInit
<1> QED
  BY <1>1, SecretNext, EngineInvariant, PTL DEF Spec

(* An endpoint that accepted its peer's Confirm has its peer's keys, and   *)
(* keeps them, whatever was resent, came late or was damaged.              *)
THEOREM KeysAgreed ==
    ASSUME EarlierSecrets
    PROVE  Spec => []KeysAgree
<1>1. SecretInv => KeysAgree
  BY DEF SecretInv, ConfirmsPeer, KeysAgree
<1> QED
  BY <1>1, SecretInvariant, PTL

-----------------------------------------------------------------------------
(* Callbacks. *)

(* No Conf2ACK or Error of an earlier session is still on its way: neither *)
(* says which session it belongs to, and both are believed.                *)
NoLateEnd ==
    \A n \in Node : \A m \in Leftover[n] : m.type \notin {"Conf2ACK", "Error"}

(* A user is told of the agreement once, on entering Secured, which only   *)
(* an Error ends, ...                                                      *)
ToldOnce(n) ==
    /\ sentMessage[n] = Unset => actualState[n] = "Initial"
    /\ keyAgreed[n] = IF actualState[n] = "Secured" THEN 1 ELSE 0
    /\ agreementFailed[n] > 0 => Failing(n)

(* ... and an Error comes from a peer that is failing; ... *)
ErrorsArrive(n) ==
    \A m \in net[n] : m.type = "Error" => Failing(Peer[n])

(* ... a peer that has sent its Confirm2 or Conf2ACK goes on, ... *)
EndArrives(n) ==
    \/ Failing(n)
    \/ \A m \in net[n] :
          /\ ConfirmsHere(m) /\ m.type = "Confirm2" => Confirmed(Peer[n])
          /\ m.type = "Conf2ACK" => actualState[Peer[n]] = "Secured"

(* ... so that who is told of the agreement has a peer that was told, or   *)
(* that waits for the Conf2ACK.                                            *)
BothConfirm(n) ==
    actualState[n] = "Secured" =>
       /\ Confirmed(Peer[n])
       /\ IsInitiator(n) => actualState[Peer[n]] = "Secured"

OutcomeInv ==
    \A n \in Node : ToldOnce(n) /\ ErrorsArrive(n) /\ EndArrives(n) /\ BothConfirm(n)

(* Failing is for good. *)
LEMMA FailingStays ==
    ASSUME StepSummary, NEW n \in Node, Failing(n)
    PROVE  Failing(n)'
<1>1. CASE EngineStep(n)
  BY <1>1
     DEF EngineStep, PacketsKept, Advances, Stays, Starts, GoesOn, DerivesAsInitiator,
         DerivesAsResponder, AcceptsConfirm1, AcceptsConfirm2, AcceptsConf2Ack,
         StartsFailing, Fails, Opening, Failing
<1> QED
  BY <1>1, OneMoves DEF Untouched, Failing

(* An endpoint whose peer is not failing leaves Confirmed and Secured alone. *)
LEMMA ConfirmedStays ==
    ASSUME IInv, OutcomeInv, StepSummary, NEW n \in Node, ~ Failing(Peer[n])
    PROVE  /\ Confirmed(n) => Confirmed(n)'
           /\ actualState[n] = "Secured" => actualState'[n] = "Secured"
<1>1. \A m \in net[n] : m.type # "Error"
  BY DEF OutcomeInv, ErrorsArrive
<1>2. CASE EngineStep(n)
  BY <1>1, <1>2
     DEF EngineStep, Advances, Stays, Starts, GoesOn, DerivesAsInitiator,
         DerivesAsResponder, AcceptsConfirm1, AcceptsConfirm2, AcceptsConf2Ack,
         StartsFailing, Fails, Opening, Confirmed, OutcomeInv, ToldOnce, Failing
<1> QED
  BY <1>2, OneMoves DEF Untouched, Confirmed

LEMMA OutcomeNext == IInv /\ SecretInv /\ OutcomeInv /\ [Next]_vars => OutcomeInv'
<1> SUFFICES ASSUME IInv, SecretInv, OutcomeInv, [Next]_vars, NEW n \in Node
             PROVE  (ToldOnce(n) /\ ErrorsArrive(n) /\ EndArrives(n) /\ BothConfirm(n))'
  BY DEF OutcomeInv
<1>1. StepSummary /\ IInv'
  BY NextIsSummary, NextKeepsIInv
<1>2. ToldOnce(n) /\ ErrorsArrive(n) /\ EndArrives(n) /\ BothConfirm(n)
  BY DEF OutcomeInv
<1>3. Peer[n] \in Node /\ Peer[n] # n /\ Peer[Peer[n]] = n
  BY PeerFacts
<1>4. actualState[n] = "Secured" => ~ Failing(n) /\ ~ Failing(Peer[n])
  BY <1>2 DEF BothConfirm, Confirmed, Failing
<1>5. actualState[n] = "Secured" => actualState'[n] = "Secured"
  BY <1>1, <1>4, ConfirmedStays
<1>6. Failing(n) => Failing(n)'
  BY <1>1, FailingStays
<1>7. ~ Failing(n) =>
         /\ Confirmed(Peer[n]) => Confirmed(Peer[n])'
         /\ actualState[Peer[n]] = "Secured" => actualState'[Peer[n]] = "Secured"
  BY <1>1, <1>3, ConfirmedStays
<1>8. EngineStep(n) => sentMessage'[n] # Unset
  BY DEF EngineStep, PacketsKept
<1>9. ToldOnce(n)'
  <2>1. CASE Untouched(n)
    BY <1>2, <2>1 DEF Untouched, ToldOnce, Failing
  <2>2. CASE EngineStep(n)
    <3>1. Advances(n) /\ sentMessage'[n] # Unset
      BY <1>8, <2>2 DEF EngineStep
    <3>2. CASE Stays(n)
      BY <1>2, <3>1, <3>2 DEF ToldOnce, Failing, Stays, SameOutcome
    <3>3. CASE Starts(n) \/ GoesOn(n) \/ DerivesAsInitiator(n) \/ DerivesAsResponder(n)
               \/ AcceptsConfirm1(n)
      BY <1>2, <3>1, <3>3
         DEF ToldOnce, Failing, Starts, GoesOn, DerivesAsInitiator, DerivesAsResponder,
             AcceptsConfirm1, SameOutcome, Opening
    <3>4. CASE AcceptsConfirm2(n) \/ AcceptsConf2Ack(n)
      BY <1>2, <3>1, <3>4 DEF ToldOnce, Failing, AcceptsConfirm2, AcceptsConf2Ack
    <3>5. CASE StartsFailing(n) \/ Fails(n)
      BY <1>2, <1>5, <3>1, <3>5 DEF ToldOnce, Failing, StartsFailing, Fails, SameOutcome
    <3> QED
      BY <3>1, <3>2, <3>3, <3>4, <3>5 DEF Advances
  <2> QED
    BY <1>1, <2>1, <2>2, OneMoves
<1>10. ASSUME NEW p \in net'[n]
       PROVE  /\ p.type = "Error" => Failing(Peer[n])'
              /\ ~ Failing(n) =>
                   /\ ConfirmsHere(p) /\ p.type = "Confirm2" => Confirmed(Peer[n])'
                   /\ p.type = "Conf2ACK" => actualState'[Peer[n]] = "Secured"
  <2>1. CASE \E q \in net[n] : Carried(q, p)
    <3>1. PICK q \in net[n] : Carried(q, p)
      BY <2>1
    <3>2. /\ p.type = q.type
          /\ q.type \in {"Confirm1", "Confirm2"} => p.macKey = q.macKey
      BY <3>1, CarriedFields DEF NetworkTyped
    <3>3. ConfirmsHere(p) => ConfirmsHere(q)
      BY <3>2 DEF ConfirmsHere
    <3>4. Failing(Peer[n]) => Failing(Peer[n])'
      BY <1>1, <1>3, FailingStays
    <3> QED
      BY <1>2, <1>7, <3>2, <3>3, <3>4 DEF ErrorsArrive, EndArrives
  <2>2. CASE EngineStep(Peer[n]) /\ SentNow(Peer[n], p)
    <3>1. sentMessage'[Peer[n]] # Unset
      BY <2>2 DEF EngineStep, PacketsKept
    <3> QED
      BY <1>1, <1>3, <2>2, <3>1, SentState DEF Failing, Confirmed
  <2> QED
    BY <1>1, <2>1, <2>2, Arriving
<1>11. ErrorsArrive(n)' /\ EndArrives(n)'
  BY <1>6, <1>10 DEF ErrorsArrive, EndArrives, ConfirmsHere
<1>12. BothConfirm(n)'
  <2>1. ASSUME Confirmed(Peer[n]), ~ Failing(n), SameRole(n),
               IsInitiator(n) => actualState[Peer[n]] = "Secured"
        PROVE  BothConfirm(n)'
    BY <1>7, <2>1 DEF BothConfirm, Confirmed, SameRole
  <2>2. CASE Untouched(n)
    BY <1>2, <1>4, <2>1, <2>2 DEF Untouched, BothConfirm, SameRole
  <2>3. CASE EngineStep(n)
    <3>1. CASE Stays(n)
      BY <1>2, <1>4, <2>1, <3>1 DEF Stays, BothConfirm
    <3>2. CASE AcceptsConfirm2(n)
      <4>1. PICK m \in net[n] : m.type = "Confirm2" /\ m.macKey.s0 = keys[n]
        BY <3>2 DEF AcceptsConfirm2
      <4>2. IsResponder(n) /\ keys[n] # Unset /\ ~ Failing(n)
        BY <3>2, KeysAreNotUnset DEF AcceptsConfirm2, PacketsReady, HasPackets, Failing
      <4>3. ConfirmsHere(m)
        BY <4>1, <4>2 DEF ConfirmsHere, SecretInv, DerivedOnce
      <4> QED
        BY <1>2, <2>1, <3>2, <4>1, <4>2, <4>3 DEF EndArrives, AcceptsConfirm2
    <3>3. CASE AcceptsConf2Ack(n)
      BY <1>2, <2>1, <3>3 DEF EndArrives, AcceptsConf2Ack, Failing, Confirmed
    <3>4. CASE ~ (Stays(n) \/ AcceptsConfirm2(n) \/ AcceptsConf2Ack(n))
      BY <2>3, <3>4
         DEF EngineStep, Advances, Starts, GoesOn, DerivesAsInitiator, DerivesAsResponder,
             AcceptsConfirm1, StartsFailing, Fails, Opening, BothConfirm
    <3> QED
      BY <3>1, <3>2, <3>3, <3>4
  <2> QED
    BY <1>1, <2>2, <2>3, OneMoves
<1> QED
  BY <1>9, <1>11, <1>12

LEMMA OutcomeInvariant ==
    ASSUME EarlierSecrets, NoLateEnd
    PROVE  Spec => [](SecretInv /\ OutcomeInv)
<1>1. Init => OutcomeInv
  BY PeerFacts DEF Init, EarlierSecrets, NoLateEnd, OutcomeInv, ToldOnce, ErrorsArrive, EndArrives,
                   BothConfirm, Failing, ConfirmsHere
<1>2. Spec => []OutcomeInv
  BY <1>1, OutcomeNext, SecretInvariant, EngineInvariant, PTL DEF Spec
<1> QED
  BY <1>2, SecretInvariant, PTL

(* Neither user is told of an agreement that failed at the peer, and the   *)
(* Initiator's user is told only after the Responder's.                    *)
THEOREM OutcomeIsNotSplit ==
    ASSUME EarlierSecrets, NoLateEnd
    PROVE  Spec => []NoSplitOutcome
<1>1. IInv /\ OutcomeInv => NoSplitOutcome
  <2> SUFFICES ASSUME IInv, OutcomeInv, NEW n \in Node, keyAgreed[n] > 0
               PROVE  /\ keyAgreed[n] = 1
                      /\ agreementFailed[n] = 0 /\ agreementFailed[Peer[n]] = 0
                      /\ actualState[Peer[n]] # "WaitErrorAck"
                      /\ IsInitiator(n) => keyAgreed[Peer[n]] = 1
    BY DEF NoSplitOutcome
  <2>1. /\ Peer[n] \in Node /\ ToldOnce(n) /\ ToldOnce(Peer[n]) /\ BothConfirm(n)
        /\ agreementFailed[n] \in Nat /\ agreementFailed[Peer[n]] \in Nat
    BY PeerFacts DEF OutcomeInv, EngineTyped, ReportCap
  <2>2. actualState[n] = "Secured" /\ keyAgreed[n] = 1
    BY <2>1 DEF ToldOnce
  <2>3. ~ Failing(n) /\ ~ Failing(Peer[n])
    BY <2>1, <2>2 DEF BothConfirm, Confirmed, Failing
  <2> QED
    BY <2>1, <2>2, <2>3 DEF ToldOnce, BothConfirm, Confirmed
<1> QED
  BY <1>1, OutcomeInvariant, EngineInvariant, PTL

(* What ZrtpCallback.h promises of keyAgreed; a Conf2ACK of an earlier     *)
(* session is all that can break it.                                       *)
COROLLARY EndsSuccessfully ==
    ASSUME EarlierSecrets, NoLateEnd
    PROVE  Spec => []EndedSuccessfully
<1>1. NoSplitOutcome => EndedSuccessfully
  BY DEF NoSplitOutcome, EndedSuccessfully
<1> QED
  BY <1>1, OutcomeIsNotSplit, PTL

-----------------------------------------------------------------------------
(* The engines implement KeyAgreement. *)

LEMMA OutcomeValues ==
    /\ outcome \in [Node -> {"agreed", "failed", "running"}]
    /\ outcome' \in [Node -> {"agreed", "failed", "running"}]
    /\ \A n \in Node :
          /\ outcome[n] = "agreed" <=> keyAgreed[n] > 0
          /\ outcome[n] = "failed" <=> ~ (keyAgreed[n] > 0) /\ agreementFailed[n] > 0
          /\ outcome'[n] = "agreed" <=> keyAgreed'[n] > 0
          /\ outcome'[n] = "failed" <=> ~ (keyAgreed'[n] > 0) /\ agreementFailed'[n] > 0
BY DEF outcome

LEMMA SecretValues ==
    /\ secret = [n \in Node |-> secret[n]] /\ secret' = [n \in Node |-> secret'[n]]
    /\ \A n \in Node :
          /\ secret[n] = IF keyAgreed[n] > 0 THEN SrtpMaterial(keys[n]) ELSE Unset
          /\ secret'[n] = IF keyAgreed'[n] > 0 THEN SrtpMaterial(keys'[n]) ELSE Unset
BY DEF secret

LEMMA SecretMaterial ==
    ASSUME NEW s0 \in Keys
    PROVE  SrtpMaterial(s0) \in Materials(Keys)
BY DEF SrtpMaterial, Materials, kdf, DerivedKeys, Label, Role

LEMMA AgreementStutter ==
    ASSUME \A k \in Node : outcome'[k] = outcome[k] /\ secret'[k] = secret[k]
    PROVE  UNCHANGED <<outcome, secret>>
BY OutcomeValues, SecretValues

(* A change at n alone. *)
LEMMA AgreementChange ==
    ASSUME NEW n \in Node,
           \A k \in Node : k # n => outcome'[k] = outcome[k] /\ secret'[k] = secret[k]
    PROVE  /\ outcome' = [outcome EXCEPT ![n] = outcome'[n]]
           /\ secret' = [secret EXCEPT ![n] = secret'[n]]
BY OutcomeValues, SecretValues

LEMMA AgreementNext ==
    IInv /\ SecretInv /\ OutcomeInv /\ [Next]_vars => [Agreement!Next]_<<outcome, secret>>
<1> SUFFICES ASSUME IInv, SecretInv, OutcomeInv, [Next]_vars
             PROVE  [Agreement!Next]_<<outcome, secret>>
  OBVIOUS
<1>1. StepSummary /\ IInv' /\ SecretInv'
  BY NextIsSummary, NextKeepsIInv, SecretNext
<1>2. ASSUME NEW k \in Node, Untouched(k)
      PROVE  outcome'[k] = outcome[k] /\ secret'[k] = secret[k]
  BY <1>2, SecretValues DEF outcome, Untouched
<1>3. CASE NetworkStep
  BY <1>2, <1>3, AgreementStutter DEF NetworkStep
<1>4. ASSUME NEW n \in Node, EngineStep(n)
      PROVE  [Agreement!Next]_<<outcome, secret>>
  <2>1. \A k \in Node : k # n => outcome'[k] = outcome[k] /\ secret'[k] = secret[k]
    BY <1>2, <1>4 DEF EngineStep
  <2>2. /\ outcome' = [outcome EXCEPT ![n] = outcome'[n]]
        /\ secret' = [secret EXCEPT ![n] = secret'[n]]
    BY <2>1, AgreementChange
  <2>3. /\ Peer[n] \in Node /\ Peer[n] # n /\ Peer[Peer[n]] = n
        /\ ToldOnce(n) /\ ToldOnce(Peer[n]) /\ BothConfirm(Peer[n])
        /\ EndArrives(n) /\ ErrorsArrive(n)
        /\ keyAgreed[n] \in Nat /\ keyAgreed[Peer[n]] \in Nat
        /\ agreementFailed[n] \in Nat /\ agreementFailed[Peer[n]] \in Nat
    BY PeerFacts DEF OutcomeInv, EngineTyped, ReportCap
  <2>4. CASE outcome'[n] = outcome[n] /\ secret'[n] = secret[n]
    BY <2>1, <2>4, AgreementStutter
  <2>5. CASE Fails(n)
    <3>1. \/ actualState[n] = "WaitErrorAck"
          \/ Failing(Peer[n])
      BY <2>3, <2>5 DEF Fails, ErrorsArrive
    <3>2. actualState[n] # "Secured" /\ actualState[Peer[n]] # "Secured"
      BY <2>3, <3>1 DEF BothConfirm, Confirmed, Failing, OutcomeInv
    <3>3. ~ (keyAgreed[n] > 0) /\ ~ (keyAgreed[Peer[n]] > 0) /\ ~ (keyAgreed'[n] > 0)
      BY <2>3, <2>5, <3>2 DEF ToldOnce, Fails
    <3>4. secret'[n] = secret[n]
      BY <3>3, SecretValues
    <3>5. secret' = secret
      BY <2>1, <3>4, SecretValues
    <3>6. CASE outcome'[n] # outcome[n]
      <4>1. outcome[n] = "running" /\ outcome'[n] = "failed"
        BY <2>5, <3>3, <3>6, OutcomeValues DEF Fails
      <4>2. outcome[Peer[n]] # "agreed"
        BY <2>3, <3>3, OutcomeValues
      <4> QED
        BY <2>2, <3>5, <4>1, <4>2 DEF Agreement!Next, Agreement!Fail
    <3> QED
      BY <2>4, <3>4, <3>6
  <2>6. CASE AcceptsConfirm2(n) \/ AcceptsConf2Ack(n)
    <3>1. ~ Failing(n) /\ actualState[n] # "Secured"
      BY <2>6 DEF AcceptsConfirm2, AcceptsConf2Ack, Failing
    <3>2. Confirmed(n)' /\ keys'[n] = keys[n]
      BY <2>6 DEF AcceptsConfirm2, AcceptsConf2Ack, Confirmed, SameKeys
    <3>3. keys'[n] = keys'[Peer[n]] /\ keys[n] \in Keys
      BY <1>1, <2>6, <3>2
         DEF SecretInv, ConfirmsPeer, PacketsReady, HasPackets, AcceptsConfirm2, AcceptsConf2Ack
    <3>4. Confirmed(Peer[n])
      <4>1. CASE AcceptsConf2Ack(n)
        BY <2>3, <3>1, <4>1 DEF EndArrives, AcceptsConf2Ack, Confirmed
      <4>2. CASE AcceptsConfirm2(n)
        <5>1. PICK m \in net[n] : m.type = "Confirm2" /\ m.macKey.s0 = keys[n]
          BY <4>2 DEF AcceptsConfirm2
        <5>2. ConfirmsHere(m)
          BY <3>3, <5>1, KeysAreNotUnset DEF ConfirmsHere, SecretInv, DerivedOnce
        <5> QED
          BY <2>3, <3>1, <5>1, <5>2 DEF EndArrives
      <4> QED
        BY <2>6, <4>1, <4>2
    <3>5. outcome[n] = "running" /\ outcome'[n] = "agreed"
      BY <2>3, <2>6, <3>1, OutcomeValues DEF ToldOnce, AcceptsConfirm2, AcceptsConf2Ack
    <3>6. outcome[Peer[n]] # "failed"
      BY <2>3, <3>4, OutcomeValues DEF ToldOnce, Confirmed, Failing
    <3>7. secret'[n] = SrtpMaterial(keys[n]) /\ secret'[n] \in Materials(Keys)
      BY <3>2, <3>3, <3>5, OutcomeValues, SecretValues, SecretMaterial
    <3>8. outcome[Peer[n]] = "agreed" => secret'[n] = secret[Peer[n]]
      <4>1. keys'[Peer[n]] = keys[Peer[n]]
        BY <1>4, <2>3 DEF EngineStep, Untouched
      <4>2. keys[Peer[n]] = keys[n]
        BY <3>2, <3>3, <4>1
      <4>3. outcome[Peer[n]] = "agreed" => secret[Peer[n]] = SrtpMaterial(keys[Peer[n]])
        BY <2>3, OutcomeValues, SecretValues
      <4> QED
        BY <3>7, <4>2, <4>3
    <3>9. Agreement!Agree(n)
      BY <2>2, <3>5, <3>6, <3>7, <3>8 DEF Agreement!Agree
    <3> QED
      BY <3>9 DEF Agreement!Next
  <2>7. CASE ~ Fails(n) /\ ~ AcceptsConfirm2(n) /\ ~ AcceptsConf2Ack(n)
    <3>1. SameOutcome(n) /\ (actualState[n] = "Secured" => keys'[n] = keys[n])
      BY <1>4, <2>7
         DEF EngineStep, Advances, Stays, Starts, GoesOn, DerivesAsInitiator,
             DerivesAsResponder, AcceptsConfirm1, StartsFailing, SameKeys, Opening
    <3>2. keyAgreed[n] > 0 => keys'[n] = keys[n]
      BY <2>3, <3>1 DEF ToldOnce
    <3>3. outcome'[n] = outcome[n]
      BY <3>1 DEF outcome, SameOutcome
    <3>4. secret'[n] = secret[n]
      BY <3>1, <3>2, SecretValues DEF SameOutcome
    <3> QED
      BY <2>4, <3>3, <3>4
  <2> QED
    BY <2>5, <2>6, <2>7
<1> QED
  BY <1>1, <1>3, <1>4 DEF StepSummary

(* Of all the callbacks the two users get, each is a step of KeyAgreement: *)
(* resends, timeouts, contention and damage stay inside the engines.       *)
THEOREM KeyAgreementImplemented ==
    ASSUME EarlierSecrets, NoLateEnd
    PROVE  Spec => ImplementsKeyAgreement
<1>1. Init => Agreement!Init
  BY DEF Init, Agreement!Init, outcome, secret
<1>2. Spec => Agreement!Spec
  BY <1>1, AgreementNext, OutcomeInvariant, EngineInvariant, PTL DEF Spec, Agreement!Spec
<1> QED
  BY <1>2 DEF ImplementsKeyAgreement

-----------------------------------------------------------------------------
(* Timers. *)

LEMMA HelloCovers ==
    ASSUME IInv, TimerCovers, NEW n \in Node, ProcessHello(n)
    PROVE  TimerCovers'
<1>1. ASSUME NEW m \in net[n], RejectHello(n, m) PROVE TimerCovers'
  BY <1>1 DEF EngineTyped, NetworkTyped, TimerCovers, RejectHello
<1>2. ASSUME NEW m \in net[n], AcceptHello(n, m) PROVE TimerCovers'
  BY <1>2 DEF EngineTyped, NetworkTyped, TimerCovers, AcceptHello, NewHello
<1>3. ASSUME NEW m \in net[n], AcceptHelloAsResponder(n, m) PROVE TimerCovers'
  BY <1>3 DEF EngineTyped, NetworkTyped, TimerCovers, AcceptHelloAsResponder, NewHello
<1>4. ASSUME NEW m \in net[n], AcceptHelloAsInitiator(n, m) PROVE TimerCovers'
  BY <1>4 DEF EngineTyped, NetworkTyped, TimerCovers, AcceptHelloAsInitiator, NewHello,
              SendCommit
<1>5. ASSUME NEW m \in net[n], NoCommonType(n, m) PROVE TimerCovers'
  BY <1>5 DEF EngineTyped, NetworkTyped, TimerCovers, NoCommonType, NewHello
<1>6. ASSUME NEW m \in net[n], NegotiateVersion(n, m) PROVE TimerCovers'
  BY <1>6 DEF EngineTyped, NetworkTyped, TimerCovers, NegotiateVersion, NewHello
<1>7. ASSUME NEW m \in net[n], RefuseVersion(n, m) PROVE TimerCovers'
  BY <1>7 DEF EngineTyped, NetworkTyped, TimerCovers, RefuseVersion, NewHello
<1>8. ASSUME NEW m \in net[n], VersionsExhausted(n, m) PROVE TimerCovers'
  BY <1>8 DEF EngineTyped, NetworkTyped, TimerCovers, VersionsExhausted
<1>9. ASSUME NEW m \in net[n], RepeatHelloAck(n, m) PROVE TimerCovers'
  BY <1>9 DEF EngineTyped, NetworkTyped, TimerCovers, RepeatHelloAck, VersionsSettled
<1> QED
  BY <1>1, <1>2, <1>3, <1>4, <1>5, <1>6, <1>7, <1>8, <1>9 DEF ProcessHello

LEMMA HelloAckCovers ==
    ASSUME IInv, TimerCovers, NEW n \in Node, ProcessHelloAck(n)
    PROVE  TimerCovers'
<1>1. ASSUME NEW m \in net[n], RejectHelloAck(n, m) PROVE TimerCovers'
  BY <1>1 DEF EngineTyped, NetworkTyped, TimerCovers, RejectHelloAck
<1>2. ASSUME NEW m \in net[n], AwaitHello(n, m) PROVE TimerCovers'
  BY <1>2 DEF EngineTyped, NetworkTyped, TimerCovers, AwaitHello, GoodHelloAck
<1>3. ASSUME NEW m \in net[n], AwaitCommit(n, m) PROVE TimerCovers'
  BY <1>3 DEF EngineTyped, NetworkTyped, TimerCovers, AwaitCommit, GoodHelloAck
<1>4. ASSUME NEW m \in net[n], CommitNow(n, m) PROVE TimerCovers'
  BY <1>4 DEF EngineTyped, NetworkTyped, TimerCovers, CommitNow, GoodHelloAck, SendCommit
<1> QED
  BY <1>1, <1>2, <1>3, <1>4 DEF ProcessHelloAck

LEMMA CommitCovers ==
    ASSUME IInv, TimerCovers, NEW n \in Node, ProcessCommit(n)
    PROVE  TimerCovers'
<1>1. ASSUME NEW m \in net[n], RejectCommit(n, m) PROVE TimerCovers'
  BY <1>1 DEF EngineTyped, NetworkTyped, TimerCovers, RejectCommit, CommitToResponder
<1>2. ASSUME NEW m \in net[n], RejectRivalCommit(n, m) PROVE TimerCovers'
  BY <1>2 DEF EngineTyped, NetworkTyped, TimerCovers, RejectRivalCommit, CommitToInitiator
<1>3. ASSUME NEW m \in net[n], AcceptCommit(n, m) PROVE TimerCovers'
  BY <1>3 DEF EngineTyped, NetworkTyped, TimerCovers, AcceptCommit, CommitToResponder,
              AnswerCommit
<1>4. ASSUME NEW m \in net[n], RefuseCommit(n, m) PROVE TimerCovers'
  BY <1>4 DEF EngineTyped, NetworkTyped, TimerCovers, RefuseCommit, CommitToResponder,
              AnswerCommit
<1>5. ASSUME NEW m \in net[n], WinContention(n, m) PROVE TimerCovers'
  BY <1>5 DEF EngineTyped, NetworkTyped, TimerCovers, WinContention, CommitToInitiator,
              SendCommit
<1>6. ASSUME NEW m \in net[n], KeepCommit(n, m) PROVE TimerCovers'
  BY <1>6 DEF EngineTyped, NetworkTyped, TimerCovers, KeepCommit, CommitToInitiator
<1>7. ASSUME NEW m \in net[n], YieldContention(n, m) PROVE TimerCovers'
  BY <1>7 DEF EngineTyped, NetworkTyped, TimerCovers, YieldContention, CommitToInitiator,
              Yield, AnswerCommit
<1>8. ASSUME NEW m \in net[n], YieldAndRefuse(n, m) PROVE TimerCovers'
  BY <1>8 DEF EngineTyped, NetworkTyped, TimerCovers, YieldAndRefuse, CommitToInitiator,
              Yield, AnswerCommit
<1>9. ASSUME NEW m \in net[n], RepeatDHPart1(n, m) PROVE TimerCovers'
  BY <1>9 DEF EngineTyped, NetworkTyped, TimerCovers, RepeatDHPart1
<1> QED
  BY <1>1, <1>2, <1>3, <1>4, <1>5, <1>6, <1>7, <1>8, <1>9 DEF ProcessCommit

LEMMA DHPartCovers ==
    ASSUME IInv, TimerCovers, NEW n \in Node, ProcessDHPart(n)
    PROVE  TimerCovers'
<1>1. ASSUME NEW m \in net[n], RejectDHPart1(n, m) PROVE TimerCovers'
  BY <1>1 DEF EngineTyped, NetworkTyped, TimerCovers, RejectDHPart1, ReceiveDHPart1
<1>2. ASSUME NEW m \in net[n], AcceptDHPart1(n, m) PROVE TimerCovers'
  BY <1>2 DEF EngineTyped, NetworkTyped, TimerCovers, AcceptDHPart1, ReceiveDHPart1
<1>3. ASSUME NEW m \in net[n], RejectDHPart2(n, m) PROVE TimerCovers'
  BY <1>3 DEF EngineTyped, NetworkTyped, TimerCovers, RejectDHPart2, ReceiveDHPart2
<1>4. ASSUME NEW m \in net[n], AcceptDHPart2(n, m) PROVE TimerCovers'
  BY <1>4 DEF EngineTyped, NetworkTyped, TimerCovers, AcceptDHPart2, ReceiveDHPart2
<1>5. ASSUME NEW m \in net[n], RejectDHPart2Again(n, m) PROVE TimerCovers'
  BY <1>5 DEF EngineTyped, NetworkTyped, TimerCovers, RejectDHPart2Again, ReceiveDHPart2
<1>6. ASSUME NEW m \in net[n], RepeatConfirm1(n, m) PROVE TimerCovers'
  BY <1>6 DEF EngineTyped, NetworkTyped, TimerCovers, RepeatConfirm1, ReceiveDHPart2
<1> QED
  BY <1>1, <1>2, <1>3, <1>4, <1>5, <1>6 DEF ProcessDHPart

LEMMA ConfirmCovers ==
    ASSUME IInv, TimerCovers, NEW n \in Node, ProcessConfirm(n)
    PROVE  TimerCovers'
<1>1. ASSUME NEW m \in net[n], RejectConfirm1(n, m) PROVE TimerCovers'
  BY <1>1 DEF EngineTyped, NetworkTyped, TimerCovers, RejectConfirm1, ReceiveConfirm1
<1>2. ASSUME NEW m \in net[n], AcceptConfirm1(n, m) PROVE TimerCovers'
  BY <1>2 DEF EngineTyped, NetworkTyped, TimerCovers, AcceptConfirm1, ReceiveConfirm1
<1>3. ASSUME NEW m \in net[n], RejectConfirm2(n, m) PROVE TimerCovers'
  BY <1>3 DEF EngineTyped, NetworkTyped, TimerCovers, RejectConfirm2, ReceiveConfirm2
<1>4. ASSUME NEW m \in net[n], AcceptConfirm2(n, m) PROVE TimerCovers'
  BY <1>4 DEF EngineTyped, NetworkTyped, TimerCovers, AcceptConfirm2, ReceiveConfirm2
<1>5. ASSUME NEW m \in net[n], RepeatConf2Ack(n, m) PROVE TimerCovers'
  BY <1>5 DEF EngineTyped, NetworkTyped, TimerCovers, RepeatConf2Ack
<1>6. ASSUME NEW m \in net[n], AcceptConf2Ack(n, m) PROVE TimerCovers'
  BY <1>6 DEF EngineTyped, NetworkTyped, TimerCovers, AcceptConf2Ack
<1> QED
  BY <1>1, <1>2, <1>3, <1>4, <1>5, <1>6 DEF ProcessConfirm

LEMMA ErrorCovers ==
    ASSUME IInv, TimerCovers, NEW n \in Node, ProcessError(n)
    PROVE  TimerCovers'
<1>1. ASSUME NEW m \in net[n], AcceptError(n, m) PROVE TimerCovers'
  BY <1>1 DEF EngineTyped, NetworkTyped, TimerCovers, AcceptError, Fail
<1>2. ASSUME NEW m \in net[n], MalformedError(n, m) PROVE TimerCovers'
  BY <1>2 DEF EngineTyped, NetworkTyped, TimerCovers, MalformedError
<1>3. ASSUME NEW m \in net[n], AcceptErrorAck(n, m) PROVE TimerCovers'
  BY <1>3 DEF EngineTyped, NetworkTyped, TimerCovers, AcceptErrorAck, Fail
<1> QED
  BY <1>1, <1>2, <1>3 DEF ProcessError

LEMMA TimerCoversNext == IInv /\ TimerCovers /\ [Next]_vars => TimerCovers'
<1> SUFFICES ASSUME IInv, TimerCovers, [Next]_vars PROVE TimerCovers'
  OBVIOUS
<1>1. CASE UNCHANGED vars
  BY <1>1 DEF TimerCovers, vars
<1>2. ASSUME NEW n \in Node, Start(n) PROVE TimerCovers'
  BY <1>2 DEF EngineTyped, TimerCovers, Start
<1>3. ASSUME NEW n \in Node, ResendHello(n) PROVE TimerCovers'
  <2>1. T1'[n] = T1[n] + 1 /\ T1[n] \in Nat /\ MaxResend1 \in Nat
    BY <1>3, ResendAssumption DEF EngineTyped, ResendHello
  <2>2. T1[n] < MaxResend1 => timer'[n]
    BY <1>3, Zenon DEF EngineTyped, ResendHello
  <2>3. timer'[n] \/ T1'[n] > MaxResend1
    BY <2>1, <2>2
  <2>4. \A k \in Node : k # n =>
           timer'[k] = timer[k] /\ expired'[k] = expired[k] /\ T1'[k] = T1[k]
    BY <1>3 DEF EngineTyped, NetworkTyped, ResendHello, Resend
  <2> QED
    BY <1>3, <2>3, <2>4 DEF EngineTyped, TimerCovers, ResendHello, Resend
<1>4. ASSUME NEW n \in Node, ResendLater(n) PROVE TimerCovers'
  <2>1. T2'[n] = T2[n] + 1 /\ T2[n] \in Nat /\ MaxResend2 \in Nat
    BY <1>4, ResendAssumption DEF EngineTyped, ResendLater
  <2>2. T2[n] < MaxResend2 => timer'[n]
    BY <1>4, Zenon DEF EngineTyped, ResendLater
  <2>3. timer'[n] \/ T2'[n] > MaxResend2
    BY <2>1, <2>2
  <2>4. \A k \in Node : k # n =>
           timer'[k] = timer[k] /\ expired'[k] = expired[k] /\ T2'[k] = T2[k]
    BY <1>4 DEF EngineTyped, NetworkTyped, ResendLater, Resend
  <2> QED
    BY <1>4, <2>3, <2>4 DEF EngineTyped, TimerCovers, ResendLater, Resend
<1>5. ASSUME NEW n \in Node, IgnoreTimeout(n) PROVE TimerCovers'
  BY <1>5 DEF EngineTyped, NetworkTyped, TimerCovers, IgnoreTimeout
<1>6. ASSUME NEW n \in Node, ProcessMessage(n) PROVE TimerCovers'
  <2>1. ASSUME NEW m \in net[n], IgnoreMessage(n, m) PROVE TimerCovers'
    BY <2>1 DEF EngineTyped, TimerCovers, IgnoreMessage
  <2> QED
    BY <1>6, <2>1, HelloCovers, HelloAckCovers, CommitCovers, DHPartCovers, ConfirmCovers,
       ErrorCovers DEF ProcessMessage
<1>7. ASSUME NEW n \in Node, TimerExpires(n) PROVE TimerCovers'
  BY <1>7 DEF EngineTyped, NetworkTyped, TimerCovers, TimerExpires, engineVars
<1>8. ASSUME NEW n \in Node, NEW m \in net[n],
             Lose(n, m) \/ \E mark \in Damages : DamageTo(n, m, mark)
      PROVE  TimerCovers'
  BY <1>8 DEF TimerCovers, Lose, DamageTo, engineVars
<1> QED
  BY <1>1, <1>2, <1>3, <1>4, <1>5, <1>6, <1>7, <1>8 DEF Next, ProcessTimeout

(* Whoever waits for an answer asks again: no order of packets, timeouts   *)
(* and the calls of the two timers, which share one timer of the user,     *)
(* leaves a resending state without a timer before the resends are used up.*)
THEOREM TimersCover == Spec => []TimerCovers
<1>1. Init => TimerCovers
  BY DEF Init, TimerCovers
<1> QED
  BY <1>1, TimerCoversNext, EngineInvariant, PTL DEF Spec

=============================================================================
