---------------------------- MODULE ZrtpSession ----------------------------
(***************************************************************************)
(* Endpoints running StateEngine over UDP, with the timers and threads of  *)
(* the application around them (User_ZRTP): a received datagram and an     *)
(* expired timer each become a thread that calls processMessage or         *)
(* processTimeout later, in any order.  Datagrams are lost, damaged,       *)
(* delayed, reordered and, if Duplicating, delivered again; a timeout that *)
(* has been raised cannot be called back.                                  *)
(***************************************************************************)
EXTENDS StateEngine

CONSTANTS
    Damages,    \* the marks the network may put on a datagram
    OtherVersions, OtherTypes, OtherAlgorithms,
                \* what a damaged field may read
    MaxDamaged, \* bound: datagrams damaged in a behaviour
    MaxLost,    \* bound: datagrams lost in a behaviour
    MaxExpired, \* bound: timeouts waiting to be processed, per endpoint
    Patient     \* do timers outlast the round trip of the network?

ASSUME FaultAssumption ==
    /\ Damages \subseteq Mark
    /\ OtherVersions \subseteq Version
    /\ OtherTypes \subseteq Seq(Algorithm)
    /\ OtherAlgorithms \subseteq Algorithm
    /\ MaxDamaged \in Nat /\ MaxLost \in Nat /\ MaxExpired \in Nat
    /\ Patient \in BOOLEAN

engineVars == <<actualState, myRole, helloVars, packetVars, error, keys, sentMessage,
                T1, T2, locked, outcomeVars>>

-----------------------------------------------------------------------------
(* The user's timer goes off: single shot, and a thread for the timeout. *)
TimerExpires(n) ==
    /\ timer[n]
    /\ expired[n] < MaxExpired
    /\ Patient => /\ net[n] = {} /\ net[Peer[n]] = {}
                  /\ expired[n] = 0 /\ expired[Peer[n]] = 0
    /\ timer' = [timer EXCEPT ![n] = FALSE]
    /\ expired' = [expired EXCEPT ![n] = @ + 1]
    /\ UNCHANGED <<engineVars, net, faults>>

Lose(n, m) ==
    /\ faults.lost < MaxLost
    /\ faults' = [faults EXCEPT !.lost = @ + 1]
    /\ net' = [net EXCEPT ![n] = @ \ {m}]
    /\ UNCHANGED <<engineVars, timer, expired>>

(* Which marks make sense for a packet: acknowledgements have no fields    *)
(* but the header, an Error has no hash image, only a DHPart has a pv.     *)
CanBear(m, mark) ==
    \/ mark \in {"badIdentifier", "badLength"}
    \/ mark = "badBody" /\ m.type \in {"Hello", "Commit", "DHPart1", "DHPart2",
                                        "Confirm1", "Confirm2"}
    \/ mark = "badImage" /\ m.type \in {"Hello", "Commit", "DHPart1", "DHPart2",
                                         "Confirm1", "Confirm2"}
    \/ mark = "badPv" /\ m.type \in {"DHPart1", "DHPart2"}

(* Fields the receiver acts on before it checks the MAC over them: for a   *)
(* Hello its version and types, for a Commit its algorithms and its hvi,   *)
(* which becomes that of an identity that does not run here.               *)
OtherHellos(m) ==
    {[m EXCEPT !.version = v] : v \in OtherVersions}
      \cup {[m EXCEPT !.keyAgreementTypes = types] : types \in OtherTypes}

OtherCommits(m) ==
    {[m EXCEPT !.hvi.dhPart2.src = i] : i \in Identity \ Node}
      \cup UNION {{[m EXCEPT !.hash = a], [m EXCEPT !.cipher = a], [m EXCEPT !.authTag = a],
                   [m EXCEPT !.keyAgreement = a], [m EXCEPT !.sas = a]} : a \in OtherAlgorithms}

(* "badBody" stands for another value in any field: in one of those, or in *)
(* one that only the MAC or the digest over it tells.                      *)
Garbled(m) ==
    {m} \cup (IF m.type = "Hello" THEN OtherHellos(m)
              ELSE IF m.type = "Commit" THEN OtherCommits(m) ELSE {})

(* The packets the receiver may get for m. *)
Damaged(m, mark) ==
    {[p EXCEPT !.mark = mark] : p \in IF mark = "badBody" THEN Garbled(m) ELSE {m}}

DamageTo(n, m, mark) ==
    /\ m.mark = "intact"
    /\ CanBear(m, mark)
    /\ faults.damaged < MaxDamaged
    /\ faults' = [faults EXCEPT !.damaged = @ + 1]
    /\ \E p \in Damaged(m, mark) :
          net' = [net EXCEPT ![n] = (IF Duplicating THEN @ ELSE @ \ {m}) \cup {p}]
    /\ UNCHANGED <<engineVars, timer, expired>>

-----------------------------------------------------------------------------
ProcessHello(n) ==
    \/ \E m \in net[n] : RejectHello(n, m)
    \/ \E m \in net[n] : AcceptHello(n, m)
    \/ \E m \in net[n] : AcceptHelloAsResponder(n, m)
    \/ \E m \in net[n] : AcceptHelloAsInitiator(n, m)
    \/ \E m \in net[n] : NoCommonType(n, m)
    \/ \E m \in net[n] : NegotiateVersion(n, m)
    \/ \E m \in net[n] : RefuseVersion(n, m)
    \/ \E m \in net[n] : VersionsExhausted(n, m)
    \/ \E m \in net[n] : RepeatHelloAck(n, m)

ProcessHelloAck(n) ==
    \/ \E m \in net[n] : RejectHelloAck(n, m)
    \/ \E m \in net[n] : AwaitHello(n, m)
    \/ \E m \in net[n] : AwaitCommit(n, m)
    \/ \E m \in net[n] : CommitNow(n, m)

ProcessCommit(n) ==
    \/ \E m \in net[n] : RejectCommit(n, m)
    \/ \E m \in net[n] : RejectRivalCommit(n, m)
    \/ \E m \in net[n] : AcceptCommit(n, m)
    \/ \E m \in net[n] : RefuseCommit(n, m)
    \/ \E m \in net[n] : WinContention(n, m)
    \/ \E m \in net[n] : KeepCommit(n, m)
    \/ \E m \in net[n] : YieldContention(n, m)
    \/ \E m \in net[n] : YieldAndRefuse(n, m)
    \/ \E m \in net[n] : RepeatDHPart1(n, m)

ProcessDHPart(n) ==
    \/ \E m \in net[n] : RejectDHPart1(n, m)
    \/ \E m \in net[n] : AcceptDHPart1(n, m)
    \/ \E m \in net[n] : RejectDHPart2(n, m)
    \/ \E m \in net[n] : AcceptDHPart2(n, m)
    \/ \E m \in net[n] : RejectDHPart2Again(n, m)
    \/ \E m \in net[n] : RepeatConfirm1(n, m)

ProcessConfirm(n) ==
    \/ \E m \in net[n] : RejectConfirm1(n, m)
    \/ \E m \in net[n] : AcceptConfirm1(n, m)
    \/ \E m \in net[n] : RejectConfirm2(n, m)
    \/ \E m \in net[n] : AcceptConfirm2(n, m)
    \/ \E m \in net[n] : RepeatConf2Ack(n, m)
    \/ \E m \in net[n] : AcceptConf2Ack(n, m)

ProcessError(n) ==
    \/ \E m \in net[n] : AcceptError(n, m)
    \/ \E m \in net[n] : MalformedError(n, m)
    \/ \E m \in net[n] : AcceptErrorAck(n, m)

ProcessMessage(n) ==
    \/ ProcessHello(n)
    \/ ProcessHelloAck(n)
    \/ ProcessCommit(n)
    \/ ProcessDHPart(n)
    \/ ProcessConfirm(n)
    \/ ProcessError(n)
    \/ \E m \in net[n] : IgnoreMessage(n, m)

ProcessTimeout(n) ==
    \/ ResendHello(n)
    \/ ResendLater(n)
    \/ IgnoreTimeout(n)

Next ==
    \E n \in Node :
       \/ Start(n)
       \/ ProcessTimeout(n)
       \/ ProcessMessage(n)
       \/ TimerExpires(n)
       \/ \E m \in net[n] : Lose(n, m)
       \/ \E m \in net[n] : \E mark \in Damages : DamageTo(n, m, mark)

Spec == Init /\ [][Next]_vars

(* Threads are scheduled, a running timer goes off, and what has not been  *)
(* lost is processed in the end.  Nothing is said of loss and damage.      *)
Fairness ==
    \A n \in Node :
       /\ WF_vars(Start(n))
       /\ WF_vars(ProcessMessage(n))
       /\ WF_vars(ProcessTimeout(n))
       /\ WF_vars(TimerExpires(n))

FairSpec == Spec /\ Fairness

-----------------------------------------------------------------------------
(* Properties. *)

(* Every variable holds what its declaration in the code allows: the       *)
(* packets kept, of the right type or pointers to none; the engine's state *)
(* and counters; the datagrams and timeouts around it.                     *)
PacketsTyped ==
    /\ hello \in [Node -> Hellos]
    /\ peerHello \in [Node -> Hellos \cup {Null, Blank}]
    /\ commit \in [Node -> Commits \cup {Unset, Blank}]
    /\ dhPart1 \in [Node -> DHParts("DHPart1") \cup {Unset, Blank}]
    /\ dhPart2 \in [Node -> DHParts("DHPart2") \cup {Unset, Freed, Blank}]
    /\ confirm1 \in [Node -> Confirms("Confirm1") \cup {Unset, Blank}]
    /\ confirm2 \in [Node -> Confirms("Confirm2") \cup {Unset, Blank}]
    /\ error \in [Node -> Errors \cup {Unset, Freed}]
    /\ sentMessage \in [Node -> Packets \cup {Unset, Freed}]

EngineTyped ==
    /\ actualState \in [Node -> States]
    /\ myRole \in [Node -> {"Initiator", "Responder"}]
    /\ versions \in [Node -> SUBSET Nat]
    /\ \A n \in Node : versions[n] \subseteq DOMAIN Info1(n)
    /\ keyAgreement \in [Node -> Algorithm \cup {"none"}]
    /\ keys \in [Node -> Keys \cup {Unset}]
    /\ T1 \in [Node -> Nat] /\ T2 \in [Node -> Nat]
    /\ timer \in [Node -> BOOLEAN] /\ locked \in [Node -> BOOLEAN]
    /\ keyAgreed \in [Node -> Nat] /\ agreementFailed \in [Node -> 0 .. ReportCap]

NetworkTyped ==
    /\ net \in [Node -> SUBSET Packets]
    /\ expired \in [Node -> Nat]
    /\ faults \in [lost : Nat, damaged : Nat]

TypeOK == PacketsTyped /\ EngineTyped /\ NetworkTyped

(* The states in which a timeout sends a packet again. *)
Resending == {"SentHello", "SentHelloAck", "SentCommit", "WaitConfirm1",
              "WaitConf2Ack", "WaitErrorAck"}

(* sentMessage points into a packet object that handlers delete (the Hello *)
(* in compareVersions, the Commit in contention): in every state that      *)
(* resends, it is a packet, and the one that state waits to have answered. *)
ResendLive ==
    \A n \in Node : sentMessage[n] # Unset =>
       /\ actualState[n] \in Resending => sentMessage[n] \in Packets
       /\ actualState[n] \in {"SentHello", "SentHelloAck"} => sentMessage[n] = hello[n]
       /\ actualState[n] = "SentCommit" => sentMessage[n] = commit[n]
       /\ actualState[n] = "WaitConfirm1" => sentMessage[n] = dhPart2[n]
       /\ actualState[n] = "WaitConf2Ack" => sentMessage[n] = confirm2[n]
       /\ actualState[n] = "WaitErrorAck" => sentMessage[n] = error[n]

IsInitiator(n) == myRole[n] = "Initiator"
IsResponder(n) == myRole[n] = "Responder"

(* What endpoint n has got in the state it is in, for the handlers of that  *)
(* state to read: the constructor sets none but the own Hello, contention   *)
(* deletes two packets, and which of them generateHvi, isValidPeerPv and    *)
(* createTotalHash read depends on the role.                                *)
HasPackets(n) ==
    /\ actualState[n] \in {"SentHelloAck", "WaitCommit", "SentCommit", "WaitDHPart2",
                           "WaitConfirm1", "WaitConfirm2", "WaitConf2Ack", "Secured"}
         => peerHello[n] \in Hellos
    /\ actualState[n] = "SentHelloAck" => keyAgreement[n] # "none"
    /\ actualState[n] = "WaitCommit" => IsResponder(n)
    /\ actualState[n] = "SentCommit"
         => /\ IsInitiator(n)
            /\ commit[n] \in Commits /\ dhPart2[n] \in DHParts("DHPart2")
    /\ actualState[n] = "WaitDHPart2"
         => /\ IsResponder(n)
            /\ commit[n] \in Commits /\ dhPart1[n] \in DHParts("DHPart1")
    /\ actualState[n] \in {"WaitConfirm1", "WaitConf2Ack"}
         => /\ IsInitiator(n)
            /\ dhPart1[n] \in DHParts("DHPart1") /\ keys[n] \in Keys
    /\ actualState[n] = "WaitConfirm2"
         => /\ IsResponder(n)
            /\ commit[n] \in Commits /\ dhPart2[n] \in DHParts("DHPart2")
            /\ confirm1[n] \in Confirms("Confirm1") /\ keys[n] \in Keys

(* No handler uses a packet the session has not got. *)
PacketsReady == \A n \in Node : HasPackets(n)

(* The destructor deletes five packets the constructor has not set, and    *)
(* contention has freed one of them at the endpoint that yields: in a      *)
(* session that agreed, which the demo deletes for the next one, they are  *)
(* all there, whatever the role.                                           *)
DestructorSafe ==
    \A n \in Node : actualState[n] = "Secured" =>
       /\ commit[n] # Unset
       /\ dhPart1[n] # Unset
       /\ dhPart2[n] \notin {Unset, Freed}
       /\ confirm1[n] # Unset
       /\ confirm2[n] # Unset

(* SentHelloAck and WaitCommit answer every Hello with a HelloACK and do   *)
(* not look at it, "to prevent parsing older Hello with greater version":  *)
(* they are entered, and stay, with the peer's version being mine.         *)
VersionsSettled ==
    \A n \in Node : actualState[n] \in {"SentHelloAck", "WaitCommit"} =>
       /\ versions[n] # {}
       /\ SameVersion(Info1(n), versions[n], peerHello[n].version)

(* Past the Hello exchange: the states that go on with the peer's Hello. *)
Negotiated == {"SentHelloAck", "WaitCommit", "SentCommit", "WaitDHPart2",
               "WaitConfirm1", "WaitConfirm2", "WaitConf2Ack", "Secured"}

(* Two endpoints lower their versions on their own, from Hellos that come  *)
(* late and in any order: who has left the Hello exchange holds the Hello  *)
(* its peer goes on with (hvi and total hash are computed from it).        *)
HelloAgreed ==
    \A n \in Node : actualState[n] \in Negotiated /\ peerHello[n].mark = "intact" =>
       peerHello[n] = hello[Peer[n]]

(* The type each endpoint chose from the Hellos, before there was a Commit *)
(* or a contention, is the type of the Commit that is accepted.            *)
KeyTypeKept ==
    [][\A n \in Node : keyAgreement[n] # "none" => keyAgreement'[n] = keyAgreement[n]]_vars

(* An endpoint that accepted its peer's Confirm has its peer's keys. *)
Confirmed(n) == actualState[n] \in {"WaitConf2Ack", "Secured"}

KeysAgree == \A n \in Node : Confirmed(n) => keys[n] = keys[Peer[n]]

(* The Responder reports the agreement first, each endpoint reports it     *)
(* once, and none reports it while its peer has failed or is failing.      *)
NoSplitOutcome ==
    \A n \in Node : keyAgreed[n] > 0 =>
       /\ keyAgreed[n] = 1
       /\ agreementFailed[n] = 0
       /\ agreementFailed[Peer[n]] = 0
       /\ actualState[Peer[n]] # "WaitErrorAck"
       /\ IsInitiator(n) => keyAgreed[Peer[n]] = 1

(* Commit contention leaves one Initiator, and two endpoints that have     *)
(* left it behind have different roles.                                    *)
OneInitiator ==
    \A n \in Node :
       /\ IsInitiator(n) \/ IsInitiator(Peer[n])
       /\ actualState[n] \in {"WaitConfirm1", "WaitConfirm2", "WaitConf2Ack", "Secured"}
            => myRole[n] # myRole[Peer[n]]

(* Loss, delay, duplication, reordering and late timeouts alone never make *)
(* compatible endpoints fail.                                              *)
NeverFails ==
    \A n \in Node : /\ actualState[n] # "WaitErrorAck"
                    /\ agreementFailed[n] = 0
                    /\ ~ locked[n]

(* Who waits for an answer it must ask for again has a timer running or a  *)
(* timeout on the way, until the timer has given up.                       *)
TimerCovers ==
    \A n \in Node :
       /\ actualState[n] \in {"SentHello", "SentHelloAck"}
            => timer[n] \/ expired[n] > 0 \/ T1[n] > MaxResend1
       /\ actualState[n] \in Resending \ {"SentHello", "SentHelloAck"}
            => timer[n] \/ expired[n] > 0 \/ T2[n] > MaxResend2

(* Every call of processEvent leaves the critical section it entered. *)
CriticalSectionLeft == \A n \in Node : ~ locked[n]

(* If fewer datagrams are lost than a timer has resends, none is damaged,  *)
(* and timers outlast the round trip, both users are told of the agreement.*)
AgreementReached ==
    [](faults.damaged = 0) => <>(\A n \in Node : keyAgreed[n] = 1)

(* keyAgreed "tells user that key agreement has ended successfuly"         *)
(* (ZrtpCallback.h): then it does not fail at the peer.                    *)
EndedSuccessfully ==
    \A n \in Node : keyAgreed[n] > 0 => agreementFailed[Peer[n]] = 0

(* What the users are told, as the abstract specification sees it. *)
outcome ==
    [n \in Node |-> IF keyAgreed[n] > 0 THEN "agreed"
                    ELSE IF agreementFailed[n] > 0 THEN "failed"
                    ELSE "running"]

(* The argument of keyAgreed. *)
secret == [n \in Node |-> IF keyAgreed[n] > 0 THEN SrtpMaterial(keys[n]) ELSE Unset]

Agreement == INSTANCE KeyAgreement WITH Secret <- Materials(Keys), None <- Unset

(* The engines implement KeyAgreement: of every sequence of callbacks the  *)
(* two users see, each is one step of it or none.                          *)
ImplementsKeyAgreement == Agreement!Spec

(* The Hello exchange, as VersionExchange sees it; while datagrams stay in *)
(* flight, what n has offered are the versions of its Hellos there.        *)
offered ==
    [n \in Node |-> {m.version : m \in {x \in net[Peer[n]] : x.type = "Hello"}}]

phase ==
    [n \in Node |-> IF sentMessage[n] = Unset THEN "idle"
                    ELSE IF actualState[n] \in {"SentHello", "ReceivedHelloAck"}
                      THEN "exchanging"
                    ELSE IF actualState[n] \in Negotiated THEN "settled"
                    ELSE "stopped"]

Exchange == INSTANCE VersionExchange
              WITH Lists <- {Info1(n) : n \in Node},
                   list  <- [n \in Node |-> Info1(n)],
                   kept  <- versions

(* The engine's way of waiting for both a Hello and a HelloACK, in either  *)
(* order, lowers and settles versions as VersionExchange does, so what its *)
(* runs show for all short lists holds of the engine.                      *)
ImplementsVersionExchange == Exchange!Spec

(* A damaged Hello can leave its receiver, or the peer, with a HelloACK    *)
(* and no Hello it may accept: either it has erased all its versions, or   *)
(* the peer settled on another one and does not read Hellos any more.      *)
HelloStalled(n) ==
    /\ actualState[n] = "ReceivedHelloAck"
    /\ versions[n] # {} => ~ SameVersion(Info1(n), versions[n], hello[Peer[n]].version)

(* A Commit with another hvi can leave both Initiators waiting for the     *)
(* DHPart2 of the other: the hvi are compared before any MAC of a Commit.  *)
BothYielded == \A n \in Node : actualState[n] = "WaitDHPart2"

NobodyTold == \A n \in Node : keyAgreed[n] = 0 /\ agreementFailed[n] = 0

(* If no more datagrams are lost or damaged than a timer sends again, both *)
(* users are told the same, or neither is told anything: and this only     *)
(* where a damaged Hello or Commit leads into one of the two dead ends.    *)
OutcomeReached ==
    [](faults.lost + faults.damaged <= MaxResend1) =>
       \/ <>(\A n \in Node : keyAgreed[n] > 0)
       \/ <>(\A n \in Node : agreementFailed[n] > 0)
       \/ <>[](NobodyTold /\ (BothYielded \/ \E n \in Node : HelloStalled(n)))
=============================================================================
