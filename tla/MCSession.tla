------------------------------ MODULE MCSession ------------------------------
(* Two endpoints, as the demo application sets them up (networkmanager.cpp). *)
EXTENDS ZrtpSession

CONSTANTS Alice, Bob, Carol, Dave

MCAlgorithm == {"S256", "AES1", "AES3", "HS32", "B32 ",
                "DH2k", "EC25", "DH3k", "EC38", "EC52"}
MCNode == {Alice, Bob}
MCPeer == [n \in MCNode |-> IF n = Alice THEN Bob ELSE Alice]
MCRank == [n \in MCNode |-> IF n = Alice THEN 2 ELSE 1]
NothingLeft == [n \in MCNode |-> {}]

User(vs, types) ==
    [versions |-> vs, hashTypes |-> {"S256"}, cipherTypes |-> {"AES1"},
     authTagTypes |-> {"HS32"}, keyAgreementTypes |-> types, sasTypes |-> {"B32 "}]

(* The Responder of the demo also speaks 1.20 and prefers EC52. *)
DemoInfo ==
    [n \in MCNode |-> IF n = Alice THEN User(<<110>>, <<"DH3k", "EC52">>)
                      ELSE User(<<110, 120>>, <<"EC52", "DH3k">>)]

(* One Initiator, or two: commit contention. *)
OneOrTwoInitiators ==
    {r \in [MCNode -> {"Initiator", "Responder"}] : \E n \in MCNode : r[n] = "Initiator"}
OneInitiatorOnly ==
    {[n \in MCNode |-> IF n = Alice THEN "Initiator" ELSE "Responder"]}

(* One version and one type on both sides. *)
PlainInfo == [n \in MCNode |-> User(<<110>>, <<"DH3k">>)]

(* Lists in no order: compareVersions takes Alice two rounds to reach 1.10. *)
UnorderedInfo ==
    [n \in MCNode |-> IF n = Alice THEN User(<<130, 140, 110>>, <<"DH3k", "EC52">>)
                      ELSE User(<<120, 110, 105>>, <<"EC52", "DH3k">>)]

(* Bob lacks the cipher every Commit asks for. *)
OtherCipherInfo ==
    [n \in MCNode |-> IF n = Alice THEN User(<<110>>, <<"DH3k">>)
                      ELSE [User(<<110>>, <<"DH3k">>) EXCEPT !.cipherTypes = {"AES3"}]]

(* No version in common.  Alice still gets a HelloACK and Hellos that an   *)
(* earlier session of hers was sent, one of them with no common type:      *)
(* Carol is the Zrtp object Bob's user ran then.                           *)
DisjointInfo ==
    [n \in MCNode |-> IF n = Alice THEN User(<<120>>, <<"DH3k">>)
                      ELSE User(<<110>>, <<"DH3k">>)]
OldHello(types) == [type |-> "Hello", src |-> Carol, version |-> 120,
                    keyAgreementTypes |-> types, mark |-> "intact"]
OldHellos ==
    [n \in MCNode |-> IF n = Alice
                        THEN {HelloAck, OldHello(<<"EC25">>), OldHello(<<"DH3k">>)}
                        ELSE {}]

(* A Conf2ACK Bob has sent again at the end of the session before. *)
LateConf2Ack == [n \in MCNode |-> IF n = Alice THEN {Conf2Ack} ELSE {}]

ThreeIdentities == MCNode \cup {Carol}

(* What a damaged field may read.  An hvi below all others, or above them  *)
(* (those of Carol and Dave, who do not run); a version below all others,  *)
(* one of the peer's own, or one above them all; types that leave none in  *)
(* common, or only the other one; algorithms the peer supports, or not.    *)
FourIdentities == MCNode \cup {Carol, Dave}
HviOrder == [i \in FourIdentities |->
               IF i = Dave THEN 3 ELSE IF i = Alice THEN 2 ELSE IF i = Bob THEN 1 ELSE 0]
LowAndHigh == {100, 120, 150}
NoneOrOneType == {<<"EC25">>, <<"EC52">>}
AnotherAlgorithm == {"AES3", "EC52"}
=============================================================================
