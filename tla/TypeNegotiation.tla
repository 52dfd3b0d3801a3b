-------------------------- MODULE TypeNegotiation --------------------------
(***************************************************************************)
(* The choice of the key agreement type, for any lists: each endpoint      *)
(* chooses from the two Hellos, alone; the Commit of one then names its    *)
(* choice and the other checks it against its own list. The Hellos carry   *)
(* these lists next to the user's others.                                  *)
(***************************************************************************)
EXTENDS Negotiation, PacketHello

CONSTANTS
    Node, Peer,
    TypeLists,  \* the lists of key agreement types a user may give
    OtherLists, \* the lists of the other four kinds, as a record each
    Mac         \* the words of a MAC

ASSUME PeersAssumption ==
    Peer \in [Node -> Node] /\ \A n \in Node : Peer[Peer[n]] = n

(* Of two types that chooseFasterType does not know it returns the first,  *)
(* so endpoints that prefer different unknown ones would not agree.        *)
ASSUME TypeListsAssumption == TypeLists \subseteq Seq(RatedTypes)

(* What a user with these lists has to say in a Hello. *)
Info(list, others) ==
    [hashTypes |-> others.hashTypes, cipherTypes |-> others.cipherTypes,
     authTagTypes |-> others.authTagTypes, keyAgreementTypes |-> list,
     sasTypes |-> others.sasTypes]

(* The code does not look whether the lists fit its arrays and its buffer. *)
ASSUME HelloFitsAssumption ==
    /\ \A others \in OtherLists :
          /\ others.hashTypes \in Seq(STRING) /\ others.cipherTypes \in Seq(STRING)
          /\ others.authTagTypes \in Seq(STRING) /\ others.sasTypes \in Seq(STRING)
    /\ \A list \in TypeLists, others \in OtherLists : HelloFits(Info(list, others))
    /\ Mac \in Seq(STRING) /\ Len(Mac) = MacWords

VARIABLES
    types,      \* types[n]: the list of n's user
    chosen,     \* what n chose from the Hellos, or "none"
    answer      \* what n answers to the peer's Commit: an error code or "none"

vars == <<types, chosen, answer>>

Init ==
    /\ types \in [Node -> TypeLists]
    /\ chosen = [n \in Node |-> "none"]
    /\ answer = [n \in Node |-> "unasked"]

(* chooseAlgorithm, called with the peer's Hello at hand. *)
Choose(n) ==
    /\ chosen[n] = "none"
    /\ HaveCommonType(types[n], types[Peer[n]])
    /\ chosen' = [chosen EXCEPT ![n] = chooseAlgorithm(types[n], types[Peer[n]])]
    /\ UNCHANGED <<types, answer>>

(* checkCompatibility of the peer's Commit; its other algorithms are fixed. *)
Answer(n) ==
    /\ answer[n] = "unasked"
    /\ chosen[Peer[n]] # "none"
    /\ answer' = [answer EXCEPT
         ![n] = Compatibility(
                  [hashTypes |-> {"S256"}, cipherTypes |-> {"AES1"},
                   authTagTypes |-> {"HS32"}, keyAgreementTypes |-> types[n],
                   sasTypes |-> {"B32 "}],
                  [hash |-> "S256", cipher |-> "AES1", authTag |-> "HS32",
                   keyAgreement |-> chosen[Peer[n]], sas |-> "B32 "])]
    /\ UNCHANGED <<types, chosen>>

Next == \E n \in Node : Choose(n) \/ Answer(n)

Spec == Init /\ [][Next]_vars

-----------------------------------------------------------------------------
(* The two choices, each made from its own list first, are the same one,   *)
(* whatever order the types have in the lists.                             *)
ChoiceShared ==
    \A n \in Node : chosen[n] # "none" /\ chosen[Peer[n]] # "none"
       => chosen[n] = chosen[Peer[n]]

(* A Commit with the type chosen from the Hellos is never turned down. *)
CommitAcceptable == \A n \in Node : answer[n] \in {"unasked", "none"}

(* Whatever the numbers of types are, the Hello says to the peer what the  *)
(* user has given, and its MAC protects all of it.                         *)
HelloReadBack ==
    \A n \in Node, others \in OtherLists : ReadsBack(Info(types[n], others), Mac)
=============================================================================
