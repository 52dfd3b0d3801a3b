----------------------- MODULE VersionExchangeProofs -----------------------
(***************************************************************************)
(* The Hello exchange settles two endpoints, whatever their lists, on the  *)
(* same version, no lower than any they have in common.                    *)
(***************************************************************************)
EXTENDS VersionExchange, NegotiationProofs

(* An endpoint that has not stopped has a version left. *)
KeptSome ==
    \A n \in Node : phase[n] # "stopped" => kept[n] # {}

(* No offer is below what is left: offers only go down. *)
OffersAbove ==
    \A n \in Node : \A version \in offered[n] : \A i \in kept[n] : list[n][i] <= version

(* Who has not started has offered nothing. *)
IdleSilent == \A n \in Node : phase[n] = "idle" => offered[n] = {}

(* Who has settled did so on an offer of its peer. *)
SettledOnOffer ==
    \A n \in Node : phase[n] = "settled" =>
       \E version \in offered[Peer[n]] : SameVersion(list[n], kept[n], version)

IInv ==
    /\ TypeOK
    /\ KeptSome
    /\ IdleSilent
    /\ CommonKept
    /\ OffersAbove
    /\ SettledOnOffer

-----------------------------------------------------------------------------
(* A user's list is a sequence of versions. *)
LEMMA ListsAreSequences ==
    ASSUME TypeOK, NEW n \in Node
    PROVE  /\ list[n] \in Seq(Version) /\ list[n] # <<>>
           /\ kept[n] \in SUBSET (DOMAIN list[n])
BY ListsAssumption DEF TypeOK

(* What Highest offers: an upper bound of the positions it is taken from. *)
LEMMA HighestOffer ==
    ASSUME TypeOK, NEW n \in Node, NEW left \in SUBSET kept[n], left # {}
    PROVE  /\ Highest(n, left) \in Version
           /\ \A i \in left : list[n][i] <= Highest(n, left)
<1>1. list[n] \in Seq(Version) /\ left \in SUBSET (DOMAIN list[n])
  BY ListsAreSequences
<1>2. /\ \A i \in left : Highest(n, left) >= list[n][i]
      /\ Highest(n, left) \in Version
  BY <1>1, HighestVersion DEF Highest
<1>3. Highest(n, left) \in Nat /\ \A i \in left : list[n][i] \in Nat
  <2>1. \A i \in left : list[n][i] \in Nat
    BY <1>1, EntriesAreVersions
  <2>2. \A version \in Version : version \in Nat
    BY DEF Version
  <2> QED
    BY <1>2, <2>1, <2>2
<1> QED
  BY <1>2, <1>3

(* An offer of the peer is never below a version both have, so it leaves   *)
(* every common version in the list.                                       *)
LEMMA OfferKeepsCommon ==
    ASSUME IInv, NEW n \in Node, NEW version \in offered[Peer[n]],
           NEW i \in DOMAIN list[n], list[n][i] \in Common(n)
    PROVE  i \in LowerVersions(list[n], kept[n], version)
<1> DEFINE peer == Peer[n]
<1>1. peer \in Node /\ Peer[peer] = n
  BY PeersAssumption
<1>2. PICK j \in DOMAIN list[peer] : list[peer][j] = list[n][i]
  BY DEF Common, Elements
<1>3. list[peer][j] \in Common(peer)
  BY <1>1, <1>2 DEF Common, Elements
<1>4. j \in kept[peer]
  BY <1>1, <1>3 DEF IInv, CommonKept
<1>5. list[n][i] <= version
  BY <1>1, <1>2, <1>4 DEF IInv, OffersAbove
<1>6. i \in kept[n]
  BY DEF IInv, CommonKept
<1>7. version \in Version
  BY <1>1 DEF IInv, TypeOK
<1> QED
  BY <1>5, <1>6, <1>7, ListsAreSequences, LowerVersionsKeeps DEF IInv

-----------------------------------------------------------------------------
(* The strengthened invariant is inductive. *)
LEMMA InitImpliesIInv == Init => IInv
<1> SUFFICES ASSUME Init PROVE IInv
  OBVIOUS
<1>1. \A n \in Node : list[n] \in Seq(Version) /\ list[n] # <<>>
  BY ListsAssumption DEF Init
<1>2. \A n \in Node : DOMAIN list[n] \in SUBSET Nat /\ DOMAIN list[n] # {}
  BY <1>1, NonEmptyDomain
<1>3. TypeOK
  BY <1>2 DEF Init, TypeOK
<1> QED
  BY <1>2, <1>3 DEF Init, IInv, KeptSome, IdleSilent, CommonKept, OffersAbove, SettledOnOffer

LEMMA NextKeepsIInv == IInv /\ [Next]_vars => IInv'
<1> SUFFICES ASSUME IInv, [Next]_vars PROVE IInv'
  OBVIOUS
<1> USE DEF IInv
<1>1. CASE UNCHANGED vars
  BY <1>1 DEF vars, TypeOK, KeptSome, IdleSilent, CommonKept, OffersAbove, SettledOnOffer, Common
<1>2. ASSUME NEW n \in Node, Offer(n) PROVE IInv'
  <2>1. kept[n] # {}
    BY <1>2 DEF Offer, KeptSome
  <2>2. /\ Highest(n, kept[n]) \in Version
        /\ \A i \in kept[n] : list[n][i] <= Highest(n, kept[n])
    BY <2>1, HighestOffer
  <2>3. TypeOK'
    BY <1>2, <2>2 DEF Offer, TypeOK
  <2>4. KeptSome'
    BY <1>2, <2>1 DEF Offer, KeptSome, TypeOK
  <2>5. CommonKept' /\ IdleSilent'
    BY <1>2 DEF Offer, CommonKept, Common, IdleSilent, TypeOK
  <2>6. OffersAbove'
    BY <1>2, <2>2 DEF Offer, OffersAbove, TypeOK
  <2>7. SettledOnOffer'
    <3>1. SUFFICES ASSUME NEW k \in Node, phase'[k] = "settled"
                   PROVE  \E version \in offered'[Peer[k]] :
                             SameVersion(list[k], kept[k], version)
      BY <1>2 DEF Offer, SettledOnOffer
    <3>2. phase[k] = "settled" /\ k # n
      BY <1>2, <3>1 DEF Offer, TypeOK
    <3>3. PICK version \in offered[Peer[k]] : SameVersion(list[k], kept[k], version)
      BY <3>2 DEF SettledOnOffer
    <3>4. Peer[k] # n
      BY <1>2, <3>3 DEF Offer, IdleSilent
    <3> QED
      BY <1>2, <3>3, <3>4, PeersAssumption DEF Offer, TypeOK
  <2> QED
    BY <2>3, <2>4, <2>5, <2>6, <2>7
<1>3. ASSUME NEW n \in Node, NEW version \in offered[Peer[n]], Settle(n, version)
      PROVE  IInv'
  <2>1. TypeOK'
    BY <1>3 DEF Settle, TypeOK
  <2>2. KeptSome' /\ IdleSilent' /\ CommonKept' /\ OffersAbove'
    BY <1>3 DEF Settle, TypeOK, KeptSome, IdleSilent, CommonKept, OffersAbove, Common
  <2>3. SettledOnOffer'
    BY <1>3 DEF Settle, TypeOK, SettledOnOffer
  <2> QED
    BY <2>1, <2>2, <2>3
<1>4. ASSUME NEW n \in Node, NEW version \in offered[Peer[n]], Lower(n, version)
      PROVE  IInv'
  <2> DEFINE left == LowerVersions(list[n], kept[n], version)
  <2>1. /\ left # {} /\ phase[n] = "exchanging"
        /\ kept' = [kept EXCEPT ![n] = left]
        /\ offered' = [offered EXCEPT ![n] = @ \cup {Highest(n, left)}]
        /\ UNCHANGED <<list, phase>>
    BY <1>4 DEF Lower
  <2>2. version \in Version
    BY PeersAssumption DEF TypeOK
  <2>3. left \in SUBSET kept[n]
    BY <2>2, ListsAreSequences, LowerVersionsKeeps
  <2>4. Highest(n, left) \in Version /\ \A i \in left : list[n][i] <= Highest(n, left)
    BY <2>1, <2>3, HighestOffer
  <2>5. \A i \in DOMAIN list[n] : list[n][i] \in Common(n) => i \in left
    BY OfferKeepsCommon
  <2> HIDE DEF left
  <2>6. TypeOK'
    BY <2>1, <2>3, <2>4 DEF TypeOK
  <2>7. KeptSome' /\ IdleSilent'
    BY <2>1 DEF TypeOK, KeptSome, IdleSilent
  <2>8. CommonKept'
    BY <2>1, <2>5 DEF TypeOK, CommonKept, Common
  <2>9. OffersAbove'
    BY <2>1, <2>3, <2>4 DEF TypeOK, OffersAbove
  <2>10. SettledOnOffer'
    BY <2>1 DEF TypeOK, SettledOnOffer
  <2> QED
    BY <2>6, <2>7, <2>8, <2>9, <2>10
<1>5. ASSUME NEW n \in Node, NEW version \in offered[Peer[n]], Refuse(n, version)
      PROVE  IInv'
  <2>1. /\ LowerVersions(list[n], kept[n], version) = {}
        /\ kept' = [kept EXCEPT ![n] = {}]
        /\ phase' = [phase EXCEPT ![n] = "stopped"]
        /\ UNCHANGED <<list, offered>>
    BY <1>5 DEF Refuse
  <2>2. \A i \in DOMAIN list[n] : list[n][i] \notin Common(n)
    BY <2>1, OfferKeepsCommon
  <2>3. TypeOK' /\ KeptSome' /\ IdleSilent'
    BY <2>1 DEF TypeOK, KeptSome, IdleSilent
  <2>4. CommonKept'
    BY <2>1, <2>2 DEF TypeOK, CommonKept, Common
  <2>5. OffersAbove' /\ SettledOnOffer'
    BY <2>1 DEF TypeOK, OffersAbove, SettledOnOffer
  <2> QED
    BY <2>3, <2>4, <2>5
<1>6. ASSUME NEW n \in Node, Stop(n) PROVE IInv'
  <2>1. TypeOK' /\ KeptSome' /\ IdleSilent' /\ SettledOnOffer'
    BY <1>6 DEF Stop, TypeOK, KeptSome, IdleSilent, SettledOnOffer
  <2>2. CommonKept' /\ OffersAbove'
    BY <1>6 DEF Stop, CommonKept, OffersAbove, Common
  <2> QED
    BY <2>1, <2>2
<1> QED
  BY <1>1, <1>2, <1>3, <1>4, <1>5, <1>6 DEF Next, Receive

(* Every reachable state of the Hello exchange satisfies the strengthened  *)
(* invariant: offers only go down and never below a common version.        *)
THEOREM ExchangeInvariant == Spec => []IInv
<1> QED
  BY InitImpliesIInv, NextKeepsIInv, PTL DEF Spec

(* The list of versions shrinks (compareVersions) but never loses one that *)
(* both users gave.                                                        *)
THEOREM CommonVersionsKept == Spec => []CommonKept
<1>1. IInv => CommonKept
  BY DEF IInv
<1> QED
  BY <1>1, ExchangeInvariant, PTL

-----------------------------------------------------------------------------
(* n settled on an offer of its peer, and the peer's list has nothing      *)
(* above that: n's version is no lower than the peer's.                    *)
LEMMA SettledNotBelowPeer ==
    ASSUME IInv, NEW n \in Node, phase[n] = "settled", phase[Peer[n]] = "settled"
    PROVE  LET peer == Peer[n] IN
           /\ Prefix(Highest(n, kept[n])) \in Nat
           /\ Prefix(Highest(peer, kept[peer])) <= Prefix(Highest(n, kept[n]))
<1> DEFINE peer == Peer[n]
<1> USE DEF IInv
<1>1. peer \in Node /\ kept[n] # {} /\ kept[peer] # {}
  BY PeersAssumption DEF KeptSome
<1>2. PICK version \in offered[peer] : Prefix(Highest(n, kept[n])) = Prefix(version)
  BY DEF SettledOnOffer, SameVersion, Highest
<1>3. version \in Version
  BY <1>1 DEF TypeOK
<1>4. PICK i \in kept[peer] : Highest(peer, kept[peer]) = list[peer][i]
  BY <1>1, ListsAreSequences, HighestVersion DEF Highest
<1>5. Highest(peer, kept[peer]) <= version
  BY <1>1, <1>4 DEF OffersAbove
<1>6. Highest(peer, kept[peer]) \in Version
  BY <1>1, HighestOffer
<1> QED
  BY <1>2, <1>3, <1>5, <1>6, PrefixOrder

(* Two endpoints that have both left the Hello exchange go on with the     *)
(* same version, whichever old Hellos they happened to decide from.        *)
THEOREM SettledVersionsAgree == Spec => []SettledAlike
<1>1. IInv => SettledAlike
  <2> SUFFICES ASSUME IInv, NEW n \in Node, phase[n] = "settled",
                      phase[Peer[n]] = "settled"
               PROVE  SameVersion(list[n], kept[n], Highest(Peer[n], kept[Peer[n]]))
    BY DEF SettledAlike
  <2>1. Peer[n] \in Node /\ Peer[Peer[n]] = n
    BY PeersAssumption
  <2>2. Prefix(Highest(n, kept[n])) = Prefix(Highest(Peer[n], kept[Peer[n]]))
    BY <2>1, SettledNotBelowPeer
  <2> QED
    BY <2>2 DEF SameVersion, Highest
<1> QED
  BY <1>1, ExchangeInvariant, PTL

(* ... and it is no lower than any version they have in common. *)
THEOREM SettledVersionHighest == Spec => []SettledHighest
<1>1. IInv => SettledHighest
  <2> SUFFICES ASSUME IInv, NEW n \in Node, phase[n] = "settled",
                      NEW version \in Common(n)
               PROVE  Prefix(Highest(n, kept[n])) >= Prefix(version)
    BY DEF SettledHighest
  <2>1. PICK i \in DOMAIN list[n] : list[n][i] = version
    BY DEF Common, Elements
  <2>2. i \in kept[n]
    BY <2>1 DEF IInv, CommonKept
  <2>3. Highest(n, kept[n]) \in Version /\ version <= Highest(n, kept[n])
    BY <2>1, <2>2, HighestOffer DEF IInv
  <2>4. version \in Version
    <3>1. list[n] \in Seq(Version)
      BY ListsAreSequences DEF IInv
    <3> QED
      BY <2>1, <3>1, EntriesAreVersions
  <2>5. /\ Prefix(version) \in Nat /\ Prefix(Highest(n, kept[n])) \in Nat
        /\ Prefix(version) <= Prefix(Highest(n, kept[n]))
    BY <2>3, <2>4, PrefixOrder
  <2> QED
    BY <2>5
<1> QED
  BY <1>1, ExchangeInvariant, PTL
=============================================================================
