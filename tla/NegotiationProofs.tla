------------------------- MODULE NegotiationProofs -------------------------
(***************************************************************************)
(* What the decisions of Negotiation return, for any lists: the lemmas the *)
(* proofs about the Hello exchange and the engine rest on.                 *)
(***************************************************************************)
EXTENDS Negotiation, TLAPS, FiniteSetTheorems, WellFoundedInduction

(* The least element that chooseHighestVersion and chooseAlgorithm, which  *)
(* walk through their lists, rely on to find what they look for.           *)
LEMMA LeastExists ==
    ASSUME NEW S \in SUBSET Nat, S # {}
    PROVE  \E x \in S : \A y \in S : x <= y
<1> DEFINE R == {ss \in Nat \X Nat : ss[1] < ss[2]}
<1>1. \E x \in S : \A y \in S : <<y, x>> \notin R
  <2>1. IsWellFoundedOn(R, Nat)
    BY NatLessThanWellFounded DEF OpToRel
  <2> HIDE DEF R
  <2> QED
    BY <2>1, WFMin
<1>2. \A x, y \in Nat : <<y, x>> \notin R => x <= y
  OBVIOUS
<1> QED
  BY <1>1, <1>2

(* Entries of a list of versions are numbers of three digits. *)
LEMMA EntriesAreVersions ==
    ASSUME NEW list \in Seq(Version), NEW i \in DOMAIN list
    PROVE  i \in Nat /\ list[i] \in Version /\ list[i] \in Nat /\ list[i] <= 999
<1>1. i \in Nat /\ list[i] \in Version
  OBVIOUS
<1>2. \A version \in Version : version \in Nat /\ version <= 999
  BY DEF Version
<1> QED
  BY <1>1, <1>2

(* A list that a user may give has a first entry. *)
LEMMA NonEmptyDomain ==
    ASSUME NEW s \in Seq(Version), s # <<>>
    PROVE  DOMAIN s \in SUBSET Nat /\ DOMAIN s # {}
<1>1. Len(s) \in Nat /\ DOMAIN s = 1 .. Len(s)
  OBVIOUS
<1>2. Len(s) # 0
  OBVIOUS
<1>3. 1 \in 1 .. Len(s) /\ 1 .. Len(s) \subseteq Nat
  BY <1>1, <1>2
<1> QED
  BY <1>1, <1>3

(* chooseHighestVersion returns an entry of the list, and the highest: it  *)
(* compares every one.                                                     *)
LEMMA HighestVersion ==
    ASSUME NEW list \in Seq(Version), NEW kept \in SUBSET (DOMAIN list), kept # {}
    PROVE  /\ \E i \in kept : chooseHighestVersion(list, kept) = list[i]
           /\ \A i \in kept : chooseHighestVersion(list, kept) >= list[i]
           /\ chooseHighestVersion(list, kept) \in Version
<1> DEFINE gaps == {999 - list[i] : i \in kept}
           Top(i) == \A j \in kept : list[i] >= list[j]
<1>1. \A i \in kept : list[i] \in Nat /\ list[i] <= 999
  BY EntriesAreVersions
<1>2. gaps \in SUBSET Nat /\ gaps # {}
  BY <1>1
<1>3. PICK least \in gaps : \A gap \in gaps : least <= gap
  BY <1>2, LeastExists
<1>4. PICK i \in kept : least = 999 - list[i]
  OBVIOUS
<1>5. Top(i)
  <2>1. SUFFICES ASSUME NEW j \in kept PROVE list[i] >= list[j]
    OBVIOUS
  <2>2. 999 - list[j] \in gaps
    OBVIOUS
  <2>3. 999 - list[i] <= 999 - list[j]
    BY <1>3, <1>4, <2>2
  <2> QED
    BY <1>1, <2>3
<1>6. (CHOOSE k \in kept : Top(k)) \in kept /\ Top(CHOOSE k \in kept : Top(k))
  BY <1>5
<1>7. chooseHighestVersion(list, kept) = list[CHOOSE k \in kept : Top(k)]
  BY DEF chooseHighestVersion
<1> HIDE DEF Top
<1>8. \E k \in kept : chooseHighestVersion(list, kept) = list[k] /\ Top(k)
  BY <1>6, <1>7
<1> QED
  BY <1>8, EntriesAreVersions DEF Top

(* compareVersions only erases, and only versions above the peer's. *)
LEMMA LowerVersionsKeeps ==
    ASSUME NEW list \in Seq(Version), NEW kept \in SUBSET (DOMAIN list),
           NEW peerVersion \in Version
    PROVE  /\ LowerVersions(list, kept, peerVersion) \subseteq kept
           /\ \A i \in kept : list[i] <= peerVersion
                 => i \in LowerVersions(list, kept, peerVersion)
<1>1. Erased(list, kept, peerVersion) \subseteq kept
  BY DEF Erased
<1>2. ASSUME NEW i \in kept, list[i] <= peerVersion
      PROVE  i \notin Erased(list, kept, peerVersion)
  <2>1. list[i] \in Nat /\ peerVersion \in Nat /\ i \in Nat
    <3>1. list[i] \in Nat /\ i \in Nat
      BY EntriesAreVersions
    <3>2. peerVersion \in Nat
      BY DEF Version
    <3> QED
      BY <3>1, <3>2
  <2>2. HigherRun(list, kept, peerVersion, i) = {}
    BY <1>2, <2>1 DEF HigherRun
  <2>3. Cardinality({}) % 2 # 1
    BY FS_EmptySet
  <2> QED
    BY <2>2, <2>3 DEF Erased
<1> QED
  BY <1>1, <1>2 DEF LowerVersions

(* The first three characters are ordered like the whole version. *)
LEMMA PrefixOrder ==
    ASSUME NEW v \in Version, NEW w \in Version, v <= w
    PROVE  Prefix(v) \in Nat /\ Prefix(w) \in Nat /\ Prefix(v) <= Prefix(w)
BY DEF Prefix, Version

(* The loops of chooseAlgorithm find a type both lists have, if one does. *)
LEMMA PreferredIsCommon ==
    ASSUME NEW Types, NEW mine \in Seq(Types), NEW theirs \in Seq(Types),
           HaveCommonType(mine, theirs)
    PROVE  Preferred(mine, theirs) \in Elements(mine) \cap Elements(theirs)
<1> DEFINE shared == {i \in DOMAIN mine : mine[i] \in Elements(theirs)}
           First(i) == /\ mine[i] \in Elements(theirs)
                       /\ \A j \in DOMAIN mine :
                             j < i => mine[j] \notin Elements(theirs)
<1>1. shared \in SUBSET Nat /\ shared # {}
  BY DEF HaveCommonType, Elements
<1>2. PICK i \in shared : \A j \in shared : i <= j
  BY <1>1, LeastExists
<1>3. i \in DOMAIN mine /\ First(i)
  <2>1. SUFFICES ASSUME NEW j \in DOMAIN mine, j < i
                 PROVE  j \notin shared
    OBVIOUS
  <2>2. i \in Nat /\ j \in Nat
    BY <1>1
  <2> QED
    BY <1>2, <2>1, <2>2
<1>4. (CHOOSE k \in DOMAIN mine : First(k)) \in {k \in DOMAIN mine : First(k)}
  BY <1>3
<1> QED
  BY <1>4 DEF Preferred, Elements

(* chooseAlgorithm returns a type of both lists. *)
LEMMA ChosenTypeIsCommon ==
    ASSUME NEW Types, NEW mine \in Seq(Types), NEW theirs \in Seq(Types),
           HaveCommonType(mine, theirs)
    PROVE  /\ chooseAlgorithm(mine, theirs) \in Elements(mine) \cap Elements(theirs)
           /\ chooseAlgorithm(mine, theirs) \in Types
<1>1. Preferred(mine, theirs) \in Elements(mine) \cap Elements(theirs)
  BY PreferredIsCommon
<1>2. Preferred(theirs, mine) \in Elements(mine) \cap Elements(theirs)
  BY PreferredIsCommon DEF HaveCommonType
<1>3. Elements(mine) \subseteq Types
  BY DEF Elements
<1> QED
  BY <1>1, <1>2, <1>3 DEF chooseAlgorithm, chooseFasterType

(* No two rated types have the same rating, so the order of the arguments  *)
(* does not matter.                                                        *)
LEMMA FasterTypeCommutes ==
    ASSUME NEW first \in RatedTypes, NEW second \in RatedTypes
    PROVE  chooseFasterType(first, second) = chooseFasterType(second, first)
BY DEF RatedTypes, Rating, chooseFasterType

(* Both endpoints evaluate chooseAlgorithm to the same type. *)
LEMMA ChoiceCommutes ==
    ASSUME NEW mine \in Seq(RatedTypes), NEW theirs \in Seq(RatedTypes),
           HaveCommonType(mine, theirs)
    PROVE  chooseAlgorithm(mine, theirs) = chooseAlgorithm(theirs, mine)
<1>1. HaveCommonType(theirs, mine)
  BY DEF HaveCommonType
<1>2. /\ Preferred(mine, theirs) \in Elements(mine)
      /\ Preferred(theirs, mine) \in Elements(theirs)
  BY <1>1, PreferredIsCommon
<1>3. Elements(mine) \subseteq RatedTypes /\ Elements(theirs) \subseteq RatedTypes
  BY DEF Elements
<1> QED
  BY <1>2, <1>3, FasterTypeCommutes DEF chooseAlgorithm
=============================================================================
