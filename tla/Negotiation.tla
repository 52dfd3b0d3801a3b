---------------------------- MODULE Negotiation ----------------------------
(***************************************************************************)
(* The decisions two endpoints take independently from their Hello and     *)
(* Commit packets: the protocol version, the key agreement type and        *)
(* whether a Commit asks only for supported algorithms (ZRTP/zrtp.cpp).    *)
(***************************************************************************)
EXTENDS Naturals, Sequences, FiniteSets

Elements(s) == {s[i] : i \in DOMAIN s}

(* A version "1.20" is the number 120: the strings have one digit, a point *)
(* and two digits, so strcmp orders them as these numbers.                 *)
Version == 0 .. 999

-----------------------------------------------------------------------------
(* Versions.  `list` is the list the user gave; `kept`, a set of its       *)
(* positions, is what userInfo->versions still holds of it.                *)

(* The first three characters: "1.20" and "1.25" are the same version. *)
Prefix(version) == version \div 10

(* Mutant: the list is taken to be sorted. *)
FirstVersion(list, kept) == list[CHOOSE i \in kept : \A j \in kept : i <= j]

chooseHighestVersion(list, kept) ==
    list[CHOOSE i \in kept : \A j \in kept : list[i] >= list[j]]

SameVersion(list, kept, peerVersion) ==
    Prefix(chooseHighestVersion(list, kept)) = Prefix(peerVersion)

(* Mutant: strcmp(...) >= 0, so the peer's own version goes as well. *)
NotLowerRun(list, kept, peerVersion, i) ==
    {j \in kept : /\ j <= i
                  /\ \A k \in kept : j <= k /\ k <= i => list[k] >= peerVersion}

(* The kept entries above peerVersion that directly precede i, and i. *)
HigherRun(list, kept, peerVersion, i) ==
    {j \in kept : /\ j <= i
                  /\ \A k \in kept : j <= k /\ k <= i => list[k] > peerVersion}

(* The loop of compareVersions erases at index i and goes on to i + 1, so  *)
(* the entry that slides into the gap is not looked at: of a run of higher *)
(* entries every second one stays.                                         *)
Erased(list, kept, peerVersion) ==
    {i \in kept : Cardinality(HigherRun(list, kept, peerVersion, i)) % 2 = 1}

(* Mutant: the comparison of the prefixes is reversed. *)
LowerWhenLower(list, kept, peerVersion) ==
    IF Prefix(chooseHighestVersion(list, kept)) < Prefix(peerVersion)
      THEN kept \ Erased(list, kept, peerVersion)
      ELSE kept

(* What compareVersions leaves of the list when it returns false. *)
LowerVersions(list, kept, peerVersion) ==
    IF Prefix(chooseHighestVersion(list, kept)) > Prefix(peerVersion)
      THEN kept \ Erased(list, kept, peerVersion)
      ELSE kept

-----------------------------------------------------------------------------
(* Key agreement types. *)

RatedTypes == {"DH2k", "EC25", "DH3k", "EC38", "EC52"}

Rating(type) ==
    IF type \in RatedTypes
      THEN [DH2k |-> 1, EC25 |-> 2, DH3k |-> 3, EC38 |-> 4, EC52 |-> 5][type]
      ELSE 0

(* Mutant: the own type is preferred. *)
OwnType(first, second) == first

(* The first of two equally rated types wins: unknown types are rated 0. *)
chooseFasterType(first, second) ==
    IF Rating(first) > Rating(second) THEN second ELSE first

(* Mutant: the first type is not looked for in the other list. *)
FirstOfMine(mine, theirs) == mine[1]

(* The first entry of `mine` that `theirs` has too. *)
Preferred(mine, theirs) ==
    mine[CHOOSE i \in DOMAIN mine :
           /\ mine[i] \in Elements(theirs)
           /\ \A j \in DOMAIN mine : j < i => mine[j] \notin Elements(theirs)]

HaveCommonType(mine, theirs) == Elements(mine) \cap Elements(theirs) # {}

(* chooseAlgorithm, when it returns true. *)
chooseAlgorithm(mine, theirs) ==
    chooseFasterType(Preferred(mine, theirs), Preferred(theirs, mine))

-----------------------------------------------------------------------------
(* checkCompatibility: the code of the first unsupported component. *)
Compatibility(info, commit) ==
    IF commit.hash \notin info.hashTypes THEN "HashTypeNotSupported"
    ELSE IF commit.cipher \notin info.cipherTypes THEN "CipherTypeNotSupported"
    ELSE IF commit.authTag \notin info.authTagTypes THEN "AuthTagNotSupported"
    ELSE IF commit.keyAgreement \notin Elements(info.keyAgreementTypes)
      THEN "KeyExchangeNotSupported"
    ELSE IF commit.sas \notin info.sasTypes THEN "SasNotSupported"
    ELSE "none"
=============================================================================
