-------------------------- MODULE VersionExchange --------------------------
(***************************************************************************)
(* What the Hello exchange does to the versions, without the rest of the   *)
(* engine and for any lists: each endpoint offers its highest version,     *)
(* lowers it on an offer that is lower, and settles on an offer with the   *)
(* same version.  Hellos are resent and overtaken, so any offer the peer   *)
(* has ever made may be the next to arrive.                                *)
(***************************************************************************)
EXTENDS Negotiation

CONSTANTS
    Node, Peer,
    Lists       \* the version lists a user may give

ASSUME ListsAssumption == Lists \subseteq Seq(Version) \ {<<>>}
ASSUME PeersAssumption ==
    Peer \in [Node -> Node] /\ \A n \in Node : Peer[Peer[n]] = n

VARIABLES
    list,       \* list[n]: the versions of n's user
    kept,       \* kept[n]: positions of it not erased yet
    offered,    \* offered[n]: versions of the Hellos n has sent
    phase       \* where the Hello exchange stands at n

vars == <<list, kept, offered, phase>>

Init ==
    /\ list \in [Node -> Lists]
    /\ kept = [n \in Node |-> DOMAIN list[n]]
    /\ offered = [n \in Node |-> {}]
    /\ phase = [n \in Node |-> "idle"]

Highest(n, positions) == chooseHighestVersion(list[n], positions)

(* handleInitial: the first Hello. *)
Offer(n) ==
    /\ phase[n] = "idle"
    /\ phase' = [phase EXCEPT ![n] = "exchanging"]
    /\ offered' = [offered EXCEPT ![n] = {Highest(n, kept[n])}]
    /\ UNCHANGED <<list, kept>>

(* Mutant: a higher version of the peer is taken for the same. *)
SettleBelow(n, version) ==
    /\ phase[n] = "exchanging"
    /\ Prefix(Highest(n, kept[n])) <= Prefix(version)
    /\ phase' = [phase EXCEPT ![n] = "settled"]
    /\ UNCHANGED <<list, kept, offered>>

(* A Hello with the same version. *)
Settle(n, version) ==
    /\ phase[n] = "exchanging"
    /\ SameVersion(list[n], kept[n], version)
    /\ phase' = [phase EXCEPT ![n] = "settled"]
    /\ UNCHANGED <<list, kept, offered>>

(* A Hello with a lower version: erase, and offer what is left. *)
Lower(n, version) ==
    LET left == LowerVersions(list[n], kept[n], version) IN
    /\ phase[n] = "exchanging"
    /\ ~ SameVersion(list[n], kept[n], version)
    /\ left # {}
    /\ kept' = [kept EXCEPT ![n] = left]
    /\ offered' = [offered EXCEPT ![n] = @ \cup {Highest(n, left)}]
    /\ UNCHANGED <<list, phase>>

(* ... and nothing is left: UnsupportedVersion. *)
Refuse(n, version) ==
    /\ phase[n] = "exchanging"
    /\ ~ SameVersion(list[n], kept[n], version)
    /\ LowerVersions(list[n], kept[n], version) = {}
    /\ kept' = [kept EXCEPT ![n] = {}]
    /\ phase' = [phase EXCEPT ![n] = "stopped"]
    /\ UNCHANGED <<list, offered>>

Receive(n) ==
    \/ \E version \in offered[Peer[n]] : Settle(n, version)
    \/ \E version \in offered[Peer[n]] : Lower(n, version)
    \/ \E version \in offered[Peer[n]] : Refuse(n, version)

(* An Error ends the exchange from outside. *)
Stop(n) ==
    /\ phase[n] \in {"exchanging", "settled"}
    /\ phase' = [phase EXCEPT ![n] = "stopped"]
    /\ UNCHANGED <<list, kept, offered>>

Next == \E n \in Node : Offer(n) \/ Receive(n) \/ Stop(n)

Spec == Init /\ [][Next]_vars

(* T1 resends the Hello, so an offer that has an effect arrives; nothing   *)
(* says that an Error does.                                                *)
Fairness == \A n \in Node : WF_vars(Offer(n)) /\ WF_vars(Receive(n))

FairSpec == Spec /\ Fairness

-----------------------------------------------------------------------------
(* The variables hold what the code's lists and Hellos can. *)
TypeOK ==
    /\ list \in [Node -> Lists]
    /\ kept \in [Node -> SUBSET Nat]
    /\ \A n \in Node : kept[n] \subseteq DOMAIN list[n]
    /\ offered \in [Node -> SUBSET Version]
    /\ phase \in [Node -> {"idle", "exchanging", "settled", "stopped"}]

Common(n) == Elements(list[n]) \cap Elements(list[Peer[n]])

(* compareVersions, called in any order for Hellos that come late, never   *)
(* takes a common version from either list: no Hello is below it.          *)
CommonKept ==
    \A n \in Node : \A i \in DOMAIN list[n] :
       list[n][i] \in Common(n) => i \in kept[n]

(* Two endpoints that have left the Hello exchange have the same version,  *)
(* although each decided alone and perhaps from an old Hello.              *)
SettledAlike ==
    \A n \in Node : phase[n] = "settled" /\ phase[Peer[n]] = "settled" =>
       SameVersion(list[n], kept[n], Highest(Peer[n], kept[Peer[n]]))

(* An endpoint settles on nothing below the best its peer could do. *)
SettledHighest ==
    \A n \in Node : phase[n] = "settled" =>
       \A version \in Common(n) : Prefix(Highest(n, kept[n])) >= Prefix(version)

(* Endpoints with a version in common settle on one, unless one of them    *)
(* stops: each Hello that shows a lower version makes progress, although   *)
(* compareVersions skips entries.                                          *)
CommonVersionFound ==
    (\A n \in Node : Common(n) # {}) ~>
       (\/ \A n \in Node : phase[n] = "settled"
        \/ \E n \in Node : phase[n] = "stopped")

(* The comment in compareVersions: "erase all versions higher then         *)
(* peerVersion".                                                           *)
HigherVersionsErased ==
    [][\A n \in Node : kept'[n] # kept[n] =>
          \E version \in offered[Peer[n]] :
             \A i \in kept'[n] : list[n][i] <= version]_vars
=============================================================================
