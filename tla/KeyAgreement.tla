---------------------------- MODULE KeyAgreement ----------------------------
(***************************************************************************)
(* What a ZRTP session promises to its two users, seen only through the    *)
(* callbacks keyAgreed and agreementFailed (ZRTP/ZrtpCallback.h): a node   *)
(* is told once how the session ended, two nodes are never told different  *)
(* things, and both get the same secret.                                   *)
(***************************************************************************)
CONSTANTS Node, Peer, Secret, None

VARIABLES
    outcome,    \* what the user of a node has been told
    secret      \* the SRTP keys, salts and SAS it got with it

Init ==
    /\ outcome = [n \in Node |-> "running"]
    /\ secret = [n \in Node |-> None]

(* keyAgreed: not against a peer that failed, nor with another secret. *)
Agree(n) ==
    /\ outcome[n] = "running"
    /\ outcome[Peer[n]] # "failed"
    /\ outcome' = [outcome EXCEPT ![n] = "agreed"]
    /\ secret'[n] \in Secret
    /\ secret' = [secret EXCEPT ![n] = secret'[n]]
    /\ outcome[Peer[n]] = "agreed" => secret'[n] = secret[Peer[n]]

(* agreementFailed: not against a peer that agreed. *)
Fail(n) ==
    /\ outcome[n] = "running"
    /\ outcome[Peer[n]] # "agreed"
    /\ outcome' = [outcome EXCEPT ![n] = "failed"]
    /\ secret' = secret

Next == \E n \in Node : Agree(n) \/ Fail(n)

Spec == Init /\ [][Next]_<<outcome, secret>>
=============================================================================
