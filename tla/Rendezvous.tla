----------------------------- MODULE Rendezvous -----------------------------
(***************************************************************************)
(* What the two system semaphores are there for, without threads, signals  *)
(* or datagrams: two applications run one key agreement after the other    *)
(* and neither starts the next before both have ended the one they are in. *)
(* Round 0 is the start of the two programs.                               *)
(***************************************************************************)
EXTENDS Integers

CONSTANTS App, Peer

VARIABLES
    round,      \* the key agreement an application is in
    done        \* has it ended with an agreement?

Init ==
    /\ round = [n \in App |-> 0]
    /\ done = [n \in App |-> FALSE]

(* The key agreement both are in ends at n. *)
Arrive(n) ==
    /\ ~ done[n]
    /\ round[Peer[n]] = round[n]
    /\ done' = [done EXCEPT ![n] = TRUE]
    /\ round' = round

(* n goes on: its peer has ended the round too, or is in the next already. *)
Depart(n) ==
    /\ done[n]
    /\ \/ round[Peer[n]] = round[n] /\ done[Peer[n]]
       \/ round[Peer[n]] = round[n] + 1
    /\ round' = [round EXCEPT ![n] = @ + 1]
    /\ done' = [done EXCEPT ![n] = FALSE]

Next == \E n \in App : Arrive(n) \/ Depart(n)

Spec == Init /\ [][Next]_<<round, done>>
=============================================================================
