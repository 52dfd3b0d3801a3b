-------------------------- MODULE MCNetworkManager --------------------------
(* The two applications of the demo. *)
EXTENDS NetworkManager

CONSTANTS Alice, Bob

MCApp == {Alice, Bob}
MCPeer == [n \in MCApp |-> IF n = Alice THEN Bob ELSE Alice]
MCRole == [n \in MCApp |-> IF n = Alice THEN "Initiator" ELSE "Responder"]

Times(k) == [n \in MCApp |-> k]
OnceOrTwice == {Times(1), Times(2)}
=============================================================================
