------------------------- MODULE MCVersionExchange -------------------------
(* Two endpoints with every pair of short lists of four versions, two of   *)
(* which are the same version for the protocol (1.20 and 1.25).            *)
EXTENDS VersionExchange

CONSTANTS Alice, Bob

MCNode == {Alice, Bob}
MCPeer == [n \in MCNode |-> IF n = Alice THEN Bob ELSE Alice]

SomeVersions == {110, 120, 125, 130}
Distinct(s) == \A i, j \in DOMAIN s : i # j => s[i] # s[j]
ShortLists ==
    {s \in UNION {[1 .. k -> SomeVersions] : k \in 1 .. 3} : Distinct(s)}
=============================================================================
