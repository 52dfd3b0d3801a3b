------------------------- MODULE MCTypeNegotiation -------------------------
(* Every pair of lists of up to three of the five types the code rates,    *)
(* and the Hellos that carry them.                                         *)
EXTENDS TypeNegotiation

CONSTANTS Alice, Bob

MCNode == {Alice, Bob}
MCPeer == [n \in MCNode |-> IF n = Alice THEN Bob ELSE Alice]

NoRepeats(s) == \A i, j \in DOMAIN s : i # j => s[i] # s[j]
ShortLists ==
    {s \in UNION {[1 .. k -> RatedTypes] : k \in 1 .. 3} : NoRepeats(s)}

(* The user's other lists: none, one type each, as long as the arrays      *)
(* allow; the types are told apart.                                        *)
Several(k) == SubSeq(<<"1st ", "2nd ", "3rd ", "4th ", "5th ", "6th ", "7th ">>, 1, k)
MCOtherLists ==
    {[hashTypes |-> Several(k), cipherTypes |-> Several((k + 1) \div 2),
      authTagTypes |-> Several(k), sasTypes |-> Several(k)] : k \in {0, 1, MaxTypes}}
MCMac == <<"mac1", "mac2">>
=============================================================================
