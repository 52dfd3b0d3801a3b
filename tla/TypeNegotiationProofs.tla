----------------------- MODULE TypeNegotiationProofs -----------------------
(***************************************************************************)
(* For any two lists of rated types, the types two endpoints choose alone  *)
(* are the same, and a Commit that names one is accepted; and for any      *)
(* lists that fit a Hello the peer reads what the user has given.          *)
(***************************************************************************)
EXTENDS TypeNegotiation, NegotiationProofs, SequenceTheorems

Chosen(n) == chooseAlgorithm(types[n], types[Peer[n]])

(* What has been chosen is what the two lists say, and common to them. *)
ChosenFromLists ==
    /\ types \in [Node -> TypeLists]
    /\ chosen \in [Node -> RatedTypes \cup {"none"}]
    /\ answer \in [Node -> {"unasked", "none", "KeyExchangeNotSupported"}]
    /\ \A n \in Node : chosen[n] # "none" =>
          /\ chosen[n] = Chosen(n)
          /\ chosen[n] \in Elements(types[n]) \cap Elements(types[Peer[n]])

IInv == ChosenFromLists /\ CommitAcceptable

-----------------------------------------------------------------------------
LEMMA ListsAreRated ==
    ASSUME ChosenFromLists, NEW n \in Node
    PROVE  types[n] \in Seq(RatedTypes) /\ Peer[n] \in Node /\ Peer[Peer[n]] = n
BY TypeListsAssumption, PeersAssumption DEF ChosenFromLists

LEMMA InitImpliesIInv == Init => IInv
BY DEF Init, IInv, ChosenFromLists, CommitAcceptable

LEMMA ChooseKeeps ==
    ASSUME IInv, NEW n \in Node, Choose(n)
    PROVE  IInv'
<1>1. types[n] \in Seq(RatedTypes) /\ types[Peer[n]] \in Seq(RatedTypes)
  BY ListsAreRated DEF IInv
<1>2. /\ Chosen(n) \in Elements(types[n]) \cap Elements(types[Peer[n]])
      /\ Chosen(n) \in RatedTypes
  BY <1>1, ChosenTypeIsCommon DEF Choose, Chosen
<1>3. /\ chosen' = [chosen EXCEPT ![n] = Chosen(n)]
      /\ types' = types /\ answer' = answer
  BY DEF Choose, Chosen
<1>4. \A k \in Node : Chosen(k)' = Chosen(k)
  BY <1>3 DEF Chosen
<1> QED
  BY <1>2, <1>3, <1>4 DEF IInv, ChosenFromLists, CommitAcceptable

LEMMA AnswerKeeps ==
    ASSUME IInv, NEW n \in Node, Answer(n)
    PROVE  IInv'
<1>1. Peer[n] \in Node /\ Peer[Peer[n]] = n
  BY ListsAreRated DEF IInv
<1>2. chosen[Peer[n]] \in Elements(types[n])
  BY <1>1 DEF IInv, ChosenFromLists, Answer
<1>3. answer' = [answer EXCEPT ![n] = "none"]
  BY <1>2 DEF Answer, Compatibility
<1>4. types' = types /\ chosen' = chosen
  BY DEF Answer
<1>5. \A k \in Node : Chosen(k)' = Chosen(k)
  BY <1>4 DEF Chosen
<1> QED
  BY <1>3, <1>4, <1>5 DEF IInv, ChosenFromLists, CommitAcceptable

LEMMA NextKeepsIInv == IInv /\ [Next]_vars => IInv'
<1> SUFFICES ASSUME IInv, [Next]_vars PROVE IInv'
  OBVIOUS
<1>1. CASE UNCHANGED vars
  BY <1>1 DEF vars, IInv, ChosenFromLists, CommitAcceptable, Chosen
<1>2. CASE Next
  BY <1>2, ChooseKeeps, AnswerKeeps DEF Next
<1> QED
  BY <1>1, <1>2

LEMMA NegotiationInvariant == Spec => []IInv
BY InitImpliesIInv, NextKeepsIInv, PTL DEF Spec

(* Two endpoints that chose a type from the Hellos, each starting from its *)
(* own list, chose the same one.                                           *)
THEOREM TypeChoiceShared == Spec => []ChoiceShared
<1>1. IInv => ChoiceShared
  <2> SUFFICES ASSUME IInv, NEW n \in Node,
                      chosen[n] # "none", chosen[Peer[n]] # "none"
               PROVE  chosen[n] = chosen[Peer[n]]
    BY DEF ChoiceShared
  <2>1. /\ Peer[n] \in Node /\ Peer[Peer[n]] = n
        /\ types[n] \in Seq(RatedTypes) /\ types[Peer[n]] \in Seq(RatedTypes)
    BY ListsAreRated DEF IInv
  <2>2. chosen[n] = Chosen(n) /\ chosen[Peer[n]] = Chosen(Peer[n])
    BY <2>1 DEF IInv, ChosenFromLists
  <2>3. HaveCommonType(types[n], types[Peer[n]])
    BY <2>1 DEF IInv, ChosenFromLists, HaveCommonType
  <2> QED
    BY <2>1, <2>2, <2>3, ChoiceCommutes DEF Chosen
<1> QED
  BY <1>1, NegotiationInvariant, PTL

(* checkCompatibility never turns down the type the peer chose. *)
THEOREM CommitsAcceptable == Spec => []CommitAcceptable
<1>1. IInv => CommitAcceptable
  BY DEF IInv
<1> QED
  BY <1>1, NegotiationInvariant, PTL

-----------------------------------------------------------------------------
(* The Hello on the wire: where a list was written there it is read, for   *)
(* the counts come through their halves of a byte unchanged.               *)

(* The words of data after the first pos are those of list. *)
Holds(data, pos, list) ==
    /\ pos + Len(list) <= Len(data)
    /\ \A i \in 1 .. Len(list) : data[pos + i] = list[i]

LEMMA Appended ==
    ASSUME NEW S, NEW data \in Seq(S), NEW list \in Seq(S)
    PROVE  /\ data \o list \in Seq(S)
           /\ Len(data \o list) = Len(data) + Len(list)
           /\ Holds(data \o list, Len(data), list)
<1>1. /\ data \o list \in Seq(S)
      /\ Len(data \o list) = Len(data) + Len(list)
      /\ \A i \in 1 .. Len(data) + Len(list) : (data \o list)[i] =
            IF i <= Len(data) THEN data[i] ELSE list[i - Len(data)]
  BY ConcatProperties
<1>2. Len(data) \in Nat /\ Len(list) \in Nat
  BY LenProperties
<1> QED
  BY <1>1, <1>2 DEF Holds

LEMMA StaysWritten ==
    ASSUME NEW S, NEW data \in Seq(S), NEW more \in Seq(S), NEW list \in Seq(S),
           NEW pos \in Nat, Holds(data, pos, list)
    PROVE  Holds(data \o more, pos, list)
<1>1. /\ Len(data \o more) = Len(data) + Len(more)
      /\ \A i \in 1 .. Len(data) + Len(more) : (data \o more)[i] =
            IF i <= Len(data) THEN data[i] ELSE more[i - Len(data)]
  BY ConcatProperties
<1>2. Len(data) \in Nat /\ Len(more) \in Nat /\ Len(list) \in Nat
  BY LenProperties
<1> QED
  BY <1>1, <1>2 DEF Holds

LEMMA ReadWhereWritten ==
    ASSUME NEW S, NEW data \in Seq(S), NEW list \in Seq(S), NEW pos \in Nat,
           Holds(data, pos, list)
    PROVE  SubSeq(data, pos + 1, pos + Len(list)) = list
<1> DEFINE read == SubSeq(data, pos + 1, pos + Len(list))
<1>1. Len(data) \in Nat /\ Len(list) \in Nat
  BY LenProperties
<1>2. \A i \in pos + 1 .. pos + Len(list) : data[i] \in S
  BY <1>1, ElementOfSeq DEF Holds
<1>3. /\ read \in Seq(S) /\ Len(read) = Len(list)
      /\ \A i \in 1 .. Len(list) : read[i] = data[pos + 1 + i - 1]
  BY <1>1, <1>2, SubSeqProperties
<1>4. \A i \in 1 .. Len(list) : read[i] = list[i]
  BY <1>1, <1>3 DEF Holds
<1> QED
  BY <1>3, <1>4, SeqEqual

LEMMA ReadFromStart ==
    ASSUME NEW S, NEW data \in Seq(S), NEW list \in Seq(S), Holds(data, 0, list)
    PROVE  SubSeq(data, 1, Len(list)) = list
<1>1. Len(list) \in Nat
  BY LenProperties
<1>2. SubSeq(data, 0 + 1, 0 + Len(list)) = list
  BY ReadWhereWritten
<1> QED
  BY <1>1, <1>2

LEMMA WholeList ==
    ASSUME NEW S, NEW list \in Seq(S)
    PROVE  SubSeq(list, 1, Len(list)) = list
<1>1. Holds(list, 0, list)
  BY LenProperties DEF Holds
<1> QED
  BY <1>1, ReadFromStart

(* Lists written one after the other are read where the lengths of those   *)
(* before them say.                                                        *)
ListsRead(head, l1, l2, l3, l4, l5, mac) ==
    LET data == head \o l1 \o l2 \o l3 \o l4 \o l5 \o mac
        p1 == Len(head)
        p2 == p1 + Len(l1)
        p3 == p2 + Len(l2)
        p4 == p3 + Len(l3)
        p5 == p4 + Len(l4)
        p6 == p5 + Len(l5)
    IN  /\ Len(data) = p6 + Len(mac)
        /\ \A i \in 1 .. p1 : data[i] = head[i]
        /\ SubSeq(data, p1 + 1, p2) = l1 /\ SubSeq(data, p2 + 1, p3) = l2
        /\ SubSeq(data, p3 + 1, p4) = l3 /\ SubSeq(data, p4 + 1, p5) = l4
        /\ SubSeq(data, p5 + 1, p6) = l5
        /\ SubSeq(data, p6 + 1, p6 + Len(mac)) = mac
        /\ SubSeq(data, 1, p6) \o mac = data

LEMMA ListsComeThrough ==
    ASSUME NEW S, NEW head \in Seq(S), NEW mac \in Seq(S),
           NEW l1 \in Seq(S), NEW l2 \in Seq(S), NEW l3 \in Seq(S),
           NEW l4 \in Seq(S), NEW l5 \in Seq(S)
    PROVE  ListsRead(head, l1, l2, l3, l4, l5, mac)
<1> DEFINE data == head \o l1 \o l2 \o l3 \o l4 \o l5 \o mac
           p1 == Len(head)
           p2 == p1 + Len(l1)
           p3 == p2 + Len(l2)
           p4 == p3 + Len(l3)
           p5 == p4 + Len(l4)
           p6 == p5 + Len(l5)
<1> SUFFICES
      /\ Len(data) = p6 + Len(mac)
      /\ \A i \in 1 .. p1 : data[i] = head[i]
      /\ SubSeq(data, p1 + 1, p2) = l1 /\ SubSeq(data, p2 + 1, p3) = l2
      /\ SubSeq(data, p3 + 1, p4) = l3 /\ SubSeq(data, p4 + 1, p5) = l4
      /\ SubSeq(data, p5 + 1, p6) = l5
      /\ SubSeq(data, p6 + 1, p6 + Len(mac)) = mac
      /\ SubSeq(data, 1, p6) \o mac = data
  BY Zenon DEF ListsRead
<1>0. /\ data = head \o l1 \o l2 \o l3 \o l4 \o l5 \o mac
      /\ p1 = Len(head) /\ p2 = p1 + Len(l1) /\ p3 = p2 + Len(l2)
      /\ p4 = p3 + Len(l3) /\ p5 = p4 + Len(l4) /\ p6 = p5 + Len(l5)
  BY Zenon
<1> HIDE DEF data, p1, p2, p3, p4, p5, p6
<1> DEFINE d1 == head \o l1
           d2 == d1 \o l2
           d3 == d2 \o l3
           d4 == d3 \o l4
           d5 == d4 \o l5
<1>1. d1 \in Seq(S) /\ Len(d1) = p2 /\ Holds(d1, p1, l1)
  BY <1>0, Appended
<1>2. Holds(head, 0, head)
  BY LenProperties DEF Holds
<1>3. Holds(d1, 0, head)
  BY <1>2, StaysWritten
<1> HIDE DEF d1
<1>4. d2 \in Seq(S) /\ Len(d2) = p3 /\ Holds(d2, p2, l2)
  <2>1. d1 \in Seq(S) /\ Len(d1) = p2
    BY <1>1
  <2>2. d2 \in Seq(S) /\ Len(d2) = Len(d1) + Len(l2) /\ Holds(d2, Len(d1), l2)
    BY <2>1, Appended
  <2> QED
    BY <1>0, <2>1, <2>2
<1> HIDE DEF d2
<1>5. d3 \in Seq(S) /\ Len(d3) = p4 /\ Holds(d3, p3, l3)
  BY <1>0, <1>4, Appended
<1> HIDE DEF d3
<1>6. d4 \in Seq(S) /\ Len(d4) = p5 /\ Holds(d4, p4, l4)
  BY <1>0, <1>5, Appended
<1> HIDE DEF d4
<1>7. d5 \in Seq(S) /\ Len(d5) = p6 /\ Holds(d5, p5, l5)
  BY <1>0, <1>6, Appended
<1>8. data = d5 \o mac
  BY <1>0 DEF d4, d3, d2, d1
<1> HIDE DEF d5
<1>9. data \in Seq(S) /\ Len(data) = p6 + Len(mac) /\ Holds(data, p6, mac)
  BY <1>7, <1>8, Appended
<1>10. /\ p1 \in Nat /\ p2 \in Nat /\ p3 \in Nat /\ p4 \in Nat /\ p5 \in Nat /\ p6 \in Nat
  BY <1>0, <1>1, <1>4, <1>5, <1>6, <1>7, LenProperties
<1>11. ASSUME NEW list \in Seq(S), NEW pos \in Nat, Holds(d1, pos, list)
       PROVE  Holds(d2, pos, list)
  BY <1>1, <1>11, StaysWritten DEF d2
<1>12. ASSUME NEW list \in Seq(S), NEW pos \in Nat, Holds(d2, pos, list)
       PROVE  Holds(d3, pos, list)
  BY <1>4, <1>12, StaysWritten DEF d3
<1>13. ASSUME NEW list \in Seq(S), NEW pos \in Nat, Holds(d3, pos, list)
       PROVE  Holds(d4, pos, list)
  BY <1>5, <1>13, StaysWritten DEF d4
<1>14. ASSUME NEW list \in Seq(S), NEW pos \in Nat, Holds(d4, pos, list)
       PROVE  Holds(d5, pos, list)
  BY <1>6, <1>14, StaysWritten DEF d5
<1>15. ASSUME NEW list \in Seq(S), NEW pos \in Nat, Holds(d5, pos, list)
       PROVE  Holds(data, pos, list)
  BY <1>7, <1>8, <1>15, StaysWritten
<1>16. Holds(data, 0, head) /\ Holds(data, p1, l1)
  BY <1>1, <1>3, <1>10, <1>11, <1>12, <1>13, <1>14, <1>15
<1>17. Holds(data, p2, l2) /\ Holds(data, p3, l3)
  BY <1>4, <1>5, <1>10, <1>12, <1>13, <1>14, <1>15
<1>18. Holds(data, p4, l4) /\ Holds(data, p5, l5)
  BY <1>6, <1>7, <1>10, <1>14, <1>15
<1>19. /\ SubSeq(data, p1 + 1, p2) = l1 /\ SubSeq(data, p2 + 1, p3) = l2
       /\ SubSeq(data, p3 + 1, p4) = l3 /\ SubSeq(data, p4 + 1, p5) = l4
       /\ SubSeq(data, p5 + 1, p6) = l5 /\ SubSeq(data, p6 + 1, p6 + Len(mac)) = mac
  <2>1. ASSUME NEW list \in Seq(S), NEW pos \in Nat, Holds(data, pos, list)
        PROVE  SubSeq(data, pos + 1, pos + Len(list)) = list
    BY <1>9, <2>1, ReadWhereWritten
  <2>2. SubSeq(data, p1 + 1, p2) = l1 /\ SubSeq(data, p2 + 1, p3) = l2
    BY <1>0, <1>10, <1>16, <1>17, <2>1
  <2>3. SubSeq(data, p3 + 1, p4) = l3 /\ SubSeq(data, p4 + 1, p5) = l4
    BY <1>0, <1>10, <1>17, <1>18, <2>1
  <2>4. SubSeq(data, p5 + 1, p6) = l5 /\ SubSeq(data, p6 + 1, p6 + Len(mac)) = mac
    BY <1>0, <1>9, <1>10, <1>18, <2>1
  <2> QED
    BY <2>2, <2>3, <2>4
<1>20. SubSeq(data, 1, p6) = d5
  <2>1. Holds(d5, 0, d5)
    BY <1>7, <1>10 DEF Holds
  <2>2. Holds(data, 0, d5)
    BY <1>7, <1>15, <2>1
  <2>3. SubSeq(data, 1, Len(d5)) = d5
    BY <1>7, <1>9, <2>2, ReadFromStart
  <2> QED
    BY <1>7, <2>3
<1>21. \A i \in 1 .. p1 : data[i] = head[i]
  BY <1>0, <1>10, <1>16 DEF Holds
<1> QED
  BY <1>8, <1>9, <1>19, <1>20, <1>21

LEMMA CountsComeThrough ==
    ASSUME NEW counts,
           counts[1] \in 0 .. 15, counts[2] \in 0 .. 15, counts[3] \in 0 .. 15,
           counts[4] \in 0 .. 15, counts[5] \in 0 .. 15
    PROVE  /\ Unpacked(Packed(counts))[1] = counts[1]
           /\ Unpacked(Packed(counts))[2] = counts[2]
           /\ Unpacked(Packed(counts))[3] = counts[3]
           /\ Unpacked(Packed(counts))[4] = counts[4]
           /\ Unpacked(Packed(counts))[5] = counts[5]
<1>1. \A a, b \in 0 .. 15 :
         /\ ((a * 16 + b) % 256) \div 16 = a /\ ((a * 16 + b) % 256) % 16 = b
         /\ a % 16 = a
  OBVIOUS
<1> QED
  BY <1>1 DEF Unpacked, Packed

LEMMA SmallCount == \A x \in Nat : x <= 7 => x \in 0 .. 15 /\ x % 16 = x
OBVIOUS

LEMMA PartsAppended ==
    ASSUME NEW S, NEW a \in Seq(S), NEW b \in Seq(S), NEW c \in Seq(S)
    PROVE  /\ a \o b \o c \in Seq(S)
           /\ Len(a \o b \o c) = Len(a) + Len(b) + Len(c)
           /\ Holds(a \o b \o c, 0, a)
           /\ Holds(a \o b \o c, Len(a) + Len(b), c)
<1> DEFINE d == a \o b
<1>1. d \in Seq(S) /\ Len(d) = Len(a) + Len(b)
  BY Appended
<1>2. Holds(a, 0, a)
  BY LenProperties DEF Holds
<1>3. Holds(d, 0, a)
  BY <1>2, StaysWritten
<1> HIDE DEF d
<1>4. Holds(d \o c, 0, a)
  BY <1>1, <1>3, StaysWritten
<1>5. d \o c \in Seq(S) /\ Len(d \o c) = Len(d) + Len(c) /\ Holds(d \o c, Len(d), c)
  BY <1>1, Appended
<1>6. d \o c = a \o b \o c
  BY DEF d
<1> QED
  BY <1>1, <1>4, <1>5, <1>6

LEMMA HeadComesThrough ==
    ASSUME NEW S, NEW a \in Seq(S), NEW b \in Seq(S), NEW c \in Seq(S),
           Len(a) = 1, Len(b) = 18, Len(c) = 1
    PROVE  /\ a \o b \o c \in Seq(S) /\ Len(a \o b \o c) = 20
           /\ (a \o b \o c)[1] = a[1] /\ (a \o b \o c)[20] = c[1]
<1>1. /\ a \o b \o c \in Seq(S)
      /\ Len(a \o b \o c) = Len(a) + Len(b) + Len(c)
      /\ Holds(a \o b \o c, 0, a)
      /\ Holds(a \o b \o c, Len(a) + Len(b), c)
  BY PartsAppended
<1> QED
  BY <1>1 DEF Holds

LEMMA ListOfHello ==
    ASSUME NEW Type, NEW list \in Seq(Type), Len(list) <= 7
    PROVE  /\ Len(list) \in 0 .. 15 /\ Len(list) % 16 = Len(list)
           /\ SubSeq(list, 1, Len(list)) = list
<1>1. Len(list) \in Nat
  BY LenProperties
<1> QED
  BY <1>1, SmallCount, WholeList

(* The Hello as a whole, its five lists named one by one. *)
LEMMA HelloComesThrough ==
    ASSUME NEW info, NEW Type, NEW mac \in Seq(Type), Len(mac) = MacWords,
           NEW l1 \in Seq(Type), NEW l2 \in Seq(Type), NEW l3 \in Seq(Type),
           NEW l4 \in Seq(Type), NEW l5 \in Seq(Type),
           info[Kinds[1]] = l1, info[Kinds[2]] = l2, info[Kinds[3]] = l3,
           info[Kinds[4]] = l4, info[Kinds[5]] = l5, HelloFits(info)
    PROVE  ReadsBack(info, mac)
<1> DEFINE counts == Counts(info)
           packed == Packed(counts)
           first == [length |-> length(info)]
           fields == [i \in 1 .. FixedWords - 1 |-> "field"]
           head == <<first>> \o fields \o <<packed>>
           Words == Type \cup {first, packed, "field"}
           data == toBytes(info, mac)
<1>1. DOMAIN Kinds = 1 .. 5
  BY DEF Kinds
<1>2. Len(l1) <= 7 /\ Len(l2) <= 7 /\ Len(l3) <= 7 /\ Len(l4) <= 7 /\ Len(l5) <= 7
  <2>1. \A k \in 1 .. 5 : Len(info[Kinds[k]]) <= 7
    BY <1>1 DEF HelloFits, MaxTypes
  <2> QED
    BY <2>1
<1>3. /\ counts[1] = Len(l1) % 16 /\ counts[2] = Len(l2) % 16 /\ counts[3] = Len(l3) % 16
      /\ counts[4] = Len(l4) % 16 /\ counts[5] = Len(l5) % 16
  <2>1. \A k \in 1 .. 5 : counts[k] = Len(info[Kinds[k]]) % 16
    BY <1>1 DEF Counts
  <2> HIDE DEF counts
  <2>2. /\ counts[1] = Len(info[Kinds[1]]) % 16 /\ counts[2] = Len(info[Kinds[2]]) % 16
        /\ counts[3] = Len(info[Kinds[3]]) % 16 /\ counts[4] = Len(info[Kinds[4]]) % 16
        /\ counts[5] = Len(info[Kinds[5]]) % 16
    <3>1. 1 \in 1 .. 5 /\ 2 \in 1 .. 5 /\ 3 \in 1 .. 5 /\ 4 \in 1 .. 5 /\ 5 \in 1 .. 5
      OBVIOUS
    <3> QED
      BY <2>1, <3>1, Zenon
  <2> QED
    BY <2>2
<1>4. /\ counts[1] = Len(l1) /\ counts[2] = Len(l2) /\ counts[3] = Len(l3)
      /\ counts[4] = Len(l4) /\ counts[5] = Len(l5)
  <2> HIDE DEF counts
  <2> QED
    BY <1>2, <1>3, ListOfHello
<1>5. /\ SubSeq(l1, 1, counts[1]) = l1 /\ SubSeq(l2, 1, counts[2]) = l2
      /\ SubSeq(l3, 1, counts[3]) = l3 /\ SubSeq(l4, 1, counts[4]) = l4
      /\ SubSeq(l5, 1, counts[5]) = l5
  <2> HIDE DEF counts
  <2> QED
    BY <1>2, <1>4, ListOfHello
<1>6. data = head \o l1 \o l2 \o l3 \o l4 \o l5 \o mac
  <2>1. data = head \o SubSeq(l1, 1, counts[1]) \o SubSeq(l2, 1, counts[2])
          \o SubSeq(l3, 1, counts[3]) \o SubSeq(l4, 1, counts[4])
          \o SubSeq(l5, 1, counts[5]) \o mac
    BY DEF toBytes
  <2> HIDE DEF data, head, counts
  <2> QED
    BY <1>5, <2>1
<1>7. length(info) = 22 + Len(l1) + Len(l2) + Len(l3) + Len(l4) + Len(l5)
  <2>1. length(info) = FixedWords + 1 + MacWords
                         + Len(l1) + Len(l2) + Len(l3) + Len(l4) + Len(l5)
    BY DEF length
  <2>2. FixedWords + 1 + MacWords = 22
    BY DEF FixedWords, MacWords
  <2> QED
    BY <2>1, <2>2
<1>8. /\ head \in Seq(Words) /\ Len(head) = 20
      /\ head[1] = first /\ head[20] = packed
  <2>1. <<first>> \in Seq(Words) /\ <<packed>> \in Seq(Words) /\ fields \in Seq(Words)
    <3>1. first \in Words /\ packed \in Words /\ "field" \in Words
      OBVIOUS
    <3> HIDE DEF Words, first, packed
    <3> QED
      BY <3>1 DEF FixedWords
  <2>2. Len(<<first>>) = 1 /\ Len(<<packed>>) = 1 /\ Len(fields) = 18
    BY DEF FixedWords
  <2>3. <<first>>[1] = first /\ <<packed>>[1] = packed
    OBVIOUS
  <2> HIDE DEF first, packed, fields, Words
  <2>4. /\ head \in Seq(Words) /\ Len(head) = 20
        /\ head[1] = <<first>>[1] /\ head[20] = <<packed>>[1]
    <3>1. \A a, b, c \in Seq(Words) : Len(a) = 1 /\ Len(b) = 18 /\ Len(c) = 1 =>
             /\ a \o b \o c \in Seq(Words) /\ Len(a \o b \o c) = 20
             /\ (a \o b \o c)[1] = a[1] /\ (a \o b \o c)[20] = c[1]
      BY HeadComesThrough
    <3>2. head = <<first>> \o fields \o <<packed>>
      BY Zenon
    <3> HIDE DEF head
    <3> QED
      BY <2>1, <2>2, <3>1, <3>2, Zenon
  <2> QED
    BY <2>3, <2>4, Zenon
<1>9. /\ l1 \in Seq(Words) /\ l2 \in Seq(Words) /\ l3 \in Seq(Words)
      /\ l4 \in Seq(Words) /\ l5 \in Seq(Words) /\ mac \in Seq(Words)
  <2>1. Type \subseteq Words
    OBVIOUS
  <2> HIDE DEF Words
  <2> QED
    BY <2>1, SeqMonotonic
<1> HIDE DEF head, data, Words, packed, first
<1> DEFINE p2 == 20 + Len(l1)
           p3 == p2 + Len(l2)
           p4 == p3 + Len(l3)
           p5 == p4 + Len(l4)
           p6 == p5 + Len(l5)
<1>10. /\ Len(data) = p6 + Len(mac)
       /\ \A i \in 1 .. 20 : data[i] = head[i]
       /\ SubSeq(data, 20 + 1, p2) = l1 /\ SubSeq(data, p2 + 1, p3) = l2
       /\ SubSeq(data, p3 + 1, p4) = l3 /\ SubSeq(data, p4 + 1, p5) = l4
       /\ SubSeq(data, p5 + 1, p6) = l5
       /\ SubSeq(data, p6 + 1, p6 + Len(mac)) = mac
       /\ SubSeq(data, 1, p6) \o mac = data
  <2> DEFINE it == head \o l1 \o l2 \o l3 \o l4 \o l5 \o mac
             q1 == Len(head)
             q2 == q1 + Len(l1)
             q3 == q2 + Len(l2)
             q4 == q3 + Len(l3)
             q5 == q4 + Len(l4)
             q6 == q5 + Len(l5)
  <2>1. /\ Len(it) = q6 + Len(mac)
        /\ \A i \in 1 .. q1 : it[i] = head[i]
        /\ SubSeq(it, q1 + 1, q2) = l1 /\ SubSeq(it, q2 + 1, q3) = l2
        /\ SubSeq(it, q3 + 1, q4) = l3 /\ SubSeq(it, q4 + 1, q5) = l4
        /\ SubSeq(it, q5 + 1, q6) = l5
        /\ SubSeq(it, q6 + 1, q6 + Len(mac)) = mac
        /\ SubSeq(it, 1, q6) \o mac = it
    <3>1. ListsRead(head, l1, l2, l3, l4, l5, mac)
      BY <1>8, <1>9, ListsComeThrough
    <3> QED
      BY <3>1, Zenon DEF ListsRead
  <2>2. it = data /\ q1 = 20
    BY <1>6, <1>8, Zenon
  <2>3. q2 = p2 /\ q3 = p3 /\ q4 = p4 /\ q5 = p5 /\ q6 = p6
    BY <2>2, Zenon
  <2> HIDE DEF it, q1, q2, q3, q4, q5, q6, p2, p3, p4, p5, p6
  <2> QED
    BY <2>1, <2>2, <2>3, Zenon
<1>11. data[1] = first /\ data[20] = packed
  BY <1>8, <1>10
<1>12. first.length = length(info)
  BY DEF first
<1>13. /\ Unpacked(packed)[1] = counts[1] /\ Unpacked(packed)[2] = counts[2]
       /\ Unpacked(packed)[3] = counts[3] /\ Unpacked(packed)[4] = counts[4]
       /\ Unpacked(packed)[5] = counts[5]
  <2> HIDE DEF counts
  <2>1. /\ counts[1] \in 0 .. 15 /\ counts[2] \in 0 .. 15 /\ counts[3] \in 0 .. 15
        /\ counts[4] \in 0 .. 15 /\ counts[5] \in 0 .. 15
    BY <1>2, <1>4, ListOfHello
  <2> QED
    BY <2>1, CountsComeThrough, Zenon DEF packed
<1> DEFINE read == parse(data)
<1>14. /\ read.length = length(info) /\ read.mac = mac
       /\ read.lists = <<l1, l2, l3, l4, l5>>
  <2> DEFINE q2 == 20 + Unpacked(data[20])[1]
             q3 == q2 + Unpacked(data[20])[2]
             q4 == q3 + Unpacked(data[20])[3]
             q5 == q4 + Unpacked(data[20])[4]
             q6 == q5 + Unpacked(data[20])[5]
  <2>1. q2 = p2 /\ q3 = p3 /\ q4 = p4 /\ q5 = p5 /\ q6 = p6
    BY <1>4, <1>11, <1>13, Zenon
  <2>2. FixedWords + 1 = 20 /\ FixedWords + 2 = 21 /\ MacWords = 2
    BY DEF FixedWords, MacWords
  <2>3. read = [length |-> data[1].length,
                lists  |-> <<SubSeq(data, 20 + 1, q2), SubSeq(data, q2 + 1, q3),
                             SubSeq(data, q3 + 1, q4), SubSeq(data, q4 + 1, q5),
                             SubSeq(data, q5 + 1, q6)>>,
                mac    |-> SubSeq(data, q6 + 1, q6 + 2)]
    BY <2>2, Zenon DEF parse
  <2> HIDE DEF read, p2, p3, p4, p5, p6, q2, q3, q4, q5, q6
  <2>4. read = [length |-> length(info), lists |-> <<l1, l2, l3, l4, l5>>, mac |-> mac]
    BY <1>10, <1>11, <1>12, <2>1, <2>2, <2>3, Zenon
  <2> QED
    BY <2>4
<1> HIDE DEF read
<1>15. Len(data) = read.length
  <2>1. MacWords = 2
    BY DEF MacWords
  <2>2. p6 + 2 = 22 + Len(l1) + Len(l2) + Len(l3) + Len(l4) + Len(l5)
    BY LenProperties
  <2> HIDE DEF p6
  <2> QED
    BY <1>7, <1>10, <1>14, <2>1, <2>2
<1>16. \A k \in 1 .. 5 : read.lists[k] = info[Kinds[k]]
  <2>1. /\ read.lists[1] = l1 /\ read.lists[2] = l2 /\ read.lists[3] = l3
        /\ read.lists[4] = l4 /\ read.lists[5] = l5
    BY <1>14
  <2> QED
    BY <2>1
<1>17. Authenticated(data, read.length) \o mac = data
  <2>1. read.length - MacWords = p6
    <3>1. Len(l1) \in Nat /\ Len(l2) \in Nat /\ Len(l3) \in Nat /\ Len(l4) \in Nat /\ Len(l5) \in Nat
      BY LenProperties
    <3> QED
      BY <1>7, <1>14, <3>1 DEF MacWords
  <2> HIDE DEF p2, p3, p4, p5, p6
  <2> QED
    BY <1>10, <2>1 DEF Authenticated
<1> QED
  BY <1>1, <1>14, <1>15, <1>16, <1>17 DEF ReadsBack, read, data

(* Whatever fits a Hello is read by the peer as the user has given it, and *)
(* protected by the MAC: toBytes, parse and the header's length, which     *)
(* count the entries separately, agree.                                    *)
THEOREM HelloIsReadBack == Spec => []HelloReadBack
<1>1. IInv => HelloReadBack
  <2> SUFFICES ASSUME IInv, NEW n \in Node, NEW others \in OtherLists
               PROVE  ReadsBack(Info(types[n], others), Mac)
    BY DEF HelloReadBack
  <2> DEFINE info == Info(types[n], others)
  <2>1. types[n] \in TypeLists /\ types[n] \in Seq(RatedTypes)
    BY ListsAreRated DEF IInv, ChosenFromLists
  <2> DEFINE Word == STRING \cup RatedTypes
  <2>2. STRING \subseteq Word /\ RatedTypes \subseteq Word
    OBVIOUS
  <2>3. types[n] \in Seq(Word)
    BY <2>1, <2>2, SeqMonotonic
  <2>4. HelloFits(info) /\ Mac \in Seq(Word) /\ Len(Mac) = MacWords
    BY <2>1, <2>2, HelloFitsAssumption, SeqMonotonic
  <2>5. /\ others.hashTypes \in Seq(Word) /\ others.cipherTypes \in Seq(Word)
        /\ others.authTagTypes \in Seq(Word) /\ others.sasTypes \in Seq(Word)
    BY <2>2, HelloFitsAssumption, SeqMonotonic
  <2>6. /\ info[Kinds[1]] = others.hashTypes /\ info[Kinds[2]] = others.cipherTypes
        /\ info[Kinds[3]] = others.authTagTypes /\ info[Kinds[4]] = types[n]
        /\ info[Kinds[5]] = others.sasTypes
    BY DEF Info, Kinds
  <2> HIDE DEF info, Word
  <2>7. ReadsBack(info, Mac)
    BY <2>3, <2>4, <2>5, <2>6, HelloComesThrough
  <2> QED
    BY <2>7 DEF info
<1> QED
  BY <1>1, NegotiationInvariant, PTL
=============================================================================
