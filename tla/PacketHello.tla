---------------------------- MODULE PacketHello ----------------------------
(***************************************************************************)
(* The Hello on the wire, in words of four bytes: toBytes writes it and    *)
(* parse reads it back, each with loops of its own over five lists whose   *)
(* numbers of entries are packed into one word (ZRTP/packethello.cpp).     *)
(* It is the one packet of the protocol that has no fixed length.          *)
(***************************************************************************)
EXTENDS Integers, Sequences

(* The five lists of UserInfo, in the order they are written. *)
Kinds == <<"hashTypes", "cipherTypes", "authTagTypes", "keyAgreementTypes", "sasTypes">>

(* Arrays of seven entries each; toBytes writes into MAX_HELLO_LENGTH bytes. *)
MaxTypes == 7
MaxHelloLength == 220 \div 4

(* identifier with length, type, version, clientId, h3 and zid; then the   *)
(* word of flags and counts; the MAC comes after the types.                *)
FixedWords == 1 + 2 + 1 + 4 + 8 + 3
MacWords == 2

(* Counts: bit fields of four bits, by position in Kinds. *)
Counts(info) == [k \in DOMAIN Kinds |-> Len(info[Kinds[k]]) % 16]

(* The header's length: the constructor counts the words without types     *)
(* (sizeof(Header) is 16, with the 32 bits of Integers.h for uint16_t, and *)
(* one is taken off), addHash and the others each add one.                 *)
length(info) ==
    LET number(k) == Len(info[Kinds[k]])
    IN  FixedWords + 1 + MacWords
          + number(1) + number(2) + number(3) + number(4) + number(5)

(* flags, hc, cc with ac, kc with sc. *)
Packed(counts) ==
    <<0, counts[1], (counts[2] * 16 + counts[3]) % 256, (counts[4] * 16 + counts[5]) % 256>>

toBytes(info, mac) ==
    LET counts == Counts(info)
        header == <<[length |-> length(info)]>> \o [i \in 1 .. FixedWords - 1 |-> "field"]
        list(k) == SubSeq(info[Kinds[k]], 1, counts[k])
    IN  header \o <<Packed(counts)>>
          \o list(1) \o list(2) \o list(3) \o list(4) \o list(5) \o mac

(* Mutant: the halves of a byte are swapped. *)
SwappedCounts(word) ==
    <<word[2] % 16, word[3] % 16, word[3] \div 16, word[4] \div 16, word[4] % 16>>

(* The bit fields keep the lower four bits of a byte. *)
Unpacked(word) ==
    <<word[2] % 16, word[3] \div 16, word[3] % 16, word[4] \div 16, word[4] % 16>>

(* parse: the counts say where each list, and the MAC, begins; loop k  *)
(* goes on after word pos k.                                               *)
parse(data) ==
    LET counts == Unpacked(data[FixedWords + 1])
        pos1 == FixedWords + 1
        pos2 == pos1 + counts[1]
        pos3 == pos2 + counts[2]
        pos4 == pos3 + counts[3]
        pos5 == pos4 + counts[4]
        pos6 == pos5 + counts[5]
    IN  [length |-> data[1].length,
         lists  |-> <<SubSeq(data, pos1 + 1, pos2), SubSeq(data, pos2 + 1, pos3),
                      SubSeq(data, pos3 + 1, pos4), SubSeq(data, pos4 + 1, pos5),
                      SubSeq(data, pos5 + 1, pos6)>>,
         mac    |-> SubSeq(data, pos6 + 1, pos6 + MacWords)]

(* generateMac: the words hashed are all but the last two, by the length. *)
Authenticated(data, words) == SubSeq(data, 1, words - MacWords)

(* Lists that fit the arrays and, together, the buffer. *)
HelloFits(info) ==
    /\ \A k \in DOMAIN Kinds : Len(info[Kinds[k]]) <= MaxTypes
    /\ length(info) <= MaxHelloLength

(* What the sender counted is what was written and what the receiver       *)
(* counts, the lists come out as the user gave them, and nothing but the   *)
(* MAC is left out of what it protects.                                    *)
ReadsBack(info, mac) ==
    LET data == toBytes(info, mac)
        read == parse(data)
    IN  /\ Len(data) = read.length
        /\ \A k \in DOMAIN Kinds : read.lists[k] = info[Kinds[k]]
        /\ read.mac = mac
        /\ Authenticated(data, read.length) \o mac = data
=============================================================================
