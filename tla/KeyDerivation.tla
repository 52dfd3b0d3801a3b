--------------------------- MODULE KeyDerivation ---------------------------
(***************************************************************************)
(* What keyDerivation makes of the secret s0 (ZRTP/zrtp.cpp): keys for the *)
(* two directions, of which each side uses one set to send and the other   *)
(* to receive, as its role says, and what keyAgreed hands to the user.     *)
(***************************************************************************)

Role == {"Initiator", "Responder"}

(* The keys kdf is called for, by the label it hashes. *)
Label ==
    {<<"ZRTP Session Key">>, <<"SAS">>, <<"Exported key">>}
      \cup Role \X {"SRTP master key", "SRTP master salt", "HMAC key", "ZRTP key"}

(* kdf: HMAC, with s0 as its key, of the label and of a context, which is  *)
(* made of the two ZIDs and the total hash that s0 stands for as well.     *)
kdf(s0, label) == [s0 |-> s0, label |-> label]

DerivedKeys(secrets) == [s0 : secrets, label : Label]

(* Mutant: the own keys to receive, too. *)
OwnSide(role, sending) == role

(* The side whose keys are used: the own to send, the other's to receive. *)
KeySide(role, sending) ==
    IF (role = "Initiator") = sending THEN "Initiator" ELSE "Responder"

(* generateConfirmMac *)
macKey(s0, role, sending) == kdf(s0, <<KeySide(role, sending), "HMAC key">>)

(* encryptConfirmData to send, decryptConfirmData to receive. *)
zrtpKey(s0, role, sending) == kdf(s0, <<KeySide(role, sending), "ZRTP key">>)

(* What keyAgreed hands to the user, whichever the role. *)
SrtpMaterial(s0) ==
    [srtpKeyI  |-> kdf(s0, <<"Initiator", "SRTP master key">>),
     srtpKeyR  |-> kdf(s0, <<"Responder", "SRTP master key">>),
     srtpSaltI |-> kdf(s0, <<"Initiator", "SRTP master salt">>),
     srtpSaltR |-> kdf(s0, <<"Responder", "SRTP master salt">>),
     sas       |-> kdf(s0, <<"SAS">>)]

Materials(secrets) ==
    [srtpKeyI : DerivedKeys(secrets), srtpKeyR : DerivedKeys(secrets),
     srtpSaltI : DerivedKeys(secrets), srtpSaltR : DerivedKeys(secrets),
     sas : DerivedKeys(secrets)]
=============================================================================
