-------------------------------- MODULE X3dh --------------------------------
(***************************************************************************)
(* The X3DH-lite key agreement of src/crypto/x3dh.rs, symbolically.  A     *)
(* shared secret is the record of what HKDF was fed and under which info   *)
(* tag: the DH outputs in order and the ML-KEM secret.  otpk or pq equal   *)
(* to Absent selects the variant without it; the four variants have four   *)
(* info tags, which the presence of the two inputs stands for.             *)
(***************************************************************************)
EXTENDS Naturals, Sequences

Absent == << >>

X3dhDH(a, b) == {a, b}

(* ML-KEM-768: r is the randomness of one encapsulation, the pair names    *)
(* both the ciphertext and the secret inside it.  Decapsulating with       *)
(* another key yields an unrelated secret, not an error.                   *)
PqEncapsulate(ek, r) == <<ek, r>>

PqDecapsulate(dk, ct) == IF ct[1] = dk THEN ct ELSE <<dk, ct>>

DeriveSharedSecret(dhs, pq) == [dhs |-> dhs, pq |-> pq]

(* What an initiator agrees on: eph is the ephemeral pair of the call.     *)
InitiatorDhs(myIdentity, theirSpk, eph, theirOtpk) ==
    <<X3dhDH(eph, theirSpk), X3dhDH(myIdentity, theirSpk)>>
    \o IF theirOtpk = Absent THEN << >> ELSE <<X3dhDH(eph, theirOtpk)>>

(* The mirror image, from the ephemeral public key of the first message.   *)
ResponderDhs(mySpk, myOtpk, eph, theirIdentity) ==
    <<X3dhDH(mySpk, eph), X3dhDH(mySpk, theirIdentity)>>
    \o IF myOtpk = Absent THEN << >> ELSE <<X3dhDH(myOtpk, eph)>>

(* initiator_derive and its _with_otpk and _hybrid variants                *)
InitiatorDerive(myIdentity, theirSpk, eph, theirOtpk, pq) ==
    DeriveSharedSecret(InitiatorDhs(myIdentity, theirSpk, eph, theirOtpk), pq)

(* responder_derive and its variants                                       *)
ResponderDerive(mySpk, myOtpk, eph, theirIdentity, pq) ==
    DeriveSharedSecret(ResponderDhs(mySpk, myOtpk, eph, theirIdentity), pq)
=============================================================================
