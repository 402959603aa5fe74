------------------------------ MODULE Ratchet ------------------------------
(***************************************************************************)
(* The Double Ratchet of src/crypto/ratchet.rs as operators on session     *)
(* states.  Cryptography is symbolic:                                      *)
(*                                                                         *)
(*  - a DH key pair is an identifier (a non-empty tuple); the DH output of *)
(*    two pairs is the set of both, the same for either side;              *)
(*  - a root key is the history of everything mixed into it: the X3DH      *)
(*    output first, then one DH output per kdf_rk;                         *)
(*  - a chain key is the root it was split from and a position, and the    *)
(*    message key at that position is named by the same record.            *)
(*                                                                         *)
(* Two keys are equal iff they were derived in the same way.  A message is *)
(* its header (dh, pn, n) and the key it is sealed with.  The header is    *)
(* also AEAD associated data; nothing in these models rewrites a header in *)
(* flight, so a message opens exactly under the key that sealed it.        *)
(***************************************************************************)
EXTENDS Naturals, Sequences

CONSTANT MaxSkip      \* MAX_SKIP: skipped message keys kept per session

ASSUME MaxSkipAssumption == MaxSkip \in Nat

(* The two ends of a session.                                              *)
Parties == {"A", "B"}
Other(p) == IF p = "A" THEN "B" ELSE "A"

NoDh == << >>                          \* dhr = None
NoChain == [root |-> << >>, i |-> 0]   \* cks / ckr = None

DH(a, b) == {a, b}

(* kdf_rk: the new root key; its other half starts the new chain.          *)
KdfRk(rk, dhOut) == Append(rk, dhOut)
ChainOf(rk) == [root |-> rk, i |-> 0]

(* kdf_ck moves the chain on by one; the message key is the old position.  *)
KdfCk(ck) == [ck EXCEPT !.i = @ + 1]

-----------------------------------------------------------------------------
(* Construction: sk is the X3DH output as a root history.                  *)

NewInitiator(sk, theirDh, fresh) ==
    LET rk == KdfRk(sk, DH(fresh, theirDh)) IN
    [dhs |-> fresh, dhr |-> theirDh, rk |-> rk,
     cks |-> ChainOf(rk), ckr |-> NoChain,
     ns |-> 0, nr |-> 0, pn |-> 0, skipped |-> << >>, sessionId |-> sk]

NewResponder(sk, myDh) ==
    [dhs |-> myDh, dhr |-> NoDh, rk |-> sk,
     cks |-> NoChain, ckr |-> NoChain,
     ns |-> 0, nr |-> 0, pn |-> 0, skipped |-> << >>, sessionId |-> sk]

-----------------------------------------------------------------------------
(* encrypt: refused while there is no sending chain.                       *)

CanEncrypt(s) == s.cks # NoChain

EncryptHeader(s) == [dh |-> s.dhs, pn |-> s.pn, n |-> s.ns, mk |-> s.cks]

AfterEncrypt(s) == [s EXCEPT !.cks = KdfCk(@), !.ns = @ + 1]

-----------------------------------------------------------------------------
(* decrypt and its parts.                                                  *)

AeadOpens(mk, m) == m.mk = mk

SkippedHits(s, m) ==
    {k \in DOMAIN s.skipped : s.skipped[k].dh = m.dh /\ s.skipped[k].n = m.n}

(* try_skipped takes the first entry for (dh, n) out of the cache, whether *)
(* or not it then opens the ciphertext.                                    *)
FirstHit(s, m) ==
    CHOOSE k \in SkippedHits(s, m) : \A j \in SkippedHits(s, m) : k <= j

(* Mutant of WithoutSkipped: a skipped key is used and left in the cache.  *)
WithoutSkippedKept(s, k) == s

WithoutSkipped(s, k) ==
    [s EXCEPT !.skipped = SubSeq(@, 1, k - 1) \o SubSeq(@, k + 1, Len(@))]

Gap(s, until) == IF until > s.nr THEN until - s.nr ELSE 0   \* saturating_sub

(* skip_message_keys fails when the cache and the gap exceed the cap ...   *)
TooManySkipped(s, until) ==
    s.ckr # NoChain /\ Gap(s, until) + Len(s.skipped) > MaxSkip

SkippedKeys(s, until) ==
    [k \in 1 .. Gap(s, until) |->
        [dh |-> s.dhr, n |-> s.nr + k - 1,
         mk |-> [s.ckr EXCEPT !.i = @ + k - 1]]]

EvictOldest(q) == IF Len(q) > MaxSkip THEN SubSeq(q, Len(q) - MaxSkip + 1, Len(q)) ELSE q

(* ... and otherwise caches the keys of the gap.  Without a receiving      *)
(* chain (or without dhr, which then is also unset) it does nothing.       *)
SkipMessageKeys(s, until) ==
    IF s.ckr = NoChain \/ s.dhr = NoDh THEN s
    ELSE [s EXCEPT !.ckr.i = @ + Gap(s, until), !.nr = @ + Gap(s, until),
                   !.skipped = EvictOldest(@ \o SkippedKeys(s, until))]

(* Mutant of DhRatchetStep: the receiving chain comes from the fresh pair. *)
DhRatchetStepFreshFirst(s, dh, fresh) ==
    LET rk1 == KdfRk(s.rk, DH(fresh, dh))
        rk2 == KdfRk(rk1, DH(fresh, dh))
    IN  [s EXCEPT !.pn = s.ns, !.ns = 0, !.nr = 0, !.dhr = dh,
                  !.ckr = ChainOf(rk1), !.dhs = fresh,
                  !.rk = rk2, !.cks = ChainOf(rk2)]

(* dh_ratchet_step: a receiving chain from the old pair, then a sending    *)
(* chain from a fresh pair.                                                *)
DhRatchetStep(s, dh, fresh) ==
    LET rk1 == KdfRk(s.rk, DH(s.dhs, dh))
        rk2 == KdfRk(rk1, DH(fresh, dh))
    IN  [s EXCEPT !.pn = s.ns, !.ns = 0, !.nr = 0, !.dhr = dh,
                  !.ckr = ChainOf(rk1), !.dhs = fresh,
                  !.rk = rk2, !.cks = ChainOf(rk2)]

Result(s, err) == [st |-> s, err |-> err]

(* Mutant of OpenOnChain: skip_message_keys neither refuses nor evicts.    *)
OpenOnChainUncapped(s, m) ==
    LET u == [s EXCEPT !.ckr.i = @ + Gap(s, m.n), !.nr = @ + Gap(s, m.n),
                       !.skipped = @ \o SkippedKeys(s, m.n)]
    IN  Result([u EXCEPT !.ckr = KdfCk(@), !.nr = @ + 1],
               IF AeadOpens(u.ckr, m) THEN "ok" ELSE "BadAead")

(* The last two steps of decrypt: skip to n, then advance the chain, and   *)
(* only then authenticate.  A failure returns the state as it is by then.  *)
OpenOnChain(s, m) ==
    IF TooManySkipped(s, m.n) THEN Result(s, "TooManySkipped")
    ELSE LET u == SkipMessageKeys(s, m.n) IN
         IF u.ckr = NoChain THEN Result(u, "NotInitializedForRecv")
         ELSE Result([u EXCEPT !.ckr = KdfCk(@), !.nr = @ + 1],
                     IF AeadOpens(u.ckr, m) THEN "ok" ELSE "BadAead")

ReceiveStep(s, m, fresh) ==
    IF s.dhr = m.dh THEN OpenOnChain(s, m)
    ELSE IF TooManySkipped(s, m.pn) THEN Result(s, "TooManySkipped")
    ELSE OpenOnChain(DhRatchetStep(SkipMessageKeys(s, m.pn), m.dh, fresh), m)

(* decrypt: fresh is the key pair a DH step would draw.                    *)
Decrypt(s, m, fresh) ==
    IF SkippedHits(s, m) = {} THEN ReceiveStep(s, m, fresh)
    ELSE LET k == FirstHit(s, m) IN
         IF AeadOpens(s.skipped[k].mk, m) THEN Result(WithoutSkipped(s, k), "ok")
         ELSE ReceiveStep(WithoutSkipped(s, k), m, fresh)

-----------------------------------------------------------------------------
(* What a session state still gives away.                                  *)

IsProperPrefix(q, r) == Len(q) < Len(r) /\ SubSeq(r, 1, Len(q)) = q

(* A message key can be computed from state s iff it is cached, lies ahead *)
(* on a chain s holds, or its chain comes from a root later than s's.      *)
CanDerive(s, mk) ==
    \/ \E k \in DOMAIN s.skipped : s.skipped[k].mk = mk
    \/ s.cks # NoChain /\ mk.root = s.cks.root /\ mk.i >= s.cks.i
    \/ s.ckr # NoChain /\ mk.root = s.ckr.root /\ mk.i >= s.ckr.i
    \/ IsProperPrefix(s.rk, mk.root)
=============================================================================
