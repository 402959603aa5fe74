--------------------------- MODULE EnvelopeProofs ---------------------------
(***************************************************************************)
(* Proofs about Envelope, for any time to live, any number of messages,    *)
(* restarts and clock ticks, and any number of changed fields: the runs    *)
(* change one field of an envelope, the theorems let storage change        *)
(* several fields of the same envelope, one after the other.               *)
(***************************************************************************)
EXTENDS Envelope, TLAPS

(* The shape of everything on the wire.                                    *)
SignedBytes == [domain : {"", "ME55-dm-v1", "ME55-sealed-dm-v1"}, to : {Recipient},
                from : Int, payload : Nat, timestamp : Nat, ttl : Nat]
Signatures == [by : Int, over : SignedBytes]
Certs == [pid : Int, sig : Signatures]
Seals == [key : Nat, cert : Certs]
Envelopes == [to : {Recipient}, from : Int, seal : Seals, payload : Nat,
              timestamp : Nat, ttl : Nat, sig : Signatures]
Kept == [env : Envelopes, by : Nat]
Items == [via : Nat, env : Envelopes, was : Kept]

(* What the four constructors have in common: an envelope names its        *)
(* builder once, in the clear or under the seal, and a signature next to   *)
(* that name covers all the rest.                                          *)
BuiltDirect(e, by) ==
    /\ e.seal = NoSeal /\ e.from = by
    /\ Verifies(e.sig, by, DirectSigningBytes(e))

BuiltSealed(e, by) ==
    /\ e.from = None /\ e.sig = NoSig /\ e.seal.key # None /\ e.seal.cert.pid = by
    /\ Verifies(e.seal.cert.sig, by, SealedSigningBytes(e, by))

Built(k) == /\ k \in Kept /\ k.by # None /\ k.env.ttl = Ttl
            /\ BuiltDirect(k.env, k.by) \/ BuiltSealed(k.env, k.by)

(* What any number of changes can make of it: signatures and the name      *)
(* under the seal stay, the name in the clear becomes a stranger's, a seal *)
(* opens under its prekey or under none.                                   *)
Derives(e, was) ==
    /\ e.to = was.to /\ e.ttl = was.ttl /\ e.sig = was.sig
    /\ e.seal.cert = was.seal.cert /\ e.seal.key \in {was.seal.key, None}
    /\ e.from = was.from \/ (~IsSealed(was) /\ e.from = Stranger)

KeptBuilt == \A k \in outbox \cup drops : Built(k)
TravelBuilt ==
    \A i \in net \cup dht : i \in Items /\ Built(i.was) /\ Derives(i.env, i.was.env)

(* A new identity and a new prekey each take a start.                      *)
StartsCounted == me + spk <= starts + 2

IndInv == SignedSound /\ SenderIsBuilder /\ KeptBuilt /\ TravelBuilt /\ StartsCounted

-----------------------------------------------------------------------------
(* Both deniable forms carry NoSig, which no identity can produce.         *)
LEMMA NoSigIsNone ==
    /\ NoSig \in Signatures /\ NoSeal \in Seals /\ NoSig.by = None
    /\ NoSeal.key = None /\ NoSeal.cert.pid = None /\ NoSeal.cert.sig = NoSig
  <1>1. /\ NoSig.by = None /\ NoSeal.key = None /\ NoSeal.cert.pid = None
        /\ NoSeal.cert.sig = NoSig
    BY DEF NoSig, Signature, NoSeal, Seal, None
  <1>2. NoSig \in Signatures
    BY DEF NoSig, Signature, Signatures, SignedBytes, None
  <1>3. NoSeal \in Seals
    BY <1>2 DEF NoSeal, Seal, Seals, Certs, None
  <1> QED
    BY <1>1, <1>2, <1>3

(* ratchet_encrypt_and_wrap_bytes: whichever constructor it picks, the     *)
(* envelope is one of this identity, sealed only for the cached prekey.    *)
LEMMA WrapBuilds ==
    ASSUME TypeOK, NEW p \in Nat, NEW readable \in BOOLEAN
    PROVE  LET e == Wrap(p, readable) IN
           /\ Built([env |-> e, by |-> me])
           /\ e.payload = p /\ (IsSealed(e) => e.seal.key \in 1 .. spk)
  <1> DEFINE e == Wrap(p, readable)
             u == Unsigned(p)
  <1> USE EnvelopeAssumption
  <1>1. /\ me \in Nat /\ me # None /\ clock \in Nat /\ cached \in 0 .. spk /\ spk \in Nat
        /\ deniable \in BOOLEAN
    BY DEF TypeOK, None
  <1>2. /\ u \in Envelopes /\ u.payload = p /\ u.from = None /\ u.seal = NoSeal
        /\ u.sig = NoSig /\ u.ttl = Ttl /\ u.timestamp = clock
    BY <1>1, NoSigIsNone DEF Unsigned, Envelopes, Recipient, None
  <1>3. CASE readable /\ cached # None
    <2> DEFINE s == IF deniable THEN NoSig ELSE Signature(me, SealedSigningBytes(u, me))
    <2>1. e = [u EXCEPT !.seal = Seal(cached, [pid |-> me, sig |-> s])]
      BY <1>3 DEF Wrap, NewSealed
    <2>2. SealedSigningBytes(u, me) \in SignedBytes
      BY <1>1, <1>2 DEF SealedSigningBytes, Scope, SignedBytes, Envelopes
    <2>3. s \in Signatures
      BY <1>1, <2>2, NoSigIsNone DEF Signature, Signatures
    <2>4. Seal(cached, [pid |-> me, sig |-> s]) \in Seals
      BY <1>1, <2>3 DEF Seal, Seals, Certs
    <2> HIDE DEF s, u
    <2>5. /\ e \in Envelopes /\ e.payload = p /\ e.from = None /\ e.sig = NoSig
          /\ e.seal.key = cached /\ e.seal.cert.pid = me /\ e.seal.cert.sig = s
          /\ e.ttl = Ttl /\ e.timestamp = u.timestamp /\ e.to = u.to /\ e.payload = u.payload
      BY <1>2, <2>1, <2>4 DEF Envelopes, Seal
    <2>6. SealedSigningBytes(e, me) = SealedSigningBytes(u, me)
      BY <1>2, <2>5 DEF SealedSigningBytes, Scope
    <2>7. Verifies(s, me, SealedSigningBytes(e, me))
      BY <2>6 DEF Verifies, s
    <2> HIDE DEF e
    <2>8. BuiltSealed(e, me)
      BY <1>3, <2>5, <2>7 DEF BuiltSealed
    <2>9. [env |-> e, by |-> me] \in Kept
      BY <1>1, <2>5 DEF Kept
    <2>10. cached \in 1 .. spk
      BY <1>1, <1>3 DEF None
    <2>11. Built([env |-> e, by |-> me])
      BY <1>1, <2>5, <2>8, <2>9 DEF Built
    <2> QED
      BY <2>5, <2>10, <2>11 DEF e
  <1>4. CASE ~(readable /\ cached # None)
    <2> DEFINE d == [u EXCEPT !.from = me]
    <2>1. /\ d \in Envelopes /\ d.from = me /\ d.payload = p /\ d.seal = NoSeal
          /\ d.sig = NoSig /\ d.ttl = Ttl
      BY <1>1, <1>2 DEF Envelopes
    <2>2. e = IF deniable THEN d ELSE [d EXCEPT !.sig = Signature(me, DirectSigningBytes(d))]
      BY <1>4 DEF Wrap, NewDirect
    <2> HIDE DEF d, u
    <2>3. DirectSigningBytes(d) \in SignedBytes
      BY <2>1 DEF DirectSigningBytes, Scope, SignedBytes, Envelopes
    <2>4. Signature(me, DirectSigningBytes(d)) \in Signatures
      BY <1>1, <2>3 DEF Signature, Signatures
    <2>5. /\ e \in Envelopes /\ e.from = me /\ e.payload = p /\ e.seal = NoSeal
          /\ e.ttl = Ttl /\ e.to = d.to /\ e.timestamp = d.timestamp
          /\ e.sig = NoSig \/ e.sig = Signature(me, DirectSigningBytes(d))
      BY <1>1, <2>1, <2>2, <2>4 DEF Envelopes
    <2>6. DirectSigningBytes(e) = DirectSigningBytes(d)
      BY <2>1, <2>5 DEF DirectSigningBytes, Scope
    <2>7. BuiltDirect(e, me)
      BY <2>5, <2>6 DEF BuiltDirect, Verifies
    <2> HIDE DEF e
    <2> QED
      BY <1>1, <2>5, <2>7 DEF Built, Kept, IsSealed, e
  <1> QED
    BY <1>3, <1>4

(* Under the seal or not is decided by the builder's name, which a change  *)
(* of storage does not reach.                                              *)
LEMMA SealStays ==
    ASSUME NEW i \in Items, Built(i.was), Derives(i.env, i.was.env)
    PROVE  /\ IsSealed(i.env) <=> IsSealed(i.was.env)
           /\ IsSealed(i.was.env) <=> BuiltSealed(i.was.env, i.was.by)
           /\ ~IsSealed(i.was.env) <=> BuiltDirect(i.was.env, i.was.by)
           /\ IsSealed(i.was.env) => i.was.env.seal.cert.pid # None
  <1>1. /\ i.env \in Envelopes /\ i.was \in Kept /\ i.was.env \in Envelopes
        /\ i.was.by # None
    BY DEF Items, Kept, Built
  <1>2. i.env.seal \in Seals /\ i.was.env.seal \in Seals
    BY <1>1 DEF Envelopes
  <1>3. BuiltSealed(i.was.env, i.was.by) => IsSealed(i.was.env) /\ IsSealed(i.env)
    BY <1>1, NoSigIsNone DEF BuiltSealed, IsSealed, Derives
  <1>4. BuiltDirect(i.was.env, i.was.by) => ~IsSealed(i.was.env) /\ ~IsSealed(i.env)
    <2> SUFFICES ASSUME BuiltDirect(i.was.env, i.was.by)
                 PROVE  ~IsSealed(i.was.env) /\ ~IsSealed(i.env)
      OBVIOUS
    <2>1. i.was.env.seal = NoSeal /\ i.env.seal.cert = NoSeal.cert /\ i.env.seal.key = NoSeal.key
      BY NoSigIsNone DEF BuiltDirect, Derives
    <2>2. i.env.seal = NoSeal
      BY <1>2, <2>1, NoSigIsNone DEF Seals
    <2> QED
      BY <2>1, <2>2 DEF IsSealed
  <1>5. BuiltSealed(i.was.env, i.was.by) \/ BuiltDirect(i.was.env, i.was.by)
    BY DEF Built
  <1>6. BuiltSealed(i.was.env, i.was.by) => i.was.env.seal.cert.pid # None
    BY <1>1 DEF BuiltSealed
  <1> QED
    BY <1>3, <1>4, <1>5, <1>6

(* A second change of storage is no worse than a first.                    *)
LEMMA ChangeDerives ==
    ASSUME NEW i \in Items, Built(i.was), Derives(i.env, i.was.env), clock \in Nat,
           NEW e \in Changed(i.env)
    PROVE  e \in Envelopes /\ Derives(e, i.was.env)
  <1> DEFINE o == i.env
  <1>1. o \in Envelopes /\ o.seal \in Seals
    BY DEF Items, Envelopes
  <1>2. IsSealed(o) <=> IsSealed(i.was.env)
    BY SealStays
  <1>3. Derives(o, i.was.env)
    OBVIOUS
  <1> HIDE DEF o
  <1>4. CASE e = [o EXCEPT !.payload = None]
    BY <1>1, <1>3, <1>4 DEF Envelopes, Derives, None
  <1>5. CASE e = [o EXCEPT !.timestamp = clock + 1]
    BY <1>1, <1>3, <1>5 DEF Envelopes, Derives
  <1>6. CASE IsSealed(o) /\ e = [o EXCEPT !.seal.key = None]
    <2>1. [o.seal EXCEPT !.key = None] \in Seals
      BY <1>1 DEF Seals, None
    <2>2. e = [o EXCEPT !.seal = [o.seal EXCEPT !.key = None]]
      BY <1>6
    <2>3. e \in Envelopes
      BY <1>1, <2>1, <2>2 DEF Envelopes
    <2>4. e.seal.key = None /\ e.seal.cert = o.seal.cert
      BY <1>1, <2>2 DEF Envelopes, Seals
    <2>5. e.to = o.to /\ e.ttl = o.ttl /\ e.sig = o.sig /\ e.from = o.from
      BY <1>1, <2>2 DEF Envelopes
    <2> QED
      BY <1>3, <2>3, <2>4, <2>5 DEF Derives
  <1>7. CASE ~IsSealed(o) /\ e = [o EXCEPT !.from = Stranger]
    BY <1>1, <1>2, <1>3, <1>7 DEF Envelopes, Derives, Stranger
  <1> QED
    BY <1>4, <1>5, <1>6, <1>7 DEF Changed, o

(* What the checks of process_incoming_dm conclude about an envelope that  *)
(* passes them, whatever was changed on the way.                           *)
LEMMA PassedIsGenuine ==
    ASSUME TypeOK, NEW i \in Items, Built(i.was), Derives(i.env, i.was.env),
           i.via # None, Passes(i.env, i.via)
    PROVE  /\ VerifiedSender(i.env) = i.was.by
           /\ IsSigned(i.env) => i.env = i.was.env
           /\ IsSigned(i.was.env) => clock <= i.was.env.timestamp + Ttl
  <1> DEFINE e == i.env
             was == i.was.env
             by == i.was.by
  <1>1. /\ e \in Envelopes /\ was \in Envelopes /\ by \in Nat /\ by # None
        /\ e.seal \in Seals /\ was.seal \in Seals /\ i.via \in Nat
        /\ e.seal.cert.sig \in Signatures /\ was.seal.cert.sig \in Signatures
        /\ e.sig \in Signatures /\ was.sig \in Signatures
    BY DEF Items, Kept, Built, Envelopes, Seals, Certs
  <1>2. /\ IsSealed(e) <=> IsSealed(was)
        /\ IsSealed(was) <=> BuiltSealed(was, by)
        /\ ~IsSealed(was) <=> BuiltDirect(was, by)
    BY SealStays
  <1>3. Derives(e, was) /\ e.ttl = Ttl /\ was.ttl = Ttl /\ e.sig = was.sig /\ e.to = was.to
        /\ e.seal.cert = was.seal.cert
    BY DEF Derives, Built
  <1>4. Passes(e, i.via)
    OBVIOUS
  <1>5. clock \in Nat /\ spk \in Nat /\ spk # None /\ Ttl \in Nat
    BY EnvelopeAssumption DEF TypeOK, None
  <1>6. ~IsExpired(e) /\ e.timestamp \in Nat /\ was.timestamp \in Nat
    BY <1>1, <1>4 DEF Passes, Envelopes
  <1>7. clock <= e.timestamp + Ttl
    BY <1>3, <1>5, <1>6 DEF IsExpired
  <1>8. VerifiedSender(e) = by
    <2>1. CASE IsSealed(e)
      BY <1>2, <1>3, <2>1 DEF VerifiedSender, BuiltSealed
    <2>2. CASE ~IsSealed(e)
      <3>1. e.from = i.via /\ e.from \in {was.from, Stranger} /\ was.from = by
        BY <1>2, <1>3, <1>4, <2>2 DEF Passes, TransportMatches, VerifiedSender, Derives, BuiltDirect
      <3>2. e.from = by
        BY <1>1, <3>1 DEF Stranger
      <3> QED
        BY <2>2, <3>2 DEF VerifiedSender
    <2> QED
      BY <2>1, <2>2
  <1>9. IsSigned(e) <=> IsSigned(was)
    BY <1>2, <1>3 DEF IsSigned
  <1>10. IsSigned(e) => e = was
    <2> SUFFICES ASSUME IsSigned(e) PROVE e = was
      OBVIOUS
    <2>1. CASE IsSealed(e)
      <3>1. e.seal.cert.pid = by /\ Verifies(e.seal.cert.sig, by, SealedSigningBytes(e, by))
        BY <1>2, <1>3, <1>4, <2>1 DEF BuiltSealed, Passes, VerifySealed
      <3>2. e.seal.cert.sig = Signature(by, SealedSigningBytes(e, by))
        BY <2>1, <3>1 DEF Verifies, IsSigned
      <3>3. e.seal.cert.sig = Signature(by, SealedSigningBytes(was, by))
        BY <1>2, <1>3, <1>9, <2>1 DEF BuiltSealed, Verifies, IsSigned
      <3>4. SealedSigningBytes(e, by) = SealedSigningBytes(was, by)
        BY <3>2, <3>3 DEF Signature
      <3>5. e.payload = was.payload /\ e.timestamp = was.timestamp
        BY <3>4 DEF SealedSigningBytes, Scope
      <3>6. e.from = was.from
        BY <1>2, <1>3, <2>1 DEF Derives
      <3>7. e.seal.key = was.seal.key
        BY <1>3, <1>4, <1>5, <2>1 DEF Derives, Passes, VerifySealed, Unseals
      <3>8. e.seal = was.seal
        BY <1>1, <1>3, <3>7 DEF Seals
      <3> HIDE DEF e, was
      <3> QED
        BY <1>1, <1>3, <3>5, <3>6, <3>8 DEF Envelopes
    <2>2. CASE ~IsSealed(e)
      <3>1. e.from = by /\ was.from = by
        BY <1>2, <1>8, <2>2 DEF VerifiedSender, BuiltDirect
      <3>2. e.sig = Signature(by, DirectSigningBytes(e))
        BY <1>4, <2>2, <3>1 DEF Passes, Verify, Verifies, IsSigned
      <3>3. e.sig = Signature(by, DirectSigningBytes(was))
        BY <1>2, <1>3, <1>9, <2>2 DEF BuiltDirect, Verifies, IsSigned
      <3>4. DirectSigningBytes(e) = DirectSigningBytes(was)
        BY <3>2, <3>3 DEF Signature
      <3>5. e.payload = was.payload /\ e.timestamp = was.timestamp
        BY <3>4 DEF DirectSigningBytes, Scope
      <3>6. e.seal = was.seal
        BY <1>2, <2>2 DEF IsSealed
      <3> HIDE DEF e, was
      <3> QED
        BY <1>1, <1>3, <3>1, <3>5, <3>6 DEF Envelopes
    <2> QED
      BY <2>1, <2>2
  <1> QED
    BY <1>7, <1>8, <1>9, <1>10

-----------------------------------------------------------------------------
(* An envelope that this identity hands on, new or kept, travels as built. *)
LEMMA ItemTravels ==
    ASSUME me \in Nat, NEW k, Built(k)
    PROVE  LET i == Item(k.env, k) IN
           i \in Items /\ i.was = k /\ i.via = me /\ Built(i.was) /\ Derives(i.env, i.was.env)
  BY DEF Item, Items, Built, Kept, Derives

LEMMA SendNowPreserves ==
    ASSUME IndInv, NEW readable \in BOOLEAN, SendNow(readable)
    PROVE  IndInv'
  <1> USE EnvelopeAssumption DEF IndInv, SignedSound
  <1> DEFINE e == Wrap(sent + 1, readable)
             k == [env |-> e, by |-> me]
  <1>1. sent + 1 \in Nat /\ me \in 1 .. MaxStarts + 1 /\ me \in Nat
    BY DEF TypeOK
  <1>2. Built(k)
    BY <1>1, WrapBuilds
  <1>3. net' = net \cup {Item(k.env, k)}
    BY DEF SendNow
  <1> HIDE DEF k
  <1>4. TravelBuilt'
    BY <1>1, <1>2, <1>3, ItemTravels DEF SendNow, TravelBuilt
  <1>5. \A i \in net' \cup dht' : i.via \in 1 .. me /\ i.was.by \in 1 .. i.via
    <2>1. Item(k.env, k).via = me /\ Item(k.env, k).was.by = me
      BY <1>1, <1>2, ItemTravels DEF k
    <2> QED
      BY <1>1, <1>3, <2>1 DEF SendNow, TypeOK
  <1>6. TypeOK'
    <2>1. \A m \in outbox \cup drops : m.env.payload \in 1 .. sent + 1
      BY DEF TypeOK
    <2> QED
      BY <1>5, <2>1 DEF SendNow, TypeOK, IsSealed
  <1> QED
    BY <1>4, <1>6 DEF SendNow, SignedUnaltered, SignedInTime, SenderIsBuilder, KeptBuilt,
       StartsCounted

LEMMA SendOfflinePreserves ==
    ASSUME IndInv, NEW readable \in BOOLEAN, SendOffline(readable)
    PROVE  IndInv'
  <1> USE EnvelopeAssumption DEF IndInv, SignedSound
  <1> DEFINE e == Wrap(sent + 1, readable)
             k == [env |-> e, by |-> me]
  <1>1. sent + 1 \in Nat /\ me \in 1 .. MaxStarts + 1 /\ me \in Nat
    BY DEF TypeOK
  <1>2. /\ Built(k) /\ k.by = me /\ k.env.payload = sent + 1
        /\ IsSealed(k.env) => k.env.seal.key \in 1 .. spk
    BY <1>1, WrapBuilds
  <1>3. /\ dht' = dht \cup {Item(k.env, k)}
        /\ outbox' = outbox \cup {k} /\ drops' = drops \cup {k}
    BY DEF SendOffline
  <1> HIDE DEF k
  <1>4. TravelBuilt'
    BY <1>1, <1>2, <1>3, ItemTravels DEF SendOffline, TravelBuilt
  <1>5. KeptBuilt'
    BY <1>2, <1>3 DEF KeptBuilt
  <1>6. \A i \in net' \cup dht' : i.via \in 1 .. me /\ i.was.by \in 1 .. i.via
    <2>1. Item(k.env, k).via = me /\ Item(k.env, k).was.by = me
      BY <1>1, <1>2, ItemTravels
    <2> QED
      BY <1>1, <1>3, <2>1 DEF SendOffline, TypeOK
  <1>7. \A m \in outbox' \cup drops' :
            /\ m.by \in 1 .. me /\ m.env.payload \in 1 .. sent + 1
            /\ IsSealed(m.env) => m.env.seal.key \in 1 .. spk
    <2>1. \A m \in outbox \cup drops :
            /\ m.by \in 1 .. me /\ m.env.payload \in 1 .. sent + 1
            /\ IsSealed(m.env) => m.env.seal.key \in 1 .. spk
      BY DEF TypeOK
    <2>2. me \in 1 .. me /\ sent + 1 \in 1 .. sent + 1
      BY <1>1 DEF TypeOK
    <2> QED
      BY <1>2, <1>3, <2>1, <2>2
  <1>8. TypeOK'
    BY <1>6, <1>7 DEF SendOffline, TypeOK, IsSealed
  <1> QED
    BY <1>4, <1>5, <1>8 DEF SendOffline, SignedUnaltered, SignedInTime, SenderIsBuilder,
       StartsCounted

(* Rows and drops handed over late keep the name they were built under,    *)
(* though another identity may transmit them.                              *)
LEMMA HandOverPreserves ==
    ASSUME IndInv, DrainOutbox \/ Republish
    PROVE  IndInv'
  <1> USE DEF IndInv, SignedSound
  <1> DEFINE new == {Item(k.env, k) : k \in outbox \cup drops}
  <1>1. me \in Nat
    BY EnvelopeAssumption DEF TypeOK
  <1>2. /\ net' \cup dht' \subseteq net \cup dht \cup new
        /\ outbox' \subseteq outbox /\ drops' = drops /\ me' = me /\ admitted' = admitted
        /\ UNCHANGED <<deniable, cached, spk, clock, sent, starts, faults>>
    BY DEF DrainOutbox, Republish
  <1>3. \A i \in new : /\ i \in Items /\ Built(i.was) /\ Derives(i.env, i.was.env)
                       /\ i.via = me /\ i.was.by \in 1 .. me
    <2> SUFFICES ASSUME NEW k \in outbox \cup drops
                 PROVE  LET i == Item(k.env, k) IN
                        /\ i \in Items /\ Built(i.was) /\ Derives(i.env, i.was.env)
                        /\ i.via = me /\ i.was.by \in 1 .. me
      OBVIOUS
    <2>1. Built(k) /\ k.by \in 1 .. me
      BY DEF KeptBuilt, TypeOK
    <2> QED
      BY <1>1, <2>1, ItemTravels
  <1> HIDE DEF new
  <1>4. TravelBuilt'
    BY <1>2, <1>3 DEF TravelBuilt
  <1>5. \A i \in net' \cup dht' : i.via \in 1 .. me /\ i.was.by \in 1 .. i.via
    <2>1. \A i \in new : i.via \in 1 .. me /\ i.was.by \in 1 .. i.via
      BY <1>1, <1>3
    <2> QED
      BY <1>2, <2>1 DEF TypeOK
  <1>6. TypeOK'
    BY <1>2, <1>5 DEF TypeOK, IsSealed
  <1> QED
    BY <1>2, <1>4, <1>6 DEF SignedUnaltered, SignedInTime, SenderIsBuilder, KeptBuilt,
       StartsCounted

LEMMA ReceivePreserves ==
    ASSUME IndInv, NEW i \in net \cup dht, Admit(i), net' \subseteq net,
           UNCHANGED <<me, deniable, cached, spk, clock, outbox, drops, dht, sent,
                       starts, faults>>
    PROVE  IndInv'
  <1> USE DEF IndInv, SignedSound
  <1>1. /\ i \in Items /\ Built(i.was) /\ Derives(i.env, i.was.env) /\ i.via # None
    BY DEF TravelBuilt, TypeOK, None
  <1>2. TypeOK' /\ KeptBuilt' /\ TravelBuilt' /\ StartsCounted'
    BY DEF TypeOK, KeptBuilt, TravelBuilt, StartsCounted, IsSealed
  <1>3. CASE ~Passes(i.env, i.via)
    BY <1>2, <1>3 DEF Admit, SignedUnaltered, SignedInTime, SenderIsBuilder
  <1>4. CASE Passes(i.env, i.via)
    <2> DEFINE a == Admission(i)
    <2>1. /\ VerifiedSender(i.env) = i.was.by
          /\ IsSigned(i.env) => i.env = i.was.env
          /\ IsSigned(i.was.env) => clock <= i.was.env.timestamp + Ttl
      BY <1>1, <1>4, PassedIsGenuine
    <2>2. /\ a.sender = a.was.by
          /\ IsSigned(a.env) => a.env = a.was.env
          /\ IsSigned(a.was.env) => a.at <= a.was.env.timestamp + Ttl
      BY <2>1 DEF Admission
    <2>3. admitted' = admitted \cup {a}
      BY <1>4 DEF Admit
    <2> HIDE DEF a
    <2> QED
      BY <1>2, <2>2, <2>3 DEF SignedUnaltered, SignedInTime, SenderIsBuilder
  <1> QED
    BY <1>3, <1>4

LEMMA CorruptPreserves ==
    ASSUME IndInv, NEW i \in dht, Corrupt(i)
    PROVE  IndInv'
  <1> USE EnvelopeAssumption DEF IndInv, SignedSound
  <1>1. PICK e \in Changed(i.env) : dht' = (dht \ {i}) \cup {[i EXCEPT !.env = e]}
    BY DEF Corrupt
  <1>2. i \in Items /\ Built(i.was) /\ Derives(i.env, i.was.env) /\ clock \in Nat
    BY DEF TravelBuilt, TypeOK
  <1>3. e \in Envelopes /\ Derives(e, i.was.env)
    BY <1>2, ChangeDerives
  <1> DEFINE j == [i EXCEPT !.env = e]
  <1>4. j \in Items /\ j.was = i.was /\ j.via = i.via /\ j.env = e
    BY <1>2, <1>3 DEF Items
  <1> HIDE DEF j
  <1>5. TravelBuilt'
    BY <1>1, <1>2, <1>3, <1>4 DEF TravelBuilt, Corrupt, j
  <1>6. \A x \in net' \cup dht' : x.via \in 1 .. me /\ x.was.by \in 1 .. x.via
    BY <1>1, <1>4 DEF TypeOK, Corrupt, j
  <1>7. TypeOK'
    BY <1>6 DEF TypeOK, IsSealed, Corrupt
  <1> QED
    BY <1>5, <1>7 DEF Corrupt, SignedUnaltered, SignedInTime, SenderIsBuilder, KeptBuilt,
       StartsCounted

(* Restarts: numbers of identities and prekeys only grow.                  *)
LEMMA StartsPreserve ==
    ASSUME IndInv,
           \/ RecipientStarts
           \/ \E flag, new \in BOOLEAN : SenderStarts(flag, new)
    PROVE  IndInv'
  <1> USE EnvelopeAssumption DEF IndInv, SignedSound
  <1>1. /\ me' \in {me, me + 1} /\ spk' \in {spk, spk + 1} /\ deniable' \in BOOLEAN
        /\ me' = me \/ spk' = spk
        /\ starts < MaxStarts /\ starts' = starts + 1
        /\ UNCHANGED <<cached, clock, outbox, drops, net, dht, sent, admitted, faults>>
    BY DEF RecipientStarts, SenderStarts, TypeOK
  <1>2. /\ me \in Nat \ {0} /\ spk \in Nat \ {0} /\ starts \in 0 .. MaxStarts
        /\ cached \in 0 .. spk /\ me + spk <= starts + 2
    BY DEF TypeOK, StartsCounted
  <1>3. /\ StartsCounted' /\ me' \in 1 .. MaxStarts + 1 /\ spk' \in 1 .. MaxStarts + 1
        /\ starts' \in 0 .. MaxStarts /\ cached' \in 0 .. spk'
    <2>1. /\ me' + spk' <= (starts + 1) + 2
          /\ me' \in 1 .. MaxStarts + 1 /\ spk' \in 1 .. MaxStarts + 1
      <3>1. CASE me' = me + 1 /\ spk' = spk
        BY <1>1, <1>2, <3>1
      <3>2. CASE me' = me /\ spk' = spk + 1
        BY <1>1, <1>2, <3>2
      <3>3. CASE me' = me /\ spk' = spk
        BY <1>1, <1>2, <3>3
      <3> QED
        BY <1>1, <3>1, <3>2, <3>3
    <2>2. starts' \in 0 .. MaxStarts
      BY <1>1, <1>2
    <2>3. cached' \in 0 .. spk'
      BY <1>1, <1>2
    <2> QED
      BY <1>1, <2>1, <2>2, <2>3 DEF StartsCounted
  <1>4. \A n \in Int : (n \in 1 .. me => n \in 1 .. me') /\ (n \in 1 .. spk => n \in 1 .. spk')
    BY <1>1, <1>2
  <1>5. \A k \in outbox' \cup drops' :
            /\ k.by \in 1 .. me' /\ k.env.payload \in 1 .. sent'
            /\ IsSealed(k.env) => k.env.seal.key \in 1 .. spk'
    <2>1. \A k \in outbox \cup drops :
            /\ k.by \in 1 .. me /\ k.env.payload \in 1 .. sent
            /\ IsSealed(k.env) => k.env.seal.key \in 1 .. spk
      BY DEF TypeOK
    <2> QED
      BY <1>1, <1>4, <2>1
  <1>6. \A i \in net' \cup dht' : i.via \in 1 .. me' /\ i.was.by \in 1 .. i.via
    BY <1>1, <1>4 DEF TypeOK
  <1>7. TypeOK'
    <2>1. clock' \in 0 .. MaxClock /\ sent' \in 0 .. MaxSent /\ faults' \in 0 .. MaxFaults
      BY <1>1 DEF TypeOK
    <2> QED
      BY <1>1, <1>3, <1>5, <1>6, <2>1 DEF TypeOK, IsSealed
  <1> QED
    BY <1>1, <1>3, <1>7 DEF SignedUnaltered, SignedInTime, SenderIsBuilder, KeptBuilt, TravelBuilt

(* The steps that only forget, cache or wait.                              *)
LEMMA QuietStepsPreserve ==
    ASSUME IndInv, CleanUp \/ FetchPrekey \/ Tick \/ UNCHANGED vars
    PROVE  IndInv'
  <1> USE EnvelopeAssumption DEF IndInv, SignedSound
  <1>1. /\ outbox' \subseteq outbox /\ drops' \subseteq drops
        /\ UNCHANGED <<me, deniable, spk, net, dht, sent, admitted, starts, faults>>
        /\ cached' \in {cached, spk} /\ clock' \in 0 .. MaxClock
    BY DEF CleanUp, FetchPrekey, Tick, vars, TypeOK
  <1>2. TypeOK'
    BY <1>1 DEF TypeOK, IsSealed
  <1> QED
    BY <1>1, <1>2 DEF SignedUnaltered, SignedInTime, SenderIsBuilder, KeptBuilt,
       TravelBuilt, StartsCounted

LEMMA InitHolds == Init => IndInv
  BY EnvelopeAssumption
     DEF Init, IndInv, SignedSound, TypeOK, SignedUnaltered, SignedInTime,
         SenderIsBuilder, KeptBuilt, TravelBuilt, StartsCounted, None

LEMMA NextPreserves == IndInv /\ [Next]_vars => IndInv'
  <1> SUFFICES ASSUME IndInv, [Next]_vars PROVE IndInv'
    OBVIOUS
  <1>1. ASSUME NEW i \in net, ReceiveDirect(i) PROVE IndInv'
    <2>1. Admit(i) /\ net' \subseteq net
      BY <1>1 DEF ReceiveDirect
    <2> QED
      BY <1>1, <2>1, ReceivePreserves DEF ReceiveDirect
  <1>2. ASSUME NEW i \in dht, ReceiveDrop(i) PROVE IndInv'
    <2>1. Admit(i) /\ net' \subseteq net
      BY <1>2 DEF ReceiveDrop
    <2> QED
      BY <1>2, <2>1, ReceivePreserves DEF ReceiveDrop
  <1> QED
    BY <1>1, <1>2, SendNowPreserves, SendOfflinePreserves, HandOverPreserves,
       CorruptPreserves, StartsPreserve, QuietStepsPreserve DEF Next

LEMMA IndInvHolds == Spec => []IndInv
  BY InitHolds, NextPreserves, PTL DEF Spec

-----------------------------------------------------------------------------
(* An unchanged envelope meets the checks of the form it was built in.     *)
LEMMA BuiltIsDeliverable == IndInv => DeliverableAdmitted
  <1> SUFFICES ASSUME IndInv, NEW i \in net \cup dht, Deliverable(i)
               PROVE  Passes(i.env, i.via)
    BY DEF DeliverableAdmitted
  <1>1. i \in Items /\ Built(i.was) /\ Derives(i.env, i.was.env) /\ i.env = i.was.env
    BY DEF IndInv, TravelBuilt, Deliverable
  <1>2. /\ IsSealed(i.env) => BuiltSealed(i.env, i.was.by)
        /\ ~IsSealed(i.env) => BuiltDirect(i.env, i.was.by)
    BY <1>1, SealStays
  <1>3. i.env.ttl = Ttl /\ i.was.by # None /\ i.env.timestamp \in Nat /\ clock \in Nat
    BY <1>1 DEF Built, Items, Envelopes, IndInv, SignedSound, TypeOK
  <1>4. ~IsExpired(i.env)
    BY <1>3, EnvelopeAssumption DEF Deliverable, IsExpired
  <1>5. CASE IsSealed(i.env)
    BY <1>2, <1>4, <1>5
       DEF Deliverable, Passes, VerifySealed, Unseals, TransportMatches, BuiltSealed
  <1>6. CASE ~IsSealed(i.env)
    BY <1>2, <1>3, <1>4, <1>6
       DEF Deliverable, Passes, Verify, TransportMatches, VerifiedSender, BuiltDirect
  <1> QED
    BY <1>5, <1>6

(* process_incoming_dm attributes an envelope to whoever built it, however *)
(* often it was stored, changed and handed over by other identities.       *)
THEOREM SenderIsTheBuilder == Spec => []SenderIsBuilder
  BY IndInvHolds, PTL DEF IndInv

(* A signed envelope is admitted as it was built and in its time.          *)
THEOREM SignatureKeepsItsPromise == Spec => []SignedSound
  BY IndInvHolds, PTL DEF IndInv

(* The recipient's checks accept every form the sender builds.             *)
THEOREM ChecksAcceptWhatIsBuilt == Spec => []DeliverableAdmitted
  BY IndInvHolds, BuiltIsDeliverable, PTL
=============================================================================
