------------------------------ MODULE Envelope ------------------------------
(***************************************************************************)
(* The message envelope (protocol/message.rs), the seal around its sender  *)
(* (crypto/sealed.rs) and the checks of process_incoming_dm before the     *)
(* ratchet is touched (node.rs, steps 1 to 4).                             *)
(*                                                                         *)
(* One sender, one recipient.  The sender keeps envelopes it could not     *)
(* hand over (outbox rows and mailbox drops) and sends them later, perhaps *)
(* after a restart with another configuration or, when identity.json is    *)
(* gone, under another PeerId.  The recipient may have replaced its X25519 *)
(* prekey in the meantime.  Storage and the DHT may return an envelope     *)
(* with one field changed, as the tests of message.rs do.                  *)
(*                                                                         *)
(* Cryptography is symbolic: a signature is its signer and what it covers, *)
(* a seal is the prekey it was made for and its contents.                  *)
(***************************************************************************)
EXTENDS Integers, FiniteSets

CONSTANTS Ttl,          \* seven days
          MaxClock,     \* bound: clock ticks
          MaxSent,      \* bound: messages
          MaxStarts,    \* bound: restarts of either process
          MaxFaults     \* bound: changed fields

ASSUME EnvelopeAssumption ==
    /\ Ttl \in Nat /\ MaxClock \in Nat /\ MaxSent \in Nat
    /\ MaxStarts \in Nat /\ MaxFaults \in Nat

VARIABLES me,        \* the sender's PeerId; a new identity is a new number
          deniable,  \* config.deniable_dm of this process run
          cached,    \* the recipient's prekey in prekeys_seen, or None
          spk,       \* the recipient's own prekey
          clock,     \* current_timestamp
          outbox,    \* wire-byte rows of the outbox, not yet handed over
          drops,     \* mailbox_drops, republished until they expire
          net, dht,  \* on the way: over a connection, as records in the DHT
          sent,      \* number of messages wrapped so far
          admitted,  \* history: what passed the checks
          starts, faults

vars == <<me, deniable, cached, spk, clock, outbox, drops, net, dht, sent,
          admitted, starts, faults>>

None == 0
Stranger == -1              \* a PeerId of neither party
Recipient == "recipient"

-----------------------------------------------------------------------------
(* message.rs: what is signed.                                             *)

Signature(pid, bytes) == [by |-> pid, over |-> bytes]

NoSig == Signature(None, [domain |-> "", to |-> Recipient, from |-> None,
                          payload |-> None, timestamp |-> 0, ttl |-> 0])

Scope(domain, e, pid) ==
    [domain |-> domain, to |-> e.to, from |-> pid, payload |-> e.payload,
     timestamp |-> e.timestamp, ttl |-> e.ttl]

DirectSigningBytes(e) == Scope("ME55-dm-v1", e, e.from)

(* Mutant of SealedSigningBytes: the time fields are not covered.          *)
SealedSigningBytesUntimed(e, pid) ==
    [Scope("ME55-sealed-dm-v1", e, pid) EXCEPT !.timestamp = 0]

SealedSigningBytes(e, pid) == Scope("ME55-sealed-dm-v1", e, pid)

(* seal_sender_cert and unseal_sender_cert: a fresh ephemeral key agrees   *)
(* with one prekey, so the seal opens under that prekey only.              *)
Seal(key, cert) == [key |-> key, cert |-> cert]
Unseals(seal, key) == seal.key = key

NoSeal == Seal(None, [pid |-> None, sig |-> NoSig])

Unsigned(payload) ==
    [to |-> Recipient, from |-> None, seal |-> NoSeal, payload |-> payload,
     timestamp |-> clock, ttl |-> Ttl, sig |-> NoSig]

(* new_direct_signed, new_direct_deniable                                  *)
NewDirect(payload) ==
    LET e == [Unsigned(payload) EXCEPT !.from = me] IN
    IF deniable THEN e
    ELSE [e EXCEPT !.sig = Signature(me, DirectSigningBytes(e))]

(* new_sealed, new_sealed_deniable                                         *)
NewSealed(payload, key) ==
    LET e == Unsigned(payload)
        sig == IF deniable THEN NoSig ELSE Signature(me, SealedSigningBytes(e, me))
    IN  [e EXCEPT !.seal = Seal(key, [pid |-> me, sig |-> sig])]

IsSealed(e) == e.seal # NoSeal

IsSigned(e) == (IF IsSealed(e) THEN e.seal.cert.sig ELSE e.sig) # NoSig

(* ratchet_encrypt_and_wrap_bytes: sealed when the recipient's prekey is   *)
(* known; a row that cannot be read counts as none.                        *)
Wrap(payload, readable) ==
    IF readable /\ cached # None THEN NewSealed(payload, cached)
    ELSE NewDirect(payload)

-----------------------------------------------------------------------------
(* message.rs: what is verified.  An empty signature is the deniable form. *)

Verifies(sig, pid, bytes) == sig = NoSig \/ sig = Signature(pid, bytes)

Verify(e) == e.from # None /\ Verifies(e.sig, e.from, DirectSigningBytes(e))

(* Mutant of VerifySealed: checked against the direct-path bytes.          *)
VerifySealedAsDirect(e) ==
    /\ Unseals(e.seal, spk)
    /\ Verifies(e.seal.cert.sig, e.seal.cert.pid, DirectSigningBytes(e))

VerifySealed(e) ==
    /\ Unseals(e.seal, spk)
    /\ Verifies(e.seal.cert.sig, e.seal.cert.pid,
                SealedSigningBytes(e, e.seal.cert.pid))

VerifiedSender(e) == IF IsSealed(e) THEN e.seal.cert.pid ELSE e.from

IsExpired(e) == clock > e.timestamp + e.ttl

(* Mutant of TransportMatches: no cross-check.                             *)
TransportMatchesAny(e, via) == TRUE

(* Step 3: only a direct envelope has to come from its sender.             *)
TransportMatches(e, via) == IsSealed(e) \/ VerifiedSender(e) = via

(* Steps 1 to 4 of process_incoming_dm                                     *)
Passes(e, via) ==
    /\ IF IsSealed(e) THEN VerifySealed(e) ELSE Verify(e)
    /\ TransportMatches(e, via)
    /\ ~IsExpired(e)

-----------------------------------------------------------------------------
(* was is what the sender built: history that only properties read.        *)
Item(e, was) == [via |-> me, env |-> e, was |-> was]

(* A message for a connected recipient.                                    *)
SendNow(readable) ==
    LET e == Wrap(sent + 1, readable) IN
    /\ sent < MaxSent
    /\ sent' = sent + 1
    /\ net' = net \cup {Item(e, [env |-> e, by |-> me])}
    /\ UNCHANGED <<me, deniable, cached, spk, clock, outbox, drops, dht,
                   admitted, starts, faults>>

(* One for an absent recipient: the same bytes go to the outbox, to        *)
(* mailbox_drops and into the DHT (try_encrypt_offline).                   *)
SendOffline(readable) ==
    LET e == Wrap(sent + 1, readable)
        k == [env |-> e, by |-> me]
    IN  /\ sent < MaxSent
        /\ sent' = sent + 1
        /\ outbox' = outbox \cup {k}
        /\ drops' = drops \cup {k}
        /\ dht' = dht \cup {Item(e, k)}
        /\ UNCHANGED <<me, deniable, cached, spk, clock, net, admitted, starts, faults>>

(* drain_outbox_for: each row is sent as it is and deleted.                *)
DrainOutbox ==
    /\ outbox # {}
    /\ net' = net \cup {Item(k.env, k) : k \in outbox}
    /\ outbox' = {}
    /\ UNCHANGED <<me, deniable, cached, spk, clock, drops, dht, sent, admitted,
                   starts, faults>>

(* republish_mailbox_drops: put again, provided by who publishes now.      *)
Republish ==
    /\ drops # {}
    /\ dht' = dht \cup {Item(k.env, k) : k \in drops}
    /\ UNCHANGED <<me, deniable, cached, spk, clock, outbox, drops, net, sent,
                   admitted, starts, faults>>

(* cleanup_expired of drops and outbox rows.                               *)
Live(k) == ~IsExpired(k.env)

CleanUp ==
    /\ \E k \in outbox \cup drops : ~Live(k)
    /\ outbox' = {k \in outbox : Live(k)}
    /\ drops' = {k \in drops : Live(k)}
    /\ UNCHANGED <<me, deniable, cached, spk, clock, net, dht, sent, admitted,
                   starts, faults>>

(* A prekey is fetched only while none is cached.                          *)
FetchPrekey ==
    /\ cached = None
    /\ cached' = spk
    /\ UNCHANGED <<me, deniable, spk, clock, outbox, drops, net, dht, sent,
                   admitted, starts, faults>>

Admission(i) == [env |-> i.env, was |-> i.was, sender |-> VerifiedSender(i.env),
                 at |-> clock]

Admit(i) ==
    admitted' = IF Passes(i.env, i.via) THEN admitted \cup {Admission(i)} ELSE admitted

ReceiveDirect(i) ==
    /\ Admit(i)
    /\ net' = net \ {i}
    /\ UNCHANGED <<me, deniable, cached, spk, clock, outbox, drops, dht, sent,
                   starts, faults>>

(* handle_mailbox_record_result: the provider stands in for the transport  *)
(* peer, and the record stays.                                             *)
ReceiveDrop(i) ==
    /\ Admit(i)
    /\ UNCHANGED <<me, deniable, cached, spk, clock, outbox, drops, net, dht, sent,
                   starts, faults>>

(* The sender starts again: its flags may differ, and without              *)
(* identity.json so does its PeerId; the database is the same.             *)
SenderStarts(flag, newIdentity) ==
    /\ starts < MaxStarts
    /\ starts' = starts + 1
    /\ deniable' = flag
    /\ me' = IF newIdentity THEN me + 1 ELSE me
    /\ UNCHANGED <<cached, spk, clock, outbox, drops, net, dht, sent, admitted, faults>>

(* The recipient starts and replaces a prekey it finds damaged.            *)
RecipientStarts ==
    /\ starts < MaxStarts
    /\ starts' = starts + 1
    /\ spk' = spk + 1
    /\ UNCHANGED <<me, deniable, cached, clock, outbox, drops, net, dht, sent,
                   admitted, faults>>

(* One field of an envelope changed on the way.                            *)
Changed(e) ==
    {[e EXCEPT !.payload = None], [e EXCEPT !.timestamp = clock + 1]}
    \cup IF IsSealed(e) THEN {[e EXCEPT !.seal.key = None]}
         ELSE {[e EXCEPT !.from = Stranger]}

Corrupt(i) ==
    /\ faults < MaxFaults
    /\ faults' = faults + 1
    /\ \E e \in Changed(i.env) : dht' = (dht \ {i}) \cup {[i EXCEPT !.env = e]}
    /\ UNCHANGED <<me, deniable, cached, spk, clock, outbox, drops, net, sent,
                   admitted, starts>>

Tick ==
    /\ clock < MaxClock
    /\ clock' = clock + 1
    /\ UNCHANGED <<me, deniable, cached, spk, outbox, drops, net, dht, sent,
                   admitted, starts, faults>>

Init ==
    /\ me = 1 /\ deniable \in BOOLEAN /\ cached = None /\ spk = 1 /\ clock = 0
    /\ outbox = {} /\ drops = {} /\ net = {} /\ dht = {} /\ sent = 0
    /\ admitted = {} /\ starts = 0 /\ faults = 0

Next ==
    \/ \E readable \in BOOLEAN : SendNow(readable) \/ SendOffline(readable)
    \/ DrainOutbox \/ Republish \/ CleanUp \/ FetchPrekey
    \/ \E i \in net : ReceiveDirect(i)
    \/ \E i \in dht : ReceiveDrop(i) \/ Corrupt(i)
    \/ \E flag, new \in BOOLEAN : SenderStarts(flag, new)
    \/ RecipientStarts \/ Tick

Spec == Init /\ [][Next]_vars

-----------------------------------------------------------------------------
(* Types.  Only an envelope that was wrapped travels, it is kept under the *)
(* identity that wrapped it, and a seal is for a prekey that existed.      *)
TypeOK ==
    /\ me \in 1 .. MaxStarts + 1 /\ deniable \in BOOLEAN
    /\ cached \in 0 .. spk /\ spk \in 1 .. MaxStarts + 1
    /\ clock \in 0 .. MaxClock /\ sent \in 0 .. MaxSent
    /\ starts \in 0 .. MaxStarts /\ faults \in 0 .. MaxFaults
    /\ \A k \in outbox \cup drops :
        /\ k.by \in 1 .. me /\ k.env.payload \in 1 .. sent
        /\ IsSealed(k.env) => k.env.seal.key \in 1 .. spk
    /\ \A i \in net \cup dht : i.via \in 1 .. me /\ i.was.by \in 1 .. i.via

(* verify, verify_sealed and the cross-check of step 3: whatever becomes   *)
(* of an envelope in storage, and whoever ends up transmitting it, it is   *)
(* attributed to the identity that wrapped it or to nobody.                *)
SenderIsBuilder == \A a \in admitted : a.sender = a.was.by

(* direct_signing_bytes and sealed_signing_bytes: a signed envelope is     *)
(* admitted exactly as it was built.  (A deniable one may differ in what   *)
(* only the ratchet's AEAD covers, or in its time, which nothing covers.)  *)
SignedUnaltered == \A a \in admitted : IsSigned(a.env) => a.env = a.was.env

(* is_expired against the signed time: rows drained late, drops fetched    *)
(* again and changed timestamps never get a signed message in after its    *)
(* sender's time to live.                                                  *)
SignedInTime ==
    \A a \in admitted : IsSigned(a.was.env) => a.at <= a.was.env.timestamp + Ttl

(* What a signature promises of an admitted envelope, with the types.      *)
SignedSound == TypeOK /\ SignedUnaltered /\ SignedInTime

Deliverable(i) ==
    /\ i.env = i.was.env
    /\ clock <= i.env.timestamp + Ttl
    /\ IF IsSealed(i.env) THEN i.env.seal.key = spk ELSE i.via = i.was.by

(* The two sides agree on every form: an unchanged envelope in time passes *)
(* if it is sealed to the prekey the recipient has, or is direct and comes *)
(* from the identity that built it, over a connection or out of the DHT.   *)
DeliverableAdmitted == \A i \in net \cup dht : Deliverable(i) => Passes(i.env, i.via)

-----------------------------------------------------------------------------
(* sealed.rs: "A later compromise of the recipient's X25519 prekey does    *)
(* NOT let an attacker decrypt past sealed envelopes": what was already    *)
(* received does not open with the prekey the recipient still holds.       *)
PastSealsClosed ==
    \A a \in admitted : IsSealed(a.env) => ~Unseals(a.env.seal, spk)
=============================================================================
