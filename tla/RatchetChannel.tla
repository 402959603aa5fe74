--------------------------- MODULE RatchetChannel ---------------------------
(***************************************************************************)
(* Two ratchet sessions set up by one X3DH run, over a network that loses, *)
(* reorders and, up to MaxDup times, duplicates messages.  The duplicates  *)
(* are what node.rs produces when the same wire bytes reach the recipient  *)
(* through the outbox and through a mailbox drop.                          *)
(*                                                                         *)
(* "A" is the initiator; "B" answers with its signed prekey as the first   *)
(* ratchet key.                                                            *)
(***************************************************************************)
EXTENDS Ratchet

CONSTANTS MaxMsgs,    \* bound: messages each side encrypts
          MaxDup      \* bound: deliveries after which the message stays in flight

ASSUME ChannelAssumption == MaxMsgs \in Nat /\ MaxDup \in Nat

VARIABLES st,         \* st[p]: p's RatchetState
          drawn,      \* drawn[p]: key pairs p has generated
          sent,       \* sent[p]: plaintexts p has encrypted, numbered from 1
          net,        \* messages in flight
          delivered,  \* delivered[p][k]: times p has obtained plaintext k
          opened,     \* message keys under which a message was opened
          dups        \* duplicated deliveries so far

channelVars == <<st, drawn, sent, net, delivered, opened, dups>>

SharedKey == << {"x3dh"} >>
SignedPrekey == <<"B", "dh", 0>>

Fresh(p) == <<p, "dh", drawn[p] + 1>>

ChannelInit ==
    /\ st = [p \in Parties |->
                IF p = "A" THEN NewInitiator(SharedKey, SignedPrekey, <<"A", "dh", 1>>)
                ELSE NewResponder(SharedKey, SignedPrekey)]
    /\ drawn = [p \in Parties |-> IF p = "A" THEN 1 ELSE 0]
    /\ sent = [p \in Parties |-> 0]
    /\ net = {}
    /\ delivered = [p \in Parties |-> [k \in 1 .. MaxMsgs |-> 0]]
    /\ opened = {}
    /\ dups = 0

Message(to, pt, h) ==
    [to |-> to, pt |-> pt, dh |-> h.dh, pn |-> h.pn, n |-> h.n, mk |-> h.mk]

Send(p) ==
    /\ sent[p] < MaxMsgs
    /\ CanEncrypt(st[p])
    /\ st' = [st EXCEPT ![p] = AfterEncrypt(@)]
    /\ sent' = [sent EXCEPT ![p] = @ + 1]
    /\ net' = net \cup {Message(Other(p), sent[p] + 1, EncryptHeader(st[p]))}
    /\ UNCHANGED <<drawn, delivered, opened, dups>>

Received(m) == Decrypt(st[m.to], m, Fresh(m.to))

(* The receiver runs decrypt; on failure it keeps the state decrypt left.  *)
Receive(m) ==
    LET r == Received(m) IN
    /\ st' = [st EXCEPT ![m.to] = r.st]
    /\ drawn' = [drawn EXCEPT ![m.to] = IF r.st.dhs = Fresh(m.to) THEN @ + 1 ELSE @]
    /\ IF r.err = "ok"
       THEN /\ delivered' = [delivered EXCEPT ![m.to][m.pt] = @ + 1]
            /\ opened' = opened \cup {m.mk}
       ELSE UNCHANGED <<delivered, opened>>

Deliver(m) == Receive(m) /\ net' = net \ {m} /\ UNCHANGED <<sent, dups>>

DeliverKeepingCopy(m) ==
    /\ dups < MaxDup
    /\ dups' = dups + 1
    /\ Receive(m)
    /\ UNCHANGED <<sent, net>>

Lose(m) == net' = net \ {m} /\ UNCHANGED <<st, drawn, sent, delivered, opened, dups>>

ChannelNext ==
    \/ \E p \in Parties : Send(p)
    \/ \E m \in net : Deliver(m)
    \/ \E m \in net : DeliverKeepingCopy(m)
    \/ \E m \in net : Lose(m)

ChannelSpec == ChannelInit /\ [][ChannelNext]_channelVars

-----------------------------------------------------------------------------
(* The variables have their types, and no counter passes its bound.        *)
ChannelTypeOK ==
    /\ DOMAIN st = Parties
    /\ \A p \in Parties :
        /\ st[p].ns \in Nat /\ st[p].nr \in Nat /\ st[p].pn \in Nat
        /\ st[p].ns <= sent[p] /\ st[p].pn <= sent[p]
    /\ drawn \in [Parties -> Nat]
    /\ sent \in [Parties -> 0 .. MaxMsgs]
    /\ \A m \in net : m.to \in Parties /\ m.pt \in 1 .. sent[Other(m.to)]
    /\ delivered \in [Parties -> [1 .. MaxMsgs -> Nat]]
    /\ dups \in 0 .. MaxDup

(* skip_message_keys: the cache of skipped keys never grows past MAX_SKIP, *)
(* whatever is lost, reordered or duplicated.                              *)
SkipCacheBounded == \A p \in Parties : Len(st[p].skipped) <= MaxSkip

(* skip_message_keys: until a duplicate arrives, the cache never holds two *)
(* keys for one (dh, n), so try_skipped's first match cannot hide the      *)
(* right one.                                                              *)
SkippedKeysDistinct ==
    dups = 0 => \A p \in Parties :
        LET q == st[p].skipped IN
        \A j, k \in DOMAIN q : q[j].dh = q[k].dh /\ q[j].n = q[k].n => j = k

(* A session keeps its shape whatever the network does: types, the bound   *)
(* on the cache, one key per place in it.                                  *)
SessionsSound == ChannelTypeOK /\ SkipCacheBounded /\ SkippedKeysDistinct

(* decrypt: over a network that has lost and reordered but not duplicated, *)
(* every message still in flight can be opened on arrival, across any      *)
(* number of DH steps, unless the skip limit refuses it.  (Both directions *)
(* derive the same chains from interleaved DH steps.)                      *)
InFlightOpens ==
    dups = 0 => \A m \in net : Received(m).err \in {"ok", "TooManySkipped"}

(* decrypt / try_skipped: a message key is one-shot, so no plaintext is    *)
(* delivered twice, even when a duplicate arrives after its original, in   *)
(* an old chain, or after earlier duplicates have disturbed the chain.     *)
DeliveredAtMostOnce ==
    \A p \in Parties : \A k \in 1 .. MaxMsgs : delivered[p][k] <= 1

(* kdf_ck, kdf_rk and the cache: a key that has opened a message can no    *)
(* longer be derived from the state of either side.                        *)
ForwardSecrecy ==
    \A mk \in opened : \A p \in Parties : ~CanDerive(st[p], mk)

-----------------------------------------------------------------------------
(* A documented claim that decrypt does not keep.                          *)

(* node.rs try_send_or_queue: the second copy of a message is "a silent    *)
(* no-op": one that is not opened leaves the session as it was.            *)
DuplicateIsNoOp ==
    [][\A m \in net :
        DeliverKeepingCopy(m) \/ Deliver(m) =>
            (delivered[m.to][m.pt] > 0 => st' = st)]_channelVars
=============================================================================
