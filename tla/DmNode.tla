------------------------------- MODULE DmNode -------------------------------
(***************************************************************************)
(* The direct-message path of src/core/node.rs for two peers and the       *)
(* sessions between them: sending online and offline, the prekey exchange  *)
(* and the queues that wait for it, session set-up on both sides, the      *)
(* on-disk outbox and the mailbox copy, persistence and restarts.          *)
(*                                                                         *)
(* A node is a single event loop, so each handler is one action; the       *)
(* network, the two nodes and restarts interleave.  Handlers are operators *)
(* from a node record to a node record, composed as the Rust calls are;    *)
(* Commit then publishes what the handler sent.                            *)
(*                                                                         *)
(* What is abstracted:                                                     *)
(*  - Envelope seals and signatures always verify: only the two honest     *)
(*    nodes send.  A wire message is the EncryptedPayload it carries.      *)
(*  - A message may stay in flight forever, which is how loss appears.     *)
(*  - Expiry (7-day TTLs) never strikes within a behaviour of this model.  *)
(*  - Every PrekeyResponse carries the ML-KEM key, and the row that holds  *)
(*    the prekey also holds it, so every X3DH here is a hybrid one.        *)
(*  - The time-based OTPK gate is a free choice between attaching a key    *)
(*    and not.                                                             *)
(*  - A mailbox drop is a DHT record that the recipient may fetch again    *)
(*    and again, as its poll loop does within a slot.                      *)
(***************************************************************************)
EXTENDS Ratchet, X3dh

CONSTANTS MsgsA, MsgsB,    \* bound: messages each user types
          OtpkCount,       \* bound: one-time prekeys each node ever makes
          MaxFetches,      \* bound: fetches of mailbox drops
          MaxRestarts,     \* bound: restarts and crashes
          OfflineSends     \* may users type while the peer is not connected?

ASSUME DmAssumption ==
    /\ MsgsA \in Nat /\ MsgsB \in Nat /\ OtpkCount \in Nat
    /\ MaxFetches \in Nat /\ MaxRestarts \in Nat /\ OfflineSends \in BOOLEAN

VARIABLES node,      \* node[p]: the state of p's P2PNode and its store
          dms,       \* direct messages in flight
          fetch,     \* fetch[p]: the prekey exchange p has under way
          dht,       \* mailbox drops published so far
          typed,     \* typed[p]: messages p's user has sent, numbered from 1
          wires,     \* history: every wire message ever produced
          fetches, restarts    \* uses of the two bounds

vars == <<node, dms, fetch, dht, typed, wires, fetches, restarts>>

Quota == [A |-> MsgsA, B |-> MsgsB]
MsgIds(p) == 1 .. Quota[p]

Spk(p) == <<p, "spk", 0>>
Otpk(p, id) == IF id = 0 THEN Absent ELSE <<p, "otpk", id>>
Drawn(n, kind) == <<n.id, kind, n.drawn + 1>>

NoSession == [none |-> TRUE]
NoFetch == [stage |-> "none", otpk |-> 0]

-----------------------------------------------------------------------------
(* Store and session helpers.                                              *)

HasSession(n) == n.mem # NoSession \/ n.disk # NoSession

(* restore_session_if_persisted *)
RestoreSession(n) == IF n.mem = NoSession THEN [n EXCEPT !.mem = n.disk] ELSE n

PersistSession(n) == [n EXCEPT !.disk = n.mem]

(* load_otpk_private: served keys still load, consumed ones do not.        *)
OtpkLoads(n, id) == id = 0 \/ n.pool[id] \in {"fresh", "served"}

(* mark_otpk_consumed, then delete_otpk.                                   *)
ConsumeOtpk(n, id) == IF id = 0 THEN n ELSE [n EXCEPT !.pool[id] = "consumed"]

(* dispatch_decrypted_content of a text: into the message table.           *)
StorePlaintext(n, pt) == [n EXCEPT !.stored[pt] = @ + 1]

(* outbox_add (the plaintext) and outbox_add_wire (its ciphertext); queued *)
(* is a history of what was ever put there.                                *)
OutboxAdd(n, row, pt) ==
    [n EXCEPT !.outbox = Append(@, row), !.queued = @ \cup {pt}]

PlainRow(pt) == [wire |-> FALSE, body |-> pt]
WireRow(w) == [wire |-> TRUE, body |-> w]

RequestPrekey(n) ==
    IF n.inflight THEN n ELSE [n EXCEPT !.inflight = TRUE, !.asks = TRUE]

-----------------------------------------------------------------------------
(* Sending.                                                                *)

NoHello == [eph |-> Absent, otpk |-> 0, pq |-> Absent]

(* build_x3dh_hello: takes the cached OTPK, installs an initiator session. *)
InstallInitiator(n) ==
    LET eph == Drawn(n, "eph")
        sk == InitiatorDerive(Spk(n.id), Spk(Other(n.id)), eph,
                              Otpk(Other(n.id), n.otpk), Drawn(n, "kem"))
    IN  [n EXCEPT !.mem = NewInitiator(<<sk>>, Spk(Other(n.id)), Drawn(n, "dh")),
                  !.otpk = 0, !.drawn = @ + 1]

HelloOf(n) == [eph |-> Drawn(n, "eph"), otpk |-> n.otpk, pq |-> Drawn(n, "kem")]

(* ratchet_encrypt_and_wrap: the EncryptedPayload for pt.                  *)
Wire(n, pt, hello) ==
    LET h == EncryptHeader(n.mem) IN
    [from |-> n.id, to |-> Other(n.id), pt |-> pt,
     dh |-> h.dh, pn |-> h.pn, n |-> h.n, mk |-> h.mk,
     eph |-> hello.eph, otpk |-> hello.otpk, pq |-> hello.pq]

(* Mutant of EncryptAndSendExisting: the session is not persisted.         *)
EncryptAndSendUnsaved(n, pt, hello) ==
    IF ~CanEncrypt(n.mem) THEN n
    ELSE [n EXCEPT !.mem = AfterEncrypt(@), !.out = @ \cup {Wire(n, pt, hello)}]

EncryptAndSendExisting(n, pt, hello) ==
    IF ~CanEncrypt(n.mem) THEN n
    ELSE PersistSession([n EXCEPT !.mem = AfterEncrypt(@),
                                  !.out = @ \cup {Wire(n, pt, hello)}])

BootstrapInitiatorAndSend(n, pt) ==
    EncryptAndSendExisting(InstallInitiator(n), pt, HelloOf(n))

(* The offline branch with a key to encrypt with: try_encrypt_offline      *)
(* advances the in-memory session only; one ciphertext goes to the mailbox *)
(* and to the outbox.                                                      *)
EncryptOffline(n, pt, hello) ==
    IF ~CanEncrypt(n.mem)
    THEN OutboxAdd(n, PlainRow(pt), pt)
    ELSE LET w == Wire(n, pt, hello)
             m == [n EXCEPT !.mem = AfterEncrypt(@), !.drops = @ \cup {w}]
         IN  OutboxAdd(m, WireRow(w), pt)

TrySendOrQueue(n, pt) ==
    IF ~n.conn
    THEN IF HasSession(n) THEN EncryptOffline(RestoreSession(n), pt, NoHello)
         ELSE IF n.prekey THEN EncryptOffline(InstallInitiator(n), pt, HelloOf(n))
         ELSE OutboxAdd(n, PlainRow(pt), pt)
    ELSE IF HasSession(n) THEN EncryptAndSendExisting(RestoreSession(n), pt, NoHello)
         ELSE IF n.prekey THEN BootstrapInitiatorAndSend(n, pt)
         ELSE RequestPrekey([n EXCEPT !.pendSend = Append(@, pt)])

(* Mutant: a plaintext row is deleted and sent only if a session is there. *)
DrainRowNeedsSession(n, row) ==
    LET m == [n EXCEPT !.outbox = Tail(@)] IN
    IF row.wire THEN [m EXCEPT !.out = @ \cup {row.body}]
    ELSE IF HasSession(m) THEN TrySendOrQueue(m, row.body) ELSE m

(* drain_outbox_for: rows in order, each deleted once handed off.          *)
DrainRow(n, row) ==
    LET m == [n EXCEPT !.outbox = Tail(@)] IN
    IF row.wire THEN [m EXCEPT !.out = @ \cup {row.body}]
    ELSE TrySendOrQueue(m, row.body)

DrainOutbox(n) ==
    LET after[i \in 0 .. Len(n.outbox)] ==
            IF i = 0 THEN n ELSE DrainRow(after[i - 1], n.outbox[i])
    IN  after[Len(n.outbox)]

-----------------------------------------------------------------------------
(* Receiving.                                                              *)

DrewDh(n, r) == r.st.dhs = Drawn(n, "dh")

(* Mutant of DecryptAndStore: the session is not persisted.                *)
DecryptAndStoreUnsaved(n, w) ==
    LET r == Decrypt(n.mem, w, Drawn(n, "dh"))
        m == [n EXCEPT !.mem = r.st, !.drawn = IF DrewDh(n, r) THEN @ + 1 ELSE @]
    IN  IF r.err = "ok" THEN StorePlaintext(m, w.pt) ELSE m

(* decrypt_and_store: a failure leaves what decrypt did in memory, and     *)
(* only a success is persisted, before the plaintext is stored.            *)
DecryptAndStore(n, w) ==
    LET r == Decrypt(n.mem, w, Drawn(n, "dh"))
        m == [n EXCEPT !.mem = r.st, !.drawn = IF DrewDh(n, r) THEN @ + 1 ELSE @]
    IN  IF r.err = "ok" THEN StorePlaintext(PersistSession(m), w.pt) ELSE m

ResponderSession(n, w) ==
    NewResponder(<<ResponderDerive(Spk(n.id), Otpk(n.id, w.otpk), w.eph,
                                   Spk(w.from), w.pq)>>, Spk(n.id))

(* bootstrap_responder_and_decrypt: dropped if the OTPK does not load; the *)
(* session survives only if the first message opens.                       *)
BootstrapResponder(n, w) ==
    LET m == DecryptAndStore([n EXCEPT !.mem = ResponderSession(n, w)], w) IN
    IF ~OtpkLoads(n, w.otpk) THEN n
    ELSE IF m.stored = n.stored THEN [m EXCEPT !.mem = NoSession]
    ELSE ConsumeOtpk(m, w.otpk)

(* Mutant of ProcessIncomingDm: a first message always starts a session.   *)
ProcessIncomingDmResets(n, w) ==
    IF w.eph # Absent /\ n.prekey THEN BootstrapResponder(n, w)
    ELSE IF HasSession(n) THEN DecryptAndStore(RestoreSession(n), w)
    ELSE IF w.eph = Absent THEN n
    ELSE RequestPrekey([n EXCEPT !.pendRecv = Append(@, w)])

(* process_incoming_dm *)
ProcessIncomingDm(n, w) ==
    IF HasSession(n) THEN DecryptAndStore(RestoreSession(n), w)
    ELSE IF w.eph = Absent THEN n
    ELSE IF n.prekey THEN BootstrapResponder(n, w)
    ELSE RequestPrekey([n EXCEPT !.pendRecv = Append(@, w)])

(* process_pending: queued receives first, then queued sends.              *)
PendingRecv(n, w) ==
    IF HasSession(n) THEN DecryptAndStore(RestoreSession(n), w)
    ELSE IF w.eph # Absent THEN BootstrapResponder(n, w)
    ELSE n

PendingSend(n, pt) ==
    IF HasSession(n) THEN EncryptAndSendExisting(RestoreSession(n), pt, NoHello)
    ELSE BootstrapInitiatorAndSend(n, pt)

DrainReceives(n) ==
    LET after[i \in 0 .. Len(n.pendRecv)] ==
            IF i = 0 THEN [n EXCEPT !.pendRecv = << >>]
            ELSE PendingRecv(after[i - 1], n.pendRecv[i])
    IN  after[Len(n.pendRecv)]

DrainSends(n) ==
    LET after[i \in 0 .. Len(n.pendSend)] ==
            IF i = 0 THEN [n EXCEPT !.pendSend = << >>]
            ELSE PendingSend(after[i - 1], n.pendSend[i])
    IN  after[Len(n.pendSend)]

ProcessPending(n) == DrainSends(DrainReceives(n))

-----------------------------------------------------------------------------
(* The handlers as actions.                                                *)

Commit(p, n, inFlight) ==
    /\ node' = [node EXCEPT ![p] = [n EXCEPT !.out = {}, !.drops = {}, !.asks = FALSE]]
    /\ dms' = inFlight \cup n.out
    /\ dht' = dht \cup n.drops
    /\ wires' = wires \cup n.out \cup n.drops

Ask(p, n) ==
    fetch' = IF n.asks THEN [fetch EXCEPT ![p] = [stage |-> "asked", otpk |-> 0]]
             ELSE fetch

(* The user of p sends the next message.                                   *)
SendMessage(p) ==
    LET n == TrySendOrQueue(node[p], typed[p] + 1) IN
    /\ typed[p] < Quota[p]
    /\ OfflineSends \/ node[p].conn
    /\ typed' = [typed EXCEPT ![p] = @ + 1]
    /\ Commit(p, n, dms)
    /\ Ask(p, n)
    /\ UNCHANGED <<fetches, restarts>>

(* ConnectionEstablished or mDNS discovery: note the peer, drain its rows. *)
PeerConnected(p) ==
    LET n == DrainOutbox([node[p] EXCEPT !.conn = TRUE]) IN
    /\ ~node[p].conn
    /\ Commit(p, n, dms)
    /\ Ask(p, n)
    /\ UNCHANGED <<typed, fetches, restarts>>

(* ConnectionClosed or mDNS expiry.                                        *)
PeerDisconnected(p) ==
    /\ node[p].conn
    /\ node' = [node EXCEPT ![p].conn = FALSE]
    /\ UNCHANGED <<dms, fetch, dht, typed, wires, fetches, restarts>>

ReceiveDm(w) ==
    LET n == ProcessIncomingDm(node[w.to], w) IN
    /\ Commit(w.to, n, dms \ {w})
    /\ Ask(w.to, n)
    /\ UNCHANGED <<typed, fetches, restarts>>

(* handle_mailbox_record_result: the same bytes through the DHT.           *)
FetchDrop(w) ==
    LET n == ProcessIncomingDm(node[w.to], w) IN
    /\ fetches < MaxFetches
    /\ fetches' = fetches + 1
    /\ Commit(w.to, n, dms)
    /\ Ask(w.to, n)
    /\ UNCHANGED <<typed, restarts>>

FreshOtpks(n) == {id \in DOMAIN n.pool : n.pool[id] = "fresh"}

(* handle_prekey_event, Request: q answers p, popping its oldest unserved  *)
(* OTPK or sending none.                                                   *)
AnswerPrekey(p, attach) ==
    LET q == Other(p)
        pool == FreshOtpks(node[q])
        id == CHOOSE k \in pool : \A j \in pool : k <= j
    IN  /\ fetch[p].stage = "asked"
        /\ IF attach
           THEN /\ pool # {}
                /\ node' = [node EXCEPT ![q].pool[id] = "served"]
                /\ fetch' = [fetch EXCEPT ![p] = [stage |-> "answered", otpk |-> id]]
           ELSE /\ fetch' = [fetch EXCEPT ![p] = [stage |-> "answered", otpk |-> 0]]
                /\ UNCHANGED node
        /\ UNCHANGED <<dms, dht, typed, wires, fetches, restarts>>

(* handle_prekey_event, Response: cache, clear the in-flight mark, drain.  *)
ReceivePrekey(p) ==
    LET id == fetch[p].otpk
        cached == [node[p] EXCEPT !.prekey = TRUE, !.inflight = FALSE,
                                  !.otpk = IF id = 0 THEN @ ELSE id]
    IN  /\ fetch[p].stage = "answered"
        /\ Commit(p, ProcessPending(cached), dms)
        /\ fetch' = [fetch EXCEPT ![p] = NoFetch]
        /\ UNCHANGED <<typed, fetches, restarts>>

(* handle_prekey_event, OutboundFailure: only the mark is cleared.         *)
PrekeyFails(p) ==
    /\ fetch[p].stage # "none"
    /\ fetch' = [fetch EXCEPT ![p] = NoFetch]
    /\ node' = [node EXCEPT ![p].inflight = FALSE]
    /\ UNCHANGED <<dms, dht, typed, wires, fetches, restarts>>

(* What a process start finds: the store, and empty memory.                *)
Restarted(n) ==
    [n EXCEPT !.mem = NoSession, !.otpk = 0, !.pendSend = << >>, !.pendRecv = << >>,
              !.inflight = FALSE, !.conn = FALSE,
              !.out = {}, !.drops = {}, !.asks = FALSE]

StartsAgain(p, n) ==
    /\ restarts < MaxRestarts
    /\ restarts' = restarts + 1
    /\ node' = [node EXCEPT ![p] = Restarted(n)]
    /\ fetch' = [fetch EXCEPT ![p] = NoFetch]
    /\ UNCHANGED <<dht, typed, wires, fetches>>

Restart(p) == StartsAgain(p, node[p]) /\ UNCHANGED dms

(* A crash while n, opening w, becomes m: the session is persisted, then   *)
(* the plaintext is stored (or not yet), and the OTPK is not consumed.     *)
CrashOpening(n, m, stored) ==
    /\ m.stored # n.stored
    /\ StartsAgain(n.id, [n EXCEPT !.disk = m.disk, !.drawn = m.drawn,
                                   !.stored = IF stored THEN m.stored ELSE @])

CrashInReceive(w, stored) ==
    /\ CrashOpening(node[w.to], ProcessIncomingDm(node[w.to], w), stored)
    /\ dms' = dms \ {w}

(* The same crash at the first receive that waited for the prekey.         *)
CrashInPending(p, stored) ==
    LET cached == [node[p] EXCEPT !.prekey = TRUE] IN
    /\ fetch[p].stage = "answered"
    /\ node[p].pendRecv # << >>
    /\ CrashOpening(cached, PendingRecv(cached, Head(node[p].pendRecv)), stored)
    /\ UNCHANGED dms

Init ==
    /\ node = [p \in Parties |->
        [id |-> p, mem |-> NoSession, disk |-> NoSession,
         prekey |-> FALSE, otpk |-> 0, inflight |-> FALSE, conn |-> FALSE,
         pendSend |-> << >>, pendRecv |-> << >>,
         outbox |-> << >>, queued |-> {}, pool |-> [id \in 1 .. OtpkCount |-> "fresh"], drawn |-> 0,
         stored |-> [k \in MsgIds(Other(p)) |-> 0],
         out |-> {}, drops |-> {}, asks |-> FALSE]]
    /\ dms = {}
    /\ fetch = [p \in Parties |-> NoFetch]
    /\ dht = {}
    /\ typed = [p \in Parties |-> 0]
    /\ wires = {}
    /\ fetches = 0
    /\ restarts = 0

Next ==
    \/ \E p \in Parties :
        \/ SendMessage(p) \/ PeerConnected(p) \/ PeerDisconnected(p)
        \/ \E attach \in BOOLEAN : AnswerPrekey(p, attach)
        \/ ReceivePrekey(p) \/ PrekeyFails(p) \/ Restart(p)
        \/ \E stored \in BOOLEAN : CrashInPending(p, stored)
    \/ \E w \in dms :
        ReceiveDm(w) \/ (\E stored \in BOOLEAN : CrashInReceive(w, stored))
    \/ \E w \in dht : FetchDrop(w)

Spec == Init /\ [][Next]_vars

-----------------------------------------------------------------------------
(* Types, and the pairing of in-memory marks with what they stand for:     *)
(* the in-flight mark is set exactly while a prekey exchange is under way, *)
(* and a cached OTPK was served by the peer.                               *)
TypeOK ==
    /\ \A p \in Parties :
        /\ node[p].inflight = (fetch[p].stage # "none")
        /\ node[p].otpk # 0 => node[Other(p)].pool[node[p].otpk] # "fresh"
        /\ node[p].out = {} /\ node[p].drops = {} /\ ~node[p].asks
        /\ Len(node[p].outbox) + Len(node[p].pendSend) <= typed[p]
    /\ dms \subseteq wires /\ dht \subseteq wires
    /\ \A w \in wires : w.pt \in 1 .. typed[w.from]
    /\ fetches \in 0 .. MaxFetches /\ restarts \in 0 .. MaxRestarts

(* RatchetState::encrypt with persist_session: a message key seals one     *)
(* plaintext only, which is what makes the zero AEAD nonce safe; the one   *)
(* exception is a key of an offline message (dht), after a restart.        *)
KeySealsOnce ==
    \A v, w \in wires :
        v.mk = w.mk => v = w \/ (restarts > 0 /\ {v, w} \cap dht # {})

(* decrypt_and_store and the outbox/mailbox pair: no plaintext reaches the *)
(* message table twice, however often its wire bytes arrive and wherever   *)
(* either node restarts.                                                   *)
StoredAtMostOnce ==
    \A p \in Parties : \A k \in DOMAIN node[p].stored : node[p].stored[k] <= 1

OpenedKeys(p) ==
    {w.mk : w \in {v \in wires : v.to = p /\ node[p].stored[v.pt] > 0}}

(* persist_session before dispatch: a key that has opened a stored message *)
(* cannot be derived again from the recipient's memory or disk, so         *)
(* neither a replay nor a restart can bring the message back.              *)
ReceivedKeysForgotten ==
    \A p \in Parties : \A mk \in OpenedKeys(p) :
        \A s \in {node[p].mem, node[p].disk} \ {NoSession} : ~CanDerive(s, mk)

(* Wires that arrive twice, replays and restarts: no message is stored     *)
(* again, and no key of a stored one is left.                              *)
NothingComesBack == TypeOK /\ StoredAtMostOnce /\ ReceivedKeysForgotten

(* process_incoming_dm: a session on disk is never replaced by another one *)
(* (a replayed or crossing first message cannot reset the chain).          *)
PersistedSessionKept ==
    [][\A p \in Parties :
        node[p].disk # NoSession =>
            /\ node'[p].disk # NoSession
            /\ node'[p].disk.sessionId = node[p].disk.sessionId]_vars

(* try_send_or_queue and drain_outbox_for: a message that entered the      *)
(* outbox is still there, waits for the prekey in pending_sends, or has    *)
(* been encrypted, however the connection comes and goes while the outbox  *)
(* is drained.  Only a restart loses one: pending_sends is memory.         *)
OutboxKept ==
    restarts = 0 => \A p \in Parties : \A k \in node[p].queued :
        \/ \E w \in wires : w.from = p /\ w.pt = k
        \/ \E i \in DOMAIN node[p].outbox : node[p].outbox[i] = PlainRow(k)
        \/ \E i \in DOMAIN node[p].pendSend : node[p].pendSend[i] = k

-----------------------------------------------------------------------------
(* Documented claims that the code does not keep.                          *)

(* ratchet.rs: "Each message key is used exactly once, so a zero nonce on  *)
(* the AEAD is safe".                                                      *)
KeySealsOnceAlways == \A v, w \in wires : v.mk = w.mk => v = w

(* RatchetState::session_id: "Both peers compute the same value at         *)
(* construction": two persisted sessions with each other have one id.      *)
SessionIdsAgree ==
    node["A"].disk # NoSession /\ node["B"].disk # NoSession =>
        node["A"].disk.sessionId = node["B"].disk.sessionId
=============================================================================
