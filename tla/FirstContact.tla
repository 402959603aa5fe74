---------------------------- MODULE FirstContact ----------------------------
(***************************************************************************)
(* Setting up a session (node.rs: handle_prekey_event, build_x3dh_hello,   *)
(* bootstrap_responder_and_decrypt) in all variants: with or without a     *)
(* one-time prekey, with or without ML-KEM.                                *)
(*                                                                         *)
(* An initiator fetches the responder's keys and sends; a responder        *)
(* answers.  What the initiator caches can be partly lost (memory in a     *)
(* restart, a write that fails, a crash between two writes) or outdated    *)
(* (the responder replaced a key it found damaged in identity.json), and   *)
(* messages are lost and overtake each other.  Once the initiator has a    *)
(* session, no message carries the hello again.                            *)
(*                                                                         *)
(* Keys are named by whose they are and their version.  A message opens    *)
(* under the secret it was sealed with; what the ratchet adds to that is   *)
(* module Ratchet's.                                                       *)
(***************************************************************************)
EXTENDS X3dh, FiniteSets

CONSTANTS OtpkCount,    \* one-time prekeys in the responder's pool
          MaxSends,     \* bound: messages
          MaxRestarts,  \* bound: restarts and crashes of the initiator
          MaxRegens,    \* bound: keys replaced by either side
          StoreFails,   \* may writes of the initiator's store fail?
          Loses         \* may messages be lost?

ASSUME FirstContactAssumption ==
    /\ OtpkCount \in Nat /\ MaxSends \in Nat /\ MaxRestarts \in Nat
    /\ MaxRegens \in Nat /\ StoreFails \in BOOLEAN /\ Loses \in BOOLEAN

VARIABLES spk, kem,        \* responder: versions of its two long-term keys
          pqAware,         \* responder: its build answers with an ML-KEM key
          fresh, loadable, \* responder: OTPKs never served, OTPKs that load
          known,           \* responder: the initiator's prekey in its store
          waiting,         \* responder: pending_recvs
          resp,            \* responder: the session's secret
          ik,              \* initiator: version of its own X25519 key
          row,             \* initiator: the responder's row in prekeys_seen
          memEk, memOtpk,  \* initiator: cached_pq_prekeys, cached_otpks
          init,            \* initiator: the session's secret
          answer,          \* a prekey response on its way, or NoAnswer
          wire,            \* messages on their way
          sends, restarts, regens,
          offered,         \* history: an ML-KEM key came with the stored row
          spoiled,         \* history: the write of that key did not happen
          hellos,          \* history: first messages sent
          dropped          \* history: messages dropped for want of a session

responder == <<spk, kem, pqAware, fresh, loadable, known, waiting, resp>>
initiator == <<ik, row, memEk, memOtpk, init>>
history == <<offered, spoiled, hellos, dropped>>
vars == <<responder, initiator, answer, wire, sends, restarts, regens, history>>

None == 0
NoSession == << >>
NoAnswer == << >>

Ik(v) == <<"ik", v>>
Spk(v) == <<"spk", v>>
Otpk(id) == IF id = None THEN Absent ELSE <<"otpk", id>>
Eph(n) == <<"eph", n>>

-----------------------------------------------------------------------------
(* The initiator.                                                          *)

(* pop_unused_otpk: a served key leaves the pool (its refill adds others). *)
Popped(id) == fresh \ {id}

(* handle_prekey_event, Request: the prekey, an OTPK if the gate lets one  *)
(* through and the pool has one, the ML-KEM key.                           *)
AnswerPrekey(attach) ==
    LET id == IF attach THEN CHOOSE k \in fresh : \A j \in fresh : k <= j ELSE None IN
    /\ row.x = None /\ answer = NoAnswer
    /\ attach => fresh # {}
    /\ answer' = [x |-> spk, otpk |-> id, ek |-> IF pqAware THEN kem ELSE None]
    /\ fresh' = Popped(id)
    /\ UNCHANGED <<spk, kem, pqAware, loadable, known, waiting, resp, initiator,
                   wire, sends, restarts, regens, history>>

(* OutboundFailure of the exchange.                                        *)
AnswerLost ==
    /\ answer # NoAnswer
    /\ answer' = NoAnswer
    /\ UNCHANGED <<responder, initiator, wire, sends, restarts, regens, history>>

(* handle_prekey_event, Response: verify_and_store_prekey (a failed write  *)
(* drops the response), then the OTPK and the ML-KEM key go to memory, and *)
(* the latter into the row, which a routine refresh does not clear.        *)
ReceivePrekey(saved, savedPq) ==
    /\ answer # NoAnswer
    /\ StoreFails \/ (saved /\ savedPq)
    /\ answer' = NoAnswer
    /\ IF saved
       THEN /\ row' = [x |-> answer.x,
                       ek |-> IF answer.ek # None /\ savedPq THEN answer.ek ELSE row.ek]
            /\ memOtpk' = IF answer.otpk # None THEN answer.otpk ELSE memOtpk
            /\ memEk' = IF answer.ek # None THEN answer.ek ELSE memEk
            /\ offered' = (offered \/ answer.ek # None)
            /\ spoiled' = (spoiled \/ ~savedPq)
       ELSE UNCHANGED <<row, memOtpk, memEk, offered, spoiled>>
    /\ UNCHANGED <<responder, ik, init, wire, sends, restarts, regens, hellos, dropped>>

(* The process ends between save_prekey and save_pq_prekey.                *)
CrashInReceivePrekey ==
    /\ answer # NoAnswer /\ restarts < MaxRestarts
    /\ restarts' = restarts + 1
    /\ answer' = NoAnswer
    /\ row' = [row EXCEPT !.x = answer.x]
    /\ memOtpk' = None /\ memEk' = None
    /\ offered' = (offered \/ answer.ek # None)
    /\ spoiled' = TRUE
    /\ UNCHANGED <<responder, ik, init, wire, sends, regens, hellos, dropped>>

(* Mutant of EkFor: the row is not looked at.                              *)
EkForMemoryOnly == memEk

(* build_x3dh_hello: the ML-KEM key from memory or else from the row.      *)
EkFor == IF memEk # None THEN memEk ELSE row.ek

(* The four-way match over (OTPK, ML-KEM).                                 *)
Hello(n) ==
    LET ct == IF EkFor = None THEN Absent ELSE PqEncapsulate(EkFor, n) IN
    [n |-> n, eph |-> Eph(n), otpk |-> memOtpk, ct |-> ct,
     sk |-> InitiatorDerive(Ik(ik), Spk(row.x), Eph(n), Otpk(memOtpk), ct)]

SendHello ==
    LET m == Hello(sends + 1) IN
    /\ init = NoSession /\ row.x # None /\ sends < MaxSends
    /\ sends' = sends + 1
    /\ init' = m.sk
    /\ memOtpk' = None
    /\ memEk' = EkFor
    /\ wire' = wire \cup {m}
    /\ hellos' = hellos \cup {[hybrid |-> m.ct # Absent, offered |-> offered]}
    /\ UNCHANGED <<responder, ik, row, answer, restarts, regens, offered, spoiled, dropped>>

Follow(n) == [n |-> n, eph |-> Absent, otpk |-> None, ct |-> Absent, sk |-> init]

SendMore ==
    /\ init # NoSession /\ sends < MaxSends
    /\ sends' = sends + 1
    /\ wire' = wire \cup {Follow(sends + 1)}
    /\ UNCHANGED <<responder, initiator, answer, restarts, regens, history>>

(* Memory is gone; the session and the row are on disk.                    *)
RestartInitiator ==
    /\ restarts < MaxRestarts
    /\ restarts' = restarts + 1
    /\ memOtpk' = None /\ memEk' = None
    /\ answer' = NoAnswer
    /\ UNCHANGED <<responder, ik, row, init, wire, sends, regens, history>>

(* identity.rs: a start that finds a prekey damaged makes a new one.       *)
RegenerateIk ==
    /\ regens < MaxRegens
    /\ regens' = regens + 1
    /\ ik' = ik + 1
    /\ memOtpk' = None /\ memEk' = None
    /\ answer' = NoAnswer
    /\ UNCHANGED <<responder, row, init, wire, sends, restarts, history>>

-----------------------------------------------------------------------------
(* The responder.                                                          *)

(* Mutant of ResponderSecret: the ciphertext is ignored.                   *)
ResponderSecretClassical(m, theirIk) ==
    ResponderDerive(Spk(spk), Otpk(m.otpk), m.eph, Ik(theirIk), Absent)

(* The four-way switch of bootstrap_responder_and_decrypt.                 *)
ResponderSecret(m, theirIk) ==
    ResponderDerive(Spk(spk), Otpk(m.otpk), m.eph, Ik(theirIk),
                    IF m.ct = Absent THEN Absent ELSE PqDecapsulate(kem, m.ct))

OtpkLoads(m) == m.otpk = None \/ m.otpk \in loadable

(* Mutant of Bootstrap: the session is kept although nothing opened.       *)
BootstrapUnchecked(m, theirIk) ==
    IF OtpkLoads(m)
    THEN resp' = ResponderSecret(m, theirIk) /\ loadable' = loadable \ {m.otpk}
    ELSE UNCHANGED <<resp, loadable>>

(* bootstrap_responder_and_decrypt: the session stays and the OTPK is      *)
(* retired only if the first message opens.                                *)
Bootstrap(m, theirIk) ==
    IF OtpkLoads(m) /\ ResponderSecret(m, theirIk) = m.sk
    THEN resp' = m.sk /\ loadable' = loadable \ {m.otpk}
    ELSE UNCHANGED <<resp, loadable>>

Received(m) ==
    /\ wire' = wire \ {m}
    /\ UNCHANGED <<spk, kem, pqAware, fresh, initiator, answer, sends, restarts,
                   regens, offered, spoiled, hellos>>

(* process_incoming_dm, step 5: an established session.                    *)
ReceiveInSession(m) ==
    /\ resp # NoSession
    /\ Received(m)
    /\ UNCHANGED <<known, waiting, resp, loadable, dropped>>

(* No session and no x3dh_eph.                                             *)
ReceiveDropped(m) ==
    /\ resp = NoSession /\ m.eph = Absent
    /\ Received(m)
    /\ dropped' = dropped \cup {m.n}
    /\ UNCHANGED <<known, waiting, resp, loadable>>

ReceiveHello(m) ==
    /\ resp = NoSession /\ m.eph # Absent /\ known # None
    /\ Received(m)
    /\ Bootstrap(m, known)
    /\ UNCHANGED <<known, waiting, dropped>>

(* The initiator's prekey is not known yet: queue and fetch it.            *)
ReceiveHelloQueued(m) ==
    /\ resp = NoSession /\ m.eph # Absent /\ known = None
    /\ Received(m)
    /\ waiting' = waiting \cup {m}
    /\ UNCHANGED <<known, resp, loadable, dropped>>

(* The initiator's response: process_pending takes the queued hello.       *)
LearnInitiator ==
    /\ waiting # {} /\ known = None
    /\ known' = ik
    /\ \E m \in waiting : waiting' = waiting \ {m} /\ Bootstrap(m, ik)
    /\ UNCHANGED <<spk, kem, pqAware, fresh, initiator, answer, wire, sends,
                   restarts, regens, history>>

(* pending_recvs is memory.                                                *)
RestartResponder ==
    /\ restarts < MaxRestarts
    /\ restarts' = restarts + 1
    /\ waiting' = {}
    /\ UNCHANGED <<spk, kem, pqAware, fresh, loadable, known, resp, initiator, answer,
                   wire, sends, regens, history>>

(* A start that finds one of the two long-term keys damaged, or, for the   *)
(* second, not there yet.                                                  *)
RegenerateSpk ==
    /\ regens < MaxRegens
    /\ regens' = regens + 1
    /\ spk' = spk + 1
    /\ waiting' = {}
    /\ UNCHANGED <<kem, pqAware, fresh, loadable, known, resp, initiator, answer,
                   wire, sends, restarts, history>>

RegenerateKem ==
    /\ regens < MaxRegens
    /\ regens' = regens + 1
    /\ kem' = kem + 1
    /\ pqAware' = TRUE
    /\ waiting' = {}
    /\ UNCHANGED <<spk, fresh, loadable, known, resp, initiator, answer,
                   wire, sends, restarts, history>>

(* handle_dm_event, OutboundFailure: logged, not sent again.               *)
Lose(m) ==
    /\ Loses
    /\ wire' = wire \ {m}
    /\ UNCHANGED <<responder, initiator, answer, sends, restarts, regens, history>>

Init ==
    /\ spk = 1 /\ kem = 1 /\ pqAware \in BOOLEAN
    /\ fresh = 1 .. OtpkCount /\ loadable = 1 .. OtpkCount
    /\ known = None /\ waiting = {} /\ resp = NoSession
    /\ ik = 1 /\ row = [x |-> None, ek |-> None] /\ memEk = None /\ memOtpk = None
    /\ init = NoSession /\ answer = NoAnswer /\ wire = {}
    /\ sends = 0 /\ restarts = 0 /\ regens = 0
    /\ offered = FALSE /\ spoiled = FALSE /\ hellos = {} /\ dropped = {}

Next ==
    \/ \E attach \in BOOLEAN : AnswerPrekey(attach)
    \/ AnswerLost \/ CrashInReceivePrekey
    \/ \E saved, savedPq \in BOOLEAN : ReceivePrekey(saved, savedPq)
    \/ SendHello \/ SendMore \/ RestartInitiator \/ RegenerateIk
    \/ \E m \in wire :
        \/ ReceiveInSession(m) \/ ReceiveDropped(m)
        \/ ReceiveHello(m) \/ ReceiveHelloQueued(m) \/ Lose(m)
    \/ LearnInitiator \/ RestartResponder \/ RegenerateSpk \/ RegenerateKem

Spec == Init /\ [][Next]_vars

-----------------------------------------------------------------------------
(* Types; an OTPK in the initiator's memory or in a response was served,   *)
(* and the row never has an ML-KEM key alone.                              *)
TypeOK ==
    /\ spk \in 1 .. MaxRegens + 1 /\ kem \in 1 .. MaxRegens + 1 /\ ik \in 1 .. MaxRegens + 1
    /\ fresh \subseteq loadable /\ loadable \subseteq 1 .. OtpkCount
    /\ known \in 0 .. ik /\ row.x \in 0 .. spk /\ row.ek \in 0 .. kem
    /\ memEk \in 0 .. kem /\ memOtpk \in (0 .. OtpkCount) \ fresh
    /\ answer # NoAnswer => answer.otpk \notin fresh
    /\ row.x = None => row.ek = None
    /\ \A m \in wire \cup waiting : m.n \in 1 .. sends
    /\ sends \in 0 .. MaxSends /\ restarts \in 0 .. MaxRestarts /\ regens \in 0 .. MaxRegens

(* bootstrap_responder_and_decrypt (audit F9): a session the responder has *)
(* is the initiator's, whatever was stale or lost on the way: a first      *)
(* message derived from outdated keys leaves nothing behind.               *)
SecretsAgree == resp # NoSession => resp = init

(* Keys and their caches are well formed, and sessions agree.              *)
SecretsSound == TypeOK /\ SecretsAgree

(* Keys a hello was made from are still the responder's and the            *)
(* initiator's own.                                                        *)
Current(m) ==
    /\ m.sk.dhs[1] = X3dhDH(m.eph, Spk(spk))
    /\ m.ct # Absent => m.ct[1] = kem
    /\ X3dhDH(Ik(IF known = None THEN ik ELSE known), Spk(spk)) = m.sk.dhs[2]
    /\ OtpkLoads(m)

(* build_x3dh_hello and bootstrap_responder_and_decrypt: whichever of the  *)
(* four variants the initiator's caches lead to, the responder takes the   *)
(* same one and derives the same secret.                                   *)
HelloOpens ==
    \A m \in wire \cup waiting :
        m.eph # Absent /\ Current(m) =>
            ResponderSecret(m, IF known = None THEN ik ELSE known) = m.sk

(* handle_prekey_event, save_pq_prekey and build_x3dh_hello: an initiator  *)
(* that was given an ML-KEM key and wrote it down uses it, restarted or    *)
(* not.                                                                    *)
StaysHybrid == ~spoiled => \A h \in hellos : h.offered => h.hybrid

-----------------------------------------------------------------------------
(* node.rs: the ML-KEM key is "ALSO" persisted "so a node restart doesn't  *)
(* lose the PQ pubkey".                                                    *)
StaysHybridAlways == \A h \in hellos : h.offered => h.hybrid

(* README: "Out-of-order delivery tolerated up to MAX_SKIP=1000 skipped    *)
(* keys per session": no message of the session is thrown away.            *)
ReorderTolerated == dropped = {}
=============================================================================
