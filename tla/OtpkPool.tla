------------------------------ MODULE OtpkPool ------------------------------
(***************************************************************************)
(* The pool of one-time prekeys a node hands out (node.rs, the OTPK pool   *)
(* functions and the Request arm of handle_prekey_event; store.rs, the     *)
(* my_otpks table) and the per-peer gate in front of it.                   *)
(*                                                                         *)
(* A row of my_otpks is its id.  Ids come from AUTOINCREMENT and are never *)
(* reused.  The sets below partition the rows that exist by their markers: *)
(*    fresh    served_at and consumed_at null                              *)
(*    served   served_at set, consumed_at null                             *)
(*    spent    consumed_at set                                             *)
(*                                                                         *)
(* The wall clock only moves forward.  Every store write may fail when     *)
(* StoreFails is TRUE: each such error is logged and the handler goes on.  *)
(***************************************************************************)
EXTENDS Integers, FiniteSets

CONSTANTS Peers,         \* remote peers
          Target,        \* OTPK_POOL_TARGET
          Cooldown,      \* OTPK_FETCH_COOLDOWN_SECS
          StoreFails,    \* may store writes fail?
          MaxClock,      \* bound: clock ticks
          MaxRuns        \* bound: process starts

ASSUME PoolAssumption ==
    /\ Target \in Nat \ {0} /\ Cooldown \in Nat \ {0} /\ StoreFails \in BOOLEAN
    /\ MaxClock \in Nat /\ MaxRuns \in Nat \ {0}

VARIABLES fresh, served, spent, \* rows of my_otpks
          nextId,               \* the next id AUTOINCREMENT gives
          recent,               \* recent_otpk_fetches: a map from peer to time
          live, disk,           \* peers with a session in memory, on disk
          clock,                \* unix_seconds_now
          run,                  \* which process start this is
          issued,               \* history: responses that carried an OTPK
          derived               \* history: sessions a first message set up

rows == <<fresh, served, spent, nextId>>
vars == <<rows, recent, live, disk, clock, run, issued, derived>>

-----------------------------------------------------------------------------
(* Mutant of Needed: a whole pool each time.                               *)
NeededWholePool(f) == Target

(* replenish_otpk_pool: only the deficit is generated; made is how many    *)
(* inserts went through.                                                   *)
Needed(f) == IF Cardinality(f) < Target THEN Target - Cardinality(f) ELSE 0

Inserted(f, made) ==
    /\ made \in 0 .. Needed(f)
    /\ StoreFails \/ made = Needed(f)

(* Mutant of NewRows: one row too many.                                    *)
NewRowsOneMore(made) == nextId .. nextId + made

NewRows(made) == nextId .. nextId + made - 1

Replenish(f) ==
    \E made \in 0 .. Target :
        /\ Inserted(f, made)
        /\ fresh' = f \cup NewRows(made)
        /\ nextId' = nextId + made


(* check_and_update_otpk_gate *)
GateAllows(p) == p \in DOMAIN recent => clock - recent[p] >= Cooldown

GateUpdated(p) ==
    [q \in DOMAIN recent \cup {p} |-> IF q = p THEN clock ELSE recent[q]]

(* pop_unused_otpk picks the oldest row that was never served.             *)
Oldest(id) == id \in fresh /\ \A j \in fresh : id <= j

Response(id, p) == [id |-> id, peer |-> p, at |-> clock, run |-> run]

(* Mutant of PopAndServe: served_at is not set, so the row stays fresh.    *)
PopAndServeUnmarked(p) ==
    \E id \in fresh :
        /\ Oldest(id)
        /\ issued' = issued \cup {Response(id, p)}
        /\ Replenish(fresh)
        /\ UNCHANGED served

(* pop_one_otpk_bundle: mark the row served, then top the pool up.         *)
PopAndServe(p) ==
    \E id \in fresh :
        /\ Oldest(id)
        /\ served' = served \cup {id}
        /\ issued' = issued \cup {Response(id, p)}
        /\ Replenish(fresh \ {id})

(* ... nothing to pop, or the UPDATE failed: the response has no OTPK.     *)
PopNothing ==
    /\ StoreFails \/ fresh = {}
    /\ UNCHANGED <<served, issued>>
    /\ Replenish(fresh)

(* handle_prekey_event, Request: a peer inside its cooldown is answered    *)
(* without an OTPK, and nothing changes.                                   *)
Request(p) ==
    IF GateAllows(p)
    THEN /\ recent' = GateUpdated(p)
         /\ PopAndServe(p) \/ PopNothing
         /\ UNCHANGED <<spent, live, disk, clock, run, derived>>
    ELSE UNCHANGED vars

(* Mutant of Prune: every entry but the latest is forgotten.               *)
PruneAllButNow ==
    /\ recent' = [q \in {p \in DOMAIN recent : recent[p] >= clock} |-> recent[q]]
    /\ UNCHANGED <<rows, live, disk, clock, run, issued, derived>>

(* prune_recent_otpk_fetches, on the hourly tick.                          *)
Prune ==
    /\ recent' = [q \in {p \in DOMAIN recent : recent[p] >= clock - Cooldown}
                    |-> recent[q]]
    /\ UNCHANGED <<rows, live, disk, clock, run, issued, derived>>

-----------------------------------------------------------------------------
(* Mutant of Loads: consumed_at is not looked at.                          *)
LoadsSpent(id) == id \in fresh \cup served \cup spent

(* load_otpk_private: the row exists and is not spent.                     *)
Loads(id) == id \in fresh \cup served

(* The writes of bootstrap_responder_and_decrypt, in order: the session is *)
(* persisted, the row marked consumed, the row deleted.  What is left of   *)
(* row id when some of the last two fail:                                  *)
Retire(id, marked, deleted) ==
    /\ fresh' = IF marked \/ deleted THEN fresh \ {id} ELSE fresh
    /\ served' = IF marked \/ deleted THEN served \ {id} ELSE served
    /\ spent' = IF marked /\ ~deleted THEN spent \cup {id} ELSE spent
    /\ UNCHANGED nextId

(* The first message of the peer that was given OTPK a.id arrives, for the *)
(* first time or again, and opens.  A peer with a session, in memory or on *)
(* disk, is not set up again.  At least one of the three writes succeeds.  *)
FirstMessage(a, persisted, marked, deleted) ==
    /\ StoreFails \/ (persisted /\ marked /\ deleted)
    /\ persisted \/ marked \/ deleted
    /\ a.peer \notin live \cup disk
    /\ Loads(a.id)
    /\ live' = live \cup {a.peer}
    /\ disk' = IF persisted THEN disk \cup {a.peer} ELSE disk
    /\ Retire(a.id, marked, deleted)
    /\ derived' = derived \cup {[id |-> a.id, peer |-> a.peer, run |-> run]}
    /\ UNCHANGED <<recent, clock, run, issued>>

-----------------------------------------------------------------------------
(* A start finds the store and empty maps, and tops the pool up.           *)
Started ==
    /\ run < MaxRuns
    /\ run' = run + 1
    /\ recent' = [q \in {} |-> 0]
    /\ live' = {}
    /\ UNCHANGED <<spent, disk, clock, issued, derived>>

Restart == Started /\ Replenish(fresh) /\ UNCHANGED served

(* A crash after the pop committed and before the response left.           *)
CrashAfterPop(p) ==
    /\ GateAllows(p)
    /\ \E id \in fresh :
        /\ Oldest(id)
        /\ served' = served \cup {id}
        /\ Started
        /\ Replenish(fresh \ {id})

(* A crash after the first message's session is persisted and before its   *)
(* OTPK is marked: the row stays as it was.                                *)
CrashBeforeMark(a) ==
    /\ a.peer \notin live \cup disk
    /\ Loads(a.id)
    /\ run < MaxRuns
    /\ run' = run + 1
    /\ recent' = [q \in {} |-> 0]
    /\ live' = {}
    /\ disk' = disk \cup {a.peer}
    /\ derived' = derived \cup {[id |-> a.id, peer |-> a.peer, run |-> run]}
    /\ Replenish(fresh)
    /\ UNCHANGED <<served, spent, clock, issued>>

Tick ==
    /\ clock < MaxClock
    /\ clock' = clock + 1
    /\ UNCHANGED <<rows, recent, live, disk, run, issued, derived>>

(* The first start: an empty table, topped up.                             *)
Init ==
    /\ \E made \in 0 .. Target :
        /\ StoreFails \/ made = Target
        /\ fresh = 1 .. made
        /\ nextId = made + 1
    /\ served = {} /\ spent = {}
    /\ recent = [q \in {} |-> 0]
    /\ live = {} /\ disk = {}
    /\ clock = 0 /\ run = 1
    /\ issued = {} /\ derived = {}

Next ==
    \/ \E p \in Peers : Request(p) \/ CrashAfterPop(p)
    \/ Prune \/ Restart \/ Tick
    \/ \E a \in issued :
        \/ CrashBeforeMark(a)
        \/ \E persisted, marked, deleted \in BOOLEAN :
            FirstMessage(a, persisted, marked, deleted)

Spec == Init /\ [][Next]_vars

-----------------------------------------------------------------------------
Responses == [id : Nat, peer : Peers, at : Nat, run : Nat]
Derivations == [id : Nat, peer : Peers, run : Nat]

(* The three kinds of rows are disjoint, and AUTOINCREMENT has given out   *)
(* every row's id.                                                         *)
RowsOK ==
    /\ fresh \subseteq Nat /\ served \subseteq Nat /\ spent \subseteq Nat
    /\ nextId \in Nat \ {0}
    /\ \A id \in fresh \cup served \cup spent : id < nextId
    /\ fresh \cap served = {} /\ fresh \cap spent = {} /\ served \cap spent = {}

(* Types, and the shape of the my_otpks table.                             *)
TypeOK ==
    /\ RowsOK
    /\ DOMAIN recent \subseteq Peers
    /\ \A p \in DOMAIN recent : recent[p] \in Nat
    /\ live \subseteq Peers /\ disk \subseteq Peers
    /\ clock \in 0 .. MaxClock /\ run \in 1 .. MaxRuns
    /\ issued \subseteq Responses
    /\ derived \subseteq Derivations

(* pop_unused_otpk, "a single OTPK is never served to two different        *)
(* initiator handshakes": two responses never carry the same key, across   *)
(* failed inserts, deleted rows, crashes and restarts.                     *)
ServedOnce == \A a, b \in issued : a.id = b.id => a = b

(* check_and_update_otpk_gate with prune_recent_otpk_fetches: while the    *)
(* process runs, two OTPKs for one peer are a cooldown apart, although the *)
(* hourly prune forgets entries.                                           *)
RateLimited ==
    \A a, b \in issued :
        a.peer = b.peer /\ a.run = b.run /\ a # b =>
            a.at + Cooldown <= b.at \/ b.at + Cooldown <= a.at

(* mark_otpk_consumed, the replay gate: a one-time prekey sets up at most  *)
(* one session, although the first message may arrive again after a crash  *)
(* or a restart, and although any two of the three writes may fail.        *)
KeyDerivesOnce == \A d, e \in derived : d.id = e.id => d = e

(* replenish_otpk_pool: the pool never grows past its target, and without  *)
(* store failures every handler leaves it full, so the gate is the only    *)
(* reason for a response without an OTPK.                                  *)
PoolLevel ==
    /\ Cardinality(fresh) <= Target
    /\ ~StoreFails => Cardinality(fresh) = Target

-----------------------------------------------------------------------------
Service == INSTANCE PrekeyService WITH given <- issued, used <- derived

(* The my_otpks table with its markers implements PrekeyService: a key, once *)
(* given, is never given again, and is used only by who it was given to, at  *)
(* most once, through every crash, restart and failed write.                 *)
KeepsPromise == Service!Spec
=============================================================================
