------------------------------ MODULE Mailbox ------------------------------
(***************************************************************************)
(* The DHT mailbox between two peers that share a session: drops, the      *)
(* republish loop, the slot poll and the acknowledgements (node.rs, the    *)
(* mailbox functions; network/mailbox.rs; store.rs, mailbox_drops and      *)
(* mailbox_poll_state).                                                    *)
(*                                                                         *)
(* Kademlia is external: a key holds at most one record, a later put       *)
(* replaces it, and a query answers with what the key holds at that time,  *)
(* or fails.  Hashing is injective, so a key is named by what is hashed:   *)
(*    drop_kad_key(recipient, sender, slot)      legacy[sender][slot]      *)
(*    session_drop_kad_key(session, slot)        keyed[slot]               *)
(*    ack_kad_key(recipient, sender, slot)       <<recipient, slot>>       *)
(*    session_ack_kad_key(session, slot)         slot                      *)
(*    slot_kad_key(recipient, slot)              <<sender, slot>>          *)
(* With two peers the recipient is determined by the sender.               *)
(*                                                                         *)
(* A clock tick stands for the ten minutes between two poll or republish   *)
(* ticks, so a node polls at most once per clock tick (and once more when  *)
(* it starts).  Kademlia ends a query within its default timeout of a      *)
(* minute, so no query outlives a clock tick.                              *)
(*                                                                         *)
(* process_incoming_dm is what DmNode shows of it: it returns true the     *)
(* first time a message arrives, and false for a copy of one already       *)
(* ingested, here or over a direct connection.  A node's own drop, found   *)
(* under a session key, does not open.  The replicas of a key agree, so    *)
(* the further FoundRecord events of a query repeat the first and are left *)
(* out: process_incoming_dm returns false for them.                        *)
(***************************************************************************)
EXTENDS Integers, Sequences

CONSTANTS MsgsA, MsgsB,     \* bound: drops each peer publishes
          TicksPerSlot,     \* SLOT_SECONDS, in clock ticks
          Window,           \* slots one poll covers at most (24)
          RepublishAfter,   \* REPUBLISH_AFTER_SECS, in ticks
          DropTtl,          \* DEFAULT_DROP_TTL_SECS, in ticks
          AckRetention,     \* how long acknowledged rows stay (86400), in ticks
          MaxClock,         \* bound: clock ticks (no drops in the last one)
          MaxFaults         \* bound: failed puts, failed queries, ended processes

ASSUME MailboxAssumption ==
    /\ MsgsA \in Nat /\ MsgsB \in Nat
    /\ TicksPerSlot \in Nat \ {0} /\ Window \in Nat \ {0}
    /\ RepublishAfter \in Nat /\ DropTtl \in Nat /\ AckRetention \in Nat
    /\ MaxClock \in Nat /\ MaxFaults \in Nat

VARIABLES clock,
          up,           \* up[p]: p's process runs
          session,      \* session[p]: the session is in p's memory
          rows,         \* rows[p]: p's mailbox_drops
          lastPolled,   \* lastPolled[p]: mailbox_poll_state
          polled,       \* polled[p]: p has polled within this clock tick
          queries,      \* queries[p]: the three pending_*_queries maps
          ingested,     \* ingested[p]: messages of the peer that p has stored
          published,    \* published[p]: the slot of each message p has dropped
          legacy, keyed, acks, keyedAcks, providers,     \* the DHT
          faults        \* use of the bound

local == <<up, session, rows, lastPolled, polled, queries, ingested, published, faults>>
dht == <<legacy, keyed, acks, keyedAcks, providers>>
vars == <<clock, local, dht>>

Parties == {"A", "B"}
Other(p) == IF p = "A" THEN "B" ELSE "A"
Quota == [A |-> MsgsA, B |-> MsgsB]

(* slot_id_for *)
SlotIdFor(t) == t \div TicksPerSlot
Now == SlotIdFor(clock)
Slots == 0 .. SlotIdFor(MaxClock)

NoDrop == [from |-> "none", k |-> 0]
Drop(p, k) == [from |-> p, k |-> k]

NotAcked == -1

Fault == faults < MaxFaults /\ faults' = faults + 1

-----------------------------------------------------------------------------
(* put_mailbox_drop_bytes: both records, and a row for the republish loop. *)
(* The session is in memory, since the drop was just encrypted with it.    *)
Publish(p) ==
    LET k == Len(published[p]) + 1 IN
    /\ up[p] /\ Len(published[p]) < Quota[p] /\ clock < MaxClock
    /\ published' = [published EXCEPT ![p] = Append(@, Now)]
    /\ session' = [session EXCEPT ![p] = TRUE]
    /\ providers' = providers \cup {<<p, Now>>}
    /\ legacy' = [legacy EXCEPT ![p][Now] = k]
    /\ keyed' = [keyed EXCEPT ![Now] = Drop(p, k)]
    /\ rows' = [rows EXCEPT ![p] = @ \cup
                    {[k |-> k, slot |-> Now, last |-> clock,
                      expires |-> clock + DropTtl, acked |-> NotAcked]}]
    /\ UNCHANGED <<clock, up, lastPolled, polled, queries, ingested, faults, acks, keyedAcks>>

(* ... and when the first put_record fails, neither record nor row.        *)
PublishFails(p) ==
    /\ up[p] /\ Len(published[p]) < Quota[p] /\ Fault
    /\ published' = [published EXCEPT ![p] = Append(@, Now)]
    /\ session' = [session EXCEPT ![p] = TRUE]
    /\ providers' = providers \cup {<<p, Now>>}
    /\ UNCHANGED <<clock, up, rows, lastPolled, polled, queries, ingested,
                   legacy, keyed, acks, keyedAcks>>

(* mailbox_drops_due_for_republish *)
DueForRepublish(p) ==
    {r \in rows[p] : /\ r.acked = NotAcked
                     /\ r.last < clock - RepublishAfter
                     /\ r.expires > clock}

(* Rows are put in the order of last_published_at, so the latest of a slot *)
(* is what its key holds in the end.                                       *)
LastPut(due, s) ==
    CHOOSE r \in due : r.slot = s /\
        \A q \in due : q.slot = s => q.last < r.last \/ (q.last = r.last /\ q.k <= r.k)

SlotsOf(due) == {r.slot : r \in due}

AckQuery(kind, r) == [kind |-> kind, slot |-> r.slot, k |-> r.k]

(* republish_mailbox_drops: ask for each row's ACK and put it again.       *)
Republish(p) ==
    LET due == DueForRepublish(p) IN
    /\ up[p] /\ due # {}
    /\ queries' = [queries EXCEPT ![p] = @ \cup {AckQuery("ack", r) : r \in due} \cup
            (IF session[p] THEN {AckQuery("keyedAck", r) : r \in due} ELSE {})]
    /\ providers' = providers \cup {<<p, s>> : s \in SlotsOf(due)}
    /\ legacy' = [legacy EXCEPT ![p] =
            [s \in Slots |-> IF s \in SlotsOf(due) THEN LastPut(due, s).k ELSE @[s]]]
    /\ keyed' = [s \in Slots |->
            IF session[p] /\ s \in SlotsOf(due) THEN Drop(p, LastPut(due, s).k)
            ELSE keyed[s]]
    /\ rows' = [rows EXCEPT ![p] = (@ \ due) \cup {[r EXCEPT !.last = clock] : r \in due}]
    /\ UNCHANGED <<clock, up, session, lastPolled, polled, ingested, published, faults,
                   acks, keyedAcks>>

(* mailbox_drops_cleanup, on the hourly tick.                              *)
Cleanup(p) ==
    LET gone == {r \in rows[p] : \/ r.expires < clock
                                 \/ r.acked # NotAcked /\ r.acked < clock - AckRetention}
    IN  /\ up[p] /\ gone # {}
        /\ rows' = [rows EXCEPT ![p] = @ \ gone]
        /\ UNCHANGED <<clock, dht, up, session, lastPolled, polled, queries, ingested,
                       published, faults>>

-----------------------------------------------------------------------------
(* The recipient's side.                                                   *)

FirstSlot(p) ==
    IF lastPolled[p] + 1 >= Now - (Window - 1) THEN lastPolled[p] + 1 ELSE Now - (Window - 1)

SlotQuery(kind, s) == [kind |-> kind, slot |-> s, k |-> 0]

(* Mutant of PolledUpTo: the current slot also counts as polled.           *)
PolledUpToNow(p) == Now

(* The current slot stays open: it is polled again.                        *)
PolledUpTo(p) == IF Now > 0 THEN Now - 1 ELSE lastPolled[p]

(* poll_mailbox_slots: the last polled slot moves on at once, whatever     *)
(* becomes of the queries.                                                 *)
Poll(p) ==
    LET slots == {s \in Slots : FirstSlot(p) <= s /\ s <= Now} IN
    /\ up[p] /\ ~polled[p]
    /\ polled' = [polled EXCEPT ![p] = TRUE]
    /\ queries' = [queries EXCEPT ![p] = @ \cup {SlotQuery("providers", s) : s \in slots}
            \cup (IF session[p] THEN {SlotQuery("keyed", s) : s \in slots} ELSE {})]
    /\ lastPolled' = [lastPolled EXCEPT ![p] = PolledUpTo(p)]
    /\ UNCHANGED <<clock, dht, up, session, rows, ingested, published, faults>>

(* handle_mailbox_providers_result: fetch the peer's drop, never our own.  *)
ProvidersResult(p, q) ==
    /\ up[p] /\ q.kind = "providers"
    /\ queries' = [queries EXCEPT ![p] = (@ \ {q}) \cup
            (IF <<Other(p), q.slot>> \in providers THEN {SlotQuery("legacy", q.slot)} ELSE {})]
    /\ UNCHANGED <<clock, dht, up, session, rows, lastPolled, polled, ingested, published, faults>>

RecordAt(p, q) ==
    IF q.kind = "keyed" THEN keyed[q.slot]
    ELSE IF legacy[Other(p)][q.slot] = 0 THEN NoDrop
    ELSE Drop(Other(p), legacy[Other(p)][q.slot])

(* What process_incoming_dm returns: the drop is the peer's, and new.      *)
Opens(p, d) == d.from = Other(p) /\ d.k \notin ingested[p]

(* Mutant of Acknowledges: whatever is fetched is acknowledged.            *)
AcknowledgesAll(p, d) == d # NoDrop

(* publish_mailbox_ack is called only if the drop was ingested.            *)
Acknowledges(p, d) == Opens(p, d)

(* handle_mailbox_record_result, with process_incoming_dm and              *)
(* publish_mailbox_ack.                                                    *)
RecordResult(p, q) ==
    LET d == RecordAt(p, q) IN
    /\ up[p] /\ q.kind \in {"legacy", "keyed"}
    /\ queries' = [queries EXCEPT ![p] = @ \ {q}]
    /\ session' = [session EXCEPT ![p] = @ \/ d.from = Other(p)]
    /\ ingested' = [ingested EXCEPT ![p] = IF Opens(p, d) THEN @ \cup {d.k} ELSE @]
    /\ acks' = IF Acknowledges(p, d) THEN acks \cup {<<p, q.slot>>} ELSE acks
    /\ keyedAcks' = IF Acknowledges(p, d) THEN keyedAcks \cup {q.slot} ELSE keyedAcks
    /\ UNCHANGED <<clock, up, rows, lastPolled, polled, published, faults,
                   legacy, keyed, providers>>

(* handle_mailbox_ack_result: any record at the key acknowledges the row.  *)
AckResult(p, q) ==
    LET found == \/ q.kind = "ack" /\ <<Other(p), q.slot>> \in acks
                 \/ q.kind = "keyedAck" /\ q.slot \in keyedAcks
    IN  /\ up[p] /\ q.kind \in {"ack", "keyedAck"}
        /\ queries' = [queries EXCEPT ![p] = @ \ {q}]
        /\ rows' = [rows EXCEPT ![p] =
                {IF found /\ r.k = q.k THEN [r EXCEPT !.acked = clock] ELSE r : r \in @}]
        /\ UNCHANGED <<clock, dht, up, session, lastPolled, polled, ingested, published, faults>>

(* handle_kad_event, the Err arms.                                         *)
QueryFails(p, q) ==
    /\ up[p] /\ Fault
    /\ queries' = [queries EXCEPT ![p] = @ \ {q}]
    /\ UNCHANGED <<clock, dht, up, session, rows, lastPolled, polled, ingested, published>>

(* The outbox copy of message k reaches the peer over a connection.        *)
DirectDelivery(p, k) ==
    /\ up["A"] /\ up["B"] /\ k \notin ingested[Other(p)]
    /\ ingested' = [ingested EXCEPT ![Other(p)] = @ \cup {k}]
    /\ session' = [q \in Parties |-> IF q = Other(p) THEN TRUE ELSE session[q]]
    /\ UNCHANGED <<clock, dht, up, rows, lastPolled, polled, queries, published, faults>>

-----------------------------------------------------------------------------
Stop(p) ==
    /\ up[p] /\ Fault
    /\ up' = [up EXCEPT ![p] = FALSE]
    /\ session' = [session EXCEPT ![p] = FALSE]
    /\ queries' = [queries EXCEPT ![p] = {}]
    /\ UNCHANGED <<clock, dht, rows, lastPolled, polled, ingested, published>>

Start(p) ==
    /\ ~up[p]
    /\ up' = [up EXCEPT ![p] = TRUE]
    /\ polled' = [polled EXCEPT ![p] = FALSE]
    /\ UNCHANGED <<clock, dht, session, rows, lastPolled, queries, ingested, published, faults>>

Tick ==
    /\ clock < MaxClock /\ \A p \in Parties : queries[p] = {}
    /\ clock' = clock + 1
    /\ polled' = [p \in Parties |-> FALSE]
    /\ UNCHANGED <<up, session, rows, lastPolled, queries, ingested, published, faults, dht>>

Init ==
    /\ clock = 0 /\ faults = 0
    /\ up = [p \in Parties |-> TRUE]
    /\ session = [p \in Parties |-> TRUE]
    /\ rows = [p \in Parties |-> {}]
    /\ lastPolled = [p \in Parties |-> -1]
    /\ polled = [p \in Parties |-> FALSE]
    /\ queries = [p \in Parties |-> {}]
    /\ ingested = [p \in Parties |-> {}]
    /\ published = [p \in Parties |-> << >>]
    /\ legacy = [p \in Parties |-> [s \in Slots |-> 0]]
    /\ keyed = [s \in Slots |-> NoDrop]
    /\ acks = {} /\ keyedAcks = {} /\ providers = {}

Answer(p, q) == ProvidersResult(p, q) \/ RecordResult(p, q) \/ AckResult(p, q)

Next ==
    \/ Tick
    \/ \E p \in Parties :
        \/ Publish(p) \/ PublishFails(p) \/ Republish(p) \/ Cleanup(p)
        \/ Poll(p) \/ Stop(p) \/ Start(p)
        \/ \E q \in queries[p] : Answer(p, q) \/ QueryFails(p, q)
        \/ \E k \in DOMAIN published[p] : DirectDelivery(p, k)

Spec == Init /\ [][Next]_vars

(* Time passes, a process that ended is started again, a running one gets  *)
(* its poll ticks, and queries are answered (all of them, since few are    *)
(* made per clock tick).                                                   *)
Fairness ==
    /\ WF_vars(Tick)
    /\ \A p \in Parties :
        /\ WF_vars(Start(p))
        /\ WF_vars(Poll(p))
        /\ WF_vars(\E q \in queries[p] : Answer(p, q))

FairSpec == Spec /\ Fairness

-----------------------------------------------------------------------------
(* Types, and every row stands for a drop that was published.              *)
TypeOK ==
    /\ clock \in 0 .. MaxClock /\ faults \in 0 .. MaxFaults
    /\ \A p \in Parties :
        /\ up[p] \in BOOLEAN /\ session[p] \in BOOLEAN
        /\ lastPolled[p] \in -1 .. Now - 1
        /\ ingested[p] \subseteq DOMAIN published[Other(p)]
        /\ Len(published[p]) <= Quota[p]
        /\ ~up[p] => queries[p] = {}
        /\ \A r \in rows[p] : /\ r.k \in DOMAIN published[p] /\ r.slot = published[p][r.k]
                              /\ r.last <= clock /\ r.acked <= clock
        /\ \A r, q \in rows[p] : r.k = q.k => r = q

(* publish_mailbox_ack is gated on ingestion: whatever fails or restarts,  *)
(* a row is acknowledged only if some drop of its slot was ingested, which *)
(* is the row's own drop unless two drops share the slot.                  *)
AckHasCause ==
    \A p \in Parties : \A r \in rows[p] :
        r.acked # NotAcked =>
            \E q \in Parties : \E k \in ingested[q] : published[Other(q)][k] = r.slot

(* The rows of mailbox_drops and the poll state: well formed, and every    *)
(* acknowledgement has its cause.                                          *)
RowsSound == TypeOK /\ AckHasCause

Shared(p, k) ==
    /\ k \in DOMAIN published[p]
    /\ \E j \in DOMAIN published[p] : j # k /\ published[p][j] = published[p][k]

(* network/mailbox.rs: the mailbox can "deliver an encrypted message to a  *)
(* recipient even when the sender and recipient are never online           *)
(* simultaneously": a drop that got its row is ingested in the end, if     *)
(* nothing fails and the sender leaves no other drop in its slot.          *)
DropIngested ==
    \A p \in Parties : \A k \in 1 .. Quota[p] :
        (\E r \in rows[p] : r.k = k) ~>
            (k \in ingested[Other(p)] \/ Shared(p, k) \/ faults > 0)

-----------------------------------------------------------------------------
(* A documented claim that the code does not keep.                         *)

(* The same claim of network/mailbox.rs, "as long as both are eventually   *)
(* online in the same DHT": also if a process ends and is started again.   *)
DropIngestedAlways ==
    \A p \in Parties : \A k \in 1 .. Quota[p] :
        (\E r \in rows[p] : r.k = k) ~> (k \in ingested[Other(p)] \/ Shared(p, k))
=============================================================================
