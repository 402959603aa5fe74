--------------------------- MODULE MailboxProofs ---------------------------
(***************************************************************************)
(* Proofs about Mailbox, for any number of drops, slots, timeouts, ticks   *)
(* and faults.                                                             *)
(*                                                                         *)
(* The invariant follows a message's slot through everything that names    *)
(* it: the two records in the DHT, the row, the query for its              *)
(* acknowledgement and the acknowledgement.                                *)
(***************************************************************************)
EXTENDS Mailbox, SequenceTheorems, WellFoundedInduction, TLAPS

Rows == [k : Nat, slot : Slots, last : Nat, expires : Nat, acked : Int]
Kinds == {"providers", "legacy", "keyed", "ack", "keyedAck"}
Queries == [kind : Kinds, slot : Slots, k : Nat]
Drops == [from : {"A", "B", "none"}, k : Nat]

Typed ==
    /\ clock \in 0 .. MaxClock /\ faults \in 0 .. MaxFaults
    /\ up \in [Parties -> BOOLEAN] /\ session \in [Parties -> BOOLEAN]
    /\ rows \in [Parties -> SUBSET Rows] /\ queries \in [Parties -> SUBSET Queries]
    /\ lastPolled \in [Parties -> Int] /\ ingested \in [Parties -> SUBSET Nat]
    /\ published \in [Parties -> Seq(Slots)]
    /\ legacy \in [Parties -> [Slots -> Nat]] /\ keyed \in [Slots -> Drops]

(* Message k of p was dropped in slot s.                                   *)
Of(p, k, s) == k \in DOMAIN published[p] /\ published[p][k] = s

(* Some drop of slot s was ingested.                                       *)
Caused(s) == \E q \in Parties : \E k \in ingested[q] : Of(Other(q), k, s)

Bounded(p) ==
    /\ lastPolled[p] \in -1 .. Now - 1 /\ Len(published[p]) <= Quota[p]
    /\ ~up[p] => queries[p] = {}
    /\ ingested[p] \subseteq DOMAIN published[Other(p)]

RowOK(p, r) ==
    /\ r \in Rows /\ Of(p, r.k, r.slot) /\ r.last <= clock /\ r.acked <= clock
    /\ r.acked # NotAcked => Caused(r.slot)

RowsOK(p) ==
    /\ \A r \in rows[p] : RowOK(p, r)
    /\ \A r, q \in rows[p] : r.k = q.k => r = q

QueryOK(p, q) == q.kind \in {"ack", "keyedAck"} => Of(p, q.k, q.slot)

LegacyOK(p, s) == legacy[p][s] # 0 => Of(p, legacy[p][s], s)
KeyedOK(s) == keyed[s].from \in Parties => Of(keyed[s].from, keyed[s].k, s)

RecordsOK == \A s \in Slots : KeyedOK(s) /\ \A p \in Parties : LegacyOK(p, s)

AcksOK ==
    /\ \A p \in Parties : \A s \in Slots : <<p, s>> \in acks => Caused(s)
    /\ \A s \in Slots : s \in keyedAcks => Caused(s)

IndInv ==
    /\ Typed /\ RecordsOK /\ AcksOK
    /\ \A p \in Parties : Bounded(p) /\ RowsOK(p) /\ \A q \in queries[p] : QueryOK(p, q)

-----------------------------------------------------------------------------
LEMMA Others ==
    ASSUME NEW p \in Parties
    PROVE  Other(p) \in Parties /\ Other(p) # p /\ Other(Other(p)) = p /\ \A q \in Parties : q = p \/ q = Other(p)
  BY DEF Parties, Other

(* slot_id_for never goes back.                                            *)
LEMMA SlotsGrow ==
    ASSUME NEW a \in Nat, NEW b \in Nat, a <= b
    PROVE  SlotIdFor(a) \in Nat /\ SlotIdFor(a) <= SlotIdFor(b)
  <1> DEFINE T == TicksPerSlot
             m == a \div T
             n == b \div T
  <1>1. T \in Nat /\ T > 0
    BY MailboxAssumption
  <1>2. m \in Nat /\ a % T \in 0 .. T - 1 /\ a = T * m + (a % T)
    BY <1>1
  <1>3. n \in Nat /\ b % T \in 0 .. T - 1 /\ b = T * n + (b % T)
    BY <1>1
  <1>4. m <= n
    <2> DEFINE r == a % T
               q == b % T
    <2>1. r \in 0 .. T - 1 /\ a = T * m + r /\ q \in 0 .. T - 1 /\ b = T * n + q
      BY <1>2, <1>3
    <2> HIDE DEF T, m, n, r, q
    <2> SUFFICES ASSUME m > n PROVE FALSE
      BY <1>2, <1>3
    <2>2. T * n + T <= T * m /\ T * n \in Nat /\ T * m \in Nat
      BY <1>1, <1>2, <1>3
    <2> QED
      BY <1>1, <2>1, <2>2
  <1> QED
    BY <1>2, <1>4 DEF SlotIdFor

LEMMA NowSlot == ASSUME clock \in 0 .. MaxClock PROVE Now \in Slots /\ Now \in Nat /\ clock \in Nat
  <1>1. clock \in Nat /\ MaxClock \in Nat /\ clock <= MaxClock
    BY MailboxAssumption
  <1>2. SlotIdFor(clock) \in Nat /\ SlotIdFor(clock) <= SlotIdFor(MaxClock) /\ SlotIdFor(MaxClock) \in Nat
    BY <1>1, SlotsGrow
  <1> QED
    BY <1>1, <1>2 DEF Now, Slots

LEMMA SlotsNat == Slots \subseteq Nat
  BY MailboxAssumption, SlotsGrow DEF Slots

-----------------------------------------------------------------------------
(* Drops, ingested messages and time only grow.                            *)
Keeps ==
    /\ clock \in Nat /\ clock' \in Nat /\ clock <= clock'
    /\ \A p \in Parties : /\ ingested[p] \subseteq ingested'[p]
                          /\ \A k \in DOMAIN published[p] :
                                k \in DOMAIN published'[p] /\ published'[p][k] = published[p][k]

LEMMA OfKept == ASSUME Keeps, NEW p \in Parties, NEW k, NEW s, Of(p, k, s) PROVE Of(p, k, s)'
  BY DEF Keeps, Of

LEMMA CausedKept == ASSUME Keeps, NEW s, Caused(s) PROVE Caused(s)'
  <1>1. PICK q \in Parties : \E k \in ingested[q] : Of(Other(q), k, s)
    BY DEF Caused
  <1>2. PICK k \in ingested[q] : Of(Other(q), k, s)
    BY <1>1
  <1>3. k \in ingested'[q] /\ Of(Other(q), k, s)'
    BY <1>2, Others, OfKept DEF Keeps
  <1> QED
    BY <1>3 DEF Caused

LEMMA RowKept == ASSUME Keeps, NEW p \in Parties, NEW r, RowOK(p, r) PROVE RowOK(p, r)'
  <1>1. r \in Rows /\ Of(p, r.k, r.slot) /\ r.last <= clock /\ r.acked <= clock
        /\ (r.acked # NotAcked => Caused(r.slot))
    BY DEF RowOK
  <1>2. r.last \in Nat /\ r.acked \in Int
    BY <1>1 DEF Rows
  <1>3. r.last <= clock' /\ r.acked <= clock'
    BY <1>1, <1>2 DEF Keeps
  <1>4. Of(p, r.k, r.slot)' /\ (r.acked # NotAcked => Caused(r.slot)')
    BY <1>1, OfKept, CausedKept
  <1> QED
    BY <1>1, <1>3, <1>4 DEF RowOK

LEMMA QueryKept == ASSUME Keeps, NEW p \in Parties, NEW q, QueryOK(p, q) PROVE QueryOK(p, q)'
  BY OfKept DEF QueryOK

LEMMA AcksKept == ASSUME Keeps, AcksOK, acks' = acks, keyedAcks' = keyedAcks PROVE AcksOK'
  BY CausedKept DEF AcksOK

LEMMA RecordsKept ==
    ASSUME Keeps, Typed, RecordsOK, legacy' = legacy, keyed' = keyed PROVE RecordsOK'
  <1>1. ASSUME NEW s \in Slots PROVE KeyedOK(s)'
    BY OfKept DEF RecordsOK, KeyedOK
  <1>2. ASSUME NEW s \in Slots, NEW p \in Parties PROVE LegacyOK(p, s)'
    BY OfKept DEF RecordsOK, LegacyOK
  <1> QED
    BY <1>1, <1>2 DEF RecordsOK

LEMMA RowsKept == ASSUME Keeps, NEW p \in Parties, RowsOK(p), rows'[p] = rows[p] PROVE RowsOK(p)'
  BY RowKept DEF RowsOK

LEMMA Parts ==
    ASSUME IndInv, NEW p \in Parties
    PROVE  /\ Typed /\ RecordsOK /\ AcksOK /\ Bounded(p) /\ RowsOK(p) /\ \A q \in queries[p] : QueryOK(p, q)
           /\ clock \in Nat /\ Now \in Slots /\ Now \in Nat
  <1>1. Typed /\ RecordsOK /\ AcksOK /\ Bounded(p) /\ RowsOK(p) /\ \A q \in queries[p] : QueryOK(p, q)
    BY DEF IndInv
  <1>2. clock \in 0 .. MaxClock
    BY <1>1 DEF Typed
  <1> QED
    BY <1>1, <1>2, NowSlot

(* Nothing is dropped, ingested or ticked.                                 *)
LEMMA Still ==
    ASSUME IndInv, clock' = clock, published' = published, ingested' = ingested PROVE Keeps
  <1>1. clock \in Nat
    BY Parts DEF Parties
  <1> QED
    BY <1>1 DEF Keeps

-----------------------------------------------------------------------------
(* A new message of p gets the next number and the current slot.           *)
LEMMA Numbered ==
    ASSUME IndInv, NEW p \in Parties, Len(published[p]) < Quota[p], clock' = clock, ingested' = ingested,
           published' = [published EXCEPT ![p] = Append(@, Now)],
           NEW k, k = Len(published[p]) + 1, NEW now, now = Now
    PROVE  /\ k \in Nat /\ k # 0 /\ Keeps /\ Of(p, k, now)' /\ published' \in [Parties -> Seq(Slots)]
           /\ \A r \in rows[p] : r.k # k
           /\ \A q \in Parties : /\ Len(published'[q]) <= Quota[q]
                                 /\ DOMAIN published[q] \subseteq DOMAIN published'[q]
  <1> DEFINE o == Other(p)
  <1>1. o \in Parties /\ o # p /\ \A q \in Parties : q = p \/ q = o
    BY Others
  <1>2. Typed /\ Bounded(p) /\ Bounded(o) /\ RowsOK(p) /\ Now \in Slots /\ clock \in Nat
    BY <1>1, Parts
  <1>3. published \in [Parties -> Seq(Slots)] /\ Len(published[p]) \in Nat /\ published[p] \in Seq(Slots)
    BY <1>2 DEF Typed
  <1> DEFINE old == published[p]
             new == Append(old, Now)
  <1>4. published'[p] = new /\ published'[o] = published[o]
    BY <1>1, <1>3
  <1>5. /\ new \in Seq(Slots) /\ Len(new) = k /\ DOMAIN new = 1 .. k /\ DOMAIN old = 1 .. Len(old)
        /\ new[k] = Now /\ \A i \in 1 .. Len(old) : new[i] = old[i]
    BY <1>2, <1>3
  <1>6. k \in Nat /\ k # 0 /\ k \in 1 .. k /\ 1 .. Len(old) \subseteq 1 .. k
    BY <1>3
  <1> HIDE DEF new
  <1>7. published' \in [Parties -> Seq(Slots)]
    BY <1>3, <1>4, <1>5 DEF new
  <1>8. \A q \in Parties : DOMAIN published[q] \subseteq DOMAIN published'[q]
    BY <1>1, <1>4, <1>5, <1>6
  <1>9. \A q \in Parties : \A i \in DOMAIN published[q] : published'[q][i] = published[q][i]
    BY <1>1, <1>4, <1>5
  <1>10. Keeps
    BY <1>2, <1>8, <1>9 DEF Keeps
  <1>11. Of(p, k, now)'
    BY <1>4, <1>5, <1>6 DEF Of
  <1>12. \A r \in rows[p] : r.k # k
    <2> SUFFICES ASSUME NEW r \in rows[p], r.k = k PROVE FALSE
      OBVIOUS
    <2>1. k \in 1 .. Len(old)
      BY <1>2, <1>5 DEF RowsOK, RowOK, Of
    <2> QED
      BY <1>3, <2>1
  <1>13. Len(published'[p]) <= Quota[p] /\ Len(published'[o]) <= Quota[o]
    <2>1. Quota[p] \in Nat
      BY MailboxAssumption DEF Quota, Parties
    <2>2. Len(published'[p]) = k /\ Len(published'[o]) <= Quota[o]
      BY <1>2, <1>4, <1>5 DEF Bounded
    <2> QED
      BY <1>3, <2>1, <2>2
  <1> QED
    BY <1>1, <1>6, <1>7, <1>8, <1>10, <1>11, <1>12, <1>13

LEMMA PublishPreserves == ASSUME IndInv, NEW p \in Parties, Publish(p) PROVE IndInv'
  <1>0. PICK k, now, time : k = Len(published[p]) + 1 /\ now = Now /\ time = clock
    OBVIOUS
  <1> DEFINE o == Other(p)
             row == [k |-> k, slot |-> now, last |-> time, expires |-> time + DropTtl, acked |-> NotAcked]
  <1>1. /\ up[p] /\ Len(published[p]) < Quota[p]
        /\ published' = [published EXCEPT ![p] = Append(@, now)]
        /\ session' = [session EXCEPT ![p] = TRUE]
        /\ legacy' = [legacy EXCEPT ![p][now] = k] /\ keyed' = [keyed EXCEPT ![now] = Drop(p, k)]
        /\ rows' = [rows EXCEPT ![p] = @ \cup {row}]
        /\ UNCHANGED <<clock, up, lastPolled, queries, ingested, faults, acks, keyedAcks>>
    BY <1>0 DEF Publish
  <1>2. o \in Parties /\ o # p /\ Other(o) = p /\ \A q \in Parties : q = p \/ q = o
    BY Others
  <1>3. /\ Typed /\ RecordsOK /\ AcksOK /\ now \in Slots /\ clock \in Nat
        /\ \A q \in Parties : Bounded(q) /\ RowsOK(q) /\ \A x \in queries[q] : QueryOK(q, x)
    BY <1>0, <1>2, Parts
  <1>4. /\ k \in Nat /\ k # 0 /\ Keeps /\ Of(p, k, now)' /\ published' \in [Parties -> Seq(Slots)]
        /\ \A r \in rows[p] : r.k # k
        /\ \A q \in Parties : /\ Len(published'[q]) <= Quota[q]
                              /\ DOMAIN published[q] \subseteq DOMAIN published'[q]
    BY <1>0, <1>1, Numbered
  <1>5. row \in Rows /\ row.k = k /\ row.slot = now /\ row.last = time /\ row.acked = NotAcked
    BY <1>0, <1>3, <1>4, MailboxAssumption DEF Rows, NotAcked
  <1> HIDE DEF row
  <1>6. rows'[p] = rows[p] \cup {row} /\ rows'[o] = rows[o] /\ rows' \in [Parties -> SUBSET Rows]
    BY <1>1, <1>2, <1>3, <1>5 DEF Typed
  <1>7. /\ legacy' \in [Parties -> [Slots -> Nat]] /\ legacy'[o] = legacy[o] /\ legacy'[p][now] = k
        /\ \A s \in Slots : s # now => legacy'[p][s] = legacy[p][s]
    BY <1>1, <1>2, <1>3, <1>4 DEF Typed
  <1>8. Drop(p, k) \in Drops /\ Drop(p, k).from = p /\ Drop(p, k).k = k
    BY <1>4 DEF Drop, Drops, Parties
  <1>9. keyed' \in [Slots -> Drops] /\ keyed'[now] = Drop(p, k) /\ \A s \in Slots : s # now => keyed'[s] = keyed[s]
    BY <1>1, <1>3, <1>8 DEF Typed
  <1>10. Typed'
    BY <1>1, <1>3, <1>4, <1>6, <1>7, <1>9 DEF Typed
  <1>11. RecordsOK'
    <2>1. ASSUME NEW s \in Slots PROVE KeyedOK(s)'
      <3>1. CASE s = now
        BY <1>1, <1>4, <1>8, <1>9, <3>1 DEF KeyedOK
      <3>2. CASE s # now
        <4>1. KeyedOK(s) /\ keyed'[s] = keyed[s]
          BY <1>3, <1>9, <3>2 DEF RecordsOK
        <4> QED
          BY <1>4, <4>1, OfKept DEF KeyedOK
      <3> QED
        BY <3>1, <3>2
    <2>2. ASSUME NEW s \in Slots, NEW q \in Parties PROVE LegacyOK(q, s)'
      <3>1. CASE q = p /\ s = now
        BY <1>1, <1>4, <1>7, <3>1 DEF LegacyOK
      <3>2. CASE ~(q = p /\ s = now)
        <4>1. LegacyOK(q, s) /\ legacy'[q][s] = legacy[q][s]
          BY <1>2, <1>3, <1>7, <3>2 DEF RecordsOK
        <4> QED
          BY <1>4, <4>1, OfKept DEF LegacyOK
      <3> QED
        BY <3>1, <3>2
    <2> QED
      BY <2>1, <2>2 DEF RecordsOK
  <1>12. AcksOK'
    BY <1>1, <1>3, <1>4, AcksKept
  <1>13. ASSUME NEW q \in Parties PROVE Bounded(q)'
    <2>1. Bounded(q) /\ Other(q) \in Parties
      BY <1>3, Others
    <2>2. DOMAIN published[Other(q)] \subseteq DOMAIN published'[Other(q)] /\ Len(published'[q]) <= Quota[q]
      BY <1>4, <2>1
    <2> QED
      BY <1>1, <2>1, <2>2 DEF Bounded, Now
  <1>14. RowsOK(p)'
    <2>1. RowOK(p, row)'
      <3>1. clock <= clock /\ NotAcked <= clock
        BY <1>3 DEF NotAcked
      <3>2. Of(p, row.k, row.slot)'
        BY <1>4, <1>5
      <3> QED
        BY <1>0, <1>1, <1>5, <3>1, <3>2 DEF RowOK
    <2>2. \A r \in rows[p] : RowOK(p, r)'
      BY <1>3, <1>4, RowKept DEF RowsOK
    <2>3. \A r, q \in rows'[p] : r.k = q.k => r = q
      BY <1>3, <1>4, <1>5, <1>6 DEF RowsOK
    <2> QED
      BY <1>6, <2>1, <2>2, <2>3 DEF RowsOK
  <1>15. RowsOK(o)'
    BY <1>2, <1>3, <1>4, <1>6, RowsKept
  <1>16. ASSUME NEW q \in Parties, NEW x \in queries'[q] PROVE QueryOK(q, x)'
    BY <1>1, <1>3, <1>4, QueryKept
  <1> QED
    BY <1>2, <1>10, <1>11, <1>12, <1>13, <1>14, <1>15, <1>16 DEF IndInv

LEMMA PublishFailsPreserves == ASSUME IndInv, NEW p \in Parties, PublishFails(p) PROVE IndInv'
  <1>1. /\ Len(published[p]) < Quota[p] /\ faults < MaxFaults /\ faults' = faults + 1
        /\ published' = [published EXCEPT ![p] = Append(@, Now)]
        /\ session' = [session EXCEPT ![p] = TRUE]
        /\ UNCHANGED <<clock, up, rows, lastPolled, queries, ingested, legacy, keyed, acks, keyedAcks>>
    BY DEF PublishFails, Fault
  <1>2. /\ Typed /\ RecordsOK /\ AcksOK
        /\ \A q \in Parties : Bounded(q) /\ RowsOK(q) /\ \A x \in queries[q] : QueryOK(q, x)
    BY Parts
  <1>3. /\ Keeps /\ published' \in [Parties -> Seq(Slots)]
        /\ \A q \in Parties : /\ Len(published'[q]) <= Quota[q]
                              /\ DOMAIN published[q] \subseteq DOMAIN published'[q]
    <2>1. PICK k, now : k = Len(published[p]) + 1 /\ now = Now
      OBVIOUS
    <2> QED
      BY <1>1, <2>1, Numbered
  <1>4. Typed'
    <2>1. faults' \in 0 .. MaxFaults
      BY <1>1, <1>2, MailboxAssumption DEF Typed
    <2> QED
      BY <1>1, <1>2, <1>3, <2>1 DEF Typed
  <1>5. RecordsOK' /\ AcksOK'
    BY <1>1, <1>2, <1>3, RecordsKept, AcksKept
  <1>6. ASSUME NEW q \in Parties PROVE Bounded(q)'
    <2>1. Bounded(q) /\ Other(q) \in Parties
      BY <1>2, Others
    <2>2. DOMAIN published[Other(q)] \subseteq DOMAIN published'[Other(q)] /\ Len(published'[q]) <= Quota[q]
      BY <1>3, <2>1
    <2> QED
      BY <1>1, <2>1, <2>2 DEF Bounded, Now
  <1>7. ASSUME NEW q \in Parties PROVE RowsOK(q)'
    BY <1>1, <1>2, <1>3, RowsKept
  <1>8. ASSUME NEW q \in Parties, NEW x \in queries'[q] PROVE QueryOK(q, x)'
    BY <1>1, <1>2, <1>3, QueryKept
  <1> QED
    BY <1>4, <1>5, <1>6, <1>7, <1>8 DEF IndInv

-----------------------------------------------------------------------------
(* Actions that neither drop nor ingest a message, and leave the records   *)
(* and acknowledgements alone.                                             *)
LEMMA LocalPreserves ==
    ASSUME IndInv, UNCHANGED <<clock, published, ingested, legacy, keyed, acks, keyedAcks>>, Typed',
           \A q \in Parties : lastPolled'[q] \in -1 .. Now - 1,
           \A q \in Parties : ~up'[q] => queries'[q] = {},
           \A q \in Parties : RowsOK(q)',
           \A q \in Parties : \A x \in queries'[q] : QueryOK(q, x)
    PROVE  IndInv'
  <1>1. /\ Typed /\ RecordsOK /\ AcksOK /\ \A q \in Parties : Bounded(q)
    BY Parts DEF Parties
  <1>2. Keeps
    BY Still
  <1>3. RecordsOK' /\ AcksOK'
    BY <1>1, <1>2, RecordsKept, AcksKept
  <1>4. ASSUME NEW q \in Parties PROVE Bounded(q)'
    BY <1>1 DEF Bounded, Now
  <1>5. ASSUME NEW q \in Parties, NEW x \in queries'[q] PROVE QueryOK(q, x)'
    BY <1>2, QueryKept
  <1> QED
    BY <1>3, <1>4, <1>5 DEF IndInv

LEMMA CleanupPreserves == ASSUME IndInv, NEW p \in Parties, Cleanup(p) PROVE IndInv'
  <1> DEFINE gone == {r \in rows[p] : r.expires < clock \/ (r.acked # NotAcked /\ r.acked < clock - AckRetention)}
  <1>1. /\ rows' = [rows EXCEPT ![p] = @ \ gone]
        /\ UNCHANGED <<clock, dht, up, session, lastPolled, queries, ingested, published, faults>>
    BY DEF Cleanup
  <1> HIDE DEF gone
  <1>2. Typed /\ \A q \in Parties : Bounded(q) /\ RowsOK(q) /\ \A x \in queries[q] : QueryOK(q, x)
    BY Parts
  <1>3. UNCHANGED <<clock, published, ingested, legacy, keyed, acks, keyedAcks>>
    BY <1>1 DEF dht
  <1>4. Keeps
    BY <1>3, Still
  <1>5. rows' \in [Parties -> SUBSET Rows] /\ \A q \in Parties : rows'[q] \subseteq rows[q]
    BY <1>1, <1>2 DEF Typed
  <1>6. Typed'
    BY <1>1, <1>2, <1>3, <1>5 DEF Typed
  <1>7. ASSUME NEW q \in Parties PROVE RowsOK(q)'
    <2>1. \A r \in rows'[q] : r \in rows[q] /\ RowOK(q, r)'
      BY <1>2, <1>4, <1>5, RowKept DEF RowsOK
    <2> QED
      BY <1>2, <2>1 DEF RowsOK
  <1>8. ASSUME NEW q \in Parties
        PROVE  lastPolled'[q] \in -1 .. Now - 1 /\ (~up'[q] => queries'[q] = {})
    BY <1>1, <1>2 DEF Bounded
  <1> QED
    BY <1>1, <1>2, <1>3, <1>6, <1>7, <1>8, LocalPreserves

LEMMA PollPreserves == ASSUME IndInv, NEW p \in Parties, Poll(p) PROVE IndInv'
  <1> DEFINE slots == {s \in Slots : FirstSlot(p) <= s /\ s <= Now}
             asked == {SlotQuery("providers", s) : s \in slots}
                        \cup (IF session[p] THEN {SlotQuery("keyed", s) : s \in slots} ELSE {})
  <1>1. /\ up[p] /\ queries' = [queries EXCEPT ![p] = @ \cup asked]
        /\ lastPolled' = [lastPolled EXCEPT ![p] = PolledUpTo(p)]
        /\ UNCHANGED <<clock, dht, up, session, rows, ingested, published, faults>>
    BY DEF Poll
  <1>2. Typed /\ Now \in Nat /\ \A q \in Parties : Bounded(q) /\ RowsOK(q) /\ \A x \in queries[q] : QueryOK(q, x)
    BY Parts
  <1>3. UNCHANGED <<clock, published, ingested, legacy, keyed, acks, keyedAcks>>
    BY <1>1 DEF dht
  <1>4. Keeps
    BY <1>3, Still
  <1>5. \A x \in asked : x \in Queries /\ x.kind \notin {"ack", "keyedAck"}
    <2>1. slots \subseteq Slots
      OBVIOUS
    <2>2. ASSUME NEW x \in asked PROVE \E s \in Slots : x = SlotQuery("providers", s) \/ x = SlotQuery("keyed", s)
      BY <2>1
    <2> HIDE DEF slots, asked
    <2>3. \A s \in Slots : /\ SlotQuery("providers", s) \in Queries /\ SlotQuery("keyed", s) \in Queries
                          /\ SlotQuery("providers", s).kind = "providers" /\ SlotQuery("keyed", s).kind = "keyed"
      BY DEF SlotQuery, Queries, Kinds
    <2> QED
      BY <2>2, <2>3
  <1> HIDE DEF asked
  <1>6. /\ queries' \in [Parties -> SUBSET Queries]
        /\ \A q \in Parties : q # p => queries'[q] = queries[q]
        /\ queries'[p] = queries[p] \cup asked
    BY <1>1, <1>2, <1>5 DEF Typed
  <1>7. PolledUpTo(p) \in -1 .. Now - 1
    BY <1>2 DEF PolledUpTo, Bounded
  <1>8. lastPolled' \in [Parties -> Int] /\ \A q \in Parties : lastPolled'[q] \in -1 .. Now - 1
    BY <1>1, <1>2, <1>7 DEF Typed, Bounded
  <1>9. Typed'
    BY <1>1, <1>2, <1>3, <1>6, <1>8 DEF Typed
  <1>10. ASSUME NEW q \in Parties PROVE RowsOK(q)'
    BY <1>1, <1>2, <1>4, RowsKept
  <1>11. ASSUME NEW q \in Parties PROVE ~up'[q] => queries'[q] = {}
    BY <1>1, <1>2, <1>6 DEF Bounded
  <1>12. ASSUME NEW q \in Parties, NEW x \in queries'[q] PROVE QueryOK(q, x)
    BY <1>2, <1>5, <1>6 DEF QueryOK
  <1> QED
    BY <1>3, <1>8, <1>9, <1>10, <1>11, <1>12, LocalPreserves

-----------------------------------------------------------------------------
(* A bounded set of numbers has a largest one.                             *)
LEMMA Largest ==
    ASSUME NEW S \in SUBSET Nat, S # {}, NEW b \in Nat, \A x \in S : x <= b
    PROVE  \E x \in S : \A y \in S : y <= x
  <1> DEFINE R == {ss \in Nat \X Nat : ss[1] < ss[2]}
             D == {b - x : x \in S}
  <1>1. IsWellFoundedOn(R, Nat)
    BY NatLessThanWellFounded DEF OpToRel
  <1>2. D \in SUBSET Nat /\ D # {}
    <2>1. ASSUME NEW x \in S PROVE b - x \in Nat
      <3>1. x \in Nat /\ x <= b
        OBVIOUS
      <3> QED
        BY <3>1
    <2> QED
      BY <2>1
  <1>3. PICK d \in D : \A e \in D : ~ (<<e, d>> \in R)
    <2> HIDE DEF R, D
    <2> QED
      BY <1>1, <1>2, WFMin
  <1>4. PICK x \in S : d = b - x
    OBVIOUS
  <1>5. ASSUME NEW y \in S PROVE y <= x
    <2>1. x \in Nat /\ y \in Nat /\ b - y \in D /\ b - y \in Nat /\ b - x \in Nat
      BY <1>2
    <2>2. ~(b - y < b - x)
      BY <1>3, <1>4, <2>1
    <2> QED
      BY <2>1, <2>2
  <1> QED
    BY <1>5

(* The put that lasts is one of the rows that were due, of that slot.      *)
LEMMA LastPutIsDue ==
    ASSUME NEW due \in SUBSET Rows, NEW s \in SlotsOf(due), NEW b \in Nat, NEW n \in Nat,
           \A r \in due : r.last <= b /\ r.k <= n
    PROVE  LastPut(due, s) \in due /\ LastPut(due, s).slot = s
  <1> DEFINE D == {r \in due : r.slot = s}
             L == {r.last : r \in D}
  <1>1. D \subseteq due /\ D # {} /\ \A r \in D : r.slot = s /\ r.last \in Nat /\ r.k \in Nat
    BY DEF SlotsOf, Rows
  <1>2. L \in SUBSET Nat /\ L # {} /\ \A x \in L : x <= b
    BY <1>1
  <1>3. PICK l \in L : \A y \in L : y <= l
    <2> HIDE DEF L
    <2> QED
      BY <1>2, Largest
  <1>4. \A r \in D : r.last <= l
    BY <1>3
  <1> DEFINE E == {r \in D : r.last = l}
             K == {r.k : r \in E}
  <1>5. K \in SUBSET Nat /\ K # {} /\ \A x \in K : x <= n
    BY <1>1, <1>3
  <1>6. PICK k \in K : \A y \in K : y <= k
    <2> HIDE DEF K
    <2> QED
      BY <1>5, Largest
  <1>7. PICK r \in E : r.k = k
    BY <1>6
  <1>8. r \in due /\ r.slot = s /\ r.last = l
    BY <1>1, <1>7
  <1>9. ASSUME NEW q \in due, q.slot = s PROVE q.last < r.last \/ (q.last = r.last /\ q.k <= r.k)
    <2>1. q \in D /\ q.last <= l /\ q.last \in Nat /\ l \in Nat
      BY <1>1, <1>2, <1>4, <1>9
    <2>2. CASE q.last = l
      <3>1. q.k \in K
        BY <2>1, <2>2
      <3> QED
        BY <1>6, <1>7, <1>8, <2>2, <3>1
    <2>3. CASE q.last # l
      BY <1>8, <2>1, <2>3
    <2> QED
      BY <2>2, <2>3
  <1>10. \E x \in due : x.slot = s /\ \A q \in due : q.slot = s => q.last < x.last \/ (q.last = x.last /\ q.k <= x.k)
    BY <1>8, <1>9
  <1> HIDE DEF D, L, E, K
  <1> QED
    BY <1>10 DEF LastPut

LEMMA RepublishPreserves == ASSUME IndInv, NEW p \in Parties, Republish(p) PROVE IndInv'
  <1>0. PICK due, time : due = DueForRepublish(p) /\ time = clock
    OBVIOUS
  <1> DEFINE o == Other(p)
             asked == {AckQuery("ack", r) : r \in due} \cup
                        (IF session[p] THEN {AckQuery("keyedAck", r) : r \in due} ELSE {})
             again == {[r EXCEPT !.last = time] : r \in due}
             last(s) == LastPut(due, s)
  <1>1. /\ up[p] /\ queries' = [queries EXCEPT ![p] = @ \cup asked]
        /\ legacy' = [legacy EXCEPT ![p] = [s \in Slots |-> IF s \in SlotsOf(due) THEN last(s).k ELSE @[s]]]
        /\ keyed' = [s \in Slots |-> IF session[p] /\ s \in SlotsOf(due) THEN Drop(p, last(s).k) ELSE keyed[s]]
        /\ rows' = [rows EXCEPT ![p] = (@ \ due) \cup again]
        /\ UNCHANGED <<clock, up, session, lastPolled, ingested, published, faults, acks, keyedAcks>>
    BY <1>0 DEF Republish
  <1>2. o \in Parties /\ o # p /\ \A q \in Parties : q = p \/ q = o
    BY Others
  <1>3. /\ Typed /\ RecordsOK /\ AcksOK /\ clock \in Nat
        /\ \A q \in Parties : Bounded(q) /\ RowsOK(q) /\ \A x \in queries[q] : QueryOK(q, x)
    BY <1>2, Parts
  <1>4. Keeps
    BY <1>1, Still
  <1>5. /\ due \subseteq rows[p] /\ due \in SUBSET Rows
        /\ \A r \in due : r.acked = NotAcked /\ Of(p, r.k, r.slot) /\ r.last <= clock /\ r.k \in Nat /\ r.slot \in Slots
    <2>1. due \subseteq rows[p] /\ \A r \in due : r.acked = NotAcked
      BY <1>0 DEF DueForRepublish
    <2>2. \A r \in due : RowOK(p, r)
      BY <1>3, <2>1 DEF RowsOK
    <2>3. \A r \in due : r \in Rows /\ Of(p, r.k, r.slot) /\ r.last <= clock
      BY <2>2 DEF RowOK
    <2> QED
      BY <2>1, <2>3 DEF Rows
  <1>6. ASSUME NEW s \in SlotsOf(due)
        PROVE  last(s).k \in Nat /\ Of(p, last(s).k, s)
    <2>1. Len(published[p]) \in Nat /\ published[p] \in Seq(Slots)
      BY <1>3 DEF Typed
    <2>2. \A r \in due : r.k <= Len(published[p])
      <3>1. \A r \in due : r.k \in 1 .. Len(published[p])
        BY <1>5, <2>1 DEF Of
      <3> QED
        BY <2>1, <3>1
    <2>3. last(s) \in due /\ last(s).slot = s
      BY <1>3, <1>5, <2>1, <2>2, LastPutIsDue
    <2> HIDE DEF last
    <2> QED
      BY <1>5, <2>3
  <1> HIDE DEF last
  <1>7. SlotsOf(due) \subseteq Slots
    BY <1>5 DEF SlotsOf
  <1>8. /\ legacy' \in [Parties -> [Slots -> Nat]] /\ legacy'[o] = legacy[o]
        /\ \A s \in Slots : legacy'[p][s] = IF s \in SlotsOf(due) THEN last(s).k ELSE legacy[p][s]
    BY <1>1, <1>2, <1>3, <1>6 DEF Typed
  <1>9. /\ keyed' \in [Slots -> Drops]
        /\ \A s \in Slots : \/ s \in SlotsOf(due) /\ keyed'[s] = Drop(p, last(s).k)
                            \/ keyed'[s] = keyed[s]
    <2>1. \A s \in SlotsOf(due) : Drop(p, last(s).k) \in Drops
      BY <1>6 DEF Drop, Drops, Parties
    <2> QED
      BY <1>1, <1>3, <2>1 DEF Typed
  <1>10. RecordsOK'
    <2>1. ASSUME NEW s \in Slots PROVE KeyedOK(s)'
      <3>1. CASE s \in SlotsOf(due) /\ keyed'[s] = Drop(p, last(s).k)
        <4>1. Of(p, last(s).k, s)'
          <5>1. PICK n : n = last(s).k
            OBVIOUS
          <5>2. Of(p, n, s)'
            BY <1>4, <1>6, <3>1, <5>1, OfKept
          <5> QED
            BY <1>1, <5>1, <5>2
        <4> QED
          BY <3>1, <4>1 DEF KeyedOK, Drop
      <3>2. CASE keyed'[s] = keyed[s]
        <4>1. KeyedOK(s)
          BY <1>3 DEF RecordsOK
        <4> QED
          BY <1>4, <3>2, <4>1, OfKept DEF KeyedOK
      <3> QED
        BY <1>9, <3>1, <3>2
    <2>2. ASSUME NEW s \in Slots, NEW q \in Parties PROVE LegacyOK(q, s)'
      <3>1. CASE q = p /\ s \in SlotsOf(due)
        BY <1>4, <1>6, <1>8, <3>1, OfKept DEF LegacyOK
      <3>2. CASE ~(q = p /\ s \in SlotsOf(due))
        <4>1. LegacyOK(q, s) /\ legacy'[q][s] = legacy[q][s]
          BY <1>2, <1>3, <1>8, <3>2 DEF RecordsOK
        <4> QED
          BY <1>4, <4>1, OfKept DEF LegacyOK
      <3> QED
        BY <3>1, <3>2
    <2> QED
      BY <2>1, <2>2 DEF RecordsOK
  <1>11. /\ \A x \in asked : x \in Queries /\ QueryOK(p, x)
         /\ \A q \in Parties : q # p => queries'[q] = queries[q]
         /\ queries' \in [Parties -> SUBSET Queries] /\ queries'[p] = queries[p] \cup asked
    <2>1. \A x \in asked : \E r \in due : x = AckQuery("ack", r) \/ x = AckQuery("keyedAck", r)
      OBVIOUS
    <2>2. \A r \in due : /\ AckQuery("ack", r) \in Queries /\ AckQuery("keyedAck", r) \in Queries
                         /\ QueryOK(p, AckQuery("ack", r)) /\ QueryOK(p, AckQuery("keyedAck", r))
      BY <1>5 DEF AckQuery, Queries, Kinds, QueryOK
    <2> HIDE DEF asked
    <2> QED
      BY <1>1, <1>3, <2>1, <2>2 DEF Typed
  <1>12. \A r \in due : /\ [r EXCEPT !.last = time] \in Rows /\ [r EXCEPT !.last = time].k = r.k
                        /\ [r EXCEPT !.last = time].slot = r.slot /\ [r EXCEPT !.last = time].last = clock
                        /\ [r EXCEPT !.last = time].acked = NotAcked
    BY <1>0, <1>3, <1>5 DEF Rows
  <1>13. \A x \in again : /\ x \in Rows /\ Of(p, x.k, x.slot) /\ x.last = clock /\ x.acked = NotAcked
                          /\ \E r \in due : x = [r EXCEPT !.last = time] /\ x.k = r.k
    BY <1>5, <1>12
  <1> HIDE DEF again
  <1>14. rows'[p] = (rows[p] \ due) \cup again /\ rows'[o] = rows[o] /\ rows' \in [Parties -> SUBSET Rows]
    BY <1>1, <1>2, <1>3, <1>13 DEF Typed
  <1> HIDE DEF asked
  <1>15. Typed'
    BY <1>1, <1>3, <1>8, <1>9, <1>11, <1>14 DEF Typed
  <1>16. AcksOK'
    BY <1>1, <1>3, <1>4, AcksKept
  <1>17. RowsOK(p)'
    <2>1. ASSUME NEW x \in again PROVE RowOK(p, x)'
      <3>1. clock <= clock /\ NotAcked <= clock
        BY <1>3 DEF NotAcked
      <3>2. RowOK(p, x)
        BY <1>13, <3>1 DEF RowOK
      <3> QED
        BY <1>4, <3>2, RowKept
    <2>2. \A r \in rows[p] : RowOK(p, r)'
      BY <1>3, <1>4, RowKept DEF RowsOK
    <2>3. \A r, q \in rows[p] : r.k = q.k => r = q
      BY <1>3 DEF RowsOK
    <2>4. ASSUME NEW r \in again, NEW q \in rows[p] \ due PROVE r.k # q.k
      BY <1>5, <1>13, <2>3
    <2>5. ASSUME NEW r \in again, NEW q \in again, r.k = q.k PROVE r = q
      <3>1. PICK a \in due : r = [a EXCEPT !.last = time] /\ r.k = a.k
        BY <1>13
      <3>2. PICK b \in due : q = [b EXCEPT !.last = time] /\ q.k = b.k
        BY <1>13
      <3>3. a = b
        BY <1>5, <2>3, <2>5, <3>1, <3>2
      <3> QED
        BY <3>1, <3>2, <3>3
    <2>6. \A r, q \in rows'[p] : r.k = q.k => r = q
      BY <1>14, <2>3, <2>4, <2>5
    <2> QED
      BY <1>14, <2>1, <2>2, <2>6 DEF RowsOK
  <1>18. RowsOK(o)'
    BY <1>2, <1>3, <1>4, <1>14, RowsKept
  <1>19. ASSUME NEW q \in Parties PROVE Bounded(q)'
    <2>1. Bounded(q) /\ (q = p \/ queries'[q] = queries[q])
      BY <1>3, <1>11
    <2> QED
      BY <1>1, <2>1 DEF Bounded, Now
  <1>20. ASSUME NEW q \in Parties, NEW x \in queries'[q] PROVE QueryOK(q, x)'
    <2>1. QueryOK(q, x)
      BY <1>3, <1>11
    <2> QED
      BY <1>4, <2>1, QueryKept
  <1> QED
    BY <1>2, <1>10, <1>15, <1>16, <1>17, <1>18, <1>19, <1>20 DEF IndInv

-----------------------------------------------------------------------------
(* Answers and failures take a query away; the providers' answer asks for  *)
(* a drop, and an acknowledgement marks the row it was asked for.          *)
LEMMA ProvidersResultPreserves ==
    ASSUME IndInv, NEW p \in Parties, NEW q \in queries[p], ProvidersResult(p, q) PROVE IndInv'
  <1> DEFINE more == IF <<Other(p), q.slot>> \in providers THEN {SlotQuery("legacy", q.slot)} ELSE {}
  <1>1. /\ up[p] /\ queries' = [queries EXCEPT ![p] = (@ \ {q}) \cup more]
        /\ UNCHANGED <<clock, dht, up, session, rows, lastPolled, ingested, published, faults>>
    BY DEF ProvidersResult
  <1>2. Typed /\ \A x \in Parties : Bounded(x) /\ RowsOK(x) /\ \A y \in queries[x] : QueryOK(x, y)
    BY Parts
  <1>3. UNCHANGED <<clock, published, ingested, legacy, keyed, acks, keyedAcks>>
    BY <1>1 DEF dht
  <1>4. Keeps
    BY <1>3, Still
  <1>5. \A x \in more : x \in Queries /\ x.kind \notin {"ack", "keyedAck"}
    <2>1. q.slot \in Slots
      BY <1>2 DEF Typed, Queries
    <2>2. SlotQuery("legacy", q.slot) \in Queries /\ SlotQuery("legacy", q.slot).kind = "legacy"
      BY <2>1 DEF SlotQuery, Queries, Kinds
    <2>3. \A x \in more : x = SlotQuery("legacy", q.slot)
      OBVIOUS
    <2> HIDE DEF more
    <2> QED
      BY <2>2, <2>3
  <1> HIDE DEF more
  <1>6. /\ queries' \in [Parties -> SUBSET Queries]
        /\ \A x \in Parties : x # p => queries'[x] = queries[x]
        /\ queries'[p] \subseteq queries[p] \cup more
    BY <1>1, <1>2, <1>5 DEF Typed
  <1>7. Typed'
    BY <1>1, <1>2, <1>3, <1>6 DEF Typed
  <1>8. ASSUME NEW x \in Parties PROVE RowsOK(x)'
    BY <1>1, <1>2, <1>4, RowsKept
  <1>9. ASSUME NEW x \in Parties PROVE lastPolled'[x] \in -1 .. Now - 1 /\ (~up'[x] => queries'[x] = {})
    BY <1>1, <1>2, <1>6 DEF Bounded
  <1>10. ASSUME NEW x \in Parties, NEW y \in queries'[x] PROVE QueryOK(x, y)
    BY <1>2, <1>5, <1>6 DEF QueryOK
  <1> QED
    BY <1>3, <1>7, <1>8, <1>9, <1>10, LocalPreserves

LEMMA QueryFailsPreserves ==
    ASSUME IndInv, NEW p \in Parties, NEW q \in queries[p], QueryFails(p, q) PROVE IndInv'
  <1>1. /\ up[p] /\ faults < MaxFaults /\ faults' = faults + 1
        /\ queries' = [queries EXCEPT ![p] = @ \ {q}]
        /\ UNCHANGED <<clock, dht, up, session, rows, lastPolled, ingested, published>>
    BY DEF QueryFails, Fault
  <1>2. Typed /\ \A x \in Parties : Bounded(x) /\ RowsOK(x) /\ \A y \in queries[x] : QueryOK(x, y)
    BY Parts
  <1>3. UNCHANGED <<clock, published, ingested, legacy, keyed, acks, keyedAcks>>
    BY <1>1 DEF dht
  <1>4. Keeps
    BY <1>3, Still
  <1>5. queries' \in [Parties -> SUBSET Queries] /\ \A x \in Parties : queries'[x] \subseteq queries[x]
    BY <1>1, <1>2 DEF Typed
  <1>6. faults' \in 0 .. MaxFaults
    BY <1>1, <1>2, MailboxAssumption DEF Typed
  <1>7. Typed'
    BY <1>1, <1>2, <1>3, <1>5, <1>6 DEF Typed
  <1>8. ASSUME NEW x \in Parties PROVE RowsOK(x)'
    BY <1>1, <1>2, <1>4, RowsKept
  <1>9. ASSUME NEW x \in Parties PROVE lastPolled'[x] \in -1 .. Now - 1 /\ (~up'[x] => queries'[x] = {})
    BY <1>1, <1>2, <1>5 DEF Bounded
  <1>10. ASSUME NEW x \in Parties, NEW y \in queries'[x] PROVE QueryOK(x, y)
    BY <1>2, <1>5
  <1> QED
    BY <1>3, <1>7, <1>8, <1>9, <1>10, LocalPreserves

LEMMA StopPreserves == ASSUME IndInv, NEW p \in Parties, Stop(p) PROVE IndInv'
  <1>1. /\ faults < MaxFaults /\ faults' = faults + 1
        /\ up' = [up EXCEPT ![p] = FALSE] /\ session' = [session EXCEPT ![p] = FALSE]
        /\ queries' = [queries EXCEPT ![p] = {}]
        /\ UNCHANGED <<clock, dht, rows, lastPolled, ingested, published>>
    BY DEF Stop, Fault
  <1>2. Typed /\ \A x \in Parties : Bounded(x) /\ RowsOK(x) /\ \A y \in queries[x] : QueryOK(x, y)
    BY Parts
  <1>3. UNCHANGED <<clock, published, ingested, legacy, keyed, acks, keyedAcks>>
    BY <1>1 DEF dht
  <1>4. Keeps
    BY <1>3, Still
  <1>5. /\ queries' \in [Parties -> SUBSET Queries] /\ \A x \in Parties : queries'[x] \subseteq queries[x]
        /\ queries'[p] = {} /\ \A x \in Parties : x # p => up'[x] = up[x] /\ queries'[x] = queries[x]
    BY <1>1, <1>2 DEF Typed
  <1>6. faults' \in 0 .. MaxFaults
    BY <1>1, <1>2, MailboxAssumption DEF Typed
  <1>7. Typed'
    BY <1>1, <1>2, <1>3, <1>5, <1>6 DEF Typed
  <1>8. ASSUME NEW x \in Parties PROVE RowsOK(x)'
    BY <1>1, <1>2, <1>4, RowsKept
  <1>9. ASSUME NEW x \in Parties PROVE lastPolled'[x] \in -1 .. Now - 1 /\ (~up'[x] => queries'[x] = {})
    BY <1>1, <1>2, <1>5 DEF Bounded
  <1>10. ASSUME NEW x \in Parties, NEW y \in queries'[x] PROVE QueryOK(x, y)
    BY <1>2, <1>5
  <1> QED
    BY <1>3, <1>7, <1>8, <1>9, <1>10, LocalPreserves

LEMMA StartPreserves == ASSUME IndInv, NEW p \in Parties, Start(p) PROVE IndInv'
  <1>1. /\ ~up[p] /\ up' = [up EXCEPT ![p] = TRUE]
        /\ UNCHANGED <<clock, dht, session, rows, lastPolled, queries, ingested, published, faults>>
    BY DEF Start
  <1>2. Typed /\ \A x \in Parties : Bounded(x) /\ RowsOK(x) /\ \A y \in queries[x] : QueryOK(x, y)
    BY Parts
  <1>3. UNCHANGED <<clock, published, ingested, legacy, keyed, acks, keyedAcks>>
    BY <1>1 DEF dht
  <1>4. Keeps
    BY <1>3, Still
  <1>5. up' \in [Parties -> BOOLEAN] /\ \A x \in Parties : x # p => up'[x] = up[x]
    BY <1>1, <1>2 DEF Typed
  <1>7. Typed'
    BY <1>1, <1>2, <1>3, <1>5 DEF Typed
  <1>8. ASSUME NEW x \in Parties PROVE RowsOK(x)'
    BY <1>1, <1>2, <1>4, RowsKept
  <1>9. ASSUME NEW x \in Parties PROVE lastPolled'[x] \in -1 .. Now - 1 /\ (~up'[x] => queries'[x] = {})
    BY <1>1, <1>2, <1>5 DEF Bounded
  <1>10. ASSUME NEW x \in Parties, NEW y \in queries'[x] PROVE QueryOK(x, y)
    BY <1>1, <1>2
  <1> QED
    BY <1>3, <1>7, <1>8, <1>9, <1>10, LocalPreserves

(* A row is marked only if its key holds an acknowledgement, and then some *)
(* drop of its slot was ingested.                                          *)
LEMMA AckResultPreserves ==
    ASSUME IndInv, NEW p \in Parties, NEW q \in queries[p], AckResult(p, q) PROVE IndInv'
  <1>0. PICK found, time : /\ time = clock
                           /\ found = (\/ q.kind = "ack" /\ <<Other(p), q.slot>> \in acks
                                       \/ q.kind = "keyedAck" /\ q.slot \in keyedAcks)
    OBVIOUS
  <1> DEFINE mark(r) == IF found /\ r.k = q.k THEN [r EXCEPT !.acked = time] ELSE r
             marked == {mark(r) : r \in rows[p]}
             o == Other(p)
  <1>1. /\ up[p] /\ q.kind \in {"ack", "keyedAck"} /\ queries' = [queries EXCEPT ![p] = @ \ {q}]
        /\ rows' = [rows EXCEPT ![p] = {mark(r) : r \in @}]
        /\ UNCHANGED <<clock, dht, up, session, lastPolled, ingested, published, faults>>
    BY <1>0 DEF AckResult
  <1>2. /\ Typed /\ AcksOK /\ clock \in Nat
        /\ \A x \in Parties : Bounded(x) /\ RowsOK(x) /\ \A y \in queries[x] : QueryOK(x, y)
    BY Parts
  <1>3. UNCHANGED <<clock, published, ingested, legacy, keyed, acks, keyedAcks>>
    BY <1>1 DEF dht
  <1>4. Keeps
    BY <1>3, Still
  <1>5. o \in Parties /\ o # p /\ \A x \in Parties : x = p \/ x = o
    BY Others
  <1>6. q \in Queries /\ q.slot \in Slots /\ Of(p, q.k, q.slot)
    BY <1>1, <1>2 DEF Typed, Queries, QueryOK
  <1>7. found => Caused(q.slot)
    BY <1>0, <1>2, <1>5, <1>6 DEF AcksOK
  <1>8. \A r \in rows[p] : RowOK(p, r) /\ r \in Rows
    BY <1>2 DEF RowsOK, RowOK
  <1>9. ASSUME NEW r \in rows[p] PROVE RowOK(p, mark(r)) /\ mark(r).k = r.k
    <2>1. CASE found /\ r.k = q.k
      <3>1. mark(r) = [r EXCEPT !.acked = time]
        BY <2>1
      <3>2. /\ [r EXCEPT !.acked = time] \in Rows /\ [r EXCEPT !.acked = time].k = r.k
            /\ [r EXCEPT !.acked = time].slot = r.slot /\ [r EXCEPT !.acked = time].last = r.last
            /\ [r EXCEPT !.acked = time].acked = clock
        BY <1>0, <1>2, <1>8 DEF Rows
      <3>3. r.slot = q.slot /\ Caused(r.slot) /\ r.last <= clock /\ Of(p, r.k, r.slot)
        <4>1. Of(p, r.k, r.slot) /\ r.last <= clock
          BY <1>8 DEF RowOK
        <4>2. r.slot = q.slot
          BY <1>6, <2>1, <4>1 DEF Of
        <4> QED
          BY <1>7, <2>1, <4>1, <4>2
      <3>4. clock <= clock
        BY <1>2
      <3> HIDE DEF mark
      <3> QED
        BY <3>1, <3>2, <3>3, <3>4 DEF RowOK
    <2>2. CASE ~(found /\ r.k = q.k)
      BY <1>8, <2>2
    <2> QED
      BY <2>1, <2>2
  <1> HIDE DEF mark
  <1>10. \A x \in marked : RowOK(p, x) /\ x \in Rows /\ \E r \in rows[p] : x = mark(r) /\ x.k = r.k
    BY <1>9 DEF RowOK
  <1>11. rows'[p] = marked /\ rows'[o] = rows[o] /\ rows' \in [Parties -> SUBSET Rows]
    BY <1>1, <1>2, <1>5, <1>10 DEF Typed
  <1> HIDE DEF marked
  <1>12. RowsOK(p)'
    <2>1. \A x \in marked : RowOK(p, x)'
      BY <1>4, <1>10, RowKept
    <2>2. \A x, y \in marked : x.k = y.k => x = y
      <3>1. \A x, y \in rows[p] : x.k = y.k => x = y
        BY <1>2 DEF RowsOK
      <3> QED
        BY <1>10, <3>1
    <2> QED
      BY <1>11, <2>1, <2>2 DEF RowsOK
  <1>13. ASSUME NEW x \in Parties PROVE RowsOK(x)'
    <2>1. RowsOK(o)'
      BY <1>2, <1>4, <1>5, <1>11, RowsKept
    <2> QED
      BY <1>5, <1>12, <2>1
  <1>14. queries' \in [Parties -> SUBSET Queries] /\ \A x \in Parties : queries'[x] \subseteq queries[x]
    BY <1>1, <1>2 DEF Typed
  <1>15. Typed'
    BY <1>1, <1>2, <1>3, <1>11, <1>14 DEF Typed
  <1>16. ASSUME NEW x \in Parties PROVE lastPolled'[x] \in -1 .. Now - 1 /\ (~up'[x] => queries'[x] = {})
    BY <1>1, <1>2, <1>14 DEF Bounded
  <1>17. ASSUME NEW x \in Parties, NEW y \in queries'[x] PROVE QueryOK(x, y)
    BY <1>2, <1>14
  <1> QED
    BY <1>3, <1>13, <1>15, <1>16, <1>17, LocalPreserves

-----------------------------------------------------------------------------
(* Actions that ingest messages of the peer: what p stores was dropped.    *)
LEMMA IngestPreserves ==
    ASSUME IndInv, NEW p \in Parties, NEW m, m \subseteq DOMAIN published[Other(p)],
           ingested' = [ingested EXCEPT ![p] = @ \cup m],
           session' \in [Parties -> BOOLEAN], UNCHANGED <<clock, up, rows, lastPolled, published, faults, legacy, keyed>>,
           queries' \in [Parties -> SUBSET Queries], \A x \in Parties : queries'[x] \subseteq queries[x], AcksOK'
    PROVE  IndInv'
  <1>1. /\ Typed /\ RecordsOK /\ clock \in Nat
        /\ \A x \in Parties : Bounded(x) /\ RowsOK(x) /\ \A y \in queries[x] : QueryOK(x, y)
    BY Parts
  <1>2. Other(p) \in Parties /\ published \in [Parties -> Seq(Slots)]
    BY <1>1, Others DEF Typed
  <1>3. m \subseteq Nat
    <2>1. DOMAIN published[Other(p)] = 1 .. Len(published[Other(p)]) /\ Len(published[Other(p)]) \in Nat
      BY <1>2
    <2> QED
      BY <2>1
  <1>4. /\ ingested' \in [Parties -> SUBSET Nat] /\ ingested'[p] = ingested[p] \cup m
        /\ \A x \in Parties : x # p => ingested'[x] = ingested[x]
    BY <1>1, <1>3 DEF Typed
  <1>5. Keeps
    <2>1. clock <= clock
      BY <1>1
    <2> QED
      BY <1>1, <1>4, <2>1 DEF Keeps
  <1>6. Typed'
    BY <1>1, <1>4 DEF Typed
  <1>7. RecordsOK'
    BY <1>1, <1>5, RecordsKept
  <1>8. ASSUME NEW x \in Parties PROVE Bounded(x)'
    <2>1. ingested'[x] \subseteq DOMAIN published[Other(x)]
      BY <1>1, <1>4 DEF Bounded
    <2> QED
      BY <1>1, <2>1 DEF Bounded, Now
  <1>9. ASSUME NEW x \in Parties PROVE RowsOK(x)'
    BY <1>1, <1>5, RowsKept
  <1>10. ASSUME NEW x \in Parties, NEW y \in queries'[x] PROVE QueryOK(x, y)'
    BY <1>1, <1>5, QueryKept
  <1> QED
    BY <1>6, <1>7, <1>8, <1>9, <1>10 DEF IndInv

(* What a drop query finds is the drop of a message of that slot, and an   *)
(* acknowledgement is published only if that message has been ingested.    *)
LEMMA RecordResultPreserves ==
    ASSUME IndInv, NEW p \in Parties, NEW q \in queries[p], RecordResult(p, q) PROVE IndInv'
  <1>0. PICK d, new : d = RecordAt(p, q) /\ new = Opens(p, d)
    OBVIOUS
  <1> DEFINE o == Other(p)
             m == IF new THEN {d.k} ELSE {}
  <1>1. /\ q.kind \in {"legacy", "keyed"} /\ queries' = [queries EXCEPT ![p] = @ \ {q}]
        /\ session' = [session EXCEPT ![p] = @ \/ d.from = Other(p)]
        /\ ingested' = [ingested EXCEPT ![p] = IF new THEN @ \cup {d.k} ELSE @]
        /\ acks' = IF new THEN acks \cup {<<p, q.slot>>} ELSE acks
        /\ keyedAcks' = IF new THEN keyedAcks \cup {q.slot} ELSE keyedAcks
        /\ UNCHANGED <<clock, up, rows, lastPolled, published, faults, legacy, keyed>>
    BY <1>0 DEF RecordResult, Acknowledges
  <1>2. /\ Typed /\ RecordsOK /\ AcksOK /\ clock \in Nat
        /\ \A x \in Parties : Bounded(x) /\ RowsOK(x) /\ \A y \in queries[x] : QueryOK(x, y)
    BY Parts
  <1>3. o \in Parties /\ o # "none"
    BY Others DEF Parties
  <1>4. q.slot \in Slots
    BY <1>2 DEF Typed, Queries
  <1>5. d.from = o => Of(o, d.k, q.slot)
    <2>1. KeyedOK(q.slot) /\ LegacyOK(o, q.slot)
      BY <1>2, <1>3, <1>4 DEF RecordsOK
    <2>2. CASE q.kind = "keyed"
      <3>1. d = keyed[q.slot]
        BY <1>0, <2>2 DEF RecordAt
      <3> QED
        BY <1>3, <2>1, <3>1 DEF KeyedOK
    <2>3. CASE q.kind = "legacy" /\ legacy[o][q.slot] = 0
      <3>1. d.from = "none"
        BY <1>0, <2>3 DEF RecordAt, NoDrop
      <3> QED
        BY <1>3, <3>1
    <2>4. CASE q.kind = "legacy" /\ legacy[o][q.slot] # 0
      <3>1. d.k = legacy[o][q.slot]
        BY <1>0, <2>4 DEF RecordAt, Drop
      <3> QED
        BY <2>1, <2>4, <3>1 DEF LegacyOK
    <2> QED
      BY <1>1, <2>2, <2>3, <2>4
  <1>6. new => Of(o, d.k, q.slot)
    BY <1>0, <1>5 DEF Opens
  <1>7. m \subseteq DOMAIN published[o] /\ ingested' = [ingested EXCEPT ![p] = @ \cup m]
    <2>1. m \subseteq DOMAIN published[o]
      BY <1>6 DEF Of
    <2>2. CASE new
      BY <1>1, <2>1, <2>2
    <2>3. CASE ~new
      <3>1. m = {} /\ ingested' = [ingested EXCEPT ![p] = @]
        BY <1>1, <2>3
      <3> HIDE DEF m
      <3> QED
        BY <2>1, <3>1
    <2> QED
      BY <2>2, <2>3
  <1>8. /\ queries' \in [Parties -> SUBSET Queries] /\ \A x \in Parties : queries'[x] \subseteq queries[x]
        /\ session' \in [Parties -> BOOLEAN]
    BY <1>1, <1>2 DEF Typed
  <1>9. Keeps
    <2>1. clock <= clock
      BY <1>2
    <2>2. \A x \in Parties : ingested[x] \subseteq ingested'[x]
      BY <1>1, <1>2 DEF Typed
    <2> QED
      BY <1>1, <1>2, <2>1, <2>2 DEF Keeps
  <1>10. AcksOK'
    <2>1. \A s \in Slots : Caused(s) => Caused(s)'
      BY <1>9, CausedKept
    <2>2. \A s \in Slots : new /\ s = q.slot => Caused(s)'
      <3> SUFFICES ASSUME NEW s \in Slots, new, s = q.slot PROVE Caused(s)'
        OBVIOUS
      <3>1. PICK k : k = d.k
        OBVIOUS
      <3>2. k \in ingested'[p] /\ Of(o, k, s)
        BY <1>1, <1>2, <1>6, <3>1 DEF Typed
      <3>3. Of(Other(p), k, s)'
        BY <1>3, <1>9, <3>2, OfKept
      <3> QED
        BY <3>2, <3>3 DEF Caused
    <2>3. \A x \in Parties : \A s \in Slots : <<x, s>> \in acks' => <<x, s>> \in acks \/ (new /\ s = q.slot)
      BY <1>1
    <2>4. \A s \in Slots : s \in keyedAcks' => s \in keyedAcks \/ (new /\ s = q.slot)
      BY <1>1
    <2>5. /\ \A x \in Parties : \A s \in Slots : <<x, s>> \in acks => Caused(s)
          /\ \A s \in Slots : s \in keyedAcks => Caused(s)
      BY <1>2 DEF AcksOK
    <2>6. /\ \A x \in Parties : \A s \in Slots : <<x, s>> \in acks' => Caused(s)'
          /\ \A s \in Slots : s \in keyedAcks' => Caused(s)'
      BY <2>1, <2>2, <2>3, <2>4, <2>5
    <2> QED
      BY <2>6 DEF AcksOK
  <1> HIDE DEF m
  <1> QED
    BY <1>1, <1>7, <1>8, <1>10, IngestPreserves

LEMMA DirectDeliveryPreserves ==
    ASSUME IndInv, NEW p \in Parties, NEW k \in DOMAIN published[p], DirectDelivery(p, k) PROVE IndInv'
  <1> DEFINE o == Other(p)
  <1>1. /\ ingested' = [ingested EXCEPT ![o] = @ \cup {k}]
        /\ session' = [x \in Parties |-> IF x = o THEN TRUE ELSE session[x]]
        /\ UNCHANGED <<clock, dht, up, rows, lastPolled, queries, published, faults>>
    BY DEF DirectDelivery
  <1>2. o \in Parties /\ Other(o) = p
    BY Others
  <1>3. Typed /\ AcksOK /\ clock \in Nat
    BY Parts
  <1>4. UNCHANGED <<legacy, keyed, acks, keyedAcks>>
    BY <1>1 DEF dht
  <1>5. session' \in [Parties -> BOOLEAN] /\ queries' \in [Parties -> SUBSET Queries]
    BY <1>1, <1>3 DEF Typed
  <1>6. Keeps
    <2>1. clock <= clock
      BY <1>3
    <2>2. \A x \in Parties : ingested[x] \subseteq ingested'[x]
      BY <1>1, <1>3 DEF Typed
    <2> QED
      BY <1>1, <1>3, <2>1, <2>2 DEF Keeps
  <1>7. AcksOK'
    BY <1>3, <1>4, <1>6, AcksKept
  <1>8. PICK m : m = {k} /\ m \subseteq DOMAIN published[Other(o)]
    BY <1>2
  <1>9. ingested' = [ingested EXCEPT ![o] = @ \cup m] /\ \A x \in Parties : queries'[x] \subseteq queries[x]
    BY <1>1, <1>8
  <1> HIDE DEF o
  <1> QED
    BY <1>1, <1>2, <1>4, <1>5, <1>7, <1>8, <1>9, IngestPreserves

-----------------------------------------------------------------------------
(* Time passes: a slot that was polled stays in the past.                  *)
LEMMA TickPreserves == ASSUME IndInv, Tick PROVE IndInv'
  <1>1. /\ clock < MaxClock /\ clock' = clock + 1
        /\ UNCHANGED <<up, session, rows, lastPolled, queries, ingested, published, faults, dht>>
    BY DEF Tick
  <1>2. /\ Typed /\ RecordsOK /\ AcksOK /\ clock \in Nat /\ Now \in Nat
        /\ \A x \in Parties : Bounded(x) /\ RowsOK(x) /\ \A y \in queries[x] : QueryOK(x, y)
    BY Parts DEF Parties
  <1>3. UNCHANGED <<legacy, keyed, acks, keyedAcks>>
    BY <1>1 DEF dht
  <1>4. clock' \in Nat /\ clock <= clock' /\ clock' \in 0 .. MaxClock
    BY <1>1, <1>2, MailboxAssumption
  <1>5. Keeps
    BY <1>1, <1>2, <1>4 DEF Keeps
  <1>6. Now' \in Nat /\ Now <= Now'
    <2>1. SlotIdFor(clock) <= SlotIdFor(clock')
      BY <1>2, <1>4, SlotsGrow
    <2>2. SlotIdFor(clock') \in Nat
      <3>1. clock' <= clock'
        BY <1>4
      <3> QED
        BY <1>4, <3>1, SlotsGrow
    <2> QED
      BY <2>1, <2>2 DEF Now
  <1>7. Typed'
    BY <1>1, <1>2, <1>3, <1>4 DEF Typed
  <1>8. RecordsOK' /\ AcksOK'
    BY <1>2, <1>3, <1>5, RecordsKept, AcksKept
  <1>9. ASSUME NEW x \in Parties PROVE Bounded(x)'
    <2>1. lastPolled[x] \in -1 .. Now - 1 /\ Len(published[x]) <= Quota[x] /\ (~up[x] => queries[x] = {})
          /\ ingested[x] \subseteq DOMAIN published[Other(x)]
      BY <1>2 DEF Bounded
    <2>2. lastPolled[x] \in -1 .. Now' - 1
      BY <1>2, <1>6, <2>1
    <2> QED
      BY <1>1, <2>1, <2>2 DEF Bounded
  <1>10. ASSUME NEW x \in Parties PROVE RowsOK(x)'
    BY <1>1, <1>2, <1>5, RowsKept
  <1>11. ASSUME NEW x \in Parties, NEW y \in queries'[x] PROVE QueryOK(x, y)'
    BY <1>1, <1>2, <1>5, QueryKept
  <1> QED
    BY <1>7, <1>8, <1>9, <1>10, <1>11 DEF IndInv

LEMMA InitSound == Init => IndInv
  <1> SUFFICES ASSUME Init PROVE IndInv
    OBVIOUS
  <1>1. clock = 0 /\ clock \in 0 .. MaxClock /\ faults \in 0 .. MaxFaults
    BY MailboxAssumption DEF Init
  <1>2. Now \in Nat
    BY <1>1, NowSlot
  <1>3. NoDrop \in Drops /\ NoDrop.from \notin Parties
    BY DEF NoDrop, Drops, Parties
  <1>4. << >> \in Seq(Slots) /\ Len(<< >>) = 0
    OBVIOUS
  <1>5. published = [p \in Parties |-> << >>] /\ keyed = [s \in Slots |-> NoDrop]
        /\ legacy = [p \in Parties |-> [s \in Slots |-> 0]]
    BY DEF Init
  <1>6. published \in [Parties -> Seq(Slots)] /\ keyed \in [Slots -> Drops] /\ legacy \in [Parties -> [Slots -> Nat]]
    BY <1>3, <1>4, <1>5
  <1>7. /\ up \in [Parties -> BOOLEAN] /\ session \in [Parties -> BOOLEAN] /\ rows \in [Parties -> SUBSET Rows]
        /\ queries \in [Parties -> SUBSET Queries] /\ ingested \in [Parties -> SUBSET Nat]
        /\ lastPolled \in [Parties -> Int]
    BY DEF Init
  <1>8. Typed
    BY <1>1, <1>6, <1>7 DEF Typed
  <1>9. RecordsOK
    BY <1>3, <1>5 DEF RecordsOK, KeyedOK, LegacyOK
  <1>10. AcksOK
    BY DEF Init, AcksOK
  <1>11. ASSUME NEW p \in Parties PROVE Bounded(p) /\ RowsOK(p) /\ \A q \in queries[p] : QueryOK(p, q)
    <2>1. lastPolled[p] = -1 /\ up[p] /\ queries[p] = {} /\ ingested[p] = {} /\ rows[p] = {}
      BY DEF Init
    <2>2. lastPolled[p] \in -1 .. Now - 1
      BY <1>2, <2>1
    <2>3. Len(published[p]) <= Quota[p]
      <3>1. Quota[p] \in Nat
        BY MailboxAssumption DEF Quota, Parties
      <3>2. Len(published[p]) = 0
        BY <1>4, <1>5
      <3> QED
        BY <3>1, <3>2
    <2> QED
      BY <2>1, <2>2, <2>3 DEF Bounded, RowsOK
  <1> QED
    BY <1>8, <1>9, <1>10, <1>11 DEF IndInv

LEMMA NextPreserves == IndInv /\ [Next]_vars => IndInv'
  <1> SUFFICES ASSUME IndInv, [Next]_vars PROVE IndInv'
    OBVIOUS
  <1>1. CASE Tick
    BY <1>1, TickPreserves
  <1>2. ASSUME NEW p \in Parties,
               Publish(p) \/ PublishFails(p) \/ Republish(p) \/ Cleanup(p) \/ Poll(p) \/ Stop(p) \/ Start(p)
        PROVE  IndInv'
    BY <1>2, PublishPreserves, PublishFailsPreserves, RepublishPreserves, CleanupPreserves, PollPreserves,
       StopPreserves, StartPreserves
  <1>3. ASSUME NEW p \in Parties, NEW q \in queries[p], Answer(p, q) \/ QueryFails(p, q)
        PROVE  IndInv'
    BY <1>3, ProvidersResultPreserves, RecordResultPreserves, AckResultPreserves, QueryFailsPreserves DEF Answer
  <1>4. ASSUME NEW p \in Parties, NEW k \in DOMAIN published[p], DirectDelivery(p, k)
        PROVE  IndInv'
    BY <1>4, DirectDeliveryPreserves
  <1>5. CASE UNCHANGED vars
    <2>1. UNCHANGED <<clock, published, ingested, legacy, keyed, acks, keyedAcks, rows, queries, up, session, lastPolled, faults>>
      BY <1>5 DEF vars, local, dht
    <2>2. /\ Typed /\ \A x \in Parties : Bounded(x) /\ RowsOK(x) /\ \A y \in queries[x] : QueryOK(x, y)
      BY Parts DEF Parties
    <2>3. Keeps
      BY <2>1, Still
    <2>4. Typed'
      BY <2>1, <2>2 DEF Typed
    <2>5. ASSUME NEW x \in Parties PROVE RowsOK(x)'
      BY <2>1, <2>2, <2>3, RowsKept
    <2>6. ASSUME NEW x \in Parties PROVE lastPolled'[x] \in -1 .. Now - 1 /\ (~up'[x] => queries'[x] = {})
      BY <2>1, <2>2 DEF Bounded
    <2> QED
      BY <2>1, <2>2, <2>4, <2>5, <2>6, LocalPreserves
  <1> QED
    BY <1>1, <1>2, <1>3, <1>4, <1>5 DEF Next

LEMMA RowsAreSound == IndInv => RowsSound
  <1> SUFFICES ASSUME IndInv PROVE RowsSound
    OBVIOUS
  <1>1. Typed /\ \A p \in Parties : Bounded(p) /\ RowsOK(p)
    BY DEF IndInv
  <1>2. ASSUME NEW p \in Parties, NEW r \in rows[p]
        PROVE  /\ r.k \in DOMAIN published[p] /\ r.slot = published[p][r.k]
               /\ r.last <= clock /\ r.acked <= clock /\ (r.acked # NotAcked => Caused(r.slot))
    BY <1>1 DEF RowsOK, RowOK, Of
  <1>3. TypeOK
    <2>1. \A p \in Parties : up[p] \in BOOLEAN /\ session[p] \in BOOLEAN
      BY <1>1 DEF Typed
    <2>2. \A p \in Parties : \A r, q \in rows[p] : r.k = q.k => r = q
      BY <1>1 DEF RowsOK
    <2> QED
      BY <1>1, <1>2, <2>1, <2>2 DEF TypeOK, Typed, Bounded
  <1>4. AckHasCause
    BY <1>2 DEF AckHasCause, Caused, Of
  <1> QED
    BY <1>3, <1>4 DEF RowsSound

(* Whatever fails or restarts, at any clock: every row of mailbox_drops    *)
(* stands for the drop it was written for, the poll state never runs ahead *)
(* of the current slot, what a node has ingested was dropped by its peer,  *)
(* and a row is acknowledged only if some drop of its slot was ingested.   *)
THEOREM RowsStaySound == Spec => []RowsSound
  <1>1. Spec => []IndInv
    BY InitSound, NextPreserves, PTL DEF Spec
  <1> QED
    BY <1>1, RowsAreSound, PTL
=============================================================================
