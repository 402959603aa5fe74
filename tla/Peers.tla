-------------------------------- MODULE Peers --------------------------------
(***************************************************************************)
(* Which peers a node believes it can reach (node.rs: connected_peers and  *)
(* the handlers of ConnectionEstablished, ConnectionClosed and mDNS        *)
(* events), what it queues for the others (outbox), and the peer_cache     *)
(* table that its next start dials from (store.rs).                        *)
(*                                                                         *)
(* libp2p reports connections and mDNS records one by one; a peer may have *)
(* several of either.  connected_peers is a map with one entry per peer.   *)
(* Dials of the Connect command, of seeds and of relays, and inbound       *)
(* connections, all show up as ConnectionEstablished.                      *)
(***************************************************************************)
EXTENDS Bootstrap

CONSTANTS Peers, Addrs,
          Flags,        \* what --bootstrap may be, one sequence per start
          Manifest, Dns, \* what the manifest host and DNS answer
          DisableMdns,  \* config.disable_mdns
          CacheMax,     \* 50: rows peer_cache keeps, rows a start reads
          StoreFails,   \* may the store fail?
          MaxConns,     \* bound: connections open and mDNS records live
          MaxQueued,    \* bound: outbox rows per peer
          MaxClock,     \* bound: clock ticks
          MaxStarts     \* bound: starts

ASSUME PeersAssumption ==
    /\ NoPeer \notin Peers
    /\ CacheMax \in Nat \ {0} /\ StoreFails \in BOOLEAN /\ DisableMdns \in BOOLEAN
    /\ MaxConns \in Nat /\ MaxQueued \in Nat /\ MaxClock \in Nat /\ MaxStarts \in Nat

VARIABLES conns,      \* open connections: <<peer, address>>
          mdns,       \* mDNS records that have not expired
          table,      \* connected_peers
          queued,     \* outbox rows for each peer
          unread,     \* history: peers whose last drain could not read
          cache,      \* peer_cache: peer |-> address, last_good_at
          good,       \* history: the last upsert of each peer
          seeds,      \* the seed list of the last start
          flags,      \* its --bootstrap flags
          clock, starts

vars == <<conns, mdns, table, queued, unread, cache, good, seeds, flags, clock, starts>>

Put(f, p, v) == [q \in DOMAIN f \cup {p} |-> IF q = p THEN v ELSE f[q]]

Without(f, p) == Restrict(f, DOMAIN f \ {p})

Nothing == [p \in {} |-> 0]

-----------------------------------------------------------------------------
(* Mutant of DrainOutboxFor: nothing is read.                              *)
DrainOutboxForNever(p) == UNCHANGED <<queued, unread>>

(* drain_outbox_for: every row is handed to libp2p and deleted, unless the *)
(* read fails, which is logged.                                            *)
DrainOutboxFor(p) ==
    \/ /\ queued' = [queued EXCEPT ![p] = 0]
       /\ unread' = unread \ {p}
    \/ /\ StoreFails
       /\ unread' = unread \cup {p}
       /\ UNCHANGED queued

RoomForMore == Cardinality(conns) + Cardinality(mdns) < MaxConns

PeerCacheUpsert(p, a) == Put(cache, p, [addr |-> a, at |-> clock])

Established(p, a) ==
    /\ <<p, a>> \notin conns /\ RoomForMore
    /\ conns' = conns \cup {<<p, a>>}
    /\ table' = Put(table, p, a)
    /\ \/ /\ cache' = PeerCacheUpsert(p, a)
          /\ good' = Put(good, p, [addr |-> a, at |-> clock])
       \/ StoreFails /\ UNCHANGED <<cache, good>>
    /\ DrainOutboxFor(p)
    /\ UNCHANGED <<mdns, seeds, flags, clock, starts>>

ForgetPeer(p) == Without(table, p)

(* ConnectionClosed: whatever other connection there is, the entry goes.   *)
Closed(p, a) ==
    /\ <<p, a>> \in conns
    /\ conns' = conns \ {<<p, a>>}
    /\ table' = ForgetPeer(p)
    /\ UNCHANGED <<mdns, queued, unread, cache, good, seeds, flags, clock, starts>>

(* mdns::Event::Discovered                                                 *)
Discovered(p, a) ==
    /\ ~DisableMdns /\ <<p, a>> \notin mdns /\ RoomForMore
    /\ mdns' = mdns \cup {<<p, a>>}
    /\ table' = Put(table, p, a)
    /\ DrainOutboxFor(p)
    /\ UNCHANGED <<conns, cache, good, seeds, flags, clock, starts>>

(* mdns::Event::Expired                                                    *)
Expired(p, a) ==
    /\ <<p, a>> \in mdns
    /\ mdns' = mdns \ {<<p, a>>}
    /\ table' = ForgetPeer(p)
    /\ UNCHANGED <<conns, queued, unread, cache, good, seeds, flags, clock, starts>>

(* try_send_or_queue: handed to libp2p if the peer is in the table, queued *)
(* if not.                                                                 *)
Send(p) ==
    /\ p \notin DOMAIN table
    /\ queued[p] < MaxQueued
    /\ queued' = [queued EXCEPT ![p] = @ + 1]
    /\ UNCHANGED <<conns, mdns, table, unread, cache, good, seeds, flags, clock, starts>>

-----------------------------------------------------------------------------
(* Mutant of Newer: the oldest first.                                      *)
NewerAscending(r, s) == r.at <= s.at

(* ORDER BY last_good_at DESC; rows of the same second in any order.       *)
Newer(r, s) == r.at >= s.at

Orders ==
    {s \in SetToSeqs(DOMAIN cache) :
        \A i, j \in DOMAIN s : i < j => Newer(cache[s[i]], cache[s[j]])}

FirstRows(s) == SubSeq(s, 1, IF Len(s) < CacheMax THEN Len(s) ELSE CacheMax)

(* peer_cache_trim on the hourly tick.                                     *)
PeerCacheTrim ==
    /\ \E s \in Orders : cache' = Restrict(cache, Range(FirstRows(s)))
    /\ UNCHANGED <<conns, mdns, table, queued, unread, good, seeds, flags, clock, starts>>

(* peer_cache_recent_good; a read that fails counts as no rows.            *)
PeerCacheRecentGood(s) == [i \in DOMAIN FirstRows(s) |-> <<s[i], cache[s[i]].addr>>]

CachedSeeds == {PeerCacheRecentGood(s) : s \in Orders}

Tick ==
    /\ clock < MaxClock
    /\ clock' = clock + 1
    /\ UNCHANGED <<conns, mdns, table, queued, unread, cache, good, seeds, flags, starts>>

(* The process ends and starts again: the store is all that is left.       *)
Start(cli, useDefaults) ==
    /\ starts < MaxStarts
    /\ starts' = starts + 1
    /\ conns' = {} /\ mdns' = {} /\ table' = Nothing /\ unread' = {}
    /\ flags' = cli
    /\ \E cached \in CachedSeeds :
        seeds' = Seeds(cli, cached, useDefaults, Manifest, Dns)
    /\ UNCHANGED <<queued, cache, good, clock>>

Init ==
    /\ conns = {} /\ mdns = {} /\ table = Nothing
    /\ queued = [p \in Peers |-> 0] /\ unread = {}
    /\ cache = Nothing /\ good = Nothing
    /\ flags \in Flags
    /\ \E useDefaults \in BOOLEAN :
        seeds = Seeds(flags, << >>, useDefaults, Manifest, Dns)
    /\ clock = 0 /\ starts = 0

Next ==
    \/ \E p \in Peers, a \in Addrs :
        Established(p, a) \/ Closed(p, a) \/ Discovered(p, a) \/ Expired(p, a)
    \/ \E p \in Peers : Send(p)
    \/ \E cli \in Flags, useDefaults \in BOOLEAN : Start(cli, useDefaults)
    \/ PeerCacheTrim \/ Tick

Spec == Init /\ [][Next]_vars

-----------------------------------------------------------------------------
(* Types, and the seed list names no address twice.                        *)
TypeOK ==
    /\ conns \subseteq Peers \X Addrs /\ mdns \subseteq Peers \X Addrs
    /\ DOMAIN table \subseteq Peers /\ Range(table) \subseteq Addrs
    /\ queued \in [Peers -> 0 .. MaxQueued] /\ unread \subseteq Peers
    /\ DOMAIN cache \subseteq DOMAIN good /\ DOMAIN good \subseteq Peers
    /\ IsInjective(seeds)
    /\ clock \in 0 .. MaxClock /\ starts \in 0 .. MaxStarts

(* ConnectionClosed and mDNS Expired against several connections and       *)
(* records per peer: an entry of connected_peers always names the address  *)
(* of an open connection or a live record, never of one that is gone.      *)
EntryBacked ==
    \A p \in DOMAIN table : <<p, table[p]>> \in conns \cup mdns

(* try_send_or_queue with drain_outbox_for: no row waits for a peer that   *)
(* connected_peers has, unless the drain could not read the outbox.        *)
NoneWaitsForListed ==
    \A p \in DOMAIN table : queued[p] > 0 => p \in unread

(* connected_peers against the links and against the outbox.               *)
TableSound == TypeOK /\ EntryBacked /\ NoneWaitsForListed

Recent(p) ==
    Cardinality({q \in DOMAIN good \ {p} : good[q].at >= good[p].at}) < CacheMax

(* peer_cache_upsert, peer_cache_trim, peer_cache_recent_good: a start     *)
(* dials the last address of every peer that fewer than CacheMax others    *)
(* were connected as recently as, however often the cache was trimmed.     *)
RecentDialled ==
    [][starts' # starts =>
        \A p \in DOMAIN good : Recent(p) => Contains(seeds', <<p, good[p].addr>>)]_vars

(* start and fetch_signed_manifest: a seed is an address the user gave,    *)
(* one compiled in, or a peer's that a connection was made with.  Unsigned *)
(* DNS and a manifest under the placeholder key add nothing.               *)
SeedsVouched ==
    \A a \in Range(seeds) :
        \/ Contains(flags, a) \/ Contains(DEFAULT_BOOTSTRAPS, a)
        \/ a[1] \in DOMAIN good

-----------------------------------------------------------------------------
(* Claims of the repository that the code does not keep.                   *)

(* node.rs, try_send_or_queue: "If the peer isn't currently connected,     *)
(* persist the message to the outbox", and a new connection drains it: no  *)
(* row waits for a peer with an open connection.                           *)
NoneWaitsForConnected == \A c \in conns : queued[c[1]] = 0

(* node.rs, start: duplicates are removed "so the libp2p dial loop doesn't *)
(* fire twice for the same peer".                                          *)
DialledOnce ==
    \A i, j \in DOMAIN Dialled(seeds) :
        Dialled(seeds)[i][1] = Dialled(seeds)[j][1] => i = j
=============================================================================
