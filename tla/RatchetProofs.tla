--------------------------- MODULE RatchetProofs ---------------------------
(***************************************************************************)
(* Proofs about RatchetChannel, for any MAX_SKIP and any number of         *)
(* messages and duplicates, and about DmNode, which runs the same ratchet  *)
(* inside the two nodes, for any number of messages, one-time prekeys,     *)
(* mailbox fetches and restarts.                                           *)
(*                                                                         *)
(* Which keys a state gives away is settled by three facts about the root  *)
(* a chain was split from: its length, the parity of that length, and the  *)
(* position on the chain.  A DH step makes the root key two inputs longer, *)
(* so the roots of A's sending chains have even and those of B's odd       *)
(* length, and a receiving chain has the other parity.                     *)
(*                                                                         *)
(* Which messages open is settled by a second invariant, which holds until *)
(* the network delivers a copy: the two sides share one history, in which  *)
(* one is always exactly one DH step ahead.                                *)
(*                                                                         *)
(* In DmNode there is no fixed initiator: the ephemeral key at the front   *)
(* of a session's root says who plays A in it (Role).  Its invariant says  *)
(* that every wire is behind its sender's sessions, that what is stored is *)
(* behind the recipient's, and that a message not yet sealed waits in one  *)
(* place.  A lemma per handler shows that the node it leaves is Good, with *)
(* what it is about to publish counted as published; one per action then   *)
(* shows the same of the two nodes together.                               *)
(***************************************************************************)
EXTENDS RatchetChannel, DmNode, SequenceTheorems, WellFoundedInduction, TLAPS

Par(p) == IF p = "A" THEN 0 ELSE 1

Kinds == {"spk", "otpk", "eph", "kem", "dh"}
Keys == Parties \X Kinds \X Nat
Secrets == [dhs : Seq(SUBSET Keys), pq : Keys]
Outputs == (SUBSET Keys) \cup {{"x3dh"}} \cup Secrets
ChainKeys == [root : Seq(Outputs), i : Nat]
Entries == [dh : Keys, n : Nat, mk : ChainKeys]
States ==
    [dhs : Keys, dhr : Keys \cup {NoDh}, rk : Seq(Outputs), cks : ChainKeys, ckr : ChainKeys,
     ns : Nat, nr : Nat, pn : Nat, skipped : Seq(Entries), sessionId : Seq(Outputs)]
Headers == [to : Parties, pt : Nat, dh : Keys, pn : Nat, n : Nat, mk : ChainKeys]

(* The chains of p's state s hang off its root key.                        *)
Rooted(s, p) ==
    /\ Len(s.rk) >= 1 /\ Len(s.rk) % 2 = Par(p)
    /\ s.cks = NoChain \/ s.cks.root = s.rk
    /\ s.ckr = NoChain \/ Len(s.ckr.root) + 1 = Len(s.rk)

(* Cached keys are of receiving chains, passed already, and distinct.      *)
CacheBehind(s, p) ==
    \A k \in 1 .. Len(s.skipped) :
        LET c == s.skipped[k].mk IN
        /\ s.ckr # NoChain /\ Len(c.root) <= Len(s.ckr.root) /\ Len(c.root) % 2 # Par(p)
        /\ c.root = s.ckr.root => c.i < s.ckr.i
CacheDistinct(s) ==
    \A j, k \in 1 .. Len(s.skipped) : s.skipped[j].mk = s.skipped[k].mk => j = k
CacheFits(s) == Len(s.skipped) <= MaxSkip

Sane(s, p) == s \in States /\ Rooted(s, p) /\ CacheBehind(s, p) /\ CacheDistinct(s) /\ CacheFits(s)

(* Whatever else is true of a key, decrypt can come to use it only if it   *)
(* is cached, ahead on the receiving chain, or of a root still to come.    *)
Cached(s, mk) == \E k \in 1 .. Len(s.skipped) : s.skipped[k].mk = mk
Ahead(s, mk) == s.ckr # NoChain /\ mk.root = s.ckr.root /\ mk.i >= s.ckr.i
Reads(s, mk) == Cached(s, mk) \/ Ahead(s, mk) \/ Len(mk.root) > Len(s.rk)

(* A key that the owner of s has sealed with.                              *)
OfParty(p, root) == Len(root) >= 1 /\ Len(root) % 2 = Par(p)
SealedBefore(s, p, mk) ==
    /\ OfParty(p, mk.root) /\ Len(mk.root) <= Len(s.rk)
    /\ mk.root = s.cks.root => mk.i < s.cks.i

-----------------------------------------------------------------------------
(* A set of natural numbers has a smallest one.                            *)
LEMMA Least ==
    ASSUME NEW S \in SUBSET Nat, S # {}
    PROVE  \E i \in S : \A j \in S : i <= j
  <1> DEFINE R == {ss \in Nat \X Nat : ss[1] < ss[2]}
  <1>1. IsWellFoundedOn(R, Nat)
    BY NatLessThanWellFounded DEF OpToRel
  <1>2. \E x \in S : \A y \in S : ~ (<<y, x>> \in R)
    <2> HIDE DEF R
    <2> QED
      BY <1>1, WFMin
  <1>3. \E x \in S : \A y \in S : x <= y
    <2>1. PICK x \in S : \A y \in S : ~ (<<y, x>> \in R)
      BY <1>2
    <2>2. ASSUME NEW y \in S PROVE x <= y
      <3>1. x \in Nat /\ y \in Nat /\ <<y, x>> \notin R
        BY <2>1, <2>2
      <3>2. ~(y < x)
        BY <3>1
      <3> QED
        BY <3>1, <3>2
    <2> QED
      BY <2>2
  <1> QED
    BY <1>3

LEMMA Smallest ==
    ASSUME NEW S \in SUBSET Nat, S # {}
    PROVE  (CHOOSE i \in S : \A j \in S : i <= j) \in S
  <1>1. \E i \in S : \A j \in S : i <= j
    BY Least
  <1> QED
    BY <1>1

(* Sequences: try_skipped removes one entry, skip_message_keys appends.    *)
LEMMA DropOne ==
    ASSUME NEW S, NEW q \in Seq(S), NEW k \in 1 .. Len(q)
    PROVE  LET d == SubSeq(q, 1, k - 1) \o SubSeq(q, k + 1, Len(q)) IN
           /\ d \in Seq(S) /\ Len(d) = Len(q) - 1
           /\ \A j \in 1 .. Len(q) - 1 : d[j] = IF j < k THEN q[j] ELSE q[j + 1]
  <1> DEFINE a == SubSeq(q, 1, k - 1)
             b == SubSeq(q, k + 1, Len(q))
  <1>1. Len(q) \in Nat /\ k \in Nat /\ k >= 1 /\ k <= Len(q)
    OBVIOUS
  <1>2. a \in Seq(S) /\ Len(a) = k - 1 /\ \A j \in 1 .. k - 1 : a[j] = q[j]
    BY <1>1, SubSeqProperties
  <1>3. b \in Seq(S) /\ Len(b) = Len(q) - k /\ \A j \in 1 .. Len(q) - k : b[j] = q[k + j]
    BY <1>1, SubSeqProperties
  <1> HIDE DEF a, b
  <1>4. /\ a \o b \in Seq(S) /\ Len(a \o b) = Len(a) + Len(b)
        /\ \A j \in 1 .. Len(a) + Len(b) : (a \o b)[j] = IF j <= Len(a) THEN a[j] ELSE b[j - Len(a)]
    BY <1>2, <1>3, ConcatProperties
  <1>5. Len(a) + Len(b) = Len(q) - 1
    BY <1>1, <1>2, <1>3
  <1>6. ASSUME NEW j \in 1 .. Len(q) - 1
        PROVE  (a \o b)[j] = IF j < k THEN q[j] ELSE q[j + 1]
    <2>1. CASE j < k
      BY <1>1, <1>2, <1>4, <1>5, <2>1
    <2>2. CASE ~(j < k)
      <3>1. j - Len(a) \in 1 .. Len(q) - k /\ k + (j - Len(a)) = j + 1 /\ ~(j <= Len(a))
        BY <1>1, <1>2, <2>2
      <3> QED
        BY <1>3, <1>4, <1>5, <2>2, <3>1
    <2> QED
      BY <2>1, <2>2
  <1> QED
    BY <1>4, <1>5, <1>6 DEF a, b

-----------------------------------------------------------------------------
(* What the parts of decrypt leave alone: everything but the receiving     *)
(* chain and the cache.                                                    *)
SameSending(s, t) ==
    t.rk = s.rk /\ t.cks = s.cks /\ t.dhs = s.dhs /\ t.ns = s.ns /\ t.pn = s.pn

(* Nothing becomes readable that was not.                                  *)
NoGain(s, t) == \A mk \in ChainKeys : Reads(t, mk) => Reads(s, mk)

LEMMA StateFields ==
    ASSUME NEW s \in States
    PROVE  /\ s.dhs \in Keys /\ s.dhr \in Keys \cup {NoDh} /\ s.rk \in Seq(Outputs)
           /\ s.cks \in ChainKeys /\ s.ckr \in ChainKeys
           /\ s.ns \in Nat /\ s.nr \in Nat /\ s.pn \in Nat /\ s.skipped \in Seq(Entries)
           /\ Len(s.rk) \in Nat /\ Len(s.skipped) \in Nat
           /\ s.cks.root \in Seq(Outputs) /\ s.cks.i \in Nat
           /\ s.ckr.root \in Seq(Outputs) /\ s.ckr.i \in Nat /\ Len(s.ckr.root) \in Nat
           /\ \A k \in 1 .. Len(s.skipped) :
                /\ s.skipped[k] \in Entries /\ s.skipped[k].mk \in ChainKeys
                /\ s.skipped[k].mk.root \in Seq(Outputs) /\ s.skipped[k].mk.i \in Nat
                /\ Len(s.skipped[k].mk.root) \in Nat
  <1>1. /\ s.dhs \in Keys /\ s.dhr \in Keys \cup {NoDh} /\ s.rk \in Seq(Outputs)
        /\ s.cks \in ChainKeys /\ s.ckr \in ChainKeys
        /\ s.ns \in Nat /\ s.nr \in Nat /\ s.pn \in Nat /\ s.skipped \in Seq(Entries)
    BY DEF States
  <1>2. \A c \in ChainKeys : c.root \in Seq(Outputs) /\ c.i \in Nat /\ Len(c.root) \in Nat
    BY DEF ChainKeys
  <1>3. \A k \in 1 .. Len(s.skipped) : s.skipped[k] \in Entries
    BY <1>1
  <1>4. \A e \in Entries : e.mk \in ChainKeys
    BY DEF Entries
  <1> QED
    BY <1>1, <1>2, <1>3, <1>4

LEMMA Parity ==
    /\ \A n \in Nat : (n + 1) % 2 # n % 2 /\ (n + 2) % 2 = n % 2 /\ n % 2 \in {0, 1}
    /\ \A p \in Parties : Par(p) \in {0, 1} /\ Par(Other(p)) # Par(p)
  BY DEF Par, Parties, Other

(* try_skipped                                                             *)
LEMMA WithoutSane ==
    ASSUME NEW s, NEW p \in Parties, Sane(s, p), NEW k \in 1 .. Len(s.skipped)
    PROVE  LET t == WithoutSkipped(s, k) IN
           Sane(t, p) /\ SameSending(s, t) /\ NoGain(s, t) /\ ~Reads(t, s.skipped[k].mk)
           /\ t.dhr = s.dhr /\ t.ckr = s.ckr /\ t.nr = s.nr
  <1> DEFINE q == s.skipped
             d == SubSeq(q, 1, k - 1) \o SubSeq(q, k + 1, Len(q))
             t == [s EXCEPT !.skipped = d]
  <1>1. s \in States /\ q \in Seq(Entries) /\ Len(q) \in Nat /\ Len(s.rk) \in Nat
        /\ Len(s.ckr.root) \in Nat
    BY StateFields DEF Sane
  <1>2. /\ d \in Seq(Entries) /\ Len(d) = Len(q) - 1
        /\ \A j \in 1 .. Len(q) - 1 : d[j] = IF j < k THEN q[j] ELSE q[j + 1]
    BY <1>1, DropOne
  <1>3. t = WithoutSkipped(s, k)
    BY DEF WithoutSkipped
  <1>q. q = s.skipped
    OBVIOUS
  <1> HIDE DEF d, q
  <1>4. /\ t \in States /\ t.skipped = d /\ t.rk = s.rk /\ t.cks = s.cks /\ t.ckr = s.ckr
        /\ t.dhs = s.dhs /\ t.ns = s.ns /\ t.pn = s.pn /\ t.dhr = s.dhr /\ t.nr = s.nr
    BY <1>1, <1>2 DEF States
  <1> HIDE DEF t
  <1>5. \A j \in 1 .. Len(d) : \E i \in 1 .. Len(q) : i # k /\ d[j] = q[i]
    <2> TAKE j \in 1 .. Len(d)
    <2>0. j \in Nat /\ j \in 1 .. Len(q) - 1 /\ j \in 1 .. Len(q) /\ j + 1 \in 1 .. Len(q) /\ k \in Nat
      BY <1>1, <1>2, <1>q
    <2>1. CASE j < k
      <3>1. j # k
        BY <2>0, <2>1
      <3>2. d[j] = q[j]
        BY <1>2, <2>0, <2>1
      <3> QED
        BY <2>0, <3>1, <3>2
    <2>2. CASE ~(j < k)
      <3>1. j + 1 # k
        BY <2>0, <2>2
      <3>2. d[j] = q[j + 1]
        BY <1>2, <2>0, <2>2
      <3> QED
        BY <2>0, <3>1, <3>2
    <2> QED
      BY <2>1, <2>2
  <1>6. Rooted(t, p)
    BY <1>4 DEF Sane, Rooted
  <1>7. CacheBehind(t, p)
    <2>1. \A i \in 1 .. Len(q) :
            /\ s.ckr # NoChain /\ Len(q[i].mk.root) <= Len(s.ckr.root) /\ Len(q[i].mk.root) % 2 # Par(p)
            /\ q[i].mk.root = s.ckr.root => q[i].mk.i < s.ckr.i
      BY <1>q DEF Sane, CacheBehind
    <2> SUFFICES ASSUME NEW j \in 1 .. Len(d)
                 PROVE  /\ s.ckr # NoChain /\ Len(d[j].mk.root) <= Len(s.ckr.root)
                        /\ Len(d[j].mk.root) % 2 # Par(p)
                        /\ d[j].mk.root = s.ckr.root => d[j].mk.i < s.ckr.i
      BY <1>4 DEF CacheBehind
    <2>2. PICK i \in 1 .. Len(q) : d[j] = q[i]
      BY <1>5
    <2> QED
      BY <2>1, <2>2
  <1>8. CacheDistinct(t)
    <2> SUFFICES ASSUME NEW i \in 1 .. Len(d), NEW j \in 1 .. Len(d), d[i].mk = d[j].mk
                 PROVE  i = j
      BY <1>4 DEF CacheDistinct
    <2> DEFINE at(x) == IF x < k THEN x ELSE x + 1
    <2>1. \A x \in 1 .. Len(d) : at(x) \in 1 .. Len(q) /\ d[x] = q[at(x)]
      <3> TAKE x \in 1 .. Len(d)
      <3>1. x \in Nat /\ x \in 1 .. Len(q) - 1 /\ x \in 1 .. Len(q) /\ x + 1 \in 1 .. Len(q)
        BY <1>1, <1>2
      <3>2. d[x] = IF x < k THEN q[x] ELSE q[x + 1]
        BY <1>2, <3>1
      <3> QED
        BY <3>1, <3>2
    <2>2. at(i) = at(j)
      <3>1. \A x, y \in 1 .. Len(q) : q[x].mk = q[y].mk => x = y
        BY <1>q DEF Sane, CacheDistinct
      <3>2. /\ at(i) \in 1 .. Len(q) /\ at(j) \in 1 .. Len(q)
            /\ d[i] = q[at(i)] /\ d[j] = q[at(j)]
        BY <2>1
      <3> HIDE DEF at
      <3> QED
        BY <3>1, <3>2
    <2> QED
      BY <1>1, <1>2, <2>2
  <1>9. CacheFits(t)
    BY <1>q, <1>1, <1>2, <1>4, MaxSkipAssumption DEF Sane, CacheFits
  <1>10. NoGain(s, t)
    BY <1>q, <1>4, <1>5 DEF NoGain, Reads, Cached, Ahead
  <1>11. ~Reads(t, q[k].mk)
    <2>1. ~Cached(t, q[k].mk)
      <3> SUFFICES ASSUME NEW j \in 1 .. Len(d), d[j].mk = q[k].mk
                   PROVE  FALSE
        BY <1>4 DEF Cached
      <3>1. PICK i \in 1 .. Len(q) : i # k /\ d[j] = q[i]
        BY <1>5
      <3> QED
        BY <1>q, <3>1 DEF Sane, CacheDistinct
    <2>2. ~Ahead(t, q[k].mk) /\ ~(Len(q[k].mk.root) > Len(t.rk))
      <3>1. /\ s.ckr # NoChain /\ Len(q[k].mk.root) <= Len(s.ckr.root)
            /\ q[k].mk.root = s.ckr.root => q[k].mk.i < s.ckr.i
        BY <1>q DEF Sane, CacheBehind
      <3>2. Len(s.ckr.root) + 1 = Len(s.rk)
        BY <3>1 DEF Sane, Rooted
      <3>3. Len(q[k].mk.root) \in Nat /\ q[k].mk.i \in Nat /\ s.ckr.i \in Nat
        BY <1>q, <1>1, StateFields
      <3>4. ~(Len(q[k].mk.root) > Len(s.rk))
        BY <1>1, <3>1, <3>2, <3>3
      <3>5. ~(q[k].mk.root = s.ckr.root /\ q[k].mk.i >= s.ckr.i)
        BY <3>1, <3>3
      <3> QED
        BY <1>4, <3>4, <3>5 DEF Ahead
    <2> QED
      BY <2>1, <2>2 DEF Reads
  <1> QED
    BY <1>q, <1>3, <1>4, <1>6, <1>7, <1>8, <1>9, <1>10, <1>11 DEF Sane, SameSending

(* skip_message_keys: the g keys of the gap go to the end of the cache,    *)
(* each at its place, and the chain moves past them.                       *)
SkippedOver(s, u, g) ==
    /\ u \in States /\ SameSending(s, u) /\ u.dhr = s.dhr /\ u.nr = s.nr + g
    /\ u.ckr # NoChain /\ u.ckr.root = s.ckr.root /\ u.ckr.i = s.ckr.i + g
    /\ Len(u.skipped) = Len(s.skipped) + g /\ Len(u.skipped) <= MaxSkip
    /\ \A k \in 1 .. Len(s.skipped) : u.skipped[k] = s.skipped[k]
    /\ \A k \in 1 .. g : LET e == u.skipped[Len(s.skipped) + k] IN
        /\ e.dh = s.dhr /\ e.n = s.nr + k - 1
        /\ e.mk.root = s.ckr.root /\ e.mk.i = s.ckr.i + k - 1

LEMMA SkipShape ==
    ASSUME NEW s \in States, NEW until \in Nat, ~TooManySkipped(s, until),
           s.ckr # NoChain, s.dhr # NoDh
    PROVE  Gap(s, until) \in Nat /\ SkippedOver(s, SkipMessageKeys(s, until), Gap(s, until))
  <1> DEFINE t == SkipMessageKeys(s, until)
             g == Gap(s, until)
             q == s.skipped
             n == SkippedKeys(s, until)
             d == q \o n
             c == [s.ckr EXCEPT !.i = @ + g]
  <1>1. /\ q \in Seq(Entries) /\ Len(q) \in Nat
        /\ s.ckr \in ChainKeys /\ s.ckr.i \in Nat /\ s.nr \in Nat /\ s.dhr \in Keys
    BY StateFields
  <1>2. g \in Nat
    BY <1>1 DEF Gap
  <1>q. q = s.skipped
    OBVIOUS
  <1> HIDE DEF g, q
  <1>3. /\ n \in Seq(Entries) /\ Len(n) = g
        /\ \A k \in 1 .. g : /\ n[k].dh = s.dhr /\ n[k].n = s.nr + k - 1
                             /\ n[k].mk.root = s.ckr.root /\ n[k].mk.i = s.ckr.i + k - 1
    <2> DEFINE e(k) == [dh |-> s.dhr, n |-> s.nr + k - 1, mk |-> [s.ckr EXCEPT !.i = @ + k - 1]]
    <2>1. \A k \in 1 .. g : /\ e(k) \in Entries /\ e(k).mk.root = s.ckr.root
                            /\ e(k).mk.i = s.ckr.i + k - 1
                            /\ e(k).dh = s.dhr /\ e(k).n = s.nr + k - 1
      <3> TAKE k \in 1 .. g
      <3> DEFINE f == [s.ckr EXCEPT !.i = @ + k - 1]
      <3>1. s.nr + k - 1 \in Nat /\ s.ckr.i + k - 1 \in Nat
        BY <1>1, <1>2
      <3>2. f \in ChainKeys /\ f.root = s.ckr.root /\ f.i = s.ckr.i + k - 1
        BY <1>1, <3>1 DEF ChainKeys
      <3> HIDE DEF f
      <3>3. [dh |-> s.dhr, n |-> s.nr + k - 1, mk |-> f] \in Entries
        BY <1>1, <3>1, <3>2 DEF Entries
      <3> QED
        BY <3>2, <3>3 DEF f
    <2>2. n = [k \in 1 .. g |-> e(k)]
      BY DEF SkippedKeys, g
    <2> HIDE DEF e, n
    <2>3. n \in Seq(Entries) /\ Len(n) = g
      BY <1>2, <2>1, <2>2
    <2> QED
      BY <2>1, <2>2, <2>3
  <1> HIDE DEF n
  <1>4. /\ d \in Seq(Entries) /\ Len(d) = Len(q) + g
        /\ \A k \in 1 .. Len(q) + g : d[k] = IF k <= Len(q) THEN q[k] ELSE n[k - Len(q)]
    <2>1. /\ q \o n \in Seq(Entries) /\ Len(q \o n) = Len(q) + Len(n)
          /\ \A k \in 1 .. Len(q) + Len(n) : (q \o n)[k] = IF k <= Len(q) THEN q[k] ELSE n[k - Len(q)]
      <3>1. q \in Seq(Entries) /\ n \in Seq(Entries)
        BY <1>1, <1>3
      <3> QED
        BY <3>1, ConcatProperties
    <2> QED
      BY <1>3, <2>1
  <1> HIDE DEF d
  <1>5. Len(d) <= MaxSkip
    BY <1>q, <1>1, <1>2, <1>4, MaxSkipAssumption DEF TooManySkipped, g
  <1>6. t = [s EXCEPT !.ckr.i = @ + g, !.nr = @ + g, !.skipped = d]
    <2>1. EvictOldest(d) = d
      BY <1>4, <1>5, MaxSkipAssumption DEF EvictOldest
    <2> QED
      BY <1>q, <2>1 DEF SkipMessageKeys, d, g, n
  <1>7. c \in ChainKeys /\ c.root = s.ckr.root /\ c.i = s.ckr.i + g
    BY <1>1, <1>2 DEF ChainKeys
  <1>8. t = [s EXCEPT !.ckr = c, !.nr = @ + g, !.skipped = d]
    BY <1>1, <1>6 DEF States
  <1> HIDE DEF c, t
  <1>9. /\ t \in States /\ t.skipped = d /\ t.rk = s.rk /\ t.cks = s.cks /\ t.ckr = c
        /\ t.dhs = s.dhs /\ t.ns = s.ns /\ t.pn = s.pn /\ t.dhr = s.dhr /\ t.nr = s.nr + g
    <2>1. s.nr + g \in Nat
      BY <1>1, <1>2
    <2> QED
      BY <1>1, <1>4, <1>7, <1>8, <2>1 DEF States
  <1>10. c # NoChain
    BY <1>7, <1>1, <1>2 DEF NoChain, ChainKeys
  <1>11. \A k \in 1 .. Len(q) : d[k] = q[k]
    <2> TAKE k \in 1 .. Len(q)
    <2>1. k \in 1 .. Len(q) + g /\ k <= Len(q)
      BY <1>1, <1>2
    <2> QED
      BY <1>4, <2>1
  <1>12. \A k \in 1 .. g : d[Len(q) + k] = n[k]
    <2> TAKE k \in 1 .. g
    <2>1. Len(q) + k \in 1 .. Len(q) + g /\ ~(Len(q) + k <= Len(q)) /\ (Len(q) + k) - Len(q) = k
      BY <1>1, <1>2
    <2> QED
      BY <1>4, <2>1
  <1>13. SkippedOver(s, t, g)
    <2>1. SameSending(s, t)
      BY <1>9 DEF SameSending
    <2>2. \A k \in 1 .. g : LET e == d[Len(q) + k] IN
            /\ e.dh = s.dhr /\ e.n = s.nr + k - 1
            /\ e.mk.root = s.ckr.root /\ e.mk.i = s.ckr.i + k - 1
      BY <1>3, <1>12
    <2> QED
      BY <1>q, <1>4, <1>5, <1>7, <1>9, <1>10, <1>11, <2>1, <2>2 DEF SkippedOver
  <1> QED
    BY <1>2, <1>13 DEF g, t

LEMMA SkipSane ==
    ASSUME NEW s, NEW p \in Parties, Sane(s, p), NEW until \in Nat, ~TooManySkipped(s, until)
    PROVE  LET t == SkipMessageKeys(s, until) IN
           Sane(t, p) /\ SameSending(s, t) /\ NoGain(s, t)
           /\ t.dhr = s.dhr /\ (t.ckr = NoChain <=> s.ckr = NoChain)
           /\ t.ckr.root = s.ckr.root
  <1> DEFINE t == SkipMessageKeys(s, until)
             g == Gap(s, until)
             q == s.skipped
             d == t.skipped
             n == [k \in 1 .. g |-> d[Len(q) + k]]
             c == t.ckr
  <1>1. CASE s.ckr = NoChain \/ s.dhr = NoDh
    BY <1>1 DEF SkipMessageKeys, SameSending, NoGain
  <1>2. CASE ~(s.ckr = NoChain \/ s.dhr = NoDh)
    <2>1. /\ s \in States /\ q \in Seq(Entries) /\ Len(q) \in Nat /\ Len(s.rk) \in Nat
          /\ s.ckr \in ChainKeys /\ s.ckr.i \in Nat /\ Len(s.ckr.root) \in Nat /\ s.nr \in Nat
          /\ s.dhr \in Keys /\ Len(s.ckr.root) + 1 = Len(s.rk)
      BY <1>2, StateFields DEF Sane, Rooted
    <2>0. g \in Nat /\ SkippedOver(s, t, g)
      BY <1>2, <2>1, SkipShape
    <2>2. g \in Nat
      BY <2>0
    <2>q. q = s.skipped
      OBVIOUS
    <2> HIDE DEF g, q, t, d, c
    <2>9. /\ t \in States /\ t.skipped = d /\ t.rk = s.rk /\ t.cks = s.cks /\ t.ckr = c
          /\ t.dhs = s.dhs /\ t.ns = s.ns /\ t.pn = s.pn /\ t.dhr = s.dhr
      BY <2>0 DEF SkippedOver, SameSending, d, c
    <2>3. \A k \in 1 .. g : n[k].mk.root = s.ckr.root /\ n[k].mk.i = s.ckr.i + k - 1
      BY <2>0, <2>q DEF SkippedOver, d
    <2>x. \A k \in 1 .. g : n[k] = d[Len(q) + k]
      OBVIOUS
    <2> HIDE DEF n
    <2>4. /\ Len(d) = Len(q) + g
          /\ \A k \in 1 .. Len(q) + g : d[k] = IF k <= Len(q) THEN q[k] ELSE n[k - Len(q)]
      <3>1. Len(d) = Len(q) + g
        BY <2>0, <2>q DEF SkippedOver, d
      <3>2. ASSUME NEW k \in 1 .. Len(q) + g
            PROVE  d[k] = IF k <= Len(q) THEN q[k] ELSE n[k - Len(q)]
        <4>1. CASE k <= Len(q)
          <5>1. k \in 1 .. Len(q)
            BY <2>1, <2>2, <4>1
          <5> QED
            BY <2>0, <2>q, <4>1, <5>1 DEF SkippedOver, d
        <4>2. CASE ~(k <= Len(q))
          <5>1. k - Len(q) \in 1 .. g /\ Len(q) + (k - Len(q)) = k
            BY <2>1, <2>2, <4>2
          <5> QED
            BY <2>x, <4>2, <5>1
        <4> QED
          BY <4>1, <4>2
      <3> QED
        BY <3>1, <3>2
    <2>5. Len(d) <= MaxSkip
      BY <2>0 DEF SkippedOver, d
    <2>7. c.root = s.ckr.root /\ c.i = s.ckr.i + g
      BY <2>0 DEF SkippedOver, c
    <2>10. c # NoChain
      BY <2>0 DEF SkippedOver, c
    <2>11. Rooted(t, p)
      BY <2>1, <2>7, <2>9 DEF Sane, Rooted
    <2>12. CacheBehind(t, p)
      <3> SUFFICES ASSUME NEW k \in 1 .. Len(d)
                   PROVE  /\ Len(d[k].mk.root) <= Len(c.root) /\ Len(d[k].mk.root) % 2 # Par(p)
                          /\ d[k].mk.root = c.root => d[k].mk.i < c.i
        BY <2>9, <2>10 DEF CacheBehind
      <3>1. CASE k <= Len(q)
        <4>1. k \in 1 .. Len(q) /\ d[k] = q[k]
          BY <2>1, <2>2, <2>4, <3>1
        <4>2. /\ Len(q[k].mk.root) <= Len(s.ckr.root) /\ Len(q[k].mk.root) % 2 # Par(p)
              /\ q[k].mk.root = s.ckr.root => q[k].mk.i < s.ckr.i
          BY <2>q, <4>1 DEF Sane, CacheBehind
        <4>3. q[k].mk.i \in Nat
          BY <2>q, <2>1, <4>1, StateFields
        <4> QED
          <5>1. s.ckr.i <= c.i /\ c.i \in Nat
            BY <2>1, <2>2, <2>7
          <5>2. d[k].mk = q[k].mk /\ c.root = s.ckr.root
            BY <2>7, <4>1
          <5>3. d[k].mk.root = c.root => d[k].mk.i < c.i
            BY <2>1, <4>2, <4>3, <5>1, <5>2
          <5> QED
            BY <4>2, <5>2, <5>3
      <3>2. CASE ~(k <= Len(q))
        <4>1. k - Len(q) \in 1 .. g /\ d[k] = n[k - Len(q)]
          BY <2>1, <2>2, <2>4, <3>2
        <4>2. d[k].mk.root = s.ckr.root /\ d[k].mk.i < s.ckr.i + g
          <5> DEFINE x == k - Len(q)
          <5>1. x \in 1 .. g /\ d[k] = n[x]
            BY <4>1
          <5> HIDE DEF x
          <5>2. n[x].mk.root = s.ckr.root /\ n[x].mk.i = s.ckr.i + x - 1
            BY <2>3, <5>1
          <5>3. s.ckr.i + x - 1 < s.ckr.i + g
            BY <2>1, <2>2, <5>1
          <5> QED
            BY <5>1, <5>2, <5>3
        <4>3. Len(s.ckr.root) % 2 # Par(p)
          <5>1. Len(s.rk) % 2 = Par(p)
            BY DEF Sane, Rooted
          <5> QED
            BY <2>1, <5>1, Parity
        <4> QED
          <5>1. d[k].mk.root = c.root /\ d[k].mk.i < c.i
            BY <2>7, <4>2
          <5>2. Len(c.root) <= Len(c.root) /\ Len(c.root) % 2 # Par(p)
            <6>1. c.root = s.ckr.root
              BY <2>7
            <6>2. Len(s.ckr.root) <= Len(s.ckr.root)
              BY <2>1
            <6> QED
              BY <4>3, <6>1, <6>2
          <5> QED
            BY <5>1, <5>2
      <3> QED
        BY <3>1, <3>2
    <2>13. CacheDistinct(t)
      <3> SUFFICES ASSUME NEW i \in 1 .. Len(d), NEW j \in 1 .. Len(d), d[i].mk = d[j].mk, i < j
                   PROVE  FALSE
        BY <2>4, <2>9 DEF CacheDistinct
      <3>1. CASE j <= Len(q)
        <4>1. i \in 1 .. Len(q) /\ j \in 1 .. Len(q) /\ d[i] = q[i] /\ d[j] = q[j]
          BY <2>1, <2>2, <2>4, <3>1
        <4> QED
          BY <2>q, <4>1 DEF Sane, CacheDistinct
      <3>2. CASE ~(j <= Len(q)) /\ i <= Len(q)
        <4>1. /\ j - Len(q) \in 1 .. g /\ d[j] = n[j - Len(q)] /\ i \in 1 .. Len(q) /\ d[i] = q[i]
          <5>1. j - Len(q) \in 1 .. g /\ d[j] = n[j - Len(q)]
            BY <2>1, <2>2, <2>4, <3>2
          <5>2. i \in 1 .. Len(q) /\ d[i] = q[i]
            BY <2>1, <2>2, <2>4, <3>2
          <5> QED
            BY <5>1, <5>2
        <4>2. d[j].mk.root = s.ckr.root /\ d[j].mk.i >= s.ckr.i
          <5> DEFINE l == j - Len(q)
          <5>1. l \in 1 .. g /\ d[j] = n[l]
            BY <4>1
          <5>2. d[j].mk.root = s.ckr.root /\ d[j].mk.i = s.ckr.i + l - 1
            BY <2>3, <5>1
          <5> QED
            BY <2>1, <2>2, <5>1, <5>2
        <4>3. q[i].mk.root = s.ckr.root => q[i].mk.i < s.ckr.i
          BY <2>q, <4>1 DEF Sane, CacheBehind
        <4>4. q[i].mk.i \in Nat
          BY <2>q, <2>1, <4>1, StateFields
        <4> QED
          BY <2>1, <4>1, <4>2, <4>3, <4>4
      <3>3. CASE ~(i <= Len(q))
        <4>1. /\ j - Len(q) \in 1 .. g /\ d[j] = n[j - Len(q)]
              /\ i - Len(q) \in 1 .. g /\ d[i] = n[i - Len(q)]
          BY <2>1, <2>2, <2>4, <3>3
        <4>2. d[j].mk.i = s.ckr.i + (j - Len(q)) - 1 /\ d[i].mk.i = s.ckr.i + (i - Len(q)) - 1
          BY <2>3, <4>1
        <4> QED
          BY <2>1, <2>4, <4>2
      <3> QED
        BY <2>1, <3>1, <3>2, <3>3
    <2>14. CacheFits(t)
      BY <2>5, <2>9 DEF CacheFits
    <2>15. NoGain(s, t)
      <3> SUFFICES ASSUME NEW mk \in ChainKeys, Reads(t, mk)
                   PROVE  Reads(s, mk)
        BY DEF NoGain
      <3>1. CASE Cached(t, mk)
        <4>1. PICK k \in 1 .. Len(d) : d[k].mk = mk
          BY <2>9, <3>1 DEF Cached
        <4>2. CASE k <= Len(q)
          <5>1. k \in 1 .. Len(q) /\ d[k] = q[k]
            BY <2>1, <2>2, <2>4, <4>2
          <5> QED
            BY <2>q, <4>1, <5>1 DEF Reads, Cached
        <4>3. CASE ~(k <= Len(q))
          <5>1. k - Len(q) \in 1 .. g /\ d[k] = n[k - Len(q)]
            BY <2>1, <2>2, <2>4, <4>3
          <5>2. mk.root = s.ckr.root /\ mk.i >= s.ckr.i
            <6> DEFINE l == k - Len(q)
            <6>1. l \in 1 .. g /\ mk = n[l].mk
              BY <4>1, <5>1
            <6>2. mk.root = s.ckr.root /\ mk.i = s.ckr.i + l - 1
              BY <2>3, <6>1
            <6> QED
              BY <2>1, <2>2, <6>1, <6>2
          <5> QED
            BY <1>2, <5>2 DEF Reads, Ahead
        <4> QED
          BY <4>2, <4>3
      <3>2. CASE Ahead(t, mk)
        <4>1. mk.i \in Nat
          BY DEF ChainKeys
        <4> QED
          BY <1>2, <2>1, <2>2, <2>7, <2>9, <3>2, <4>1 DEF Reads, Ahead
      <3>3. CASE Len(mk.root) > Len(t.rk)
        BY <2>9, <3>3 DEF Reads
      <3> QED
        BY <3>1, <3>2, <3>3 DEF Reads
    <2> QED
      BY <1>2, <2>7, <2>9, <2>10, <2>11, <2>12, <2>13, <2>14, <2>15 DEF Sane, SameSending, t
  <1> QED
    BY <1>1, <1>2

(* A chain key as a record, and the roots DH steps make.                   *)
LEMMA ChainMade ==
    /\ NoChain \in ChainKeys
    /\ \A rk \in Seq(Outputs) : ChainOf(rk) \in ChainKeys /\ ChainOf(rk).root = rk /\ ChainOf(rk).i = 0
    /\ \A rk \in Seq(Outputs) : Len(rk) >= 1 => ChainOf(rk) # NoChain
    /\ \A c \in ChainKeys : KdfCk(c) \in ChainKeys /\ KdfCk(c).root = c.root /\ KdfCk(c).i = c.i + 1
                            /\ KdfCk(c) # NoChain
  <1>1. << >> \in Seq(Outputs) /\ Len(<< >>) = 0
    OBVIOUS
  <1>2. NoChain \in ChainKeys /\ NoChain.root = << >> /\ NoChain.i = 0
    BY <1>1 DEF NoChain, ChainKeys
  <1>3. \A rk \in Seq(Outputs) : ChainOf(rk) \in ChainKeys /\ ChainOf(rk).root = rk /\ ChainOf(rk).i = 0
    BY DEF ChainOf, ChainKeys
  <1>4. \A rk \in Seq(Outputs) : Len(rk) >= 1 => ChainOf(rk) # NoChain
    BY <1>1, <1>2, <1>3
  <1>5. ASSUME NEW c \in ChainKeys
        PROVE  KdfCk(c) \in ChainKeys /\ KdfCk(c).root = c.root /\ KdfCk(c).i = c.i + 1
               /\ KdfCk(c) # NoChain
    <2>1. KdfCk(c) \in ChainKeys /\ KdfCk(c).root = c.root /\ KdfCk(c).i = c.i + 1 /\ c.i \in Nat
      BY DEF KdfCk, ChainKeys
    <2> QED
      BY <1>2, <2>1
  <1> QED
    BY <1>2, <1>3, <1>4, <1>5

LEMMA RootMade ==
    ASSUME NEW rk \in Seq(Outputs), NEW a \in Keys, NEW b \in Keys
    PROVE  KdfRk(rk, DH(a, b)) \in Seq(Outputs) /\ Len(KdfRk(rk, DH(a, b))) = Len(rk) + 1
  <1>1. DH(a, b) \in Outputs
    BY DEF DH, Outputs
  <1> QED
    BY <1>1, AppendProperties DEF KdfRk

(* dh_ratchet_step                                                         *)
LEMMA DhStepSane ==
    ASSUME NEW s, NEW p \in Parties, Sane(s, p), NEW dh \in Keys, NEW fresh \in Keys
    PROVE  LET t == DhRatchetStep(s, dh, fresh) IN
           /\ Sane(t, p) /\ NoGain(s, t) /\ Len(t.rk) = Len(s.rk) + 2
           /\ t.cks = ChainOf(t.rk) /\ t.ns = 0 /\ t.pn = s.ns /\ t.dhs = fresh /\ t.ckr # NoChain
           /\ t.dhr = dh /\ t.nr = 0
  <1> DEFINE rk1 == KdfRk(s.rk, DH(s.dhs, dh))
             rk2 == KdfRk(rk1, DH(fresh, dh))
             t == [s EXCEPT !.pn = s.ns, !.ns = 0, !.nr = 0, !.dhr = dh,
                            !.ckr = ChainOf(rk1), !.dhs = fresh, !.rk = rk2, !.cks = ChainOf(rk2)]
  <1>1. /\ s \in States /\ s.rk \in Seq(Outputs) /\ s.dhs \in Keys /\ Len(s.rk) \in Nat
        /\ Len(s.skipped) \in Nat /\ s.ns \in Nat /\ Len(s.ckr.root) \in Nat
        /\ \A k \in 1 .. Len(s.skipped) : Len(s.skipped[k].mk.root) \in Nat
    BY StateFields DEF Sane
  <1>2. rk1 \in Seq(Outputs) /\ Len(rk1) = Len(s.rk) + 1
    BY <1>1, RootMade
  <1> HIDE DEF rk1
  <1>3. rk2 \in Seq(Outputs) /\ Len(rk2) = Len(s.rk) + 2
    <2>1. rk2 \in Seq(Outputs) /\ Len(rk2) = Len(rk1) + 1
      BY <1>2, RootMade
    <2> HIDE DEF rk2
    <2> QED
      BY <1>1, <1>2, <2>1
  <1>4. t = DhRatchetStep(s, dh, fresh)
    BY DEF DhRatchetStep, rk1
  <1> HIDE DEF rk2
  <1>5. /\ ChainOf(rk1) \in ChainKeys /\ ChainOf(rk2) \in ChainKeys /\ ChainOf(rk1) # NoChain
        /\ ChainOf(rk1).root = rk1 /\ ChainOf(rk1).i = 0 /\ ChainOf(rk2).root = rk2
    BY <1>1, <1>2, <1>3, ChainMade
  <1>6. /\ t \in States /\ t.rk = rk2 /\ t.cks = ChainOf(rk2) /\ t.ckr = ChainOf(rk1)
        /\ t.skipped = s.skipped /\ t.ns = 0 /\ t.pn = s.ns /\ t.dhs = fresh /\ t.dhr = dh /\ t.nr = 0
    BY <1>1, <1>2, <1>3, <1>5 DEF States
  <1> HIDE DEF t
  <1>7. \A k \in 1 .. Len(s.skipped) :
            Len(s.skipped[k].mk.root) < Len(s.rk) /\ Len(s.skipped[k].mk.root) % 2 # Par(p)
    <2> TAKE k \in 1 .. Len(s.skipped)
    <2>1. /\ s.ckr # NoChain /\ Len(s.skipped[k].mk.root) <= Len(s.ckr.root)
          /\ Len(s.skipped[k].mk.root) % 2 # Par(p)
      BY DEF Sane, CacheBehind
    <2>2. Len(s.ckr.root) + 1 = Len(s.rk)
      BY <2>1 DEF Sane, Rooted
    <2>3. \A a, b, c \in Nat : a <= b /\ b + 1 = c => a < c
      OBVIOUS
    <2>4. Len(s.skipped[k].mk.root) \in Nat /\ Len(s.ckr.root) \in Nat /\ Len(s.rk) \in Nat
      BY <1>1
    <2>5. Len(s.skipped[k].mk.root) < Len(s.rk)
      BY <2>1, <2>2, <2>3, <2>4
    <2> QED
      BY <2>1, <2>5
  <1>8. Rooted(t, p)
    <2>1. Len(s.rk) % 2 = Par(p) /\ Len(s.rk) >= 1
      BY DEF Sane, Rooted
    <2>2. Len(rk2) % 2 = Par(p)
      BY <1>1, <1>3, <2>1, Parity
    <2> QED
      <3>1. Len(rk2) >= 1 /\ Len(rk1) + 1 = Len(rk2)
        BY <1>1, <1>2, <1>3
      <3> QED
        BY <1>5, <1>6, <2>2, <3>1 DEF Rooted
  <1>9. CacheBehind(t, p)
    <2> SUFFICES ASSUME NEW k \in 1 .. Len(s.skipped)
                 PROVE  /\ Len(s.skipped[k].mk.root) <= Len(rk1) /\ Len(s.skipped[k].mk.root) % 2 # Par(p)
                        /\ s.skipped[k].mk.root # rk1
      BY <1>5, <1>6 DEF CacheBehind
    <2>1. Len(s.skipped[k].mk.root) < Len(s.rk) /\ Len(s.skipped[k].mk.root) % 2 # Par(p)
      BY <1>7
    <2>2. Len(s.skipped[k].mk.root) \in Nat
      BY <1>1
    <2>3. Len(s.skipped[k].mk.root) <= Len(rk1) /\ Len(s.skipped[k].mk.root) # Len(rk1)
      BY <1>1, <1>2, <2>1, <2>2
    <2> QED
      BY <2>1, <2>3
  <1>10. CacheDistinct(t) /\ CacheFits(t)
    BY <1>6 DEF Sane, CacheDistinct, CacheFits
  <1>11. NoGain(s, t)
    <2> SUFFICES ASSUME NEW mk \in ChainKeys, Reads(t, mk)
                 PROVE  Reads(s, mk)
      BY DEF NoGain
    <2>1. CASE Cached(t, mk)
      BY <1>6, <2>1 DEF Cached, Reads
    <2>2. CASE Ahead(t, mk)
      BY <1>1, <1>2, <1>5, <1>6, <2>2 DEF Ahead, Reads
    <2>3. CASE Len(mk.root) > Len(t.rk)
      <3>1. Len(mk.root) \in Nat
        BY DEF ChainKeys
      <3> QED
        BY <1>1, <1>3, <1>6, <2>3, <3>1 DEF Reads
    <2> QED
      BY <2>1, <2>2, <2>3 DEF Reads
  <1> QED
    BY <1>3, <1>4, <1>5, <1>6, <1>8, <1>9, <1>10, <1>11 DEF Sane

(* What decrypt makes of a state: it stays sane and gives away no more,    *)
(* the sending side is as it was or has been started anew by a DH step,    *)
(* and a key that has opened the message is gone.                          *)
Sent(s, t, fresh) ==
    \/ SameSending(s, t)
    \/ /\ Len(t.rk) = Len(s.rk) + 2 /\ t.cks = ChainOf(t.rk) /\ t.ns = 0 /\ t.pn = s.ns
       /\ t.dhs = fresh

Decrypted(s, p, m, fresh, r) ==
    /\ Sane(r.st, p) /\ NoGain(s, r.st) /\ Sent(s, r.st, fresh)
    /\ r.err = "ok" => Reads(s, m.mk) /\ ~Reads(r.st, m.mk)

LEMMA OpenSane ==
    ASSUME NEW s, NEW p \in Parties, Sane(s, p), NEW m \in Headers, NEW fresh
    PROVE  LET r == OpenOnChain(s, m) IN
           /\ Decrypted(s, p, m, fresh, r) /\ SameSending(s, r.st)
  <1> DEFINE r == OpenOnChain(s, m)
             u == SkipMessageKeys(s, m.n)
             t == [u EXCEPT !.ckr = KdfCk(@), !.nr = @ + 1]
  <1>1. m.n \in Nat /\ m.mk \in ChainKeys
    BY DEF Headers
  <1>2. CASE TooManySkipped(s, m.n)
    <2>1. r = Result(s, "TooManySkipped")
      BY <1>2 DEF OpenOnChain
    <2> QED
      BY <2>1 DEF Decrypted, Result, SameSending, NoGain, Sent
  <1>3. CASE ~TooManySkipped(s, m.n)
    <2>1. Sane(u, p) /\ SameSending(s, u) /\ NoGain(s, u)
      BY <1>1, <1>3, SkipSane
    <2>2. CASE u.ckr = NoChain
      <3>1. r = Result(u, "NotInitializedForRecv")
        BY <1>3, <2>2 DEF OpenOnChain
      <3> HIDE DEF u, r
      <3>2. r.st = u /\ r.err # "ok"
        BY <3>1 DEF Result
      <3> QED
        BY <2>1, <3>2 DEF Decrypted, Sent, r
    <2>3. CASE u.ckr # NoChain
      <3>1. r = Result(t, IF AeadOpens(u.ckr, m) THEN "ok" ELSE "BadAead")
        BY <1>3, <2>3 DEF OpenOnChain
      <3> HIDE DEF u
      <3>2. /\ u \in States /\ u.ckr \in ChainKeys /\ u.nr \in Nat /\ Len(u.rk) \in Nat
            /\ Len(u.ckr.root) \in Nat /\ u.ckr.i \in Nat
            /\ \A k \in 1 .. Len(u.skipped) : u.skipped[k].mk.i \in Nat
        BY <2>1, StateFields DEF Sane
      <3> DEFINE c == KdfCk(u.ckr)
      <3>3. c \in ChainKeys /\ c.root = u.ckr.root /\ c.i = u.ckr.i + 1 /\ c # NoChain
        BY <3>2, ChainMade
      <3> HIDE DEF c
      <3>4. /\ t \in States /\ t.ckr = c /\ t.rk = u.rk /\ t.cks = u.cks /\ t.dhs = u.dhs
            /\ t.ns = u.ns /\ t.pn = u.pn /\ t.skipped = u.skipped
        <4>1. u.nr + 1 \in Nat
          BY <3>2
        <4>2. t = [u EXCEPT !.ckr = c, !.nr = @ + 1]
          BY DEF c
        <4> HIDE DEF t
        <4> QED
          BY <3>2, <3>3, <4>1, <4>2 DEF States
      <3>5. r.st = t /\ (r.err = "ok" => u.ckr = m.mk)
        BY <3>1 DEF Result, AeadOpens
      <3> HIDE DEF t, r
      <3>6. Rooted(t, p)
        BY <2>1, <2>3, <3>3, <3>4 DEF Sane, Rooted
      <3>7. CacheBehind(t, p)
        <4> SUFFICES ASSUME NEW k \in 1 .. Len(u.skipped)
                     PROVE  /\ Len(u.skipped[k].mk.root) <= Len(c.root)
                            /\ Len(u.skipped[k].mk.root) % 2 # Par(p)
                            /\ u.skipped[k].mk.root = c.root => u.skipped[k].mk.i < c.i
          BY <3>3, <3>4 DEF CacheBehind
        <4>1. /\ Len(u.skipped[k].mk.root) <= Len(u.ckr.root) /\ Len(u.skipped[k].mk.root) % 2 # Par(p)
              /\ u.skipped[k].mk.root = u.ckr.root => u.skipped[k].mk.i < u.ckr.i
          BY <2>1 DEF Sane, CacheBehind
        <4>2. u.skipped[k].mk.root = u.ckr.root => u.skipped[k].mk.i < c.i
          BY <3>2, <3>3, <4>1
        <4> QED
          BY <3>3, <4>1, <4>2
      <3>8. CacheDistinct(t) /\ CacheFits(t)
        BY <2>1, <3>4 DEF Sane, CacheDistinct, CacheFits
      <3>9. NoGain(u, t)
        <4> SUFFICES ASSUME NEW mk \in ChainKeys, Reads(t, mk)
                     PROVE  Reads(u, mk)
          BY DEF NoGain
        <4>1. mk.i \in Nat
          BY DEF ChainKeys
        <4> QED
          BY <2>3, <3>2, <3>3, <3>4, <4>1 DEF Reads, Cached, Ahead
      <3>10. ~Reads(t, u.ckr)
        <4>1. ~Cached(t, u.ckr)
          <5> SUFFICES ASSUME NEW k \in 1 .. Len(u.skipped), u.skipped[k].mk = u.ckr
                       PROVE  FALSE
            BY <3>4 DEF Cached
          <5>1. u.skipped[k].mk.root = u.ckr.root => u.skipped[k].mk.i < u.ckr.i
            BY <2>1 DEF Sane, CacheBehind
          <5> QED
            BY <3>2, <5>1
        <4>2. ~Ahead(t, u.ckr)
          BY <3>2, <3>3, <3>4 DEF Ahead
        <4>3. ~(Len(u.ckr.root) > Len(t.rk))
          BY <2>1, <2>3, <3>2, <3>4 DEF Sane, Rooted
        <4> QED
          BY <4>1, <4>2, <4>3 DEF Reads
      <3>11. Reads(u, u.ckr)
        BY <2>3, <3>2 DEF Reads, Ahead
      <3>12. Sane(t, p) /\ SameSending(s, t) /\ NoGain(s, t)
        BY <2>1, <3>4, <3>6, <3>7, <3>8, <3>9 DEF Sane, SameSending, NoGain
      <3>13. r.err = "ok" => Reads(s, m.mk) /\ ~Reads(t, m.mk)
        BY <1>1, <2>1, <3>5, <3>10, <3>11 DEF NoGain
      <3> QED
        BY <3>5, <3>12, <3>13 DEF Decrypted, Sent, r
    <2> QED
      BY <2>2, <2>3
  <1> QED
    BY <1>2, <1>3

LEMMA ReceiveStepSane ==
    ASSUME NEW s, NEW p \in Parties, Sane(s, p), NEW m \in Headers, NEW fresh \in Keys
    PROVE  Decrypted(s, p, m, fresh, ReceiveStep(s, m, fresh))
  <1> DEFINE r == ReceiveStep(s, m, fresh)
             u == SkipMessageKeys(s, m.pn)
             t == DhRatchetStep(u, m.dh, fresh)
  <1>1. m.pn \in Nat /\ m.dh \in Keys /\ m.mk \in ChainKeys
    BY DEF Headers
  <1>2. CASE s.dhr = m.dh
    BY <1>2, OpenSane DEF ReceiveStep
  <1>3. CASE s.dhr # m.dh /\ TooManySkipped(s, m.pn)
    <2>1. r = Result(s, "TooManySkipped")
      BY <1>3 DEF ReceiveStep
    <2> QED
      BY <2>1 DEF Decrypted, Result, SameSending, NoGain, Sent
  <1>4. CASE s.dhr # m.dh /\ ~TooManySkipped(s, m.pn)
    <2>1. r = OpenOnChain(t, m)
      BY <1>4 DEF ReceiveStep
    <2>2. Sane(u, p) /\ SameSending(s, u) /\ NoGain(s, u)
      BY <1>1, <1>4, SkipSane
    <2> HIDE DEF u
    <2>3. /\ Sane(t, p) /\ NoGain(u, t) /\ Len(t.rk) = Len(u.rk) + 2
          /\ t.cks = ChainOf(t.rk) /\ t.ns = 0 /\ t.pn = u.ns /\ t.dhs = fresh
      BY <1>1, <2>2, DhStepSane
    <2> HIDE DEF t, r
    <2>4. Decrypted(t, p, m, fresh, r) /\ SameSending(t, r.st)
      BY <2>1, <2>3, OpenSane
    <2>5. Sane(r.st, p) /\ NoGain(s, r.st) /\ (r.err = "ok" => Reads(s, m.mk) /\ ~Reads(r.st, m.mk))
      BY <1>1, <2>2, <2>3, <2>4 DEF Decrypted, NoGain
    <2>6. Sent(s, r.st, fresh)
      BY <2>2, <2>3, <2>4 DEF Sent, SameSending
    <2> QED
      BY <2>5, <2>6 DEF Decrypted, r
  <1> QED
    BY <1>2, <1>3, <1>4

LEMMA DecryptSane ==
    ASSUME NEW s, NEW p \in Parties, Sane(s, p), NEW m \in Headers, NEW fresh \in Keys
    PROVE  Decrypted(s, p, m, fresh, Decrypt(s, m, fresh))
  <1> DEFINE r == Decrypt(s, m, fresh)
             H == SkippedHits(s, m)
             k == FirstHit(s, m)
             t == WithoutSkipped(s, k)
  <1>1. CASE H = {}
    BY <1>1, ReceiveStepSane DEF Decrypt
  <1>2. CASE H # {}
    <2>1. k \in 1 .. Len(s.skipped)
      <3>1. s.skipped \in Seq(Entries) /\ Len(s.skipped) \in Nat
        BY StateFields DEF Sane
      <3>2. H \subseteq 1 .. Len(s.skipped)
        BY <3>1 DEF SkippedHits
      <3>3. H \in SUBSET Nat
        BY <3>1, <3>2
      <3> HIDE DEF H
      <3>4. (CHOOSE i \in H : \A j \in H : i <= j) \in H
        BY <1>2, <3>3, Smallest, Zenon
      <3>5. k \in H
        BY <3>4 DEF FirstHit, H
      <3> QED
        BY <3>2, <3>5
    <2> HIDE DEF k, H
    <2>2. /\ Sane(t, p) /\ SameSending(s, t) /\ NoGain(s, t) /\ ~Reads(t, s.skipped[k].mk)
      BY <2>1, WithoutSane
    <2>3. CASE AeadOpens(s.skipped[k].mk, m)
      <3>1. r = Result(t, "ok")
        BY <1>2, <2>3 DEF Decrypt, H, k
      <3>2. r.st = t
        BY <3>1 DEF Result
      <3>3. m.mk = s.skipped[k].mk
        BY <2>3 DEF AeadOpens
      <3>4. Reads(s, m.mk)
        BY <2>1, <3>3 DEF Reads, Cached
      <3> HIDE DEF t, r
      <3> QED
        BY <2>2, <3>2, <3>3, <3>4 DEF Decrypted, Sent, r
    <2>4. CASE ~AeadOpens(s.skipped[k].mk, m)
      <3>1. r = ReceiveStep(t, m, fresh)
        BY <1>2, <2>4 DEF Decrypt, H, k
      <3> HIDE DEF t, r
      <3>2. Decrypted(t, p, m, fresh, r)
        BY <2>2, <3>1, ReceiveStepSane
      <3>3. m.mk \in ChainKeys
        BY DEF Headers
      <3> QED
        BY <2>2, <3>2, <3>3 DEF Decrypted, NoGain, Sent, SameSending, r
    <2> QED
      BY <2>3, <2>4
  <1> QED
    BY <1>1, <1>2

-----------------------------------------------------------------------------
(* The inductive invariant, in parts.                                      *)

SessionsSane ==
    /\ st \in [Parties -> States]
    /\ \A p \in Parties : Sane(st[p], p)

CountersTyped ==
    /\ drawn \in [Parties -> Nat]
    /\ sent \in [Parties -> 0 .. MaxMsgs]
    /\ delivered \in [Parties -> [1 .. MaxMsgs -> Nat]]
    /\ dups \in 0 .. MaxDup

CountsSent == \A p \in Parties : st[p].ns <= sent[p] /\ st[p].pn <= sent[p]

(* A message in flight was sealed by the other side.                       *)
NetSealed ==
    \A m \in net :
        /\ m \in Headers /\ m.pt \in 1 .. sent[Other(m.to)]
        /\ SealedBefore(st[Other(m.to)], Other(m.to), m.mk)

(* A key that has opened a message was sealed with by one side and is out  *)
(* of reach of decrypt on the other.                                       *)
OpenedSpent ==
    \A mk \in opened :
        /\ mk \in ChainKeys
        /\ \E p \in Parties : SealedBefore(st[p], p, mk) /\ ~Reads(st[Other(p)], mk)

(* Copies of a plaintext in flight are sealed with one key, which is spent *)
(* once the plaintext has been delivered.                                  *)
CopiesAlike ==
    \A m, k \in net : m.to = k.to /\ m.pt = k.pt => m.mk = k.mk
DeliveredSpent ==
    \A m \in net : delivered[m.to][m.pt] # 0 => m.mk \in opened
UnsentUndelivered ==
    \A p \in Parties : \A k \in 1 .. MaxMsgs : k > sent[p] => delivered[Other(p)][k] = 0

IndInv ==
    /\ SessionsSane /\ CountersTyped /\ CountsSent /\ NetSealed /\ OpenedSpent
    /\ CopiesAlike /\ DeliveredSpent /\ UnsentUndelivered /\ DeliveredAtMostOnce

-----------------------------------------------------------------------------
LEMMA Others == \A p \in Parties : Other(p) \in Parties /\ Other(p) # p /\ Other(Other(p)) = p
  BY DEF Parties, Other

LEMMA Sealer ==
    ASSUME NEW p \in Parties, NEW q \in Parties, NEW s, NEW t, NEW mk,
           SealedBefore(s, p, mk), SealedBefore(t, q, mk)
    PROVE  p = q
  <1>1. Par(p) = Par(q)
    BY DEF SealedBefore, OfParty
  <1> QED
    BY <1>1 DEF Parties, Par

(* encrypt                                                                 *)
LEMMA EncryptSane ==
    ASSUME NEW s, NEW p \in Parties, Sane(s, p), CanEncrypt(s)
    PROVE  LET t == AfterEncrypt(s) IN
           /\ Sane(t, p) /\ t.ns = s.ns + 1 /\ t.pn = s.pn
           /\ \A mk \in ChainKeys : SealedBefore(s, p, mk) => SealedBefore(t, p, mk)
           /\ SealedBefore(t, p, s.cks)
           /\ \A mk \in ChainKeys : Reads(t, mk) <=> Reads(s, mk)
  <1> DEFINE c == KdfCk(s.cks)
             t == [s EXCEPT !.cks = c, !.ns = @ + 1]
  <1>1. s \in States /\ s.cks \in ChainKeys /\ s.cks.i \in Nat /\ s.ns \in Nat /\ Len(s.rk) \in Nat
    BY StateFields DEF Sane
  <1>2. c \in ChainKeys /\ c.root = s.cks.root /\ c.i = s.cks.i + 1 /\ c # NoChain
    BY <1>1, ChainMade
  <1>3. t = AfterEncrypt(s)
    BY DEF AfterEncrypt
  <1> HIDE DEF c
  <1>4. /\ t \in States /\ t.cks = c /\ t.rk = s.rk /\ t.ckr = s.ckr /\ t.skipped = s.skipped
        /\ t.ns = s.ns + 1 /\ t.pn = s.pn
    <2>1. s.ns + 1 \in Nat
      BY <1>1
    <2> QED
      BY <1>1, <1>2, <2>1 DEF States
  <1> HIDE DEF t
  <1>5. s.cks.root = s.rk /\ OfParty(p, s.rk)
    BY DEF Sane, Rooted, CanEncrypt, OfParty
  <1>6. Sane(t, p)
    <2>1. Rooted(t, p)
      BY <1>2, <1>4, <1>5 DEF Sane, Rooted
    <2>2. CacheBehind(t, p) /\ CacheDistinct(t) /\ CacheFits(t)
      BY <1>4 DEF Sane, CacheBehind, CacheDistinct, CacheFits
    <2> QED
      BY <1>4, <2>1, <2>2 DEF Sane
  <1>7. \A mk \in ChainKeys : SealedBefore(s, p, mk) => SealedBefore(t, p, mk)
    <2> TAKE mk \in ChainKeys
    <2>1. mk.i \in Nat
      BY DEF ChainKeys
    <2> QED
      BY <1>1, <1>2, <1>4, <2>1 DEF SealedBefore
  <1>8. SealedBefore(t, p, s.cks)
    BY <1>1, <1>2, <1>4, <1>5 DEF SealedBefore
  <1>9. \A mk \in ChainKeys : Reads(t, mk) <=> Reads(s, mk)
    BY <1>4 DEF Reads, Cached, Ahead
  <1> QED
    BY <1>3, <1>4, <1>6, <1>7, <1>8, <1>9

(* decrypt leaves what was sealed sealed.                                  *)
LEMMA SentKeeps ==
    ASSUME NEW s, NEW t, NEW p \in Parties, NEW fresh, Sane(s, p), Sane(t, p), Sent(s, t, fresh),
           NEW mk \in ChainKeys, SealedBefore(s, p, mk)
    PROVE  SealedBefore(t, p, mk)
  <1>1. CASE SameSending(s, t)
    BY <1>1 DEF SameSending, SealedBefore
  <1>2. CASE Len(t.rk) = Len(s.rk) + 2 /\ t.cks = ChainOf(t.rk)
    <2>1. Len(s.rk) \in Nat /\ t.rk \in Seq(Outputs)
      BY StateFields DEF Sane
    <2>2. t.cks.root = t.rk
      BY <1>2, <2>1, ChainMade
    <2>3. Len(mk.root) \in Nat
      BY DEF ChainKeys
    <2>4. Len(mk.root) <= Len(t.rk) /\ Len(mk.root) # Len(t.rk)
      BY <1>2, <2>1, <2>3 DEF SealedBefore
    <2> QED
      BY <2>2, <2>4 DEF SealedBefore
  <1> QED
    BY <1>1, <1>2 DEF Sent

-----------------------------------------------------------------------------
LEMMA InitInv == ChannelInit => IndInv
  <1> SUFFICES ASSUME ChannelInit PROVE IndInv
    OBVIOUS
  <1> DEFINE rk == KdfRk(SharedKey, DH(<<"A", "dh", 1>>, SignedPrekey))
  <1>1. SharedKey \in Seq(Outputs) /\ Len(SharedKey) = 1
    <2>1. {"x3dh"} \in Outputs
      BY DEF Outputs
    <2> QED
      BY <2>1 DEF SharedKey
  <1>2. SignedPrekey \in Keys /\ <<"A", "dh", 1>> \in Keys
    BY DEF SignedPrekey, Keys, Kinds, Parties
  <1>3. rk \in Seq(Outputs) /\ Len(rk) = 2
    <2>1. rk \in Seq(Outputs) /\ Len(rk) = Len(SharedKey) + 1
      BY <1>1, <1>2, RootMade
    <2> HIDE DEF rk
    <2> QED
      BY <1>1, <2>1
  <1>4. st["A"] = NewInitiator(SharedKey, SignedPrekey, <<"A", "dh", 1>>) /\ st["B"] = NewResponder(SharedKey, SignedPrekey)
    BY DEF ChannelInit, Parties
  <1>5. ChainOf(rk) \in ChainKeys /\ ChainOf(rk).root = rk /\ NoChain \in ChainKeys
    BY <1>3, ChainMade
  <1>6. << >> \in Seq(Entries) /\ Len(<< >>) = 0
    OBVIOUS
  <1>7. st["A"] = [dhs |-> <<"A", "dh", 1>>, dhr |-> SignedPrekey, rk |-> rk,
                   cks |-> ChainOf(rk), ckr |-> NoChain, ns |-> 0, nr |-> 0, pn |-> 0,
                   skipped |-> << >>, sessionId |-> SharedKey]
    BY <1>4 DEF NewInitiator
  <1>8. st["B"] = [dhs |-> SignedPrekey, dhr |-> NoDh, rk |-> SharedKey, cks |-> NoChain, ckr |-> NoChain,
                   ns |-> 0, nr |-> 0, pn |-> 0, skipped |-> << >>, sessionId |-> SharedKey]
    BY <1>4 DEF NewResponder
  <1> HIDE DEF rk
  <1>9. Sane(st["A"], "A")
    <2> DEFINE c == ChainOf(rk)
               e == << >>
    <2>e. e \in Seq(Entries) /\ Len(e) = 0
      BY <1>6
    <2>s. st["A"] = [dhs |-> <<"A", "dh", 1>>, dhr |-> SignedPrekey, rk |-> rk,
                   cks |-> c, ckr |-> NoChain, ns |-> 0, nr |-> 0, pn |-> 0,
                   skipped |-> e, sessionId |-> SharedKey]
      BY <1>7
    <2>c. c \in ChainKeys /\ c.root = rk
      BY <1>5
    <2> HIDE DEF c, e
    <2>1. st["A"] \in States
      BY <1>1, <1>2, <1>3, <1>5, <2>e, <2>s, <2>c DEF States
    <2>2. st["A"].skipped = e /\ st["A"].rk = rk /\ st["A"].cks = c /\ st["A"].ckr = NoChain
      BY <2>s
    <2>3. Rooted(st["A"], "A")
      <3>1. Len(rk) >= 1 /\ Len(rk) % 2 = 0
        BY <1>3
      <3> QED
        BY <2>2, <2>c, <3>1 DEF Rooted, Par
    <2>4. CacheBehind(st["A"], "A") /\ CacheDistinct(st["A"]) /\ CacheFits(st["A"])
      BY <2>e, <2>2, MaxSkipAssumption DEF CacheBehind, CacheDistinct, CacheFits
    <2> QED
      BY <2>1, <2>3, <2>4 DEF Sane
  <1>10. Sane(st["B"], "B")
    <2> DEFINE e == << >>
    <2>e. e \in Seq(Entries) /\ Len(e) = 0
      BY <1>6
    <2>s. st["B"] = [dhs |-> SignedPrekey, dhr |-> NoDh, rk |-> SharedKey, cks |-> NoChain, ckr |-> NoChain,
                   ns |-> 0, nr |-> 0, pn |-> 0, skipped |-> e, sessionId |-> SharedKey]
      BY <1>8
    <2> HIDE DEF e
    <2>1. st["B"] \in States
      BY <1>1, <1>2, <1>5, <2>e, <2>s DEF States
    <2>2. st["B"].skipped = e /\ st["B"].rk = SharedKey /\ st["B"].cks = NoChain /\ st["B"].ckr = NoChain
      BY <2>s
    <2>3. Rooted(st["B"], "B")
      <3>1. Len(SharedKey) >= 1 /\ Len(SharedKey) % 2 = 1
        BY <1>1
      <3> QED
        BY <2>2, <3>1 DEF Rooted, Par
    <2>4. CacheBehind(st["B"], "B") /\ CacheDistinct(st["B"]) /\ CacheFits(st["B"])
      BY <2>e, <2>2, MaxSkipAssumption DEF CacheBehind, CacheDistinct, CacheFits
    <2> QED
      BY <2>1, <2>3, <2>4 DEF Sane
  <1>11. SessionsSane
    <2>1. \A p \in Parties : Sane(st[p], p)
      BY <1>9, <1>10 DEF Parties
    <2>2. \A p \in Parties : st[p] \in States
      BY <2>1 DEF Sane
    <2>3. \E f : st = [p \in Parties |-> f[p]]
      BY DEF ChannelInit
    <2> QED
      BY <2>1, <2>2, <2>3 DEF SessionsSane
  <1>12. CountersTyped
    BY ChannelAssumption DEF ChannelInit, CountersTyped
  <1>13. CountsSent
    BY <1>7, <1>8 DEF ChannelInit, CountsSent, Parties
  <1>14. NetSealed /\ OpenedSpent /\ CopiesAlike /\ DeliveredSpent
    BY DEF ChannelInit, NetSealed, OpenedSpent, CopiesAlike, DeliveredSpent
  <1>15. UnsentUndelivered /\ DeliveredAtMostOnce
    BY Others DEF ChannelInit, UnsentUndelivered, DeliveredAtMostOnce
  <1> QED
    BY <1>11, <1>12, <1>13, <1>14, <1>15 DEF IndInv

(* encrypt: the new message is sealed with the key just passed.            *)
LEMMA SendKeeps ==
    ASSUME IndInv, NEW p \in Parties, Send(p)
    PROVE  IndInv'
  <1> DEFINE o == Other(p)
             s == st[p]
             t == AfterEncrypt(s)
             new == Message(o, sent[p] + 1, EncryptHeader(s))
  <1>o. o \in Parties /\ o # p /\ \A r \in Parties : r # p => r = o
    BY Others DEF Parties
  <1>1. /\ SessionsSane /\ CountersTyped /\ CountsSent /\ NetSealed /\ OpenedSpent
        /\ CopiesAlike /\ DeliveredSpent /\ UnsentUndelivered /\ DeliveredAtMostOnce
    BY DEF IndInv
  <1>2. Sane(s, p) /\ CanEncrypt(s) /\ s \in States
    BY <1>1 DEF SessionsSane, Send
  <1>3. /\ Sane(t, p) /\ t.ns = s.ns + 1 /\ t.pn = s.pn
        /\ \A mk \in ChainKeys : SealedBefore(s, p, mk) => SealedBefore(t, p, mk)
        /\ SealedBefore(t, p, s.cks)
        /\ \A mk \in ChainKeys : Reads(t, mk) <=> Reads(s, mk)
    BY <1>2, EncryptSane
  <1> HIDE DEF t
  <1>4. /\ st'[p] = t /\ \A r \in Parties : r # p => st'[r] = st[r]
        /\ st' \in [Parties -> States]
    BY <1>1, <1>3 DEF Send, SessionsSane, Sane, t
  <1>5. /\ sent[p] \in Nat /\ sent[p] < MaxMsgs /\ sent'[p] = sent[p] + 1
        /\ sent' \in [Parties -> 0 .. MaxMsgs] /\ \A r \in Parties : r # p => sent'[r] = sent[r]
    BY <1>1, ChannelAssumption DEF Send, CountersTyped
  <1>6. net' = net \cup {new} /\ drawn' = drawn /\ delivered' = delivered /\ opened' = opened /\ dups' = dups
    BY DEF Send
  <1>7. new \in Headers /\ new.to = o /\ new.pt = sent[p] + 1 /\ new.mk = s.cks
    <2>1. /\ s.dhs \in Keys /\ s.pn \in Nat /\ s.ns \in Nat /\ s.cks \in ChainKeys
          /\ sent[p] + 1 \in Nat
      BY <1>2, <1>5, StateFields
    <2> HIDE DEF s, o
    <2> QED
      BY <1>o, <2>1 DEF Message, EncryptHeader, Headers
  <1> HIDE DEF new
  <1>8. SessionsSane'
    <2>1. \A r \in Parties : Sane(st'[r], r)
      BY <1>1, <1>3, <1>4 DEF SessionsSane
    <2> QED
      BY <1>4, <2>1 DEF SessionsSane
  <1>9. CountersTyped'
    BY <1>1, <1>5, <1>6 DEF CountersTyped
  <1>10. CountsSent'
    <2> SUFFICES ASSUME NEW r \in Parties
                 PROVE  st'[r].ns <= sent'[r] /\ st'[r].pn <= sent'[r]
      BY DEF CountsSent
    <2>1. st[r].ns <= sent[r] /\ st[r].pn <= sent[r]
      BY <1>1 DEF CountsSent
    <2>2. CASE r # p
      BY <1>4, <1>5, <2>1, <2>2
    <2>3. CASE r = p
      <3>1. s.ns \in Nat /\ s.pn \in Nat
        BY <1>2, StateFields
      <3> QED
        BY <1>3, <1>4, <1>5, <2>1, <2>3, <3>1
    <2> QED
      BY <2>2, <2>3
  <1>11. NetSealed'
    <2> SUFFICES ASSUME NEW m \in net'
                 PROVE  /\ m \in Headers /\ m.pt \in 1 .. sent'[Other(m.to)]
                        /\ SealedBefore(st'[Other(m.to)], Other(m.to), m.mk)
      BY DEF NetSealed
    <2>1. CASE m \in net
      <3>1. /\ m \in Headers /\ m.pt \in 1 .. sent[Other(m.to)]
            /\ SealedBefore(st[Other(m.to)], Other(m.to), m.mk)
        BY <1>1, <2>1 DEF NetSealed
      <3>2. m.to \in Parties /\ m.mk \in ChainKeys
        BY <3>1 DEF Headers
      <3>3. Other(m.to) \in Parties
        BY <3>2, Others
      <3>4. SealedBefore(st'[Other(m.to)], Other(m.to), m.mk)
        BY <1>3, <1>4, <3>1, <3>2, <3>3
      <3>5. m.pt \in 1 .. sent'[Other(m.to)]
        <4>1. sent[Other(m.to)] \in Nat /\ sent'[Other(m.to)] \in Nat /\ sent[Other(m.to)] <= sent'[Other(m.to)]
          BY <1>1, <1>5, <3>3 DEF CountersTyped
        <4> QED
          BY <3>1, <4>1
      <3> QED
        BY <3>1, <3>4, <3>5
    <2>2. CASE m = new
      <3>1. Other(m.to) = p
        BY <1>7, <2>2, Others
      <3>2. m.pt \in 1 .. sent'[p]
        BY <1>5, <1>7, <2>2
      <3> QED
        BY <1>3, <1>4, <1>7, <2>2, <3>1, <3>2
    <2> QED
      BY <1>6, <2>1, <2>2
  <1>12. OpenedSpent'
    <2> SUFFICES ASSUME NEW mk \in opened
                 PROVE  /\ mk \in ChainKeys
                        /\ \E r \in Parties : SealedBefore(st'[r], r, mk) /\ ~Reads(st'[Other(r)], mk)
      BY <1>6 DEF OpenedSpent
    <2>1. mk \in ChainKeys
      BY <1>1 DEF OpenedSpent
    <2>2. PICK r \in Parties : SealedBefore(st[r], r, mk) /\ ~Reads(st[Other(r)], mk)
      BY <1>1 DEF OpenedSpent
    <2>3. Other(r) \in Parties
      BY Others
    <2>4. SealedBefore(st'[r], r, mk)
      BY <1>3, <1>4, <2>1, <2>2
    <2>5. ~Reads(st'[Other(r)], mk)
      BY <1>3, <1>4, <2>1, <2>2, <2>3
    <2> QED
      BY <2>1, <2>4, <2>5
  <1>13. \A m \in net : ~(m.to = o /\ m.pt = new.pt)
    <2> SUFFICES ASSUME NEW m \in net, m.to = o, m.pt = new.pt
                 PROVE  FALSE
      OBVIOUS
    <2>1. m.pt \in 1 .. sent[Other(m.to)] /\ Other(m.to) = p
      BY <1>1, Others DEF NetSealed
    <2> QED
      BY <1>5, <1>7, <2>1
  <1>14. CopiesAlike'
    BY <1>1, <1>6, <1>7, <1>13 DEF CopiesAlike
  <1>15. DeliveredSpent'
    <2>1. delivered[o][sent[p] + 1] = 0
      <3>1. sent[p] + 1 \in 1 .. MaxMsgs /\ sent[p] + 1 > sent[p]
        BY <1>5, ChannelAssumption
      <3> QED
        BY <1>1, <3>1 DEF UnsentUndelivered
    <2> QED
      BY <1>1, <1>6, <1>7, <2>1 DEF DeliveredSpent
  <1>16. UnsentUndelivered'
    <2> SUFFICES ASSUME NEW r \in Parties, NEW k \in 1 .. MaxMsgs, k > sent'[r]
                 PROVE  delivered[Other(r)][k] = 0
      BY <1>6 DEF UnsentUndelivered
    <2>1. sent[r] \in Nat /\ sent'[r] \in Nat /\ sent[r] <= sent'[r]
      <3>1. sent[r] \in Nat /\ (sent'[r] = sent[r] \/ sent'[r] = sent[r] + 1)
        BY <1>1, <1>5, ChannelAssumption DEF CountersTyped
      <3> QED
        BY <3>1
    <2>2. k > sent[r]
      BY <2>1, ChannelAssumption
    <2> QED
      BY <1>1, <2>2 DEF UnsentUndelivered
  <1>17. DeliveredAtMostOnce'
    BY <1>1, <1>6 DEF DeliveredAtMostOnce
  <1> QED
    BY <1>8, <1>9, <1>10, <1>11, <1>12, <1>14, <1>15, <1>16, <1>17 DEF IndInv

(* decrypt, whether or not the message stays in flight.                    *)
LEMMA ReceiveKeeps ==
    ASSUME IndInv, NEW m \in net, Receive(m), sent' = sent, net' \in SUBSET net, dups' \in 0 .. MaxDup
    PROVE  IndInv'
  <1> DEFINE p == m.to
             o == Other(p)
             s == st[p]
             r == Decrypt(s, m, Fresh(p))
             t == r.st
  <1>1. /\ SessionsSane /\ CountersTyped /\ CountsSent /\ NetSealed /\ OpenedSpent
        /\ CopiesAlike /\ DeliveredSpent /\ UnsentUndelivered /\ DeliveredAtMostOnce
    BY DEF IndInv
  <1>2. m \in Headers /\ m.pt \in 1 .. sent[o] /\ SealedBefore(st[o], o, m.mk)
    BY <1>1 DEF NetSealed
  <1>3. p \in Parties /\ m.mk \in ChainKeys
    BY <1>2 DEF Headers
  <1>4. o \in Parties /\ o # p /\ Other(o) = p
    BY <1>3, Others
  <1>5. Fresh(p) \in Keys
    BY <1>1, <1>3 DEF Fresh, Keys, Kinds, CountersTyped
  <1>6. Sane(s, p) /\ s \in States
    BY <1>1, <1>3 DEF SessionsSane
  <1>7. Decrypted(s, p, m, Fresh(p), r)
    BY <1>2, <1>3, <1>5, <1>6, DecryptSane
  <1>8. /\ st' = [st EXCEPT ![p] = t]
        /\ drawn' = [drawn EXCEPT ![p] = IF t.dhs = Fresh(p) THEN @ + 1 ELSE @]
        /\ \/ /\ r.err = "ok" /\ opened' = opened \cup {m.mk}
              /\ delivered' = [delivered EXCEPT ![p][m.pt] = @ + 1]
           \/ r.err # "ok" /\ delivered' = delivered /\ opened' = opened
    BY DEF Receive, Received
  <1>9. /\ Sane(t, p) /\ Sent(s, t, Fresh(p))
        /\ \A mk \in ChainKeys : Reads(t, mk) => Reads(s, mk)
        /\ r.err = "ok" => Reads(s, m.mk) /\ ~Reads(t, m.mk)
    BY <1>7 DEF Decrypted, NoGain
  <1> HIDE DEF r, t
  <1>10. /\ st'[p] = t /\ st' \in [Parties -> States] /\ \A q \in Parties : q # p => st'[q] = st[q]
    BY <1>1, <1>3, <1>8, <1>9 DEF SessionsSane, Sane
  <1>11. \A q \in Parties, mk \in ChainKeys : SealedBefore(st[q], q, mk) => SealedBefore(st'[q], q, mk)
    BY <1>3, <1>6, <1>9, <1>10, SentKeeps
  <1>12. \A q \in Parties, mk \in ChainKeys : Reads(st'[q], mk) => Reads(st[q], mk)
    BY <1>9, <1>10
  <1>p. m.pt \in 1 .. MaxMsgs /\ sent[o] \in 0 .. MaxMsgs
    <2>1. sent[o] \in 0 .. MaxMsgs
      BY <1>1, <1>4 DEF CountersTyped
    <2> QED
      BY <1>2, <2>1, ChannelAssumption
  <1>d. /\ delivered' \in [Parties -> [1 .. MaxMsgs -> Nat]]
        /\ r.err = "ok" => delivered'[p][m.pt] = delivered[p][m.pt] + 1
        /\ \A q \in Parties, k \in 1 .. MaxMsgs :
               ~(r.err = "ok" /\ q = p /\ k = m.pt) => delivered'[q][k] = delivered[q][k]
    <2>1. delivered \in [Parties -> [1 .. MaxMsgs -> Nat]]
      BY <1>1 DEF CountersTyped
    <2>2. CASE r.err # "ok"
      BY <1>8, <2>1, <2>2
    <2>3. CASE r.err = "ok"
      <3> DEFINE old == delivered[p]
                 row == [old EXCEPT ![m.pt] = @ + 1]
      <3>0. old \in [1 .. MaxMsgs -> Nat]
        BY <1>3, <2>1
      <3> HIDE DEF old
      <3>1. /\ row \in [1 .. MaxMsgs -> Nat] /\ row[m.pt] = old[m.pt] + 1
            /\ \A k \in 1 .. MaxMsgs : k # m.pt => row[k] = old[k]
        BY <1>p, <3>0
      <3>2. delivered' = [delivered EXCEPT ![p] = row]
        BY <1>8, <2>3 DEF old
      <3> HIDE DEF row, p
      <3> QED
        BY <1>3, <2>1, <2>3, <3>1, <3>2 DEF old
    <2> QED
      BY <2>2, <2>3
  <1>13. SessionsSane'
    <2>1. \A q \in Parties : Sane(st'[q], q)
      BY <1>1, <1>9, <1>10 DEF SessionsSane
    <2> QED
      BY <1>10, <2>1 DEF SessionsSane
  <1>14. CountersTyped'
    <2>1. drawn' \in [Parties -> Nat]
      BY <1>1, <1>3, <1>8 DEF CountersTyped
    <2> QED
      BY <1>1, <1>d, <2>1 DEF CountersTyped
  <1>15. CountsSent'
    <2> SUFFICES ASSUME NEW q \in Parties
                 PROVE  st'[q].ns <= sent[q] /\ st'[q].pn <= sent[q]
      BY DEF CountsSent
    <2>1. st[q].ns <= sent[q] /\ st[q].pn <= sent[q] /\ sent[q] \in Nat
      BY <1>1 DEF CountsSent, CountersTyped
    <2>2. CASE q # p
      BY <1>10, <2>1, <2>2
    <2>3. CASE q = p
      <3>1. (t.ns = s.ns /\ t.pn = s.pn) \/ (t.ns = 0 /\ t.pn = s.ns)
        BY <1>9 DEF Sent, SameSending
      <3> QED
        BY <1>10, <2>1, <2>3, <3>1
    <2> QED
      BY <2>2, <2>3
  <1>16. NetSealed'
    <2> SUFFICES ASSUME NEW k \in net
                 PROVE  /\ k \in Headers /\ k.pt \in 1 .. sent[Other(k.to)]
                        /\ SealedBefore(st'[Other(k.to)], Other(k.to), k.mk)
      BY DEF NetSealed
    <2>1. /\ k \in Headers /\ k.pt \in 1 .. sent[Other(k.to)]
          /\ SealedBefore(st[Other(k.to)], Other(k.to), k.mk)
      BY <1>1 DEF NetSealed
    <2>2. Other(k.to) \in Parties /\ k.mk \in ChainKeys
      BY <2>1, Others DEF Headers
    <2> QED
      BY <1>11, <2>1, <2>2
  <1>17. OpenedSpent'
    <2> SUFFICES ASSUME NEW mk \in opened'
                 PROVE  /\ mk \in ChainKeys
                        /\ \E q \in Parties : SealedBefore(st'[q], q, mk) /\ ~Reads(st'[Other(q)], mk)
      BY DEF OpenedSpent
    <2>1. CASE mk \in opened
      <3>1. mk \in ChainKeys
        BY <1>1, <2>1 DEF OpenedSpent
      <3>2. PICK q \in Parties : SealedBefore(st[q], q, mk) /\ ~Reads(st[Other(q)], mk)
        BY <1>1, <2>1 DEF OpenedSpent
      <3>3. Other(q) \in Parties
        BY Others
      <3> QED
        BY <1>11, <1>12, <3>1, <3>2, <3>3
    <2>2. CASE r.err = "ok" /\ mk = m.mk
      <3>1. SealedBefore(st'[o], o, mk)
        BY <1>2, <1>3, <1>4, <1>11, <2>2
      <3>2. ~Reads(st'[Other(o)], mk)
        BY <1>4, <1>9, <1>10, <2>2
      <3> QED
        BY <1>3, <1>4, <2>2, <3>1, <3>2
    <2> QED
      BY <1>8, <2>1, <2>2
  <1>18. CopiesAlike'
    BY <1>1 DEF CopiesAlike
  <1>19. DeliveredSpent'
    <2> SUFFICES ASSUME NEW k \in net, delivered'[k.to][k.pt] # 0
                 PROVE  k.mk \in opened'
      BY DEF DeliveredSpent
    <2>1. CASE r.err = "ok" /\ k.to = p /\ k.pt = m.pt
      BY <1>1, <1>8, <2>1 DEF CopiesAlike
    <2>2. CASE ~(r.err = "ok" /\ k.to = p /\ k.pt = m.pt)
      <3>1. delivered'[k.to][k.pt] = delivered[k.to][k.pt]
        <4>1. k.to \in Parties /\ k.pt \in 1 .. MaxMsgs
          <5>1. k \in Headers /\ k.pt \in 1 .. sent[Other(k.to)]
            BY <1>1 DEF NetSealed
          <5>2. k.to \in Parties /\ Other(k.to) \in Parties
            BY <5>1, Others DEF Headers
          <5>3. sent[Other(k.to)] \in 0 .. MaxMsgs
            BY <1>1, <5>2 DEF CountersTyped
          <5> QED
            BY <5>1, <5>2, <5>3, ChannelAssumption
        <4> QED
          BY <1>d, <2>2, <4>1
      <3> QED
        BY <1>1, <1>8, <3>1 DEF DeliveredSpent
    <2> QED
      BY <2>1, <2>2
  <1>20. r.err = "ok" => delivered[p][m.pt] = 0
    <2> SUFFICES ASSUME r.err = "ok", delivered[p][m.pt] # 0
                 PROVE  FALSE
      OBVIOUS
    <2>1. m.mk \in opened
      BY <1>1 DEF DeliveredSpent
    <2>2. PICK q \in Parties : SealedBefore(st[q], q, m.mk) /\ ~Reads(st[Other(q)], m.mk)
      BY <1>1, <2>1 DEF OpenedSpent
    <2>3. q = o
      BY <1>2, <1>4, <2>2, Sealer
    <2> QED
      BY <1>4, <1>9, <2>2, <2>3
  <1>21. UnsentUndelivered'
    <2> SUFFICES ASSUME NEW q \in Parties, NEW k \in 1 .. MaxMsgs, k > sent[q]
                 PROVE  delivered'[Other(q)][k] = 0
      BY DEF UnsentUndelivered
    <2>1. delivered[Other(q)][k] = 0 /\ Other(q) \in Parties
      BY <1>1, Others DEF UnsentUndelivered
    <2>2. ~(Other(q) = p /\ k = m.pt)
      <3> SUFFICES ASSUME Other(q) = p, k = m.pt
                   PROVE  FALSE
        OBVIOUS
      <3>1. q = o
        BY Others
      <3> QED
        BY <1>2, <1>p, <3>1
    <2> QED
      BY <1>d, <2>1, <2>2
  <1>22. DeliveredAtMostOnce'
    <2> SUFFICES ASSUME NEW q \in Parties, NEW k \in 1 .. MaxMsgs
                 PROVE  delivered'[q][k] <= 1
      BY DEF DeliveredAtMostOnce
    <2>1. delivered[q][k] <= 1
      BY <1>1 DEF DeliveredAtMostOnce
    <2>2. CASE r.err = "ok" /\ q = p /\ k = m.pt
      <3>1. delivered'[q][k] = 0 + 1
        BY <1>d, <1>20, <2>2
      <3> QED
        BY <3>1
    <2>3. CASE ~(r.err = "ok" /\ q = p /\ k = m.pt)
      BY <1>d, <2>1, <2>3
    <2> QED
      BY <2>2, <2>3
  <1> QED
    BY <1>13, <1>14, <1>15, <1>16, <1>17, <1>18, <1>19, <1>21, <1>22 DEF IndInv

LEMMA NextInv == IndInv /\ [ChannelNext]_channelVars => IndInv'
  <1> SUFFICES ASSUME IndInv, [ChannelNext]_channelVars PROVE IndInv'
    OBVIOUS
  <1>d. dups \in 0 .. MaxDup
    BY DEF IndInv, CountersTyped
  <1>1. ASSUME NEW p \in Parties, Send(p) PROVE IndInv'
    BY <1>1, SendKeeps
  <1>2. ASSUME NEW m \in net, Deliver(m) PROVE IndInv'
    <2>1. Receive(m) /\ sent' = sent /\ net' \in SUBSET net /\ dups' \in 0 .. MaxDup
      BY <1>d, <1>2 DEF Deliver
    <2> QED
      BY <2>1, ReceiveKeeps
  <1>3. ASSUME NEW m \in net, DeliverKeepingCopy(m) PROVE IndInv'
    <2>1. Receive(m) /\ sent' = sent /\ net' \in SUBSET net /\ dups' \in 0 .. MaxDup
      BY <1>d, <1>3, ChannelAssumption DEF DeliverKeepingCopy
    <2> QED
      BY <2>1, ReceiveKeeps
  <1>4. ASSUME NEW m \in net, Lose(m) PROVE IndInv'
    <2>1. net' \in SUBSET net /\ st' = st /\ drawn' = drawn /\ sent' = sent /\ delivered' = delivered
          /\ opened' = opened /\ dups' = dups
      BY <1>4 DEF Lose
    <2>2. SessionsSane' /\ CountersTyped' /\ CountsSent'
      BY <2>1 DEF IndInv, SessionsSane, CountersTyped, CountsSent
    <2>3. NetSealed' /\ OpenedSpent'
      BY <2>1 DEF IndInv, NetSealed, OpenedSpent
    <2>4. CopiesAlike' /\ DeliveredSpent' /\ UnsentUndelivered' /\ DeliveredAtMostOnce'
      BY <2>1 DEF IndInv, CopiesAlike, DeliveredSpent, UnsentUndelivered, DeliveredAtMostOnce
    <2> QED
      BY <2>2, <2>3, <2>4 DEF IndInv
  <1>5. CASE UNCHANGED channelVars
    <2>1. net' = net /\ st' = st /\ drawn' = drawn /\ sent' = sent /\ delivered' = delivered
          /\ opened' = opened /\ dups' = dups
      BY <1>5 DEF channelVars
    <2>2. SessionsSane' /\ CountersTyped' /\ CountsSent'
      BY <2>1 DEF IndInv, SessionsSane, CountersTyped, CountsSent
    <2>3. NetSealed' /\ OpenedSpent'
      BY <2>1 DEF IndInv, NetSealed, OpenedSpent
    <2>4. CopiesAlike' /\ DeliveredSpent' /\ UnsentUndelivered' /\ DeliveredAtMostOnce'
      BY <2>1 DEF IndInv, CopiesAlike, DeliveredSpent, UnsentUndelivered, DeliveredAtMostOnce
    <2> QED
      BY <2>2, <2>3, <2>4 DEF IndInv
  <1> QED
    BY <1>1, <1>2, <1>3, <1>4, <1>5 DEF ChannelNext

(* encrypt and decrypt keep the keys apart: what is open is spent, and what *)
(* is spent is behind both sides.                                          *)
THEOREM Invariance == ChannelSpec => []IndInv
  BY InitInv, NextInv, PTL DEF ChannelSpec

(* try_skipped, kdf_ck: no plaintext comes out of decrypt twice, whatever  *)
(* the network loses, reorders or duplicates.                              *)
THEOREM PlaintextOnce == ChannelSpec => []DeliveredAtMostOnce
  <1>1. IndInv => DeliveredAtMostOnce
    BY DEF IndInv
  <1> QED
    BY Invariance, <1>1, PTL

(* kdf_rk, kdf_ck and the cache: neither side's state gives away a key     *)
(* that has opened a message.                                              *)
THEOREM SpentKeysAreGone == ChannelSpec => []ForwardSecrecy
  <1>1. IndInv => ForwardSecrecy
    <2> SUFFICES ASSUME IndInv, NEW mk \in opened, NEW q \in Parties, CanDerive(st[q], mk)
                 PROVE  FALSE
      BY DEF ForwardSecrecy
    <2>1. SessionsSane /\ OpenedSpent
      BY DEF IndInv
    <2>2. mk \in ChainKeys
      BY <2>1 DEF OpenedSpent
    <2>3. PICK p \in Parties : SealedBefore(st[p], p, mk) /\ ~Reads(st[Other(p)], mk)
      BY <2>1 DEF OpenedSpent
    <2> DEFINE s == st[q]
    <2>4. Sane(s, q) /\ s \in States /\ st[p] \in States
      BY <2>1 DEF SessionsSane
    <2>5. /\ s.skipped \in Seq(Entries) /\ Len(s.rk) \in Nat /\ Len(s.ckr.root) \in Nat
          /\ mk.i \in Nat /\ Len(mk.root) \in Nat /\ s.cks.i \in Nat
      BY <2>2, <2>4, StateFields DEF ChainKeys
    <2>6. DOMAIN s.skipped = 1 .. Len(s.skipped)
      BY <2>5
    <2>7. Cached(s, mk) \/ (s.cks # NoChain /\ mk.root = s.cks.root /\ mk.i >= s.cks.i)
          \/ Ahead(s, mk) \/ Len(s.rk) < Len(mk.root)
      BY <2>6 DEF CanDerive, IsProperPrefix, Cached, Ahead
    <2>8. CASE q = p
      <3>1. OfParty(q, mk.root) /\ Len(mk.root) <= Len(s.rk) /\ (mk.root = s.cks.root => mk.i < s.cks.i)
        BY <2>3, <2>8 DEF SealedBefore
      <3>2. ~(mk.root = s.cks.root /\ mk.i >= s.cks.i) /\ ~(Len(s.rk) < Len(mk.root))
        BY <2>5, <3>1
      <3>3. Len(mk.root) % 2 = Par(q)
        BY <3>1 DEF OfParty
      <3>4. ~Cached(s, mk)
        BY <2>4, <3>3 DEF Sane, CacheBehind, Cached
      <3>5. ~Ahead(s, mk)
        <4> SUFFICES ASSUME s.ckr # NoChain, mk.root = s.ckr.root PROVE FALSE
          BY DEF Ahead
        <4>1. Len(mk.root) + 1 = Len(s.rk) /\ Len(s.rk) % 2 = Par(q)
          BY <2>4 DEF Sane, Rooted
        <4>2. (Len(mk.root) + 1) % 2 # Len(mk.root) % 2
          BY <2>5, Parity
        <4> QED
          BY <3>3, <4>1, <4>2
      <3> QED
        BY <2>7, <3>2, <3>4, <3>5
    <2>9. CASE q # p
      <3>1. q = Other(p)
        BY <2>9 DEF Other, Parties
      <3>2. ~Cached(s, mk) /\ ~Ahead(s, mk) /\ ~(Len(mk.root) > Len(s.rk))
        BY <2>3, <3>1 DEF Reads
      <3>3. s.cks # NoChain /\ mk.root = s.cks.root
        BY <2>5, <2>7, <3>2
      <3>4. Len(mk.root) % 2 = Par(q)
        BY <2>4, <3>3 DEF Sane, Rooted
      <3>5. Len(mk.root) % 2 = Par(p)
        BY <2>3 DEF SealedBefore, OfParty
      <3> QED
        BY <2>9, <3>4, <3>5, <3>1, Parity
    <2> QED
      BY <2>8, <2>9
  <1> QED
    BY Invariance, <1>1, PTL

-----------------------------------------------------------------------------
(* While no copy has arrived, the two sides share one history.             *)

(* A side's chains are at the positions its counters say, every cached key *)
(* is at its place, and the key pair in a header names one chain.          *)
Placed(s) ==
    /\ s.ckr # NoChain => s.dhr # NoDh /\ s.ckr.i = s.nr
    /\ s.cks # NoChain => s.cks.i = s.ns
    /\ \A k \in 1 .. Len(s.skipped) :
        LET e == s.skipped[k] IN
        /\ e.n = e.mk.i /\ e.dh[3] <= s.dhr[3]
        /\ e.dh = s.dhr => e.mk.root = s.ckr.root
    /\ \A j, k \in 1 .. Len(s.skipped) :
        s.skipped[j].dh = s.skipped[k].dh => s.skipped[j].mk.root = s.skipped[k].mk.root

(* t is one DH step ahead of s: its root key comes from s's, its receiving *)
(* chain is s's sending chain, and s has not seen its key pair yet.        *)
Leads(t, s) ==
    /\ t.rk = KdfRk(s.rk, DH(s.dhs, t.dhs)) /\ t.dhr = s.dhs
    /\ t.cks # NoChain
    /\ s.cks # NoChain => t.ckr # NoChain
    /\ t.ckr # NoChain => t.ckr.root = s.rk
    /\ s.dhr # NoDh => s.dhr[3] < t.dhs[3]

(* How many messages t has sent on the chain that s receives on.           *)
Total(s, t) == IF Len(t.rk) > Len(s.rk) THEN t.pn ELSE t.ns

(* Where the key of a message to s is: in the cache, ahead on the          *)
(* receiving chain, or on the chain the next DH step gives.                *)
Stored(m, s) ==
    \E k \in 1 .. Len(s.skipped) :
        s.skipped[k].dh = m.dh /\ s.skipped[k].n = m.n /\ s.skipped[k].mk = m.mk
Expected(m, s, total) ==
    /\ s.ckr # NoChain /\ m.dh = s.dhr /\ m.mk.root = s.ckr.root
    /\ m.mk.i = m.n /\ s.nr <= m.n /\ m.n < total
OnPath(m, s, total) == Stored(m, s) \/ Expected(m, s, total)
Upcoming(m, s, t) ==
    /\ Len(t.rk) > Len(s.rk) /\ m.dh = t.dhs /\ m.mk.root = t.rk
    /\ m.mk.i = m.n /\ m.n < t.ns /\ m.pn = t.pn
Fits(m, s, t) == OnPath(m, s, Total(s, t)) \/ Upcoming(m, s, t)

(* s has taken no more from its receiving chain than t has put on it.      *)
InStep(s, t) == s.ckr # NoChain => s.nr <= Total(s, t)
Paired(s, t) ==
    /\ Placed(s) /\ Placed(t) /\ (Leads(s, t) \/ Leads(t, s))
    /\ InStep(s, t) /\ InStep(t, s)

(* Different messages are sealed with different keys.                      *)
KeysApart == \A m, k \in net : m.mk = k.mk => m = k

SharedHistory ==
    dups = 0 =>
        /\ \A p \in Parties : st[p].dhs = <<p, "dh", drawn[p]>>
        /\ \A p \in Parties : Paired(st[p], st[Other(p)])
        /\ \A m \in net : Fits(m, st[m.to], st[Other(m.to)])

(* What decrypt may do to a session without a DH step: m's key may go, the *)
(* rest stays where it can be found.                                       *)
Kept(s, u, total, m) ==
    /\ Placed(u) /\ SameSending(s, u) /\ u.dhr = s.dhr
    /\ (u.ckr = NoChain <=> s.ckr = NoChain) /\ u.ckr.root = s.ckr.root
    /\ u.ckr # NoChain => u.nr <= total
    /\ \A k \in Headers : k.mk # m.mk /\ OnPath(k, s, total) => OnPath(k, u, total)

LEMMA HeaderFields ==
    ASSUME NEW m \in Headers
    PROVE  /\ m.to \in Parties /\ m.pt \in Nat /\ m.dh \in Keys /\ m.pn \in Nat /\ m.n \in Nat
           /\ m.mk \in ChainKeys /\ m.mk.i \in Nat /\ m.mk.root \in Seq(Outputs)
           /\ Len(m.mk.root) \in Nat
  <1>1. m.to \in Parties /\ m.pt \in Nat /\ m.dh \in Keys /\ m.pn \in Nat /\ m.n \in Nat /\ m.mk \in ChainKeys
    BY DEF Headers
  <1> QED
    BY <1>1 DEF ChainKeys

LEMMA EntryFields ==
    ASSUME NEW s \in States, NEW k \in 1 .. Len(s.skipped)
    PROVE  /\ s.skipped[k].dh \in Keys /\ s.skipped[k].dh[3] \in Nat /\ s.skipped[k].n \in Nat
           /\ s.skipped[k].mk \in ChainKeys /\ s.skipped[k].mk.i \in Nat
  <1>1. s.skipped[k] \in Entries /\ s.skipped[k].mk.i \in Nat
    BY StateFields
  <1> QED
    BY <1>1 DEF Entries, Keys

LEMMA KeyGiven == \A k \in Keys : k # NoDh
  <1> TAKE k \in Keys
  <1>1. PICK a \in Parties, b \in Kinds, c \in Nat : k = <<a, b, c>>
    BY DEF Keys
  <1>2. Len(<<a, b, c>>) = 3 /\ Len(<< >>) = 0
    OBVIOUS
  <1> QED
    BY <1>1, <1>2 DEF NoDh

LEMMA SameChainKey ==
    ASSUME NEW a \in ChainKeys, NEW b \in ChainKeys, a.root = b.root, a.i = b.i
    PROVE  a = b
  BY DEF ChainKeys

(* skip_message_keys moves keys from the chain to the cache.               *)
LEMMA SkipPlaced ==
    ASSUME NEW s, NEW p \in Parties, Sane(s, p), Placed(s), NEW until \in Nat,
           ~TooManySkipped(s, until), s.ckr # NoChain, s.nr <= until
    PROVE  LET u == SkipMessageKeys(s, until) IN
           /\ u \in States /\ Placed(u) /\ u.nr = until /\ u.ckr # NoChain
           /\ \A k \in Headers : Stored(k, s) => Stored(k, u)
           /\ \A k \in Headers, total \in Nat : Expected(k, s, total) =>
                IF k.n < until THEN Stored(k, u) ELSE Expected(k, u, total)
  <1> DEFINE u == SkipMessageKeys(s, until)
             g == Gap(s, until)
             q == s.skipped
             d == u.skipped
             l == Len(q)
  <1>1. /\ s \in States /\ s.dhr # NoDh /\ s.dhr \in Keys /\ s.nr \in Nat /\ s.ckr.i = s.nr
        /\ l \in Nat /\ s.dhr[3] \in Nat /\ s.ckr \in ChainKeys
    <2>1. s \in States /\ s.dhr # NoDh /\ s.ckr.i = s.nr
      BY DEF Sane, Placed
    <2>2. s.dhr \in Keys /\ s.nr \in Nat /\ l \in Nat /\ s.ckr \in ChainKeys
      BY <2>1, StateFields
    <2> QED
      BY <2>1, <2>2 DEF Keys
  <1>2. g \in Nat /\ SkippedOver(s, u, g)
    BY <1>1, SkipShape
  <1>3. s.nr + g = until
    BY <1>1 DEF Gap
  <1> HIDE DEF u, g
  <1>4. /\ u \in States /\ SameSending(s, u) /\ u.dhr = s.dhr /\ u.nr = until
        /\ u.ckr # NoChain /\ u.ckr.root = s.ckr.root /\ u.ckr.i = until /\ Len(d) = l + g
        /\ \A k \in 1 .. l : d[k] = q[k]
    BY <1>1, <1>2, <1>3 DEF SkippedOver
  <1>5. \A k \in 1 .. g : /\ d[l + k].dh = s.dhr /\ d[l + k].n = s.nr + k - 1
                          /\ d[l + k].mk.root = s.ckr.root /\ d[l + k].mk.i = s.nr + k - 1
    BY <1>1, <1>2 DEF SkippedOver
  <1>6. \A k \in 1 .. Len(d) : \/ k \in 1 .. l /\ d[k] = q[k]
                               \/ k - l \in 1 .. g /\ d[k].dh = s.dhr /\ d[k].n = d[k].mk.i
                                  /\ d[k].mk.root = s.ckr.root
    <2> TAKE k \in 1 .. Len(d)
    <2>1. CASE k <= l
      <3>1. k \in 1 .. l
        BY <1>1, <2>1
      <3> QED
        BY <1>4, <3>1
    <2>2. CASE ~(k <= l)
      <3>1. k - l \in 1 .. g /\ l + (k - l) = k
        BY <1>1, <1>2, <1>4, <2>2
      <3>2. /\ d[l + (k - l)].dh = s.dhr /\ d[l + (k - l)].n = d[l + (k - l)].mk.i
            /\ d[l + (k - l)].mk.root = s.ckr.root
        BY <1>5, <3>1
      <3> QED
        BY <3>1, <3>2
    <2> QED
      BY <2>1, <2>2
  <1>7. /\ \A k \in 1 .. l : q[k].n = q[k].mk.i /\ q[k].dh[3] <= s.dhr[3]
                             /\ (q[k].dh = s.dhr => q[k].mk.root = s.ckr.root)
        /\ \A j, k \in 1 .. l : q[j].dh = q[k].dh => q[j].mk.root = q[k].mk.root
        /\ s.cks # NoChain => s.cks.i = s.ns
    BY DEF Placed
  <1>8. Placed(u)
    <2>1. u.cks # NoChain => u.cks.i = u.ns
      BY <1>4, <1>7 DEF SameSending
    <2>2. \A k \in 1 .. Len(d) : d[k].n = d[k].mk.i /\ d[k].dh[3] <= s.dhr[3]
                                 /\ (d[k].dh = s.dhr => d[k].mk.root = s.ckr.root)
      <3>1. s.dhr[3] <= s.dhr[3]
        BY <1>1
      <3> QED
        BY <1>6, <1>7, <3>1
    <2>3. \A j, k \in 1 .. Len(d) : d[j].dh = d[k].dh => d[j].mk.root = d[k].mk.root
      <3> SUFFICES ASSUME NEW j \in 1 .. Len(d), NEW k \in 1 .. Len(d), d[j].dh = d[k].dh
                   PROVE  d[j].mk.root = d[k].mk.root
        OBVIOUS
      <3>1. CASE d[j].dh = s.dhr
        BY <2>2, <3>1
      <3>2. CASE d[j].dh # s.dhr
        BY <1>6, <1>7, <3>2
      <3> QED
        BY <3>1, <3>2
    <2> QED
      BY <1>1, <1>4, <2>1, <2>2, <2>3 DEF Placed
  <1>9. \A k \in Headers : Stored(k, s) => Stored(k, u)
    <2> SUFFICES ASSUME NEW k \in Headers, NEW j \in 1 .. l, q[j].dh = k.dh, q[j].n = k.n, q[j].mk = k.mk
                 PROVE  Stored(k, u)
      BY DEF Stored
    <2>1. j \in 1 .. Len(d) /\ d[j] = q[j]
      BY <1>1, <1>2, <1>4
    <2> QED
      BY <2>1 DEF Stored
  <1>10. ASSUME NEW k \in Headers, NEW total \in Nat, Expected(k, s, total), k.n < until
         PROVE  Stored(k, u)
    <2>1. k.n \in Nat /\ k.mk \in ChainKeys
      BY HeaderFields
    <2>2. k.dh = s.dhr /\ k.mk.root = s.ckr.root /\ k.mk.i = k.n /\ s.nr <= k.n
      BY <1>10 DEF Expected
    <2>3. PICK x \in 1 .. g : s.nr + x - 1 = k.n
      <3>1. k.n - s.nr + 1 \in 1 .. g /\ s.nr + (k.n - s.nr + 1) - 1 = k.n
        BY <1>1, <1>2, <1>3, <1>10, <2>1, <2>2
      <3> QED
        BY <3>1
    <2>4. l + x \in 1 .. Len(d)
      BY <1>1, <1>2, <1>4
    <2>5. d[l + x].dh = k.dh /\ d[l + x].n = k.n /\ d[l + x].mk.root = k.mk.root /\ d[l + x].mk.i = k.mk.i
      BY <1>5, <2>2, <2>3
    <2>6. d[l + x].mk \in ChainKeys
      BY <1>4, <2>4, EntryFields
    <2>7. d[l + x].mk = k.mk
      BY <2>1, <2>5, <2>6, SameChainKey
    <2> QED
      BY <2>4, <2>5, <2>7 DEF Stored
  <1>11. ASSUME NEW k \in Headers, NEW total \in Nat, Expected(k, s, total), ~(k.n < until)
         PROVE  Expected(k, u, total)
    <2>1. k.n \in Nat
      BY HeaderFields
    <2>2. until <= k.n
      BY <1>11, <2>1
    <2> QED
      BY <1>4, <1>11, <2>2 DEF Expected
  <1> QED
    BY <1>4, <1>8, <1>9, <1>10, <1>11 DEF u

(* kdf_ck uses up one position of the chain.                               *)
LEMMA TakePlaced ==
    ASSUME NEW u \in States, Placed(u), u.ckr # NoChain
    PROVE  LET t == [u EXCEPT !.ckr = KdfCk(@), !.nr = @ + 1] IN
           /\ Placed(t) /\ SameSending(u, t) /\ t.dhr = u.dhr /\ t.nr = u.nr + 1
           /\ t.ckr # NoChain /\ t.ckr.root = u.ckr.root
           /\ \A k \in Headers : Stored(k, u) => Stored(k, t)
           /\ \A k \in Headers, total \in Nat : k.mk # u.ckr /\ Expected(k, u, total) => Expected(k, t, total)
  <1> DEFINE c == KdfCk(u.ckr)
             t == [u EXCEPT !.ckr = c, !.nr = @ + 1]
  <1>1. u.ckr \in ChainKeys /\ u.nr \in Nat /\ u.ckr.i \in Nat /\ u.ckr.i = u.nr /\ u.dhr # NoDh
    BY StateFields DEF Placed
  <1>2. c \in ChainKeys /\ c.root = u.ckr.root /\ c.i = u.ckr.i + 1 /\ c # NoChain
    BY <1>1, ChainMade
  <1>3. t = [u EXCEPT !.ckr = KdfCk(@), !.nr = @ + 1]
    OBVIOUS
  <1> HIDE DEF c
  <1>4. /\ t.ckr = c /\ t.nr = u.nr + 1 /\ t.dhr = u.dhr /\ t.skipped = u.skipped
        /\ t.rk = u.rk /\ t.cks = u.cks /\ t.dhs = u.dhs /\ t.ns = u.ns /\ t.pn = u.pn
    BY DEF States
  <1> HIDE DEF t
  <1>5. Placed(t)
    <2>1. t.ckr # NoChain => t.dhr # NoDh /\ t.ckr.i = t.nr
      BY <1>1, <1>2, <1>4
    <2> QED
      BY <1>2, <1>4, <2>1 DEF Placed
  <1>6. \A k \in Headers : Stored(k, u) => Stored(k, t)
    BY <1>4 DEF Stored
  <1>7. ASSUME NEW k \in Headers, NEW total \in Nat, k.mk # u.ckr, Expected(k, u, total)
        PROVE  Expected(k, t, total)
    <2>1. k.n \in Nat /\ k.mk \in ChainKeys /\ k.mk.i = k.n /\ k.mk.root = u.ckr.root /\ u.nr <= k.n
      BY <1>7, HeaderFields DEF Expected
    <2>2. k.mk.i # u.ckr.i
      BY <1>1, <1>7, <2>1, SameChainKey
    <2>3. u.nr + 1 <= k.n
      BY <1>1, <2>1, <2>2
    <2> QED
      BY <1>2, <1>4, <1>7, <2>3 DEF Expected
  <1> QED
    BY <1>2, <1>3, <1>4, <1>5, <1>6, <1>7 DEF SameSending

(* The end of decrypt on a message ahead on the receiving chain: it opens, *)
(* or the skip limit refuses it, and nothing else is lost.                 *)
LEMMA OpenFits ==
    ASSUME NEW s, NEW p \in Parties, Sane(s, p), Placed(s), NEW m \in Headers, NEW total \in Nat,
           Expected(m, s, total)
    PROVE  LET r == OpenOnChain(s, m) IN
           r.err \in {"ok", "TooManySkipped"} /\ Kept(s, r.st, total, m)
  <1> DEFINE r == OpenOnChain(s, m)
             u == SkipMessageKeys(s, m.n)
             t == [u EXCEPT !.ckr = KdfCk(@), !.nr = @ + 1]
  <1>1. /\ m.n \in Nat /\ m.mk \in ChainKeys /\ s.nr \in Nat /\ s.ckr # NoChain /\ s.nr <= m.n
        /\ m.n < total /\ m.mk.root = s.ckr.root /\ m.mk.i = m.n
    BY HeaderFields, StateFields DEF Expected, Sane
  <1>2. CASE TooManySkipped(s, m.n)
    <2>1. r = Result(s, "TooManySkipped")
      BY <1>2 DEF OpenOnChain
    <2>2. r.st = s /\ r.err = "TooManySkipped"
      BY <2>1 DEF Result
    <2> HIDE DEF r
    <2>3. s.nr <= total
      BY <1>1
    <2>4. Kept(s, s, total, m)
      BY <2>3 DEF Kept, SameSending
    <2> QED
      BY <2>2, <2>4 DEF r
  <1>3. CASE ~TooManySkipped(s, m.n)
    <2>1. /\ u \in States /\ Placed(u) /\ u.nr = m.n /\ u.ckr # NoChain
          /\ \A k \in Headers : Stored(k, s) => Stored(k, u)
          /\ \A k \in Headers : Expected(k, s, total) =>
                IF k.n < m.n THEN Stored(k, u) ELSE Expected(k, u, total)
      BY <1>1, <1>3, SkipPlaced
    <2>2. SameSending(s, u) /\ u.dhr = s.dhr /\ u.ckr.root = s.ckr.root
      BY <1>1, <1>3, SkipSane
    <2>3. r = Result(t, IF AeadOpens(u.ckr, m) THEN "ok" ELSE "BadAead")
      BY <1>3, <2>1 DEF OpenOnChain
    <2> HIDE DEF u
    <2>4. m.mk = u.ckr
      <3>1. u.ckr \in ChainKeys /\ u.ckr.i = m.n
        BY <2>1, StateFields DEF Placed
      <3> QED
        BY <1>1, <2>2, <3>1, SameChainKey
    <2>5. r.st = t /\ r.err = "ok"
      BY <2>3, <2>4 DEF Result, AeadOpens
    <2>6. /\ Placed(t) /\ SameSending(u, t) /\ t.dhr = u.dhr /\ t.nr = u.nr + 1
          /\ t.ckr # NoChain /\ t.ckr.root = u.ckr.root
          /\ \A k \in Headers : Stored(k, u) => Stored(k, t)
          /\ \A k \in Headers : k.mk # u.ckr /\ Expected(k, u, total) => Expected(k, t, total)
      BY <2>1, TakePlaced
    <2> HIDE DEF t, r
    <2>7. t.nr <= total
      BY <1>1, <2>1, <2>6
    <2>8. \A k \in Headers : k.mk # m.mk /\ OnPath(k, s, total) => OnPath(k, t, total)
      BY <2>1, <2>4, <2>6 DEF OnPath
    <2>9. SameSending(s, t)
      BY <2>2, <2>6 DEF SameSending
    <2>10. Kept(s, t, total, m)
      BY <1>1, <2>2, <2>6, <2>7, <2>8, <2>9 DEF Kept
    <2> QED
      BY <2>5, <2>10 DEF r
  <1> QED
    BY <1>2, <1>3

(* try_skipped finds the one entry there is for a cached message.          *)
LEMMA HitFits ==
    ASSUME NEW s, NEW p \in Parties, Sane(s, p), Placed(s), NEW m \in Headers, NEW total \in Nat,
           s.ckr # NoChain => s.nr <= total, Stored(m, s), NEW fresh
    PROVE  LET r == Decrypt(s, m, fresh) IN r.err = "ok" /\ Kept(s, r.st, total, m)
  <1> DEFINE r == Decrypt(s, m, fresh)
             q == s.skipped
             H == SkippedHits(s, m)
  <1>1. PICK x \in 1 .. Len(q) : q[x].dh = m.dh /\ q[x].n = m.n /\ q[x].mk = m.mk
    BY DEF Stored
  <1>2. s \in States /\ q \in Seq(Entries) /\ Len(q) \in Nat /\ DOMAIN q = 1 .. Len(q)
    BY StateFields DEF Sane
  <1>3. H = {x}
    <2>1. x \in H
      BY <1>1, <1>2 DEF SkippedHits
    <2>2. ASSUME NEW y \in H PROVE y = x
      <3>1. y \in 1 .. Len(q) /\ q[y].dh = q[x].dh /\ q[y].n = q[x].n
        BY <1>1, <1>2, <2>2 DEF SkippedHits
      <3>2. q[y].mk.root = q[x].mk.root /\ q[y].mk.i = q[x].mk.i
        BY <3>1 DEF Placed
      <3>3. q[y].mk \in ChainKeys /\ q[x].mk \in ChainKeys
        BY <1>2, <3>1, EntryFields
      <3>4. q[y].mk = q[x].mk
        BY <3>2, <3>3, SameChainKey
      <3> QED
        BY <3>1, <3>4 DEF Sane, CacheDistinct
    <2> QED
      BY <2>1, <2>2
  <1>4. FirstHit(s, m) = x
    <2>1. H \in SUBSET Nat /\ H # {}
      BY <1>2, <1>3
    <2> HIDE DEF H
    <2>2. (CHOOSE i \in H : \A j \in H : i <= j) \in H
      BY <2>1, Smallest, Zenon
    <2>3. FirstHit(s, m) \in H
      BY <2>2 DEF FirstHit, H
    <2> QED
      BY <1>3, <2>3
  <1> DEFINE d == SubSeq(q, 1, x - 1) \o SubSeq(q, x + 1, Len(q))
             t == WithoutSkipped(s, x)
  <1>5. r = Result(t, "ok")
    BY <1>1, <1>3, <1>4 DEF Decrypt, AeadOpens
  <1>6. SameSending(s, t) /\ t.dhr = s.dhr /\ t.ckr = s.ckr /\ t.nr = s.nr
    BY WithoutSane
  <1>7. /\ Len(d) = Len(q) - 1
        /\ \A j \in 1 .. Len(q) - 1 : d[j] = IF j < x THEN q[j] ELSE q[j + 1]
    BY <1>2, DropOne
  <1>8. t.skipped = d
    BY <1>2 DEF WithoutSkipped, States
  <1> HIDE DEF d, t
  <1>9. \A j \in 1 .. Len(d) : \E i \in 1 .. Len(q) : d[j] = q[i]
    <2> TAKE j \in 1 .. Len(d)
    <2>1. j \in 1 .. Len(q) /\ j + 1 \in 1 .. Len(q) /\ (d[j] = q[j] \/ d[j] = q[j + 1])
      BY <1>2, <1>7
    <2> QED
      BY <2>1
  <1>10. \A i \in 1 .. Len(q) : i # x => \E j \in 1 .. Len(d) : d[j] = q[i]
    <2> SUFFICES ASSUME NEW i \in 1 .. Len(q), i # x
                 PROVE  \E j \in 1 .. Len(d) : d[j] = q[i]
      OBVIOUS
    <2>1. CASE i < x
      <3>1. i \in 1 .. Len(d) /\ d[i] = q[i]
        BY <1>2, <1>7, <2>1
      <3> QED
        BY <3>1
    <2>2. CASE ~(i < x)
      <3>1. i - 1 \in 1 .. Len(d) /\ ~(i - 1 < x) /\ (i - 1) + 1 = i
        BY <1>2, <1>7, <2>2
      <3>2. d[i - 1] = q[i]
        BY <1>7, <3>1
      <3> QED
        BY <3>1, <3>2
    <2> QED
      BY <2>1, <2>2
  <1>11. Placed(t)
    <2>1. /\ \A k \in 1 .. Len(q) : q[k].n = q[k].mk.i /\ q[k].dh[3] <= s.dhr[3]
                             /\ (q[k].dh = s.dhr => q[k].mk.root = s.ckr.root)
          /\ \A j, k \in 1 .. Len(q) : q[j].dh = q[k].dh => q[j].mk.root = q[k].mk.root
      BY DEF Placed
    <2>2. \A k \in 1 .. Len(d) : d[k].n = d[k].mk.i /\ d[k].dh[3] <= s.dhr[3]
                             /\ (d[k].dh = s.dhr => d[k].mk.root = s.ckr.root)
      BY <1>9, <2>1
    <2>3. ASSUME NEW j \in 1 .. Len(d), NEW k \in 1 .. Len(d), d[j].dh = d[k].dh
          PROVE  d[j].mk.root = d[k].mk.root
      <3>1. PICK a \in 1 .. Len(q) : d[j] = q[a]
        BY <1>9
      <3>2. PICK b \in 1 .. Len(q) : d[k] = q[b]
        BY <1>9
      <3> QED
        BY <2>1, <2>3, <3>1, <3>2
    <2>4. /\ t.ckr # NoChain => t.dhr # NoDh /\ t.ckr.i = t.nr
          /\ t.cks # NoChain => t.cks.i = t.ns
      BY <1>6 DEF Placed, SameSending
    <2> QED
      BY <1>6, <1>8, <2>2, <2>3, <2>4 DEF Placed
  <1>12. \A k \in Headers : k.mk # m.mk /\ Stored(k, s) => Stored(k, t)
    <2> SUFFICES ASSUME NEW k \in Headers, k.mk # m.mk,
                        NEW i \in 1 .. Len(q), q[i].dh = k.dh, q[i].n = k.n, q[i].mk = k.mk
                 PROVE  Stored(k, t)
      BY DEF Stored
    <2>1. i # x
      BY <1>1
    <2> QED
      BY <1>8, <1>10, <2>1 DEF Stored
  <1>13. \A k \in Headers : Expected(k, s, total) => Expected(k, t, total)
    BY <1>6 DEF Expected
  <1>14. Kept(s, t, total, m)
    BY <1>6, <1>11, <1>12, <1>13 DEF Kept, OnPath
  <1> QED
    BY <1>5, <1>14 DEF Result

(* No cached key is for a message still ahead.                             *)
LEMMA NoHitAhead ==
    ASSUME NEW s, NEW p \in Parties, Sane(s, p), Placed(s), NEW m \in Headers, NEW total \in Nat,
           Expected(m, s, total)
    PROVE  SkippedHits(s, m) = {}
  <1> SUFFICES ASSUME NEW k \in SkippedHits(s, m) PROVE FALSE
    OBVIOUS
  <1>1. s \in States /\ k \in 1 .. Len(s.skipped) /\ s.skipped[k].dh = m.dh /\ s.skipped[k].n = m.n
    <2>1. s \in States /\ s.skipped \in Seq(Entries) /\ DOMAIN s.skipped = 1 .. Len(s.skipped)
      BY StateFields DEF Sane
    <2> QED
      BY <2>1 DEF SkippedHits
  <1>2. /\ s.ckr # NoChain /\ m.dh = s.dhr /\ s.nr <= m.n /\ m.n \in Nat /\ s.nr \in Nat
        /\ s.ckr.i = s.nr
    BY <1>1, HeaderFields, StateFields DEF Expected, Placed
  <1>3. s.skipped[k].mk.root = s.ckr.root /\ s.skipped[k].mk.i = m.n
    BY <1>1, <1>2 DEF Placed
  <1>4. s.skipped[k].mk.i < s.ckr.i
    BY <1>1, <1>3 DEF Sane, CacheBehind
  <1> QED
    BY <1>2, <1>3, <1>4

(* What decrypt leaves of a pair of sessions when m comes to s.            *)
Outcome(s, t, u, m, fresh) ==
    /\ Paired(u, t) /\ u.dhs \in {s.dhs, fresh}
    /\ \A k \in Headers : k.mk # m.mk /\ Fits(k, s, t) => Fits(k, u, t)
    /\ \A k \in Headers : Fits(k, t, s) => Fits(k, t, u)

LEMMA LeadsBy ==
    ASSUME NEW s \in States, NEW t \in States, Leads(t, s)
    PROVE  Len(t.rk) = Len(s.rk) + 1 /\ Len(s.rk) \in Nat /\ Len(t.rk) \in Nat
  <1>1. s.rk \in Seq(Outputs) /\ s.dhs \in Keys /\ t.dhs \in Keys /\ Len(s.rk) \in Nat /\ Len(t.rk) \in Nat
    BY StateFields
  <1>2. Len(KdfRk(s.rk, DH(s.dhs, t.dhs))) = Len(s.rk) + 1
    BY <1>1, RootMade
  <1> QED
    BY <1>1, <1>2 DEF Leads

LEMMA PairedTurned ==
    ASSUME NEW s, NEW t, Paired(s, t)
    PROVE  Paired(t, s)
  BY DEF Paired

LEMMA TotalTyped ==
    ASSUME NEW s, NEW t \in States
    PROVE  Total(s, t) \in Nat
  BY StateFields DEF Total

(* Without a DH step the pair stays in step.                               *)
LEMMA KeptPaired ==
    ASSUME NEW s \in States, NEW t \in States, NEW u \in States, NEW m \in Headers, NEW fresh,
           Paired(s, t), Kept(s, u, Total(s, t), m)
    PROVE  Outcome(s, t, u, m, fresh)
  <1>1. /\ Placed(u) /\ SameSending(s, u) /\ u.dhr = s.dhr
        /\ (u.ckr = NoChain <=> s.ckr = NoChain) /\ u.ckr.root = s.ckr.root
        /\ u.ckr # NoChain => u.nr <= Total(s, t)
        /\ \A k \in Headers : k.mk # m.mk /\ OnPath(k, s, Total(s, t)) => OnPath(k, u, Total(s, t))
    BY DEF Kept
  <1>2. u.rk = s.rk /\ u.cks = s.cks /\ u.dhs = s.dhs /\ u.ns = s.ns /\ u.pn = s.pn
    BY <1>1 DEF SameSending
  <1>3. Total(u, t) = Total(s, t) /\ Total(t, u) = Total(t, s)
    BY <1>2 DEF Total
  <1>4. Leads(u, t) \/ Leads(t, u)
    <2>1. CASE Leads(s, t)
      BY <1>1, <1>2, <2>1 DEF Leads
    <2>2. CASE Leads(t, s)
      BY <1>1, <1>2, <2>2 DEF Leads
    <2> QED
      BY <2>1, <2>2 DEF Paired
  <1>5. Paired(u, t)
    BY <1>1, <1>3, <1>4 DEF Paired, InStep
  <1>6. \A k \in Headers : k.mk # m.mk /\ Fits(k, s, t) => Fits(k, u, t)
    BY <1>1, <1>2, <1>3 DEF Fits, Upcoming
  <1>7. \A k \in Headers : Fits(k, t, s) => Fits(k, t, u)
    BY <1>2, <1>3 DEF Fits, Upcoming
  <1> QED
    BY <1>2, <1>5, <1>6, <1>7 DEF Outcome

(* dh_ratchet_step, after skip_message_keys to the end of the old chain:   *)
(* s is now one step ahead of t, on the chain t sends on.                  *)
LEMMA StepPaired ==
    ASSUME NEW s, NEW t, NEW p \in Parties, Sane(s, p), Sane(t, Other(p)), Paired(s, t), Leads(t, s),
           NEW fresh \in Keys, s.dhs[3] < fresh[3], ~TooManySkipped(s, t.pn)
    PROVE  LET v == DhRatchetStep(SkipMessageKeys(s, t.pn), t.dhs, fresh) IN
           /\ Sane(v, p) /\ Placed(v) /\ Leads(v, t) /\ v.nr = 0 /\ v.pn = s.ns /\ v.ckr # NoChain
           /\ v.dhs = fresh /\ v.dhr = t.dhs /\ v.ckr.root = t.rk
           /\ \A k \in Headers : OnPath(k, s, t.pn) => Stored(k, v)
  <1> DEFINE w == SkipMessageKeys(s, t.pn)
             v == DhRatchetStep(w, t.dhs, fresh)
             rk1 == KdfRk(w.rk, DH(w.dhs, t.dhs))
             rk2 == KdfRk(rk1, DH(fresh, t.dhs))
  <1>1. s \in States /\ t \in States /\ t.pn \in Nat /\ t.dhs \in Keys /\ t.rk \in Seq(Outputs)
        /\ s.skipped \in Seq(Entries) /\ Len(s.skipped) \in Nat
    BY StateFields DEF Sane
  <1>2. Sane(w, p) /\ SameSending(s, w) /\ w.dhr = s.dhr /\ (w.ckr = NoChain <=> s.ckr = NoChain)
    BY <1>1, SkipSane
  <1>3. Len(t.rk) = Len(s.rk) + 1 /\ Len(s.rk) \in Nat
    BY <1>1, LeadsBy
  <1>4. Total(s, t) = t.pn
    BY <1>3 DEF Total
  <1>5. Placed(s)
    BY DEF Paired
  <1>6. /\ Placed(w)
        /\ \A k \in Headers : OnPath(k, s, t.pn) => Stored(k, w)
    <2>1. CASE s.ckr = NoChain
      <3>1. w = s
        BY <2>1 DEF SkipMessageKeys
      <3>2. \A k \in Headers : ~Expected(k, s, t.pn)
        BY <2>1 DEF Expected
      <3> QED
        BY <1>5, <3>1, <3>2 DEF OnPath
    <2>2. CASE s.ckr # NoChain
      <3>1. s.nr <= t.pn
        BY <1>4, <2>2 DEF Paired, InStep
      <3>2. /\ Placed(w)
            /\ \A k \in Headers : Stored(k, s) => Stored(k, w)
            /\ \A k \in Headers : Expected(k, s, t.pn) =>
                 IF k.n < t.pn THEN Stored(k, w) ELSE Expected(k, w, t.pn)
        BY <1>1, <1>5, <2>2, <3>1, SkipPlaced
      <3> HIDE DEF w
      <3> QED
        BY <3>2 DEF OnPath, Expected
    <2> QED
      BY <2>1, <2>2
  <1> HIDE DEF w
  <1>7. /\ Sane(v, p) /\ v.cks = ChainOf(v.rk) /\ v.ns = 0 /\ v.pn = w.ns /\ v.dhs = fresh
        /\ v.ckr # NoChain /\ v.dhr = t.dhs /\ v.nr = 0
    BY <1>1, <1>2, DhStepSane
  <1>8. w.rk = s.rk /\ w.dhs = s.dhs /\ w.ns = s.ns /\ w \in States
    BY <1>2 DEF SameSending, Sane
  <1>9. rk1 = t.rk
    BY <1>8 DEF Leads
  <1>10. v.ckr = ChainOf(rk1) /\ v.rk = rk2 /\ v.skipped = w.skipped
    <2> HIDE DEF rk1, rk2
    <2>1. v = [w EXCEPT !.pn = w.ns, !.ns = 0, !.nr = 0, !.dhr = t.dhs,
                        !.ckr = ChainOf(rk1), !.dhs = fresh, !.rk = rk2, !.cks = ChainOf(rk2)]
      BY DEF DhRatchetStep, rk1, rk2
    <2> HIDE DEF v
    <2> QED
      BY <1>8, <2>1 DEF States
  <1>11. v.ckr.root = t.rk /\ v.ckr.i = 0
    <2>1. ChainOf(t.rk).root = t.rk /\ ChainOf(t.rk).i = 0
      BY <1>1, ChainMade
    <2> QED
      BY <1>9, <1>10, <2>1
  <1>12. v.rk = KdfRk(t.rk, DH(t.dhs, v.dhs))
    <2>1. DH(fresh, t.dhs) = DH(t.dhs, fresh)
      BY DEF DH
    <2> QED
      BY <1>7, <1>9, <1>10, <2>1
  <1> HIDE DEF v
  <1>13. v.cks # NoChain /\ v.cks.i = 0
    <2>1. v.rk \in Seq(Outputs) /\ Len(v.rk) >= 1
      BY <1>7, StateFields DEF Sane, Rooted
    <2> QED
      BY <1>7, <2>1, ChainMade
  <1>14. Leads(v, t)
    <2>1. t.dhr = s.dhs
      BY DEF Leads
    <2> QED
      BY <1>7, <1>11, <1>12, <1>13, <2>1 DEF Leads
  <1>15. ASSUME NEW k \in 1 .. Len(w.skipped)
         PROVE  w.skipped[k].dh[3] <= t.dhs[3] /\ w.skipped[k].dh # t.dhs
    <2>1. w.ckr # NoChain
      BY <1>2 DEF Sane, CacheBehind
    <2>2. w.dhr # NoDh /\ w.skipped[k].dh[3] <= w.dhr[3]
      BY <1>6, <2>1 DEF Placed
    <2>3. w.dhr \in Keys /\ w.dhr[3] \in Nat /\ t.dhs[3] \in Nat
      <3>1. w.dhr \in Keys
        BY <1>8, <2>2, StateFields
      <3> QED
        BY <1>1, <3>1 DEF Keys
    <2>4. w.dhr[3] < t.dhs[3]
      BY <1>2, <2>2 DEF Leads
    <2>5. w.skipped[k].dh[3] \in Nat
      BY <1>8, EntryFields
    <2>6. w.skipped[k].dh[3] < t.dhs[3]
      BY <2>2, <2>3, <2>4, <2>5
    <2> QED
      BY <2>3, <2>5, <2>6
  <1>16. Placed(v)
    <2>1. /\ v.ckr # NoChain => v.dhr # NoDh /\ v.ckr.i = v.nr
          /\ v.cks # NoChain => v.cks.i = v.ns
      <3>1. t.dhs # NoDh
        BY <1>1, KeyGiven
      <3> QED
        BY <1>7, <1>11, <1>13, <3>1
    <2> QED
      BY <1>6, <1>7, <1>10, <1>15, <2>1 DEF Placed
  <1>17. \A k \in Headers : OnPath(k, s, t.pn) => Stored(k, v)
    BY <1>6, <1>10 DEF Stored
  <1> QED
    BY <1>7, <1>8, <1>11, <1>14, <1>16, <1>17 DEF v, w

(* decrypt on a message from t's current sending chain when t is one DH    *)
(* step ahead.                                                             *)
LEMMA StepFits ==
    ASSUME NEW s, NEW t, NEW p \in Parties, Sane(s, p), Sane(t, Other(p)), Paired(s, t),
           NEW fresh \in Keys, s.dhs[3] < fresh[3], NEW m \in Headers, Upcoming(m, s, t)
    PROVE  LET r == Decrypt(s, m, fresh) IN
           r.err \in {"ok", "TooManySkipped"} /\ Outcome(s, t, r.st, m, fresh)
  <1> DEFINE r == Decrypt(s, m, fresh)
             v == DhRatchetStep(SkipMessageKeys(s, m.pn), m.dh, fresh)
  <1>1. /\ s \in States /\ t \in States /\ s.rk \in Seq(Outputs) /\ t.ns \in Nat /\ t.pn \in Nat
        /\ t.dhs \in Keys /\ t.dhs[3] \in Nat /\ s.skipped \in Seq(Entries) /\ Len(s.skipped) \in Nat
    <2>1. s \in States /\ t \in States
      BY DEF Sane
    <2>2. t.dhs \in Keys
      BY <2>1, StateFields
    <2> QED
      BY <2>1, <2>2, StateFields DEF Keys
  <1>2. /\ Len(t.rk) > Len(s.rk) /\ m.dh = t.dhs /\ m.mk.root = t.rk
        /\ m.mk.i = m.n /\ m.n < t.ns /\ m.pn = t.pn
    BY DEF Upcoming
  <1>3. Leads(t, s) /\ Len(t.rk) = Len(s.rk) + 1 /\ Len(s.rk) \in Nat
    <2>1. ~Leads(s, t)
      <3> SUFFICES ASSUME Leads(s, t) PROVE FALSE
        OBVIOUS
      <3>1. Len(s.rk) = Len(t.rk) + 1 /\ Len(t.rk) \in Nat
        BY <1>1, LeadsBy
      <3> QED
        BY <1>2, <3>1
    <2>2. Leads(t, s)
      BY <2>1 DEF Paired
    <2> QED
      BY <1>1, <2>2, LeadsBy
  <1>4. Total(s, t) = t.pn /\ Total(t, s) = s.ns
    <2>1. ~(Len(s.rk) > Len(t.rk))
      BY <1>3
    <2> QED
      BY <1>2, <2>1 DEF Total
  <1>5. s.dhr # m.dh
    <2>1. CASE s.dhr = NoDh
      BY <1>1, <1>2, <2>1, KeyGiven
    <2>2. CASE s.dhr # NoDh
      <3>1. s.dhr[3] < t.dhs[3]
        BY <1>3, <2>2 DEF Leads
      <3> QED
        BY <1>1, <1>2, <3>1
    <2> QED
      BY <2>1, <2>2
  <1>6. SkippedHits(s, m) = {}
    <2> SUFFICES ASSUME NEW k \in 1 .. Len(s.skipped), s.skipped[k].dh = t.dhs PROVE FALSE
      <3>1. DOMAIN s.skipped = 1 .. Len(s.skipped)
        BY <1>1
      <3> QED
        BY <1>2, <3>1 DEF SkippedHits
    <2>1. s.ckr # NoChain
      BY DEF Sane, CacheBehind
    <2>2. s.dhr # NoDh /\ t.dhs[3] <= s.dhr[3]
      BY <2>1 DEF Paired, Placed
    <2>3. s.dhr[3] < t.dhs[3]
      BY <1>3, <2>2 DEF Leads
    <2>4. s.dhr \in Keys
      BY <1>1, <2>2, StateFields
    <2>5. s.dhr[3] \in Nat
      BY <2>4 DEF Keys
    <2> QED
      BY <1>1, <2>2, <2>3, <2>5
  <1>7. CASE TooManySkipped(s, m.pn)
    <2>1. r = Result(s, "TooManySkipped")
      BY <1>5, <1>6, <1>7 DEF Decrypt, ReceiveStep
    <2>2. r.st = s /\ r.err = "TooManySkipped"
      BY <2>1 DEF Result
    <2> HIDE DEF r
    <2>3. Outcome(s, t, s, m, fresh)
      BY DEF Outcome
    <2> QED
      BY <2>2, <2>3 DEF r
  <1>8. CASE ~TooManySkipped(s, m.pn)
    <2>1. r = OpenOnChain(v, m)
      BY <1>5, <1>6, <1>8 DEF Decrypt, ReceiveStep
    <2>2. /\ Sane(v, p) /\ Placed(v) /\ Leads(v, t) /\ v.nr = 0 /\ v.pn = s.ns /\ v.ckr # NoChain
          /\ v.dhs = fresh /\ v.dhr = t.dhs /\ v.ckr.root = t.rk
          /\ \A k \in Headers : OnPath(k, s, t.pn) => Stored(k, v)
      BY <1>2, <1>3, <1>8, StepPaired
    <2> HIDE DEF v, r
    <2>3. v \in States /\ Len(v.rk) = Len(t.rk) + 1 /\ Len(t.rk) \in Nat
      <3>1. v \in States
        BY <2>2 DEF Sane
      <3> QED
        BY <1>1, <2>2, <3>1, LeadsBy
    <2>4. Total(v, t) = t.ns /\ Total(t, v) = s.ns
      <3>1. ~(Len(t.rk) > Len(v.rk)) /\ Len(v.rk) > Len(t.rk)
        BY <2>3
      <3> QED
        BY <2>2, <3>1 DEF Total
    <2>5. \A k \in Headers : Upcoming(k, s, t) => Expected(k, v, t.ns)
      <3> SUFFICES ASSUME NEW k \in Headers, Upcoming(k, s, t)
                   PROVE  Expected(k, v, t.ns)
        OBVIOUS
      <3>1. 0 <= k.n
        BY HeaderFields
      <3> QED
        BY <2>2, <3>1 DEF Upcoming, Expected
    <2>6. r.err \in {"ok", "TooManySkipped"} /\ Kept(v, r.st, t.ns, m)
      <3>1. Expected(m, v, t.ns)
        BY <2>5
      <3> QED
        BY <1>1, <2>1, <2>2, <3>1, OpenFits
    <2>7. r.st \in States
      <3>1. Decrypted(v, p, m, fresh, r)
        BY <2>1, <2>2, OpenSane
      <3> QED
        BY <3>1 DEF Decrypted, Sane
    <2>8. Paired(v, t)
      <3>1. v.ckr # NoChain => v.nr <= Total(v, t)
        BY <1>1, <2>2, <2>4
      <3>2. t.ckr # NoChain => t.nr <= Total(t, v)
        BY <1>4, <2>4 DEF Paired, InStep
      <3> QED
        BY <2>2, <3>1, <3>2 DEF Paired, InStep
    <2>9. Outcome(v, t, r.st, m, fresh)
      BY <1>1, <2>3, <2>4, <2>6, <2>7, <2>8, KeptPaired
    <2>10. \A k \in Headers : Fits(k, s, t) => Fits(k, v, t)
      BY <1>4, <2>2, <2>4, <2>5 DEF Fits, OnPath
    <2>11. \A k \in Headers : Fits(k, t, s) => Fits(k, t, v)
      <3>1. ~(Len(s.rk) > Len(t.rk))
        BY <1>3
      <3> QED
        BY <1>4, <2>4, <3>1 DEF Fits, Upcoming
    <2>12. Outcome(s, t, r.st, m, fresh)
      BY <2>2, <2>9, <2>10, <2>11 DEF Outcome
    <2> QED
      BY <2>6, <2>12 DEF r
  <1> QED
    BY <1>7, <1>8

(* decrypt on a message that fits opens it or refuses it for the limit,    *)
(* and every other message in flight still fits.                           *)
LEMMA DecryptFits ==
    ASSUME NEW s, NEW t, NEW p \in Parties, Sane(s, p), Sane(t, Other(p)), Paired(s, t),
           NEW fresh \in Keys, s.dhs[3] < fresh[3], NEW m \in Headers, Fits(m, s, t)
    PROVE  LET r == Decrypt(s, m, fresh) IN
           r.err \in {"ok", "TooManySkipped"} /\ Outcome(s, t, r.st, m, fresh)
  <1> DEFINE r == Decrypt(s, m, fresh)
  <1>1. s \in States /\ t \in States /\ Placed(s) /\ (s.ckr # NoChain => s.nr <= Total(s, t))
    BY DEF Sane, Paired, InStep
  <1>2. Total(s, t) \in Nat
    BY <1>1, TotalTyped
  <1>3. r.st \in States
    <2>1. Decrypted(s, p, m, fresh, r)
      BY DecryptSane
    <2> QED
      BY <2>1 DEF Decrypted, Sane
  <1>4. CASE Stored(m, s)
    <2>1. r.err = "ok" /\ Kept(s, r.st, Total(s, t), m)
      BY <1>1, <1>2, <1>4, HitFits
    <2> HIDE DEF r
    <2>2. Outcome(s, t, r.st, m, fresh)
      BY <1>1, <1>3, <2>1, KeptPaired
    <2> QED
      BY <2>1, <2>2 DEF r
  <1>5. CASE Expected(m, s, Total(s, t))
    <2>1. SkippedHits(s, m) = {}
      BY <1>1, <1>2, <1>5, NoHitAhead
    <2>2. r = OpenOnChain(s, m)
      BY <1>5, <2>1 DEF Decrypt, ReceiveStep, Expected
    <2>3. r.err \in {"ok", "TooManySkipped"} /\ Kept(s, r.st, Total(s, t), m)
      BY <1>1, <1>2, <1>5, <2>2, OpenFits
    <2> HIDE DEF r
    <2>4. Outcome(s, t, r.st, m, fresh)
      BY <1>1, <1>3, <2>3, KeptPaired
    <2> QED
      BY <2>3, <2>4 DEF r
  <1>6. CASE Upcoming(m, s, t)
    BY <1>6, StepFits
  <1> QED
    BY <1>4, <1>5, <1>6 DEF Fits, OnPath

(* encrypt: the message joins the chain the receiver is on or comes to.    *)
LEMMA EncryptFits ==
    ASSUME NEW s, NEW t, NEW p \in Parties, Sane(s, p), Sane(t, Other(p)), Paired(s, t),
           CanEncrypt(s), NEW m \in Headers,
           m.dh = s.dhs, m.pn = s.pn, m.n = s.ns, m.mk = s.cks
    PROVE  LET u == AfterEncrypt(s) IN
           /\ Paired(u, t) /\ u.dhs = s.dhs /\ Fits(m, t, u)
           /\ \A k \in Headers : Fits(k, s, t) => Fits(k, u, t)
           /\ \A k \in Headers : Fits(k, t, s) => Fits(k, t, u)
  <1> DEFINE c == KdfCk(s.cks)
             u == [s EXCEPT !.cks = c, !.ns = @ + 1]
  <1>1. /\ s \in States /\ t \in States /\ s.cks \in ChainKeys /\ s.ns \in Nat /\ s.pn \in Nat
        /\ t.nr \in Nat /\ Len(s.rk) \in Nat /\ Len(t.rk) \in Nat
    BY StateFields DEF Sane
  <1>2. s.cks # NoChain /\ s.cks.root = s.rk /\ s.cks.i = s.ns
    BY DEF CanEncrypt, Sane, Rooted, Paired, Placed
  <1>3. c # NoChain /\ c.i = s.ns + 1
    BY <1>1, <1>2, ChainMade
  <1>4. u = AfterEncrypt(s)
    BY DEF AfterEncrypt
  <1> HIDE DEF c
  <1>5. /\ u.cks = c /\ u.ns = s.ns + 1 /\ u.rk = s.rk /\ u.ckr = s.ckr /\ u.skipped = s.skipped
        /\ u.dhs = s.dhs /\ u.dhr = s.dhr /\ u.pn = s.pn /\ u.nr = s.nr
    BY <1>1 DEF States
  <1> HIDE DEF u
  <1>6. /\ Total(u, t) = Total(s, t) /\ Total(t, s) \in Nat /\ Total(t, u) \in Nat
        /\ Total(t, s) <= Total(t, u)
    <2>1. Total(u, t) = Total(s, t)
      BY <1>5 DEF Total
    <2>2. s.ns <= u.ns /\ u.ns \in Nat /\ s.pn <= s.pn
      BY <1>1, <1>5
    <2> QED
      BY <1>1, <1>5, <2>1, <2>2 DEF Total
  <1>7. Placed(u)
    <2>1. u.cks.i = u.ns
      BY <1>3, <1>5
    <2> QED
      BY <1>5, <2>1 DEF Paired, Placed
  <1>8. Leads(s, t) => Leads(u, t)
    BY <1>3, <1>5 DEF Leads
  <1>9. Leads(t, s) => Leads(t, u)
    BY <1>2, <1>5 DEF Leads
  <1>10. InStep(u, t)
    BY <1>5, <1>6 DEF Paired, InStep
  <1>11. InStep(t, u)
    <2> SUFFICES ASSUME t.ckr # NoChain PROVE t.nr <= Total(t, u)
      BY DEF InStep
    <2>1. t.nr <= Total(t, s)
      BY DEF Paired, InStep
    <2> QED
      BY <1>1, <1>6, <2>1
  <1>12. Paired(u, t)
    BY <1>7, <1>8, <1>9, <1>10, <1>11 DEF Paired
  <1>13. \A k \in Headers : Fits(k, s, t) => Fits(k, u, t)
    <2>1. \A k \in Headers : Stored(k, s) => Stored(k, u)
      BY <1>5 DEF Stored
    <2>2. \A k \in Headers : Expected(k, s, Total(s, t)) => Expected(k, u, Total(u, t))
      BY <1>5, <1>6 DEF Expected
    <2>3. \A k \in Headers : Upcoming(k, s, t) => Upcoming(k, u, t)
      BY <1>5 DEF Upcoming
    <2> QED
      BY <2>1, <2>2, <2>3 DEF Fits, OnPath
  <1>14. \A k \in Headers : Fits(k, t, s) => Fits(k, t, u)
    <2> SUFFICES ASSUME NEW k \in Headers, Fits(k, t, s) PROVE Fits(k, t, u)
      OBVIOUS
    <2>1. k.n \in Nat
      BY HeaderFields
    <2>2. CASE Stored(k, t)
      BY <2>2 DEF Fits, OnPath
    <2>3. CASE Expected(k, t, Total(t, s))
      <3>1. k.n < Total(t, u)
        BY <1>6, <2>1, <2>3 DEF Expected
      <3> QED
        BY <2>3, <3>1 DEF Fits, OnPath, Expected
    <2>4. CASE Upcoming(k, t, s)
      <3>1. k.n < u.ns
        BY <1>1, <1>5, <2>1, <2>4 DEF Upcoming
      <3> QED
        BY <1>5, <2>4, <3>1 DEF Fits, Upcoming
    <2> QED
      BY <2>2, <2>3, <2>4 DEF Fits, OnPath
  <1>15. Fits(m, t, u)
    <2>1. m.mk.root = s.rk /\ m.mk.i = m.n
      BY <1>2
    <2>2. CASE Leads(s, t)
      <3>1. Len(u.rk) > Len(t.rk)
        <4>1. Len(s.rk) = Len(t.rk) + 1
          BY <1>1, <2>2, LeadsBy
        <4> QED
          BY <1>1, <1>5, <4>1
      <3>2. m.n < u.ns
        BY <1>1, <1>5
      <3> QED
        BY <1>5, <2>1, <3>1, <3>2 DEF Fits, Upcoming
    <2>3. CASE Leads(t, s)
      <3>1. t.ckr # NoChain /\ t.ckr.root = s.rk /\ t.dhr = s.dhs
        BY <1>2, <2>3 DEF Leads
      <3>2. ~(Len(s.rk) > Len(t.rk))
        <4>1. Len(t.rk) = Len(s.rk) + 1
          BY <1>1, <2>3, LeadsBy
        <4> QED
          BY <1>1, <4>1
      <3>3. Total(t, s) = s.ns /\ Total(t, u) = s.ns + 1
        BY <1>5, <3>2 DEF Total
      <3>4. t.nr <= m.n /\ m.n < Total(t, u)
        <4>1. t.nr <= Total(t, s)
          BY <3>1 DEF Paired, InStep
        <4> QED
          BY <1>1, <3>3, <4>1
      <3> QED
        BY <2>1, <3>1, <3>4 DEF Fits, OnPath, Expected
    <2> QED
      BY <2>2, <2>3 DEF Paired
  <1> QED
    BY <1>4, <1>5, <1>12, <1>13, <1>14, <1>15

-----------------------------------------------------------------------------
(* The second inductive invariant, on top of IndInv.                       *)
HistoryInv == KeysApart /\ SharedHistory

LEMMA InitHistory == ChannelInit => HistoryInv
  <1> SUFFICES ASSUME ChannelInit PROVE HistoryInv
    OBVIOUS
  <1> DEFINE rk == KdfRk(SharedKey, DH(<<"A", "dh", 1>>, SignedPrekey))
             a == st["A"]
             b == st["B"]
  <1>1. /\ a = [dhs |-> <<"A", "dh", 1>>, dhr |-> SignedPrekey, rk |-> rk,
                cks |-> ChainOf(rk), ckr |-> NoChain, ns |-> 0, nr |-> 0, pn |-> 0,
                skipped |-> << >>, sessionId |-> SharedKey]
        /\ b = [dhs |-> SignedPrekey, dhr |-> NoDh, rk |-> SharedKey, cks |-> NoChain, ckr |-> NoChain,
                ns |-> 0, nr |-> 0, pn |-> 0, skipped |-> << >>, sessionId |-> SharedKey]
        /\ net = {} /\ drawn = [p \in Parties |-> IF p = "A" THEN 1 ELSE 0]
    BY DEF ChannelInit, Parties, NewInitiator, NewResponder
  <1>2. rk \in Seq(Outputs) /\ Len(rk) >= 1
    <2>1. SharedKey \in Seq(Outputs) /\ Len(SharedKey) = 1
      BY DEF SharedKey, Outputs
    <2>2. SignedPrekey \in Keys /\ <<"A", "dh", 1>> \in Keys
      BY DEF SignedPrekey, Keys, Kinds, Parties
    <2>3. rk \in Seq(Outputs) /\ Len(rk) = Len(SharedKey) + 1
      BY <2>1, <2>2, RootMade
    <2> HIDE DEF rk
    <2> QED
      BY <2>1, <2>3
  <1>3. ChainOf(rk) # NoChain /\ ChainOf(rk).i = 0
    BY <1>2, ChainMade
  <1>4. rk = KdfRk(SharedKey, DH(SignedPrekey, <<"A", "dh", 1>>))
    <2>1. DH(<<"A", "dh", 1>>, SignedPrekey) = DH(SignedPrekey, <<"A", "dh", 1>>)
      BY DEF DH
    <2> QED
      BY <2>1
  <1> HIDE DEF rk
  <1>5. /\ a.dhs = <<"A", "dh", 1>> /\ a.dhr = SignedPrekey /\ a.rk = rk /\ a.cks = ChainOf(rk)
        /\ a.ckr = NoChain /\ a.ns = 0 /\ a.skipped = << >>
    BY <1>1
  <1>6. /\ b.dhs = SignedPrekey /\ b.dhr = NoDh /\ b.rk = SharedKey /\ b.cks = NoChain
        /\ b.ckr = NoChain /\ b.skipped = << >>
    BY <1>1
  <1>7. Len(<< >>) = 0
    OBVIOUS
  <1> HIDE DEF a, b
  <1>8. Leads(a, b)
    BY <1>3, <1>4, <1>5, <1>6 DEF Leads
  <1>9. Placed(a) /\ Placed(b)
    <2>1. \A k : k \notin 1 .. 0
      OBVIOUS
    <2> QED
      BY <1>3, <1>5, <1>6, <1>7, <2>1 DEF Placed
  <1>10. Paired(a, b)
    BY <1>5, <1>6, <1>8, <1>9 DEF Paired, InStep
  <1>11. \A p \in Parties : Paired(st[p], st[Other(p)])
    BY <1>10, PairedTurned DEF Parties, Other, a, b
  <1>12. \A p \in Parties : st[p].dhs = <<p, "dh", drawn[p]>>
    BY <1>1, <1>5, <1>6 DEF Parties, SignedPrekey, a, b
  <1> QED
    BY <1>1, <1>11, <1>12 DEF HistoryInv, KeysApart, SharedHistory

LEMMA SendHistory ==
    ASSUME IndInv, HistoryInv, NEW p \in Parties, Send(p)
    PROVE  HistoryInv'
  <1> DEFINE o == Other(p)
             s == st[p]
             t == st[o]
             u == AfterEncrypt(s)
             m == Message(o, sent[p] + 1, EncryptHeader(s))
  <1>1. SessionsSane /\ CountersTyped /\ NetSealed /\ KeysApart /\ SharedHistory
    BY DEF IndInv, HistoryInv
  <1>2. o \in Parties /\ o # p /\ Other(o) = p
    BY Others
  <1>3. Sane(s, p) /\ Sane(t, o) /\ s \in States /\ CanEncrypt(s)
    BY <1>1, <1>2 DEF SessionsSane, Send
  <1>4. st' = [st EXCEPT ![p] = u] /\ net' = net \cup {m} /\ drawn' = drawn /\ dups' = dups
    BY DEF Send
  <1>5. m \in Headers /\ m.to = o /\ m.dh = s.dhs /\ m.pn = s.pn /\ m.n = s.ns /\ m.mk = s.cks
    <2>1. s.dhs \in Keys /\ s.pn \in Nat /\ s.ns \in Nat /\ s.cks \in ChainKeys
      BY <1>3, StateFields
    <2>2. sent[p] + 1 \in Nat
      BY <1>1, ChannelAssumption DEF CountersTyped
    <2> QED
      BY <1>2, <2>1, <2>2 DEF Message, EncryptHeader, Headers
  <1> HIDE DEF u, m
  <1>6. st'[p] = u /\ st'[o] = t
    BY <1>1, <1>2, <1>4 DEF SessionsSane
  <1>7. KeysApart'
    <2>1. ASSUME NEW k \in net PROVE k.mk # m.mk
      <3>1. k \in Headers /\ SealedBefore(st[Other(k.to)], Other(k.to), k.mk)
        BY <1>1 DEF NetSealed
      <3>2. k.to \in Parties /\ Other(k.to) \in Parties /\ k.mk.i \in Nat
        BY <3>1, HeaderFields, Others
      <3>3. CASE Other(k.to) = p
        <4>1. k.mk.root = s.cks.root => k.mk.i < s.cks.i
          BY <3>1, <3>3 DEF SealedBefore
        <4> QED
          BY <1>5, <3>2, <4>1
      <3>4. CASE Other(k.to) # p
        <4>1. Len(k.mk.root) % 2 = Par(Other(k.to))
          BY <3>1 DEF SealedBefore, OfParty
        <4>2. Len(s.cks.root) % 2 = Par(p)
          BY <1>3 DEF Sane, Rooted, CanEncrypt
        <4>3. Par(Other(k.to)) # Par(p)
          BY <3>2, <3>4 DEF Par, Parties
        <4> QED
          BY <1>5, <4>1, <4>2, <4>3
      <3> QED
        BY <3>3, <3>4
    <2> QED
      BY <1>1, <1>4, <2>1 DEF KeysApart
  <1>8. ASSUME dups' = 0
        PROVE  /\ \A q \in Parties : st'[q].dhs = <<q, "dh", drawn'[q]>>
               /\ \A q \in Parties : Paired(st'[q], st'[Other(q)])
               /\ \A k \in net' : Fits(k, st'[k.to], st'[Other(k.to)])
    <2>1. /\ \A q \in Parties : st[q].dhs = <<q, "dh", drawn[q]>>
          /\ \A q \in Parties : Paired(st[q], st[Other(q)])
          /\ \A k \in net : Fits(k, st[k.to], st[Other(k.to)])
      BY <1>1, <1>4, <1>8 DEF SharedHistory
    <2>2. Paired(s, t)
      BY <2>1
    <2>3. /\ Paired(u, t) /\ u.dhs = s.dhs /\ Fits(m, t, u)
          /\ \A k \in Headers : Fits(k, s, t) => Fits(k, u, t)
          /\ \A k \in Headers : Fits(k, t, s) => Fits(k, t, u)
      BY <1>3, <1>5, <2>2, EncryptFits DEF u
    <2>4. \A q \in Parties : q = p \/ q = o
      BY <1>2 DEF Parties
    <2>5. \A q \in Parties : st'[q].dhs = <<q, "dh", drawn'[q]>>
      BY <1>4, <1>6, <2>1, <2>3, <2>4
    <2>6. \A q \in Parties : Paired(st'[q], st'[Other(q)])
      <3>1. Paired(t, u)
        BY <2>3, PairedTurned
      <3> QED
        BY <1>2, <1>6, <2>3, <2>4, <3>1
    <2>7. ASSUME NEW k \in net' PROVE Fits(k, st'[k.to], st'[Other(k.to)])
      <3>1. CASE k = m
        BY <1>2, <1>5, <1>6, <2>3, <3>1
      <3>2. CASE k \in net
        <4>1. k \in Headers /\ k.to \in Parties /\ Fits(k, st[k.to], st[Other(k.to)])
          BY <1>1, <2>1, <3>2 DEF NetSealed, Headers
        <4>2. CASE k.to = p
          BY <1>6, <2>3, <4>1, <4>2
        <4>3. CASE k.to = o
          BY <1>2, <1>6, <2>3, <4>1, <4>3
        <4> QED
          BY <2>4, <4>1, <4>2, <4>3
      <3> QED
        BY <1>4, <3>1, <3>2
    <2> QED
      BY <2>5, <2>6, <2>7
  <1> QED
    BY <1>7, <1>8 DEF HistoryInv, SharedHistory

LEMMA DeliverHistory ==
    ASSUME IndInv, HistoryInv, NEW m \in net, Deliver(m)
    PROVE  HistoryInv'
  <1> DEFINE p == m.to
             o == Other(p)
             s == st[p]
             t == st[o]
             fresh == Fresh(p)
             r == Decrypt(s, m, fresh)
             u == r.st
  <1>1. SessionsSane /\ CountersTyped /\ NetSealed /\ KeysApart /\ SharedHistory
    BY DEF IndInv, HistoryInv
  <1>2. m \in Headers /\ p \in Parties
    BY <1>1, HeaderFields DEF NetSealed
  <1>3. o \in Parties /\ o # p /\ Other(o) = p /\ \A q \in Parties : q = p \/ q = o
    BY <1>2, Others DEF Parties
  <1>4. /\ st' = [st EXCEPT ![p] = u] /\ net' = net \ {m} /\ dups' = dups
        /\ drawn' = [drawn EXCEPT ![p] = IF u.dhs = fresh THEN @ + 1 ELSE @]
    BY DEF Deliver, Receive, Received
  <1>5. Sane(s, p) /\ Sane(t, o) /\ drawn[p] \in Nat
    BY <1>1, <1>2, <1>3 DEF SessionsSane, CountersTyped
  <1>6. fresh = <<p, "dh", drawn[p] + 1>> /\ fresh \in Keys
    BY <1>2, <1>5 DEF Fresh, Keys, Kinds
  <1> HIDE DEF r, u, fresh
  <1>7. st'[p] = u /\ st'[o] = t /\ drawn'[o] = drawn[o]
        /\ drawn'[p] = IF u.dhs = fresh THEN drawn[p] + 1 ELSE drawn[p]
    BY <1>1, <1>2, <1>3, <1>4 DEF SessionsSane, CountersTyped
  <1>8. KeysApart'
    BY <1>1, <1>4 DEF KeysApart
  <1>9. ASSUME dups' = 0
        PROVE  /\ \A q \in Parties : st'[q].dhs = <<q, "dh", drawn'[q]>>
               /\ \A q \in Parties : Paired(st'[q], st'[Other(q)])
               /\ \A k \in net' : Fits(k, st'[k.to], st'[Other(k.to)])
    <2>1. /\ \A q \in Parties : st[q].dhs = <<q, "dh", drawn[q]>>
          /\ \A q \in Parties : Paired(st[q], st[Other(q)])
          /\ \A k \in net : Fits(k, st[k.to], st[Other(k.to)])
      BY <1>1, <1>4, <1>9 DEF SharedHistory
    <2>2. Paired(s, t) /\ Fits(m, s, t) /\ s.dhs = <<p, "dh", drawn[p]>>
      BY <1>2, <2>1
    <2>3. s.dhs[3] < fresh[3]
      BY <1>5, <1>6, <2>2
    <2>4. Outcome(s, t, u, m, fresh)
      BY <1>2, <1>5, <1>6, <2>2, <2>3, DecryptFits DEF r, u
    <2>5. /\ Paired(u, t) /\ u.dhs \in {s.dhs, fresh}
          /\ \A k \in Headers : k.mk # m.mk /\ Fits(k, s, t) => Fits(k, u, t)
          /\ \A k \in Headers : Fits(k, t, s) => Fits(k, t, u)
      BY <2>4 DEF Outcome
    <2>6. \A q \in Parties : st'[q].dhs = <<q, "dh", drawn'[q]>>
      <3>1. u.dhs = <<p, "dh", drawn'[p]>>
        BY <1>6, <1>7, <2>2, <2>5
      <3>2. t.dhs = <<o, "dh", drawn'[o]>>
        BY <1>3, <1>7, <2>1
      <3> QED
        BY <1>3, <1>7, <3>1, <3>2
    <2>7. \A q \in Parties : Paired(st'[q], st'[Other(q)])
      <3>1. Paired(t, u)
        BY <2>5, PairedTurned
      <3> QED
        BY <1>3, <1>7, <2>5, <3>1
    <2>8. ASSUME NEW k \in net' PROVE Fits(k, st'[k.to], st'[Other(k.to)])
      <3>1. k \in net /\ k.mk # m.mk
        BY <1>1, <1>4, <2>8 DEF KeysApart
      <3>2. k \in Headers /\ k.to \in Parties /\ Fits(k, st[k.to], st[Other(k.to)])
        BY <1>1, <2>1, <3>1 DEF NetSealed, Headers
      <3>3. CASE k.to = p
        BY <1>7, <2>5, <3>1, <3>2, <3>3
      <3>4. CASE k.to = o
        BY <1>3, <1>7, <2>5, <3>2, <3>4
      <3> QED
        BY <1>3, <3>2, <3>3, <3>4
    <2> QED
      BY <2>6, <2>7, <2>8
  <1> QED
    BY <1>8, <1>9 DEF HistoryInv, SharedHistory

LEMMA NextHistory == IndInv /\ HistoryInv /\ [ChannelNext]_channelVars => HistoryInv'
  <1> SUFFICES ASSUME IndInv, HistoryInv, [ChannelNext]_channelVars PROVE HistoryInv'
    OBVIOUS
  <1>1. ASSUME NEW p \in Parties, Send(p) PROVE HistoryInv'
    BY <1>1, SendHistory
  <1>2. ASSUME NEW m \in net, Deliver(m) PROVE HistoryInv'
    BY <1>2, DeliverHistory
  <1>3. ASSUME NEW m \in net, DeliverKeepingCopy(m) PROVE HistoryInv'
    <2>1. net' = net /\ dups' = dups + 1 /\ dups \in Nat
      BY <1>3, ChannelAssumption DEF DeliverKeepingCopy, IndInv, CountersTyped
    <2>2. dups' # 0
      BY <2>1
    <2> QED
      BY <2>1, <2>2 DEF HistoryInv, KeysApart, SharedHistory
  <1>4. ASSUME NEW m \in net, Lose(m) PROVE HistoryInv'
    <2>1. net' \in SUBSET net /\ st' = st /\ drawn' = drawn /\ dups' = dups
      BY <1>4 DEF Lose
    <2> QED
      BY <2>1 DEF HistoryInv, KeysApart, SharedHistory
  <1>5. CASE UNCHANGED channelVars
    <2>1. net' = net /\ st' = st /\ drawn' = drawn /\ dups' = dups
      BY <1>5 DEF channelVars
    <2> QED
      BY <2>1 DEF HistoryInv, KeysApart, SharedHistory
  <1> QED
    BY <1>1, <1>2, <1>3, <1>4, <1>5 DEF ChannelNext

(* encrypt and decrypt keep the two sides on one history of DH steps and   *)
(* chain positions until a copy arrives: one side is always exactly one DH *)
(* step ahead of the other, and every message in flight is cached, ahead   *)
(* on the receiving chain, or on the chain the next DH step gives.         *)
THEOREM HistoryShared == ChannelSpec => []SharedHistory
  <1>1. HistoryInv => SharedHistory
    BY DEF HistoryInv
  <1> QED
    BY Invariance, InitHistory, NextHistory, <1>1, PTL DEF ChannelSpec

(* decrypt: what the network has only lost or reordered still opens, for   *)
(* any number of messages and DH steps, unless MAX_SKIP refuses it.        *)
THEOREM ReorderedMessagesOpen == ChannelSpec => []InFlightOpens
  <1>1. IndInv /\ SharedHistory => InFlightOpens
    <2> SUFFICES ASSUME IndInv, SharedHistory, dups = 0, NEW m \in net
                 PROVE  Received(m).err \in {"ok", "TooManySkipped"}
      BY DEF InFlightOpens
    <2> DEFINE p == m.to
               o == Other(p)
    <2>1. SessionsSane /\ CountersTyped /\ NetSealed
      BY DEF IndInv
    <2>2. m \in Headers /\ p \in Parties
      BY <2>1, HeaderFields DEF NetSealed
    <2>3. o \in Parties
      BY <2>2, Others
    <2>4. Sane(st[p], p) /\ Sane(st[o], o) /\ drawn[p] \in Nat
      BY <2>1, <2>2, <2>3 DEF SessionsSane, CountersTyped
    <2>5. Fresh(p) = <<p, "dh", drawn[p] + 1>> /\ Fresh(p) \in Keys
      BY <2>2, <2>4 DEF Fresh, Keys, Kinds
    <2>6. st[p].dhs = <<p, "dh", drawn[p]>> /\ Paired(st[p], st[o]) /\ Fits(m, st[p], st[o])
      BY <2>2 DEF SharedHistory
    <2>7. st[p].dhs[3] < Fresh(p)[3]
      BY <2>4, <2>5, <2>6
    <2> QED
      BY <2>2, <2>4, <2>5, <2>6, <2>7, DecryptFits DEF Received
  <1> QED
    BY Invariance, HistoryShared, <1>1, PTL

(* skip_message_keys, try_skipped: the variables keep their types, the     *)
(* cache its bound, and until a copy arrives it has one key per place.     *)
THEOREM SessionsStaySound == ChannelSpec => []SessionsSound
  <1>1. IndInv => ChannelTypeOK /\ SkipCacheBounded
    <2> SUFFICES ASSUME IndInv PROVE ChannelTypeOK /\ SkipCacheBounded
      OBVIOUS
    <2>1. SessionsSane /\ CountersTyped /\ CountsSent /\ NetSealed
      BY DEF IndInv
    <2>2. \A p \in Parties : st[p].ns \in Nat /\ st[p].nr \in Nat /\ st[p].pn \in Nat
      BY <2>1, StateFields DEF SessionsSane
    <2>3. DOMAIN st = Parties
      BY <2>1 DEF SessionsSane
    <2>4. \A m \in net : m.to \in Parties /\ m.pt \in 1 .. sent[Other(m.to)]
      BY <2>1 DEF NetSealed, Headers
    <2>5. ChannelTypeOK
      BY <2>1, <2>2, <2>3, <2>4 DEF CountersTyped, CountsSent, ChannelTypeOK
    <2>6. SkipCacheBounded
      BY <2>1 DEF SessionsSane, Sane, CacheFits, SkipCacheBounded
    <2> QED
      BY <2>5, <2>6
  <1>2. IndInv /\ SharedHistory => SkippedKeysDistinct
    <2> SUFFICES ASSUME IndInv, SharedHistory, dups = 0, NEW p \in Parties,
                        NEW j \in DOMAIN st[p].skipped, NEW k \in DOMAIN st[p].skipped,
                        st[p].skipped[j].dh = st[p].skipped[k].dh, st[p].skipped[j].n = st[p].skipped[k].n
                 PROVE  j = k
      BY DEF SkippedKeysDistinct
    <2> DEFINE s == st[p]
               q == s.skipped
    <2>1. Sane(s, p) /\ s \in States /\ Placed(s)
      BY DEF IndInv, SessionsSane, SharedHistory, Paired
    <2>2. q \in Seq(Entries) /\ DOMAIN q = 1 .. Len(q)
      BY <2>1, StateFields
    <2>3. j \in 1 .. Len(q) /\ k \in 1 .. Len(q)
      BY <2>2
    <2>4. q[j].mk.root = q[k].mk.root /\ q[j].mk.i = q[k].mk.i
      BY <2>1, <2>3 DEF Placed
    <2>5. q[j].mk \in ChainKeys /\ q[k].mk \in ChainKeys
      BY <2>1, <2>3, EntryFields
    <2>6. q[j].mk = q[k].mk
      BY <2>4, <2>5, SameChainKey
    <2> QED
      BY <2>1, <2>3, <2>6 DEF Sane, CacheDistinct
  <1>3. IndInv /\ SharedHistory => SessionsSound
    BY <1>1, <1>2 DEF SessionsSound
  <1> QED
    BY Invariance, HistoryShared, <1>3, PTL

-----------------------------------------------------------------------------
(* The direct-message path.                                                *)

(* decrypt reads the header and the seal of a message only.                *)
LEMMA HeaderOnly ==
    ASSUME NEW s, NEW w, NEW m, NEW fresh, m.dh = w.dh, m.pn = w.pn, m.n = w.n, m.mk = w.mk
    PROVE  Decrypt(s, w, fresh) = Decrypt(s, m, fresh)
  <1>1. SkippedHits(s, w) = SkippedHits(s, m) /\ FirstHit(s, w) = FirstHit(s, m)
    BY DEF SkippedHits, FirstHit
  <1>2. \A mk : AeadOpens(mk, w) <=> AeadOpens(mk, m)
    BY DEF AeadOpens
  <1>3. \A t : OpenOnChain(t, w) = OpenOnChain(t, m)
    BY <1>2 DEF OpenOnChain
  <1>4. \A t : ReceiveStep(t, w, fresh) = ReceiveStep(t, m, fresh)
    BY <1>3 DEF ReceiveStep
  <1> QED
    BY <1>1, <1>2, <1>4 DEF Decrypt

(* decrypt stays in its session.                                           *)
SameSession(s, t) == t.sessionId = s.sessionId /\ t.rk[1] = s.rk[1]

LEMMA StepSession ==
    ASSUME NEW s \in States, Len(s.rk) >= 1
    PROVE  /\ \A k : SameSession(s, WithoutSkipped(s, k))
           /\ \A until : SameSession(s, SkipMessageKeys(s, until))
           /\ \A dh \in Keys, fresh \in Keys : SameSession(s, DhRatchetStep(s, dh, fresh))
  <1>1. \A k : SameSession(s, WithoutSkipped(s, k))
    BY DEF States, SameSession, WithoutSkipped
  <1>2. \A until : SameSession(s, SkipMessageKeys(s, until))
    BY DEF States, SameSession, SkipMessageKeys
  <1>3. ASSUME NEW dh \in Keys, NEW fresh \in Keys
        PROVE  SameSession(s, DhRatchetStep(s, dh, fresh))
    <2> DEFINE rk1 == KdfRk(s.rk, DH(s.dhs, dh))
               rk2 == KdfRk(rk1, DH(fresh, dh))
               t == DhRatchetStep(s, dh, fresh)
    <2>1. s.rk \in Seq(Outputs) /\ s.dhs \in Keys
      BY StateFields
    <2>2. rk1 \in Seq(Outputs) /\ Len(rk1) = Len(s.rk) + 1
      BY <2>1, RootMade
    <2>3. rk1[1] = s.rk[1]
      BY <2>1 DEF KdfRk
    <2>4. t.sessionId = s.sessionId /\ t.rk = rk2
      BY DEF DhRatchetStep, States
    <2> HIDE DEF rk1
    <2>5. rk2[1] = rk1[1]
      BY <2>1, <2>2 DEF KdfRk
    <2> QED
      BY <2>3, <2>4, <2>5 DEF SameSession
  <1> QED
    BY <1>1, <1>2, <1>3

LEMMA OpenSession ==
    ASSUME NEW s, NEW p \in Parties, Sane(s, p), NEW m \in Headers
    PROVE  SameSession(s, OpenOnChain(s, m).st)
  <1> DEFINE u == SkipMessageKeys(s, m.n)
             t == [u EXCEPT !.ckr = KdfCk(@), !.nr = @ + 1]
             r == OpenOnChain(s, m)
  <1>1. s \in States /\ Len(s.rk) >= 1 /\ m.n \in Nat
    BY DEF Sane, Rooted, Headers
  <1>2. SameSession(s, u)
    BY <1>1, StepSession
  <1>3. CASE TooManySkipped(s, m.n)
    BY <1>3 DEF OpenOnChain, Result, SameSession
  <1>4. CASE ~TooManySkipped(s, m.n)
    <2>1. u \in States
      BY <1>1, <1>4, SkipSane DEF Sane
    <2> HIDE DEF u
    <2>2. SameSession(u, t)
      BY <2>1 DEF States, SameSession
    <2>3. r.st = u \/ r.st = t
      BY <1>4 DEF OpenOnChain, Result, u
    <2> QED
      BY <1>2, <2>2, <2>3 DEF SameSession
  <1> QED
    BY <1>3, <1>4

LEMMA ReceiveSession ==
    ASSUME NEW s, NEW p \in Parties, Sane(s, p), NEW m \in Headers, NEW fresh \in Keys
    PROVE  SameSession(s, ReceiveStep(s, m, fresh).st)
  <1> DEFINE u == SkipMessageKeys(s, m.pn)
             t == DhRatchetStep(u, m.dh, fresh)
  <1>1. s \in States /\ Len(s.rk) >= 1 /\ m.pn \in Nat /\ m.dh \in Keys
    BY DEF Sane, Rooted, Headers
  <1>2. CASE s.dhr = m.dh
    BY <1>2, OpenSession DEF ReceiveStep
  <1>3. CASE s.dhr # m.dh /\ TooManySkipped(s, m.pn)
    BY <1>3 DEF ReceiveStep, Result, SameSession
  <1>4. CASE s.dhr # m.dh /\ ~TooManySkipped(s, m.pn)
    <2>1. Sane(u, p) /\ SameSession(s, u)
      BY <1>1, <1>4, SkipSane, StepSession
    <2> HIDE DEF u
    <2>2. u \in States /\ Len(u.rk) >= 1
      BY <2>1 DEF Sane, Rooted
    <2>3. Sane(t, p) /\ SameSession(u, t)
      BY <1>1, <2>1, <2>2, DhStepSane, StepSession
    <2> HIDE DEF t
    <2>4. SameSession(t, OpenOnChain(t, m).st)
      BY <2>3, OpenSession
    <2>5. ReceiveStep(s, m, fresh) = OpenOnChain(t, m)
      BY <1>4 DEF ReceiveStep, t, u
    <2> QED
      BY <2>1, <2>3, <2>4, <2>5 DEF SameSession
  <1> QED
    BY <1>2, <1>3, <1>4

LEMMA HitWithin ==
    ASSUME NEW s \in States, NEW m, SkippedHits(s, m) # {}
    PROVE  FirstHit(s, m) \in 1 .. Len(s.skipped)
  <1> DEFINE H == SkippedHits(s, m)
  <1>1. s.skipped \in Seq(Entries) /\ Len(s.skipped) \in Nat
    BY StateFields
  <1>2. H \subseteq 1 .. Len(s.skipped)
    BY <1>1 DEF SkippedHits
  <1>3. H \in SUBSET Nat
    BY <1>1, <1>2
  <1>5. H # {}
    OBVIOUS
  <1> HIDE DEF H
  <1>4. (CHOOSE i \in H : \A j \in H : i <= j) \in H
    BY <1>5, <1>3, Smallest, Zenon
  <1> QED
    BY <1>2, <1>4 DEF FirstHit, H

LEMMA DecryptSession ==
    ASSUME NEW s, NEW p \in Parties, Sane(s, p), NEW m \in Headers, NEW fresh \in Keys
    PROVE  SameSession(s, Decrypt(s, m, fresh).st)
  <1> DEFINE k == FirstHit(s, m)
             t == WithoutSkipped(s, k)
  <1>1. s \in States /\ Len(s.rk) >= 1
    BY DEF Sane, Rooted
  <1>2. CASE SkippedHits(s, m) = {}
    BY <1>2, ReceiveSession DEF Decrypt
  <1>3. CASE SkippedHits(s, m) # {}
    <2>1. k \in 1 .. Len(s.skipped)
      BY <1>1, <1>3, HitWithin
    <2>2. Sane(t, p) /\ SameSession(s, t)
      BY <1>1, <2>1, WithoutSane, StepSession
    <2>3. Decrypt(s, m, fresh) = Result(t, "ok") \/ Decrypt(s, m, fresh) = ReceiveStep(t, m, fresh)
      BY <1>3 DEF Decrypt
    <2> HIDE DEF t
    <2>4. SameSession(t, ReceiveStep(t, m, fresh).st)
      BY <2>2, ReceiveSession
    <2> QED
      BY <2>2, <2>3, <2>4 DEF Result, SameSession
  <1> QED
    BY <1>2, <1>3

-----------------------------------------------------------------------------
(* Sessions.  Their first root input is the X3DH secret; whose ephemeral   *)
(* key is in it says which side plays "A" in what is proved above.         *)

Initiates(sk, p) == \E k \in Nat : sk.dhs[1] = {<<p, "eph", k>>, Spk(Other(p))}
Agreed(sk) == sk \in Secrets /\ \E p \in Parties : Initiates(sk, p)
Role(p, sk) == IF Initiates(sk, p) THEN "A" ELSE "B"

SideOf(s, p) == Agreed(s.rk[1]) /\ Sane(s, Role(p, s.rk[1]))
Session(s, p) == SideOf(s, p) /\ CanEncrypt(s)
Past(s, p, mk) == SealedBefore(s, Role(p, s.rk[1]), mk)

Wires ==
    [from : Parties, to : Parties, pt : Nat, dh : Keys, pn : Nat, n : Nat, mk : ChainKeys,
     eph : Keys \cup {Absent}, otpk : 0 .. OtpkCount, pq : Keys \cup {Absent}]

LEMMA RolesDiffer ==
    ASSUME NEW sk, Agreed(sk), NEW p \in Parties
    PROVE  Role(p, sk) \in Parties /\ Role(Other(p), sk) \in Parties /\ Role(Other(p), sk) # Role(p, sk)
  <1>1. ~(Initiates(sk, "A") /\ Initiates(sk, "B"))
    <2> SUFFICES ASSUME NEW j \in Nat, NEW k \in Nat,
                        {<<"A", "eph", j>>, <<"B", "spk", 0>>} = {<<"B", "eph", k>>, <<"A", "spk", 0>>}
                 PROVE  FALSE
      BY DEF Initiates, Spk, Other
    <2>1. <<"A", "eph", j>> # <<"B", "eph", k>> /\ <<"A", "eph", j>> # <<"A", "spk", 0>>
      OBVIOUS
    <2> QED
      BY <2>1
  <1>2. Initiates(sk, "A") \/ Initiates(sk, "B")
    BY DEF Agreed, Parties
  <1> QED
    BY <1>1, <1>2 DEF Role, Parties, Other

LEMMA InitiatorMade ==
    ASSUME NEW sk \in Outputs, NEW theirs \in Keys, NEW fresh \in Keys
    PROVE  LET s == NewInitiator(<<sk>>, theirs, fresh) IN
           Sane(s, "A") /\ s.rk[1] = sk /\ CanEncrypt(s)
  <1> DEFINE id == <<sk>>
             rk == KdfRk(id, DH(fresh, theirs))
             c == ChainOf(rk)
             e == << >>
             s == [dhs |-> fresh, dhr |-> theirs, rk |-> rk, cks |-> c, ckr |-> NoChain,
                   ns |-> 0, nr |-> 0, pn |-> 0, skipped |-> e, sessionId |-> id]
  <1>1. s = NewInitiator(<<sk>>, theirs, fresh)
    BY DEF NewInitiator
  <1>2. id \in Seq(Outputs) /\ Len(id) = 1 /\ id[1] = sk
    OBVIOUS
  <1>3. e \in Seq(Entries) /\ Len(e) = 0
    OBVIOUS
  <1> HIDE DEF id, e
  <1>4. rk \in Seq(Outputs) /\ Len(rk) = Len(id) + 1
    BY <1>2, RootMade
  <1>5. rk[1] = sk
    BY <1>2 DEF KdfRk
  <1> HIDE DEF rk
  <1>6. c \in ChainKeys /\ c.root = rk /\ c # NoChain /\ NoChain \in ChainKeys
    <2>1. Len(rk) >= 1
      BY <1>2, <1>4
    <2> QED
      BY <1>4, <2>1, ChainMade
  <1> HIDE DEF c
  <1>7. s \in States
    BY <1>2, <1>3, <1>4, <1>6 DEF States
  <1>8. s.skipped = e /\ s.rk = rk /\ s.cks = c /\ s.ckr = NoChain
    OBVIOUS
  <1> HIDE DEF s
  <1>9. Rooted(s, "A")
    <2>1. Len(rk) >= 1 /\ Len(rk) % 2 = 0
      BY <1>2, <1>4
    <2> QED
      BY <1>6, <1>8, <2>1 DEF Rooted, Par
  <1>10. CacheBehind(s, "A") /\ CacheDistinct(s) /\ CacheFits(s)
    BY <1>3, <1>8, MaxSkipAssumption DEF CacheBehind, CacheDistinct, CacheFits
  <1> QED
    BY <1>1, <1>5, <1>6, <1>7, <1>8, <1>9, <1>10 DEF Sane, CanEncrypt

LEMMA ResponderMade ==
    ASSUME NEW sk \in Outputs, NEW mine \in Keys
    PROVE  LET s == NewResponder(<<sk>>, mine) IN
           /\ Sane(s, "B") /\ s.rk[1] = sk /\ s.ckr = NoChain /\ Len(s.skipped) = 0
  <1> DEFINE id == <<sk>>
             e == << >>
             s == [dhs |-> mine, dhr |-> NoDh, rk |-> id, cks |-> NoChain, ckr |-> NoChain,
                   ns |-> 0, nr |-> 0, pn |-> 0, skipped |-> e, sessionId |-> id]
  <1>1. s = NewResponder(<<sk>>, mine)
    BY DEF NewResponder
  <1>2. id \in Seq(Outputs) /\ Len(id) = 1 /\ id[1] = sk
    OBVIOUS
  <1>3. e \in Seq(Entries) /\ Len(e) = 0
    OBVIOUS
  <1> HIDE DEF id, e
  <1>4. NoChain \in ChainKeys
    BY ChainMade
  <1>5. s \in States
    BY <1>2, <1>3, <1>4 DEF States
  <1>6. s.skipped = e /\ s.rk = id /\ s.cks = NoChain /\ s.ckr = NoChain
    OBVIOUS
  <1> HIDE DEF s
  <1>7. Rooted(s, "B")
    <2>1. Len(id) >= 1 /\ Len(id) % 2 = 1
      BY <1>2
    <2> QED
      BY <1>6, <2>1 DEF Rooted, Par
  <1>8. CacheBehind(s, "B") /\ CacheDistinct(s) /\ CacheFits(s)
    BY <1>3, <1>6, MaxSkipAssumption DEF CacheBehind, CacheDistinct, CacheFits
  <1> QED
    BY <1>1, <1>2, <1>3, <1>5, <1>6, <1>7, <1>8 DEF Sane

(* decrypt, for a wire message and one side of a session.                  *)
LEMMA DecryptSide ==
    ASSUME NEW p \in Parties, NEW s, SideOf(s, p), NEW w \in Wires, NEW fresh \in Keys
    PROVE  LET r == Decrypt(s, w, fresh) IN
           /\ SideOf(r.st, p) /\ SameSession(s, r.st) /\ NoGain(s, r.st)
           /\ r.err = "ok" => Reads(s, w.mk) /\ ~Reads(r.st, w.mk)
           /\ \A mk \in ChainKeys : Past(s, p, mk) => Past(r.st, p, mk)
           /\ CanEncrypt(s) => CanEncrypt(r.st)
           /\ r.err = "ok" /\ s.ckr = NoChain /\ Len(s.skipped) = 0 => CanEncrypt(r.st)
  <1> DEFINE m == [to |-> w.to, pt |-> w.pt, dh |-> w.dh, pn |-> w.pn, n |-> w.n, mk |-> w.mk]
             r == Decrypt(s, w, fresh)
             t == r.st
             a == Role(p, s.rk[1])
  <1>1. m \in Headers /\ w.mk \in ChainKeys
    BY DEF Headers, Wires
  <1>2. m.dh = w.dh /\ m.pn = w.pn /\ m.n = w.n /\ m.mk = w.mk
    OBVIOUS
  <1> HIDE DEF m
  <1>3. r = Decrypt(s, m, fresh)
    BY <1>2, HeaderOnly
  <1>4. a \in Parties /\ Sane(s, a) /\ Agreed(s.rk[1])
    BY RolesDiffer DEF SideOf
  <1> HIDE DEF a, r
  <1>5. Decrypted(s, a, m, fresh, r) /\ SameSession(s, t)
    BY <1>1, <1>3, <1>4, DecryptSane, DecryptSession
  <1>6. /\ Sane(t, a) /\ NoGain(s, t) /\ Sent(s, t, fresh)
        /\ r.err = "ok" => Reads(s, w.mk) /\ ~Reads(t, w.mk)
    BY <1>2, <1>5 DEF Decrypted
  <1>7. t.rk[1] = s.rk[1]
    BY <1>5 DEF SameSession
  <1>8. SideOf(t, p) /\ Role(p, t.rk[1]) = a
    BY <1>4, <1>6, <1>7 DEF SideOf, a
  <1> HIDE DEF t
  <1>9. \A mk \in ChainKeys : Past(s, p, mk) => Past(t, p, mk)
    BY <1>4, <1>6, <1>8, SentKeeps DEF Past, a
  <1>10. SameSending(s, t) \/ CanEncrypt(t)
    <2>1. t.rk \in Seq(Outputs) /\ Len(t.rk) >= 1
      BY <1>6, StateFields DEF Sane, Rooted
    <2> QED
      BY <1>6, <2>1, ChainMade DEF Sent, CanEncrypt
  <1>11. CanEncrypt(s) => CanEncrypt(t)
    BY <1>10 DEF SameSending, CanEncrypt
  <1>12. ASSUME r.err = "ok", s.ckr = NoChain, Len(s.skipped) = 0
         PROVE  CanEncrypt(t)
    <2>1. Len(w.mk.root) > Len(s.rk)
      BY <1>6, <1>12 DEF Reads, Cached, Ahead
    <2>2. ~(Len(w.mk.root) > Len(t.rk))
      BY <1>6, <1>12 DEF Reads
    <2> QED
      BY <1>10, <2>1, <2>2 DEF SameSending
  <1> QED
    BY <1>5, <1>6, <1>8, <1>9, <1>11, <1>12 DEF t, r

(* encrypt, likewise.                                                      *)
LEMMA EncryptSide ==
    ASSUME NEW p \in Parties, NEW s, Session(s, p)
    PROVE  LET t == AfterEncrypt(s) IN
           /\ Session(t, p) /\ SameSession(s, t)
           /\ \A mk \in ChainKeys : Past(s, p, mk) => Past(t, p, mk)
           /\ Past(t, p, s.cks)
           /\ \A mk \in ChainKeys : Reads(t, mk) <=> Reads(s, mk)
           /\ s.cks \in ChainKeys /\ s.cks.root = s.rk
           /\ \A mk \in ChainKeys : Past(s, p, mk) => mk # s.cks
  <1> DEFINE t == AfterEncrypt(s)
             a == Role(p, s.rk[1])
  <1>1. a \in Parties /\ Sane(s, a) /\ Agreed(s.rk[1]) /\ CanEncrypt(s)
    BY RolesDiffer DEF Session, SideOf
  <1> HIDE DEF a
  <1>2. /\ Sane(t, a) /\ SealedBefore(t, a, s.cks)
        /\ \A mk \in ChainKeys : SealedBefore(s, a, mk) => SealedBefore(t, a, mk)
        /\ \A mk \in ChainKeys : Reads(t, mk) <=> Reads(s, mk)
    BY <1>1, EncryptSane
  <1>3. s \in States /\ s.cks \in ChainKeys /\ s.cks.i \in Nat
    BY <1>1, StateFields DEF Sane
  <1>4. SameSession(s, t) /\ t.cks = KdfCk(s.cks)
    BY <1>3 DEF SameSession, AfterEncrypt, States
  <1>5. CanEncrypt(t)
    BY <1>3, <1>4, ChainMade DEF CanEncrypt
  <1>6. Role(p, t.rk[1]) = a /\ Session(t, p)
    BY <1>1, <1>2, <1>4, <1>5 DEF SameSession, Session, SideOf, a
  <1> HIDE DEF t
  <1>7. s.cks.root = s.rk
    BY <1>1 DEF Sane, Rooted, CanEncrypt
  <1>8. \A mk \in ChainKeys : SealedBefore(s, a, mk) => mk # s.cks
    BY <1>3 DEF SealedBefore
  <1>9. \A mk : (Past(s, p, mk) <=> SealedBefore(s, a, mk)) /\ (Past(t, p, mk) <=> SealedBefore(t, a, mk))
    BY <1>6 DEF Past, a
  <1> QED
    BY <1>2, <1>3, <1>4, <1>6, <1>7, <1>8, <1>9 DEF t

-----------------------------------------------------------------------------
(* What is true of a node, between events and between the steps of a       *)
(* handler.  W and D are all wires and drops so far, those that the        *)
(* handler is about to publish included; calm says that no node has        *)
(* restarted; T counts the messages typed, and H are those that the        *)
(* handler holds in its hands.                                             *)

Rows == [wire : {FALSE}, body : Nat] \cup [wire : {TRUE}, body : Wires]

Nodes(p) ==
    [id : {p}, mem : States \cup {NoSession}, disk : States \cup {NoSession},
     prekey : BOOLEAN, otpk : 0 .. OtpkCount, inflight : BOOLEAN, conn : BOOLEAN,
     pendSend : Seq(Nat), pendRecv : Seq(Wires), outbox : Seq(Rows), queued : SUBSET Nat,
     pool : [1 .. OtpkCount -> {"fresh", "served", "consumed"}], drawn : Nat,
     stored : [MsgIds(Other(p)) -> Nat],
     out : SUBSET Wires, drops : SUBSET Wires, asks : BOOLEAN]

(* A wire is sealed on its sender's side of a session.                     *)
WireOK(w, T) ==
    /\ w \in Wires /\ w.to = Other(w.from) /\ w.pt \in 1 .. T[w.from]
    /\ Len(w.mk.root) >= 1 /\ Agreed(w.mk.root[1])
    /\ OfParty(Role(w.from, w.mk.root[1]), w.mk.root)
    /\ w.eph # Absent => w.pq \in Keys /\ \E k \in Nat : w.eph = <<w.from, "eph", k>>

(* One wire for each message, and one for each key unless a restart has    *)
(* brought back the session of an offline message.                         *)
OneWire(W) == \A v, w \in W : v.from = w.from /\ v.pt = w.pt => v = w
OneSeal(W, D, calm) ==
    \A v, w \in W : v.mk = w.mk => v = w \/ (~calm /\ {v, w} \cap D # {})
Typed(T) == \A p \in Parties : T[p] \in 0 .. Quota[p]
World(W, D, calm, T) ==
    Typed(T) /\ (\A w \in W : WireOK(w, T)) /\ OneWire(W) /\ OneSeal(W, D, calm) /\ D \subseteq W

Wired(W, p, k) == \E w \in W : w.from = p /\ w.pt = k

Sessions(n) ==
    /\ n.mem # NoSession => Session(n.mem, n.id)
    /\ n.disk # NoSession => Session(n.disk, n.id)
    /\ n.mem # NoSession /\ n.disk # NoSession => n.mem.sessionId = n.disk.sessionId

(* The node's own wires are behind its sessions: those on disk and, until  *)
(* a restart, in memory.  A restart may undo an offline message (D).       *)
OwnBehind(n, W, D, calm) ==
    /\ calm /\ n.disk # NoSession => n.mem # NoSession
    /\ \A w \in W : w.from = n.id =>
        /\ w \notin D => n.disk # NoSession /\ Past(n.disk, n.id, w.mk)
        /\ (w \notin D \/ calm) /\ n.mem # NoSession => Past(n.mem, n.id, w.mk)
        /\ calm => n.mem # NoSession

(* What is stored was stored once, and its key is gone.                    *)
StoredOnce(n, W) ==
    \A k \in MsgIds(Other(n.id)) : n.stored[k] # 0 => n.stored[k] = 1 /\ Wired(W, Other(n.id), k)
StoredSpent(n, W) ==
    \A w \in W : w.to = n.id /\ n.stored[w.pt] # 0 =>
        /\ n.disk # NoSession /\ ~Reads(n.disk, w.mk)
        /\ n.mem # NoSession => ~Reads(n.mem, w.mk)

(* A message waits in one place, or in none once it has a wire.            *)
Unplaced(n, W, k, T) == k \in 1 .. T[n.id] /\ ~Wired(W, n.id, k)
Waiting(n, W, H, T) ==
    /\ \A i \in 1 .. Len(n.outbox) : ~n.outbox[i].wire =>
        /\ Unplaced(n, W, n.outbox[i].body, T) /\ n.outbox[i].body \notin H
        /\ \A j \in 1 .. Len(n.outbox) : n.outbox[j] = n.outbox[i] => j = i
        /\ \A j \in 1 .. Len(n.pendSend) : n.pendSend[j] # n.outbox[i].body
    /\ \A i \in 1 .. Len(n.pendSend) :
        /\ Unplaced(n, W, n.pendSend[i], T) /\ n.pendSend[i] \notin H
        /\ \A j \in 1 .. Len(n.pendSend) : n.pendSend[j] = n.pendSend[i] => j = i
    /\ \A k \in H : Unplaced(n, W, k, T)

(* Where the wires a node holds come from.                                 *)
Post(n, W, D) ==
    /\ \A i \in 1 .. Len(n.outbox) : n.outbox[i].wire =>
        n.outbox[i].body \in W /\ n.outbox[i].body \in D /\ n.outbox[i].body.from = n.id
    /\ \A i \in 1 .. Len(n.pendRecv) : n.pendRecv[i] \in W /\ n.pendRecv[i].to = n.id
    /\ \A w \in n.out \cup n.drops : w \in W /\ w.from = n.id
    /\ n.drops \subseteq D

QueuedKept(n, W, H) ==
    \A k \in n.queued :
        \/ Wired(W, n.id, k)
        \/ k \in H
        \/ \E i \in 1 .. Len(n.outbox) : n.outbox[i] = PlainRow(k)
        \/ \E i \in 1 .. Len(n.pendSend) : n.pendSend[i] = k

NodeOK(n, W, D, calm, H, T) ==
    /\ n.id \in Parties /\ n \in Nodes(n.id) /\ (n.asks => n.inflight)
    /\ Sessions(n) /\ OwnBehind(n, W, D, calm) /\ StoredOnce(n, W) /\ StoredSpent(n, W)
    /\ Waiting(n, W, H, T) /\ Post(n, W, D) /\ (calm => QueuedKept(n, W, H))

(* What a handler may change on the way from n to m.                       *)
Keeps(n, m) ==
    /\ m.id = n.id /\ m.prekey = n.prekey /\ m.conn = n.conn /\ m.otpk \in {0, n.otpk}
    /\ \A k \in 1 .. OtpkCount : n.pool[k] # "fresh" => m.pool[k] # "fresh"
    /\ (n.disk # NoSession => m.disk # NoSession /\ m.disk.sessionId = n.disk.sessionId)
    /\ (m.inflight <=> n.inflight \/ m.asks) /\ (n.asks => m.asks) /\ (m.asks => n.asks \/ ~n.prekey)
    /\ n.out \subseteq m.out /\ n.drops \subseteq m.drops

LEMMA NodeFields ==
    ASSUME NEW p \in Parties, NEW n \in Nodes(p)
    PROVE  /\ n.id = p /\ n.mem \in States \cup {NoSession} /\ n.disk \in States \cup {NoSession}
           /\ n.otpk \in 0 .. OtpkCount /\ n.pendSend \in Seq(Nat) /\ n.pendRecv \in Seq(Wires)
           /\ n.outbox \in Seq(Rows) /\ n.queued \in SUBSET Nat
           /\ n.pool \in [1 .. OtpkCount -> {"fresh", "served", "consumed"}]
           /\ n.drawn \in Nat /\ n.stored \in [MsgIds(Other(p)) -> Nat]
           /\ n.out \in SUBSET Wires /\ n.drops \in SUBSET Wires
           /\ Len(n.outbox) \in Nat /\ Len(n.pendSend) \in Nat /\ Len(n.pendRecv) \in Nat
  BY DEF Nodes

LEMMA NoSessionApart == NoSession \notin States
  BY DEF NoSession, States

LEMMA KeepsAll ==
    ASSUME NEW W, NEW D, NEW calm, NEW H, NEW T, NEW n, NodeOK(n, W, D, calm, H, T)
    PROVE  Keeps(n, n)
  BY DEF Keeps, NodeOK

LEMMA KeepsThrough ==
    ASSUME NEW n, NEW m, NEW l, Keeps(n, m), Keeps(m, l)
    PROVE  Keeps(n, l)
  <1>1. /\ l.id = n.id /\ l.prekey = n.prekey /\ l.conn = n.conn /\ l.otpk \in {0, n.otpk}
        /\ \A k \in 1 .. OtpkCount : n.pool[k] # "fresh" => l.pool[k] # "fresh"
        /\ n.disk # NoSession => l.disk # NoSession /\ l.disk.sessionId = n.disk.sessionId
        /\ n.out \subseteq l.out /\ n.drops \subseteq l.drops
    BY DEF Keeps
  <1>2. (l.inflight <=> n.inflight \/ l.asks) /\ (n.asks => l.asks)
    BY Zenon DEF Keeps
  <1>3. l.asks => n.asks \/ ~n.prekey
    BY Zenon DEF Keeps
  <1> QED
    BY <1>1, <1>2, <1>3 DEF Keeps

SameQueues(n, m) ==
    m.outbox = n.outbox /\ m.pendSend = n.pendSend /\ m.pendRecv = n.pendRecv /\ m.queued = n.queued

(* The parts of the invariant that read the queues only.                   *)
LEMMA QueuesAlike ==
    ASSUME NEW W, NEW D, NEW H, NEW T, NEW n, NEW m, SameQueues(n, m), m.id = n.id
    PROVE  /\ Waiting(n, W, H, T) => Waiting(m, W, H, T)
           /\ Post(n, W, D) /\ m.out = n.out /\ m.drops = n.drops => Post(m, W, D)
           /\ QueuedKept(n, W, H) => QueuedKept(m, W, H)
  <1>1. Waiting(n, W, H, T) => Waiting(m, W, H, T)
    BY DEF SameQueues, Waiting, Unplaced
  <1>2. Post(n, W, D) /\ m.out = n.out /\ m.drops = n.drops => Post(m, W, D)
    BY DEF SameQueues, Post
  <1>3. QueuedKept(n, W, H) => QueuedKept(m, W, H)
    BY DEF SameQueues, QueuedKept
  <1> QED
    BY <1>1, <1>2, <1>3

(* restore_session_if_persisted                                            *)
LEMMA RestoreKeeps ==
    ASSUME NEW W, NEW D, NEW calm \in BOOLEAN, NEW H, NEW T, NEW n, NodeOK(n, W, D, calm, H, T)
    PROVE  LET m == RestoreSession(n) IN
           /\ NodeOK(m, W, D, calm, H, T) /\ Keeps(n, m) /\ SameQueues(n, m)
           /\ HasSession(n) => m.mem # NoSession
           /\ m.stored = n.stored /\ m.pool = n.pool
  <1> DEFINE m == RestoreSession(n)
             p == n.id
  <1>1. p \in Parties /\ n \in Nodes(p) /\ (n.asks => n.inflight)
    BY DEF NodeOK
  <1>2. CASE n.mem # NoSession
    <2>1. m = n
      BY <1>2 DEF RestoreSession
    <2> QED
      BY <1>2, <2>1, KeepsAll DEF SameQueues
  <1>3. CASE n.mem = NoSession
    <2>1. m = [n EXCEPT !.mem = n.disk]
      BY <1>3 DEF RestoreSession
    <2>2. n.disk \in States \cup {NoSession}
      BY <1>1, NodeFields
    <2>3. /\ m \in Nodes(p) /\ m.mem = n.disk /\ m.disk = n.disk /\ m.stored = n.stored
          /\ m.out = n.out /\ m.drops = n.drops /\ m.id = p /\ m.otpk = n.otpk /\ m.pool = n.pool
      BY <1>1, <2>1, <2>2 DEF Nodes
    <2>4. m.asks = n.asks /\ m.inflight = n.inflight /\ m.prekey = n.prekey /\ m.conn = n.conn
      BY <1>1, <2>1 DEF Nodes
    <2>5. SameQueues(n, m)
      BY <1>1, <2>1 DEF Nodes, SameQueues
    <2> HIDE DEF m
    <2>6. Sessions(m)
      BY <2>3 DEF NodeOK, Sessions
    <2>7. OwnBehind(m, W, D, calm)
      BY <1>3, <2>3 DEF NodeOK, OwnBehind
    <2>8. StoredOnce(m, W) /\ StoredSpent(m, W)
      BY <2>3 DEF NodeOK, StoredOnce, StoredSpent
    <2>9. Waiting(m, W, H, T) /\ Post(m, W, D) /\ (calm => QueuedKept(m, W, H))
      BY <2>3, <2>5, QueuesAlike DEF NodeOK
    <2>10. NodeOK(m, W, D, calm, H, T)
      BY <1>1, <2>3, <2>4, <2>6, <2>7, <2>8, <2>9 DEF NodeOK
    <2>11. Keeps(n, m)
      BY <1>1, <2>3, <2>4 DEF Keeps
    <2> QED
      BY <1>3, <2>3, <2>5, <2>10, <2>11 DEF HasSession, m
  <1> QED
    BY <1>2, <1>3

(* While there is no session at all, nothing counts as sent or stored.     *)
Blank(n, W, D, calm) ==
    /\ n.mem = NoSession /\ n.disk = NoSession
    /\ \A w \in W : w.from = n.id => w \in D /\ ~calm
    /\ \A w \in W : w.to = n.id => n.stored[w.pt] = 0
    /\ \A k \in MsgIds(Other(n.id)) : n.stored[k] = 0

LEMMA NothingYet ==
    ASSUME NEW W, NEW D, NEW calm \in BOOLEAN, NEW H, NEW T, NEW n, NodeOK(n, W, D, calm, H, T),
           World(W, D, calm, T), ~HasSession(n)
    PROVE  Blank(n, W, D, calm)
  <1>1. n.mem = NoSession /\ n.disk = NoSession
    BY DEF HasSession
  <1>2. \A w \in W : w.from = n.id => w \in D /\ ~calm
    BY <1>1 DEF NodeOK, OwnBehind
  <1>3. \A w \in W : w.to = n.id => n.stored[w.pt] = 0
    BY <1>1 DEF NodeOK, StoredSpent
  <1>4. ASSUME NEW k \in MsgIds(Other(n.id)), n.stored[k] # 0 PROVE FALSE
    <2>1. PICK w \in W : w.from = Other(n.id) /\ w.pt = k
      BY <1>4 DEF NodeOK, StoredOnce, Wired
    <2>2. w.to = n.id
      BY <2>1, Others DEF World, WireOK, NodeOK
    <2> QED
      BY <1>3, <1>4, <2>1, <2>2
  <1> QED
    BY <1>1, <1>2, <1>3, <1>4 DEF Blank

LEMMA DrawnKey ==
    ASSUME NEW p \in Parties, NEW n \in Nodes(p), NEW kind \in Kinds
    PROVE  Drawn(n, kind) = <<p, kind, n.drawn + 1>> /\ Drawn(n, kind) \in Keys /\ n.drawn + 1 \in Nat
  <1>1. n.id = p /\ n.drawn + 1 \in Nat
    BY NodeFields
  <1> QED
    BY <1>1 DEF Drawn, Keys

LEMMA FirstStays ==
    ASSUME NEW S, NEW z \in Seq(S), Len(z) >= 1, NEW y \in Seq(S)
    PROVE  z \o y \in Seq(S) /\ Len(z \o y) >= 1 /\ (z \o y)[1] = z[1]
  <1>1. Len(z) \in Nat /\ Len(y) \in Nat
    OBVIOUS
  <1>2. /\ z \o y \in Seq(S) /\ Len(z \o y) = Len(z) + Len(y)
        /\ \A i \in 1 .. Len(z) + Len(y) : (z \o y)[i] = IF i <= Len(z) THEN z[i] ELSE y[i - Len(z)]
    BY ConcatProperties
  <1>3. 1 \in 1 .. Len(z) + Len(y) /\ 1 <= Len(z)
    BY <1>1
  <1> QED
    BY <1>1, <1>2, <1>3

(* The secrets of X3DH, and whose ephemeral key they name.                 *)
LEMMA SecretAgreed ==
    ASSUME NEW p \in Parties, NEW k \in Nat, NEW ot \in Keys \cup {Absent}, NEW pq \in Keys
    PROVE  /\ LET sk == InitiatorDerive(Spk(p), Spk(Other(p)), <<p, "eph", k>>, ot, pq) IN
              Agreed(sk) /\ sk \in Outputs /\ Role(p, sk) = "A"
           /\ LET sk == ResponderDerive(Spk(Other(p)), ot, <<p, "eph", k>>, Spk(p), pq) IN
              Agreed(sk) /\ sk \in Outputs /\ Role(Other(p), sk) = "B"
  <1> DEFINE e == <<p, "eph", k>>
             a == InitiatorDhs(Spk(p), Spk(Other(p)), e, ot)
             b == ResponderDhs(Spk(Other(p)), ot, e, Spk(p))
             pair == {e, Spk(Other(p))}
  <1>1. e \in Keys /\ Spk(p) \in Keys /\ Spk(Other(p)) \in Keys
    BY Others DEF Keys, Kinds, Spk
  <1>2. ASSUME NEW x, x \in Seq(SUBSET Keys), Len(x) >= 1, x[1] = pair
        PROVE  LET sk == DeriveSharedSecret(x, pq) IN
               Agreed(sk) /\ sk \in Outputs /\ Role(p, sk) = "A" /\ Role(Other(p), sk) = "B"
    <2> DEFINE sk == DeriveSharedSecret(x, pq)
    <2>1. sk \in Secrets /\ sk.dhs = x
      BY <1>2 DEF DeriveSharedSecret, Secrets
    <2> HIDE DEF sk
    <2>2. Initiates(sk, p)
      BY <1>2, <2>1 DEF Initiates
    <2>3. Agreed(sk) /\ Role(p, sk) = "A" /\ sk \in Outputs
      BY <2>1, <2>2 DEF Agreed, Role, Outputs
    <2>4. Role(Other(p), sk) = "B"
      BY <2>3, RolesDiffer DEF Role
    <2> QED
      BY <2>3, <2>4 DEF sk
  <1>3. a \in Seq(SUBSET Keys) /\ Len(a) >= 1 /\ a[1] = pair
    <2> DEFINE y == IF ot = Absent THEN << >> ELSE <<X3dhDH(e, ot)>>
               z == <<X3dhDH(e, Spk(Other(p))), X3dhDH(Spk(p), Spk(Other(p)))>>
    <2>1. z \in Seq(SUBSET Keys) /\ Len(z) = 2 /\ z[1] = pair
      BY <1>1 DEF X3dhDH
    <2>2. y \in Seq(SUBSET Keys)
      <3>1. CASE ot = Absent
        BY <3>1
      <3>2. CASE ot # Absent
        <4>1. X3dhDH(e, ot) \in SUBSET Keys
          BY <1>1, <3>2 DEF X3dhDH
        <4> QED
          BY <3>2, <4>1
      <3> QED
        BY <3>1, <3>2
    <2>3. a = z \o y
      BY DEF InitiatorDhs
    <2> HIDE DEF y, z, a, pair
    <2>4. Len(z) >= 1 /\ z[1] = pair
      BY <2>1
    <2>5. z \o y \in Seq(SUBSET Keys) /\ Len(z \o y) >= 1 /\ (z \o y)[1] = z[1]
      BY <2>1, <2>2, <2>4, FirstStays, Zenon
    <2> QED
      BY <2>3, <2>4, <2>5
  <1>4. b \in Seq(SUBSET Keys) /\ Len(b) >= 1 /\ b[1] = pair
    <2> DEFINE y == IF ot = Absent THEN << >> ELSE <<X3dhDH(ot, e)>>
               z == <<X3dhDH(Spk(Other(p)), e), X3dhDH(Spk(Other(p)), Spk(p))>>
    <2>1. z \in Seq(SUBSET Keys) /\ Len(z) = 2 /\ z[1] = pair
      BY <1>1 DEF X3dhDH
    <2>2. y \in Seq(SUBSET Keys)
      <3>1. CASE ot = Absent
        BY <3>1
      <3>2. CASE ot # Absent
        <4>1. X3dhDH(ot, e) \in SUBSET Keys
          BY <1>1, <3>2 DEF X3dhDH
        <4> QED
          BY <3>2, <4>1
      <3> QED
        BY <3>1, <3>2
    <2>3. b = z \o y
      BY DEF ResponderDhs
    <2> HIDE DEF y, z, b, pair
    <2>4. Len(z) >= 1 /\ z[1] = pair
      BY <2>1
    <2>5. z \o y \in Seq(SUBSET Keys) /\ Len(z \o y) >= 1 /\ (z \o y)[1] = z[1]
      BY <2>1, <2>2, <2>4, FirstStays, Zenon
    <2> QED
      BY <2>3, <2>4, <2>5
  <1> HIDE DEF a, b, pair, e
  <1>5. LET sk == DeriveSharedSecret(a, pq) IN Agreed(sk) /\ sk \in Outputs /\ Role(p, sk) = "A"
    BY <1>2, <1>3
  <1>6. LET sk == DeriveSharedSecret(b, pq) IN Agreed(sk) /\ sk \in Outputs /\ Role(Other(p), sk) = "B"
    BY <1>2, <1>4
  <1> QED
    BY <1>5, <1>6 DEF InitiatorDerive, ResponderDerive, a, b, e

(* build_x3dh_hello                                                        *)
HelloOK(hello, p) ==
    /\ hello.eph \in Keys \cup {Absent} /\ hello.otpk \in 0 .. OtpkCount /\ hello.pq \in Keys \cup {Absent}
    /\ hello.eph # Absent => hello.pq \in Keys /\ \E k \in Nat : hello.eph = <<p, "eph", k>>

LEMMA OtpkKey ==
    ASSUME NEW p \in Parties, NEW id \in 0 .. OtpkCount
    PROVE  Otpk(p, id) \in Keys \cup {Absent}
  <1>1. id \in Nat
    BY DmAssumption
  <1> QED
    BY <1>1 DEF Otpk, Keys, Kinds

LEMMA InstallKeeps ==
    ASSUME NEW W, NEW D, NEW calm \in BOOLEAN, NEW H, NEW T, NEW n, NodeOK(n, W, D, calm, H, T),
           World(W, D, calm, T), ~HasSession(n)
    PROVE  LET m == InstallInitiator(n) IN
           /\ NodeOK(m, W, D, calm, H, T) /\ Keeps(n, m) /\ SameQueues(n, m)
           /\ m.mem # NoSession /\ HelloOK(HelloOf(n), n.id)
  <1> DEFINE p == n.id
             eph == Drawn(n, "eph")
             sk == InitiatorDerive(Spk(p), Spk(Other(p)), eph, Otpk(Other(p), n.otpk), Drawn(n, "kem"))
             s == NewInitiator(<<sk>>, Spk(Other(p)), Drawn(n, "dh"))
             m == InstallInitiator(n)
  <1>1. p \in Parties /\ n \in Nodes(p) /\ (n.asks => n.inflight) /\ n.otpk \in 0 .. OtpkCount
    BY NodeFields DEF NodeOK
  <1>2. /\ eph = <<p, "eph", n.drawn + 1>> /\ n.drawn + 1 \in Nat
        /\ eph \in Keys /\ Drawn(n, "kem") \in Keys /\ Drawn(n, "dh") \in Keys
    BY <1>1, DrawnKey DEF Kinds
  <1>3. Spk(Other(p)) \in Keys /\ Other(p) \in Parties /\ Otpk(Other(p), n.otpk) \in Keys \cup {Absent}
    BY <1>1, Others, OtpkKey DEF Spk, Keys, Kinds
  <1>4. Agreed(sk) /\ sk \in Outputs /\ Role(p, sk) = "A"
    BY <1>1, <1>2, <1>3, SecretAgreed
  <1>5. m = [n EXCEPT !.mem = s, !.otpk = 0, !.drawn = @ + 1]
    BY DEF InstallInitiator
  <1> HIDE DEF sk
  <1>6. Sane(s, "A") /\ s.rk[1] = sk /\ CanEncrypt(s)
    BY <1>2, <1>3, <1>4, InitiatorMade
  <1> HIDE DEF s
  <1>7. s \in States /\ s # NoSession /\ Session(s, p)
    BY <1>4, <1>6, NoSessionApart DEF Sane, Session, SideOf
  <1>8. 0 \in 0 .. OtpkCount
    BY DmAssumption
  <1>9. /\ m \in Nodes(p) /\ m.mem = s /\ m.disk = n.disk /\ m.stored = n.stored
        /\ m.out = n.out /\ m.drops = n.drops /\ m.id = p /\ m.otpk = 0 /\ m.pool = n.pool
    BY <1>1, <1>2, <1>5, <1>7, <1>8 DEF Nodes
  <1>10. m.asks = n.asks /\ m.inflight = n.inflight /\ m.prekey = n.prekey /\ m.conn = n.conn
    BY <1>1, <1>5 DEF Nodes
  <1>11. SameQueues(n, m)
    BY <1>1, <1>5 DEF Nodes, SameQueues
  <1> HIDE DEF m
  <1>12. /\ n.mem = NoSession /\ n.disk = NoSession
         /\ \A w \in W : w.from = n.id => w \in D /\ ~calm
         /\ \A w \in W : w.to = n.id => n.stored[w.pt] = 0
    <2>1. Blank(n, W, D, calm)
      BY NothingYet
    <2> QED
      BY <2>1 DEF Blank
  <1>13. Sessions(m)
    BY <1>7, <1>9, <1>12 DEF Sessions
  <1>14. OwnBehind(m, W, D, calm)
    BY <1>9, <1>12 DEF OwnBehind
  <1>15. StoredOnce(m, W) /\ StoredSpent(m, W)
    BY <1>9, <1>12 DEF NodeOK, StoredOnce, StoredSpent
  <1>16. Waiting(m, W, H, T) /\ Post(m, W, D) /\ (calm => QueuedKept(m, W, H))
    BY <1>9, <1>11, QueuesAlike DEF NodeOK
  <1>17. NodeOK(m, W, D, calm, H, T)
    BY <1>1, <1>9, <1>10, <1>13, <1>14, <1>15, <1>16 DEF NodeOK
  <1>18. Keeps(n, m)
    BY <1>1, <1>9, <1>10, <1>12 DEF Keeps
  <1>19. HelloOK(HelloOf(n), p)
    BY <1>1, <1>2 DEF HelloOK, HelloOf
  <1> QED
    BY <1>7, <1>9, <1>11, <1>17, <1>18, <1>19 DEF m

(* ratchet_encrypt_and_wrap: the wire is a new one.                        *)
LEMMA WireNew ==
    ASSUME NEW W, NEW D, NEW calm \in BOOLEAN, NEW H, NEW T, NEW n, NEW pt, NEW hello, NEW E,
           World(W, D, calm, T), NodeOK(n, W, D, calm, H, T), pt \in H, n.mem # NoSession,
           HelloOK(hello, n.id), T[n.id] \in Nat,
           E = D \/ E = D \cup {Wire(n, pt, hello)}
    PROVE  LET w == Wire(n, pt, hello) IN
           /\ w \in Wires /\ w.from = n.id /\ w.pt = pt /\ w.mk = n.mem.cks /\ w.to = Other(n.id)
           /\ World(W \cup {w}, E, calm, T)
  <1> DEFINE w == Wire(n, pt, hello)
             p == n.id
             s == n.mem
             a == Role(p, s.rk[1])
  <1>1. p \in Parties /\ n \in Nodes(p) /\ Session(s, p)
    BY DEF NodeOK, Sessions
  <1>2. Other(p) \in Parties /\ Other(p) # p
    BY <1>1, Others
  <1>3. /\ s \in States /\ Sane(s, a) /\ Agreed(s.rk[1])
        /\ s.cks \in ChainKeys /\ s.cks.root = s.rk
        /\ \A mk \in ChainKeys : Past(s, p, mk) => mk # s.cks
    BY <1>1, EncryptSide DEF Session, SideOf, Sane
  <1>4. s.dhs \in Keys /\ s.pn \in Nat /\ s.ns \in Nat
    BY <1>3, StateFields
  <1>5. Unplaced(n, W, pt, T)
    BY DEF NodeOK, Waiting
  <1>6. pt \in 1 .. T[p] /\ pt \in Nat /\ \A v \in W : ~(v.from = p /\ v.pt = pt)
    BY <1>5 DEF Unplaced, Wired
  <1>7. /\ w \in Wires /\ w.from = p /\ w.pt = pt /\ w.mk = s.cks /\ w.to = Other(p)
        /\ w.eph = hello.eph /\ w.pq = hello.pq
    BY <1>1, <1>2, <1>3, <1>4, <1>6 DEF Wire, EncryptHeader, Wires, HelloOK
  <1>e. E \subseteq W \cup {w} /\ D \subseteq E
    BY DEF World
  <1> HIDE DEF w, a
  <1>8. WireOK(w, T)
    <2>1. OfParty(a, s.rk)
      BY <1>3 DEF Sane, Rooted, OfParty
    <2>2. Len(s.rk) >= 1
      BY <2>1 DEF OfParty
    <2>3. OfParty(Role(w.from, w.mk.root[1]), w.mk.root) /\ Agreed(w.mk.root[1]) /\ Len(w.mk.root) >= 1
      BY <1>3, <1>7, <2>1, <2>2 DEF a
    <2> QED
      BY <1>6, <1>7, <2>3 DEF WireOK, HelloOK
  <1>9. OneWire(W \cup {w})
    BY <1>6, <1>7 DEF World, OneWire
  <1>10. ASSUME NEW v \in W, v.mk = w.mk
         PROVE  ~calm /\ v \in D
    <2>1. WireOK(v, T) /\ v \in Wires /\ v.mk \in ChainKeys /\ v.from \in Parties
      BY DEF World, WireOK, Wires
    <2>2. CASE v.from = p
      <3>1. ~Past(s, p, v.mk)
        BY <1>3, <1>7, <1>10, <2>1
      <3> QED
        BY <2>2, <3>1 DEF NodeOK, OwnBehind
    <2>3. CASE v.from # p
      <3>1. v.from = Other(p)
        BY <1>1, <2>1, <2>3 DEF Parties, Other
      <3>2. v.mk.root = s.rk
        BY <1>3, <1>7, <1>10
      <3> DEFINE b == Role(Other(p), s.rk[1])
      <3>3. OfParty(b, s.rk)
        BY <2>1, <3>1, <3>2 DEF WireOK
      <3>4. OfParty(a, s.rk)
        BY <1>3 DEF Sane, Rooted, OfParty
      <3>5. a \in Parties /\ b \in Parties /\ a # b
        BY <1>1, <1>3, RolesDiffer DEF a
      <3> HIDE DEF b
      <3>6. Par(a) = Par(b)
        BY <3>3, <3>4 DEF OfParty
      <3> QED
        BY <3>5, <3>6 DEF Par, Parties
    <2> QED
      BY <2>2, <2>3
  <1>11. OneSeal(W \cup {w}, E, calm)
    <2> SUFFICES ASSUME NEW u \in W \cup {w}, NEW v \in W \cup {w}, u.mk = v.mk, u # v
                 PROVE  ~calm /\ {u, v} \cap E # {}
      BY DEF OneSeal
    <2>1. CASE u \in W /\ v \in W
      <3>1. ~calm /\ {u, v} \cap D # {}
        BY <2>1 DEF World, OneSeal
      <3> QED
        BY <1>e, <3>1
    <2>2. CASE u = w
      <3>1. v \in W /\ v.mk = w.mk
        BY <2>2
      <3> QED
        BY <1>e, <1>10, <3>1
    <2>3. CASE v = w
      <3>1. u \in W /\ u.mk = w.mk
        BY <2>3
      <3> QED
        BY <1>e, <1>10, <3>1
    <2> QED
      BY <2>1, <2>2, <2>3
  <1>12. World(W \cup {w}, E, calm, T)
    BY <1>e, <1>8, <1>9, <1>11 DEF World
  <1> QED
    BY <1>7, <1>12 DEF w

(* The parts that read the sessions only.                                  *)
Behind(n, W, D, calm) ==
    Sessions(n) /\ OwnBehind(n, W, D, calm) /\ StoredOnce(n, W) /\ StoredSpent(n, W)
DiskKept(n, m) ==
    n.disk # NoSession => m.disk # NoSession /\ m.disk.sessionId = n.disk.sessionId

Seals(n, m, w, D, E) ==
    /\ n.mem # NoSession /\ w \in Wires /\ w.from = n.id /\ w.to = Other(n.id) /\ w.mk = n.mem.cks
    /\ D \subseteq E /\ E \subseteq D \cup {w}
    /\ m.id = n.id /\ m.mem = AfterEncrypt(n.mem) /\ m.stored = n.stored
    /\ m.disk = m.mem \/ (m.disk = n.disk /\ w \in E)

(* The sessions after the seal: the one on disk is the new one, or as it   *)
(* was if the wire is a drop.                                              *)
LEMMA SealSessions ==
    ASSUME NEW W, NEW D, NEW calm \in BOOLEAN, NEW H, NEW T, NEW n, NEW m, NEW w, NEW E,
           World(W, D, calm, T), NodeOK(n, W, D, calm, H, T), Seals(n, m, w, D, E)
    PROVE  Behind(m, W \cup {w}, E, calm) /\ DiskKept(n, m)
  <1>0. /\ n.mem # NoSession /\ w \in Wires /\ w.from = n.id /\ w.to = Other(n.id) /\ w.mk = n.mem.cks
        /\ D \subseteq E /\ E \subseteq D \cup {w}
        /\ m.id = n.id /\ m.mem = AfterEncrypt(n.mem) /\ m.stored = n.stored
        /\ m.disk = m.mem \/ (m.disk = n.disk /\ w \in E)
    BY DEF Seals
  <1> USE <1>0
  <1> DEFINE p == n.id
             s == n.mem
             t == m.mem
  <1>1. p \in Parties /\ Session(s, p) /\ Other(p) # p
    BY Others DEF NodeOK, Sessions
  <1>2. /\ Session(t, p) /\ SameSession(s, t) /\ Past(t, p, s.cks)
        /\ \A mk \in ChainKeys : Past(s, p, mk) => Past(t, p, mk)
        /\ \A mk \in ChainKeys : Reads(t, mk) <=> Reads(s, mk)
    BY <1>1, EncryptSide
  <1>3. t \in States /\ t # NoSession /\ t.sessionId = s.sessionId
    BY <1>2, NoSessionApart DEF Session, SideOf, Sane, SameSession
  <1>4. \A v \in W : v.mk \in ChainKeys
    BY DEF World, WireOK, Wires
  <1> HIDE DEF t
  <1>5. m.mem = t /\ (m.disk = t \/ (m.disk = n.disk /\ w \in E))
    BY DEF t
  <1>6. Sessions(m)
    BY <1>2, <1>3, <1>5 DEF NodeOK, Sessions
  <1>7. OwnBehind(m, W \cup {w}, E, calm)
    <2> SUFFICES ASSUME NEW v \in W \cup {w}, v.from = p
                 PROVE  /\ v \notin E => m.disk # NoSession /\ Past(m.disk, p, v.mk)
                        /\ (v \notin E \/ calm) => Past(t, p, v.mk)
      BY <1>3, <1>5 DEF OwnBehind
    <2>1. CASE v = w
      BY <1>2, <1>3, <1>5, <2>1
    <2>2. CASE v \in W /\ v # w
      <3>1. v \in E <=> v \in D
        BY <2>2
      <3>2. /\ v \notin D => n.disk # NoSession /\ Past(n.disk, p, v.mk)
            /\ (v \notin D \/ calm) => Past(s, p, v.mk)
        BY <2>2 DEF NodeOK, OwnBehind
      <3> QED
        BY <1>2, <1>3, <1>4, <1>5, <2>2, <3>1, <3>2
    <2> QED
      BY <2>1, <2>2
  <1>8. StoredOnce(m, W \cup {w})
    BY DEF NodeOK, StoredOnce, Wired
  <1>9. StoredSpent(m, W \cup {w})
    <2> SUFFICES ASSUME NEW v \in W \cup {w}, v.to = p, n.stored[v.pt] # 0
                 PROVE  m.disk # NoSession /\ ~Reads(m.disk, v.mk) /\ ~Reads(t, v.mk)
      BY <1>5 DEF StoredSpent
    <2>1. v \in W
      BY <1>1
    <2>2. n.disk # NoSession /\ ~Reads(n.disk, v.mk) /\ ~Reads(s, v.mk)
      BY <2>1 DEF NodeOK, StoredSpent
    <2> QED
      BY <1>2, <1>3, <1>4, <1>5, <2>1, <2>2
  <1>10. DiskKept(n, m)
    BY <1>3, <1>5 DEF NodeOK, Sessions, DiskKept
  <1> QED
    BY <1>6, <1>7, <1>8, <1>9, <1>10 DEF Behind

(* The queues after the seal: message k has left the handler's hands, and  *)
(* at most a wire has joined the outbox.                                   *)
LEMMA SealQueues ==
    ASSUME NEW W, NEW H, NEW T, NEW n, NEW m, NEW w, NEW k,
           m.id = n.id, w.from = n.id, w.pt = k, k \notin H, m.pendSend = n.pendSend,
           \A i \in 1 .. Len(n.outbox) : i \in 1 .. Len(m.outbox) /\ m.outbox[i] = n.outbox[i],
           \A i \in 1 .. Len(m.outbox) :
                (i \in 1 .. Len(n.outbox) /\ m.outbox[i] = n.outbox[i]) \/ m.outbox[i].wire,
           m.queued \subseteq n.queued \cup {k}
    PROVE  /\ Waiting(n, W, H \cup {k}, T) => Waiting(m, W \cup {w}, H, T)
           /\ QueuedKept(n, W, H \cup {k}) => QueuedKept(m, W \cup {w}, H)
  <1>1. \A j : j # k /\ Unplaced(n, W, j, T) => Unplaced(m, W \cup {w}, j, T)
    BY DEF Unplaced, Wired
  <1>2. ASSUME Waiting(n, W, H \cup {k}, T) PROVE Waiting(m, W \cup {w}, H, T)
    <2>1. ASSUME NEW i \in 1 .. Len(m.outbox), ~m.outbox[i].wire
          PROVE  /\ Unplaced(m, W \cup {w}, m.outbox[i].body, T) /\ m.outbox[i].body \notin H
                 /\ \A j \in 1 .. Len(m.outbox) : m.outbox[j] = m.outbox[i] => j = i
                 /\ \A j \in 1 .. Len(m.pendSend) : m.pendSend[j] # m.outbox[i].body
      <3>1. i \in 1 .. Len(n.outbox) /\ m.outbox[i] = n.outbox[i]
        BY <2>1
      <3>2. /\ Unplaced(n, W, n.outbox[i].body, T) /\ n.outbox[i].body \notin H /\ n.outbox[i].body # k
            /\ \A j \in 1 .. Len(n.outbox) : n.outbox[j] = n.outbox[i] => j = i
            /\ \A j \in 1 .. Len(n.pendSend) : n.pendSend[j] # n.outbox[i].body
        BY <1>2, <2>1, <3>1 DEF Waiting
      <3>3. ASSUME NEW j \in 1 .. Len(m.outbox), m.outbox[j] = m.outbox[i] PROVE j = i
        <4>1. j \in 1 .. Len(n.outbox) /\ m.outbox[j] = n.outbox[j]
          BY <2>1, <3>3
        <4> QED
          BY <3>1, <3>2, <3>3, <4>1
      <3> QED
        BY <1>1, <3>1, <3>2, <3>3
    <2>2. ASSUME NEW i \in 1 .. Len(m.pendSend)
          PROVE  /\ Unplaced(m, W \cup {w}, m.pendSend[i], T) /\ m.pendSend[i] \notin H
                 /\ \A j \in 1 .. Len(m.pendSend) : m.pendSend[j] = m.pendSend[i] => j = i
      <3>1. /\ Unplaced(n, W, n.pendSend[i], T) /\ n.pendSend[i] \notin H /\ n.pendSend[i] # k
            /\ \A j \in 1 .. Len(n.pendSend) : n.pendSend[j] = n.pendSend[i] => j = i
        BY <1>2, <2>2 DEF Waiting
      <3> QED
        BY <1>1, <3>1
    <2>3. \A j \in H : Unplaced(m, W \cup {w}, j, T)
      BY <1>1, <1>2 DEF Waiting
    <2> QED
      BY <2>1, <2>2, <2>3 DEF Waiting
  <1>3. ASSUME QueuedKept(n, W, H \cup {k}) PROVE QueuedKept(m, W \cup {w}, H)
    <2> SUFFICES ASSUME NEW j \in m.queued
                 PROVE  \/ Wired(W \cup {w}, n.id, j) \/ j \in H
                        \/ \E i \in 1 .. Len(m.outbox) : m.outbox[i] = PlainRow(j)
                        \/ \E i \in 1 .. Len(m.pendSend) : m.pendSend[i] = j
      BY DEF QueuedKept
    <2>1. CASE j = k
      BY <2>1 DEF Wired
    <2>2. CASE j # k
      <3>1. \/ Wired(W, n.id, j) \/ j \in H
            \/ \E i \in 1 .. Len(n.outbox) : n.outbox[i] = PlainRow(j)
            \/ \E i \in 1 .. Len(n.pendSend) : n.pendSend[i] = j
        BY <1>3, <2>2 DEF QueuedKept
      <3>2. Wired(W, n.id, j) => Wired(W \cup {w}, n.id, j)
        BY DEF Wired
      <3> QED
        BY <3>1, <3>2
    <2> QED
      BY <2>1, <2>2
  <1> QED
    BY <1>2, <1>3

-----------------------------------------------------------------------------
(* The handlers' steps.  What a node is about to publish counts as         *)
(* published.                                                              *)
AllW(n, W) == W \cup n.out \cup n.drops
AllD(n, D) == D \cup n.drops
Good(n, W, D, calm, H, T) ==
    World(AllW(n, W), AllD(n, D), calm, T) /\ NodeOK(n, AllW(n, W), AllD(n, D), calm, H, T)

LEMMA Appended ==
    ASSUME NEW S, NEW q \in Seq(S), NEW x \in S
    PROVE  /\ Append(q, x) \in Seq(S) /\ Len(Append(q, x)) = Len(q) + 1
           /\ \A i \in 1 .. Len(q) : i \in 1 .. Len(Append(q, x)) /\ Append(q, x)[i] = q[i]
           /\ Len(q) + 1 \in 1 .. Len(Append(q, x)) /\ Append(q, x)[Len(q) + 1] = x
           /\ \A i \in 1 .. Len(Append(q, x)) :
                (i \in 1 .. Len(q) /\ Append(q, x)[i] = q[i]) \/ (i = Len(q) + 1 /\ Append(q, x)[i] = x)
  <1>1. Append(q, x) \in Seq(S) /\ Len(Append(q, x)) = Len(q) + 1 /\ Len(q) \in Nat
    BY AppendProperties
  <1>2. \A i \in 1 .. Len(q) : Append(q, x)[i] = q[i]
    BY AppendProperties
  <1>3. Append(q, x)[Len(q) + 1] = x
    BY AppendProperties
  <1> DEFINE r == Append(q, x)
  <1> HIDE DEF r
  <1>4. \A i \in 1 .. Len(q) + 1 : i \in 1 .. Len(q) \/ i = Len(q) + 1
    BY <1>1
  <1>5. Len(q) + 1 \in 1 .. Len(q) + 1 /\ \A i \in 1 .. Len(q) : i \in 1 .. Len(q) + 1
    BY <1>1
  <1> QED
    BY <1>1, <1>2, <1>3, <1>4, <1>5

LEMMA RowsMade ==
    /\ \A k \in Nat : PlainRow(k) \in Rows /\ ~PlainRow(k).wire /\ PlainRow(k).body = k
    /\ \A w \in Wires : WireRow(w) \in Rows /\ WireRow(w).wire /\ WireRow(w).body = w
    /\ \A r \in Rows : (~r.wire => r.body \in Nat /\ r = PlainRow(r.body)) /\ (r.wire => r.body \in Wires)
  <1>1. \A k \in Nat : PlainRow(k) \in Rows /\ ~PlainRow(k).wire /\ PlainRow(k).body = k
    BY DEF PlainRow, Rows
  <1>2. \A w \in Wires : WireRow(w) \in Rows /\ WireRow(w).wire /\ WireRow(w).body = w
    BY DEF WireRow, Rows
  <1>3. ASSUME NEW r \in Rows
        PROVE  (~r.wire => r.body \in Nat /\ r = PlainRow(r.body)) /\ (r.wire => r.body \in Wires)
    <2>1. CASE r \in [wire : {FALSE}, body : Nat]
      BY <2>1 DEF PlainRow
    <2>2. CASE r \in [wire : {TRUE}, body : Wires]
      BY <2>2
    <2> QED
      BY <2>1, <2>2 DEF Rows
  <1> QED
    BY <1>1, <1>2, <1>3

(* encrypt_and_send_existing                                               *)
LEMMA SendKeepsNode ==
    ASSUME NEW W, NEW D, NEW calm \in BOOLEAN, NEW H, NEW T, NEW n, NEW pt, NEW hello,
           Good(n, W, D, calm, H \cup {pt}, T), pt \notin H, n.mem # NoSession,
           HelloOK(hello, n.id), T[n.id] \in Nat
    PROVE  LET m == EncryptAndSendExisting(n, pt, hello) IN
           Good(m, W, D, calm, H, T) /\ Keeps(n, m) /\ SameQueues(n, m)
  <1> DEFINE p == n.id
             w == Wire(n, pt, hello)
             X == AllW(n, W)
             E == AllD(n, D)
             s == AfterEncrypt(n.mem)
             m == EncryptAndSendExisting(n, pt, hello)
             k == H \cup {pt}
  <1>1. World(X, E, calm, T) /\ NodeOK(n, X, E, calm, k, T) /\ p \in Parties /\ n \in Nodes(p)
    BY DEF Good, NodeOK
  <1>2. /\ w \in Wires /\ w.from = p /\ w.pt = pt /\ w.mk = n.mem.cks /\ w.to = Other(p)
        /\ World(X \cup {w}, E, calm, T)
    BY <1>1, WireNew
  <1>3. CanEncrypt(n.mem) /\ Session(n.mem, p)
    BY <1>1 DEF NodeOK, Sessions, Session
  <1>4. m = [n EXCEPT !.mem = s, !.out = @ \cup {w}, !.disk = s]
    BY <1>1, <1>3 DEF EncryptAndSendExisting, PersistSession, Nodes
  <1>5. s \in States
    BY <1>1, <1>3, EncryptSide DEF Session, SideOf, Sane
  <1> HIDE DEF w, s, k
  <1>6. /\ m \in Nodes(p) /\ m.mem = s /\ m.disk = s /\ m.stored = n.stored
        /\ m.out = n.out \cup {w} /\ m.drops = n.drops /\ m.id = p /\ m.otpk = n.otpk /\ m.pool = n.pool
    <2> DEFINE o == n.out \cup {w}
    <2>1. o \in SUBSET Wires
      BY <1>1, <1>2, NodeFields
    <2>2. m = [n EXCEPT !.mem = s, !.out = o, !.disk = s]
      BY <1>4
    <2> HIDE DEF o, m
    <2>3. m \in Nodes(p)
      BY <1>1, <1>5, <2>1, <2>2 DEF Nodes
    <2>4. /\ m.mem = s /\ m.disk = s /\ m.stored = n.stored
          /\ m.out = o /\ m.drops = n.drops /\ m.id = p /\ m.otpk = n.otpk /\ m.pool = n.pool
      BY <1>1, <2>2 DEF Nodes
    <2> QED
      BY <2>3, <2>4 DEF o
  <1>7. m.asks = n.asks /\ m.inflight = n.inflight /\ m.prekey = n.prekey /\ m.conn = n.conn
    BY <1>1, <1>4 DEF Nodes
  <1>8. SameQueues(n, m)
    BY <1>1, <1>4 DEF Nodes, SameQueues
  <1> HIDE DEF m
  <1>9. AllW(m, W) = X \cup {w} /\ AllD(m, D) = E
    BY <1>6 DEF AllW, AllD
  <1> HIDE DEF X, E
  <1>10. Behind(m, X \cup {w}, E, calm) /\ DiskKept(n, m)
    <2>1. Seals(n, m, w, E, E)
      BY <1>2, <1>6 DEF Seals, s
    <2> QED
      BY <1>1, <2>1, SealSessions
  <1>11. Waiting(m, X \cup {w}, H, T) /\ (calm => QueuedKept(m, X \cup {w}, H))
    <2>1. Waiting(n, X, k, T) /\ (calm => QueuedKept(n, X, k))
      BY <1>1 DEF NodeOK
    <2>2. Waiting(n, X, k, T) => Waiting(m, X \cup {w}, H, T)
      BY <1>2, <1>6, <1>8, SealQueues DEF SameQueues, k
    <2>3. QueuedKept(n, X, k) => QueuedKept(m, X \cup {w}, H)
      BY <1>2, <1>6, <1>8, SealQueues DEF SameQueues, k
    <2> QED
      BY <2>1, <2>2, <2>3
  <1>12. Post(m, X \cup {w}, E)
    BY <1>1, <1>2, <1>6, <1>8 DEF NodeOK, Post, SameQueues
  <1>13. Good(m, W, D, calm, H, T)
    BY <1>1, <1>2, <1>6, <1>7, <1>9, <1>10, <1>11, <1>12 DEF Good, NodeOK, Behind
  <1>14. Keeps(n, m)
    BY <1>1, <1>6, <1>7, <1>10 DEF Keeps, NodeOK, DiskKept
  <1> QED
    BY <1>8, <1>13, <1>14 DEF m

(* The offline branch with a session.                                      *)
Adds(n, m) ==
    /\ m.pendRecv = n.pendRecv /\ (n.conn => m.outbox = n.outbox)
    /\ Len(m.outbox) + Len(m.pendSend) <= Len(n.outbox) + Len(n.pendSend) + 1

LEMMA OneMore ==
    /\ \A a, b, c \in Nat : c = a + 1 => c + b <= a + b + 1 /\ b + c <= b + a + 1
    /\ \A a, b \in Nat : a + b <= a + b + 1
  OBVIOUS

LEMMA SendOfflineKeepsNode ==
    ASSUME NEW W, NEW D, NEW calm \in BOOLEAN, NEW H, NEW T, NEW n, NEW pt, NEW hello,
           Good(n, W, D, calm, H \cup {pt}, T), pt \notin H, n.mem # NoSession,
           HelloOK(hello, n.id), T[n.id] \in Nat, ~n.conn
    PROVE  LET m == EncryptOffline(n, pt, hello) IN
           Good(m, W, D, calm, H, T) /\ Keeps(n, m) /\ Adds(n, m)
  <1> DEFINE p == n.id
             w == Wire(n, pt, hello)
             X == AllW(n, W)
             E == AllD(n, D)
             s == AfterEncrypt(n.mem)
             m == EncryptOffline(n, pt, hello)
             k == H \cup {pt}
             q == Append(n.outbox, WireRow(w))
  <1>1. World(X, E, calm, T) /\ NodeOK(n, X, E, calm, k, T) /\ p \in Parties /\ n \in Nodes(p)
    BY DEF Good, NodeOK
  <1>2. /\ w \in Wires /\ w.from = p /\ w.pt = pt /\ w.mk = n.mem.cks /\ w.to = Other(p)
        /\ World(X \cup {w}, E \cup {w}, calm, T)
    BY <1>1, WireNew
  <1>3. CanEncrypt(n.mem) /\ Session(n.mem, p)
    BY <1>1 DEF NodeOK, Sessions, Session
  <1>4. m = [n EXCEPT !.mem = s, !.drops = @ \cup {w}, !.outbox = q, !.queued = @ \cup {pt}]
    BY <1>1, <1>3 DEF EncryptOffline, OutboxAdd, Nodes
  <1>5. s \in States
    BY <1>1, <1>3, EncryptSide DEF Session, SideOf, Sane
  <1> HIDE DEF w, s, k
  <1>o. n.outbox \in Seq(Rows) /\ WireRow(w) \in Rows /\ WireRow(w).wire /\ WireRow(w).body = w
    BY <1>1, <1>2, RowsMade, NodeFields
  <1>q. /\ q \in Seq(Rows) /\ Len(q) = Len(n.outbox) + 1
        /\ \A i \in 1 .. Len(n.outbox) : i \in 1 .. Len(q) /\ q[i] = n.outbox[i]
        /\ \A i \in 1 .. Len(q) :
                (i \in 1 .. Len(n.outbox) /\ q[i] = n.outbox[i]) \/ (i = Len(n.outbox) + 1 /\ q[i] = WireRow(w))
    BY <1>o, Appended
  <1>pt. pt \in Nat
    <2>1. Unplaced(n, X, pt, T)
      BY <1>1 DEF NodeOK, Waiting, k
    <2> QED
      BY <2>1 DEF Unplaced
  <1> HIDE DEF q
  <1>6. /\ m \in Nodes(p) /\ m.mem = s /\ m.disk = n.disk /\ m.stored = n.stored
        /\ m.out = n.out /\ m.drops = n.drops \cup {w} /\ m.id = p /\ m.otpk = n.otpk /\ m.pool = n.pool
    <2> DEFINE o == n.drops \cup {w}
               z == n.queued \cup {pt}
    <2>1. o \in SUBSET Wires /\ z \in SUBSET Nat
      BY <1>1, <1>2, <1>pt, NodeFields
    <2>2. m = [n EXCEPT !.mem = s, !.drops = o, !.outbox = q, !.queued = z]
      BY <1>4
    <2> HIDE DEF o, z, m
    <2>3. m \in Nodes(p)
      BY <1>1, <1>5, <1>q, <2>1, <2>2 DEF Nodes
    <2>4. /\ m.mem = s /\ m.disk = n.disk /\ m.stored = n.stored
          /\ m.out = n.out /\ m.drops = o /\ m.id = p /\ m.otpk = n.otpk /\ m.pool = n.pool
      BY <1>1, <2>2 DEF Nodes
    <2> QED
      BY <2>3, <2>4 DEF o
  <1>7. m.asks = n.asks /\ m.inflight = n.inflight /\ m.prekey = n.prekey /\ m.conn = n.conn
    BY <1>1, <1>4 DEF Nodes
  <1>8. /\ m.outbox = q /\ m.pendSend = n.pendSend /\ m.pendRecv = n.pendRecv
        /\ m.queued = n.queued \cup {pt}
    BY <1>1, <1>4 DEF Nodes
  <1> HIDE DEF m
  <1>9. AllW(m, W) = X \cup {w} /\ AllD(m, D) = E \cup {w}
    BY <1>6 DEF AllW, AllD
  <1> HIDE DEF X, E
  <1>10. Behind(m, X \cup {w}, E \cup {w}, calm) /\ DiskKept(n, m)
    <2>1. Seals(n, m, w, E, E \cup {w})
      BY <1>2, <1>6 DEF Seals, s
    <2> QED
      BY <1>1, <2>1, SealSessions
  <1>r. \A i \in 1 .. Len(m.outbox) :
            (i \in 1 .. Len(n.outbox) /\ m.outbox[i] = n.outbox[i]) \/ m.outbox[i].wire
    BY <1>8, <1>o, <1>q
  <1>11. Waiting(m, X \cup {w}, H, T) /\ (calm => QueuedKept(m, X \cup {w}, H))
    <2>1. Waiting(n, X, k, T) /\ (calm => QueuedKept(n, X, k))
      BY <1>1 DEF NodeOK
    <2>2. Waiting(n, X, k, T) => Waiting(m, X \cup {w}, H, T)
      BY <1>2, <1>6, <1>8, <1>q, <1>r, SealQueues DEF k
    <2>3. QueuedKept(n, X, k) => QueuedKept(m, X \cup {w}, H)
      BY <1>2, <1>6, <1>8, <1>q, <1>r, SealQueues DEF k
    <2> QED
      BY <2>1, <2>2, <2>3
  <1>12. Post(m, X \cup {w}, E \cup {w})
    <2>1. \A i \in 1 .. Len(n.outbox) : n.outbox[i].wire =>
            n.outbox[i].body \in X /\ n.outbox[i].body \in E /\ n.outbox[i].body.from = p
      BY <1>1 DEF NodeOK, Post
    <2>2. ASSUME NEW i \in 1 .. Len(m.outbox), m.outbox[i].wire
          PROVE  m.outbox[i].body \in X \cup {w} /\ m.outbox[i].body \in E \cup {w} /\ m.outbox[i].body.from = p
      BY <1>2, <1>8, <1>o, <1>q, <2>1, <2>2
    <2> QED
      BY <1>1, <1>2, <1>6, <1>8, <2>2 DEF NodeOK, Post
  <1>13. Good(m, W, D, calm, H, T)
    BY <1>1, <1>2, <1>6, <1>7, <1>9, <1>10, <1>11, <1>12 DEF Good, NodeOK, Behind
  <1>14. Keeps(n, m)
    BY <1>1, <1>6, <1>7, <1>10 DEF Keeps, NodeOK, DiskKept
  <1>15. Adds(n, m)
    <2>1. Len(n.outbox) \in Nat /\ Len(n.pendSend) \in Nat
      BY <1>1, NodeFields
    <2>3. Len(q) = Len(n.outbox) + 1 /\ Len(q) \in Nat
      BY <1>q
    <2>2. Len(q) + Len(n.pendSend) <= Len(n.outbox) + Len(n.pendSend) + 1
      BY <2>1, <2>3, OneMore, Zenon
    <2> QED
      BY <1>8, <2>2 DEF Adds
  <1> QED
    BY <1>13, <1>14, <1>15 DEF m

(* outbox_add of a plaintext                                               *)
LEMMA QueueKeepsNode ==
    ASSUME NEW W, NEW D, NEW calm \in BOOLEAN, NEW H, NEW T, NEW n, NEW pt,
           Good(n, W, D, calm, H \cup {pt}, T), pt \notin H, ~n.conn
    PROVE  LET m == OutboxAdd(n, PlainRow(pt), pt) IN
           Good(m, W, D, calm, H, T) /\ Keeps(n, m) /\ Adds(n, m)
  <1> DEFINE p == n.id
             X == AllW(n, W)
             E == AllD(n, D)
             m == OutboxAdd(n, PlainRow(pt), pt)
             k == H \cup {pt}
             q == Append(n.outbox, PlainRow(pt))
             z == n.queued \cup {pt}
  <1>1. World(X, E, calm, T) /\ NodeOK(n, X, E, calm, k, T) /\ p \in Parties /\ n \in Nodes(p)
    BY DEF Good, NodeOK
  <1>2. m = [n EXCEPT !.outbox = q, !.queued = z]
    BY DEF OutboxAdd
  <1> HIDE DEF k
  <1>3. Waiting(n, X, k, T) /\ Unplaced(n, X, pt, T)
    BY <1>1 DEF NodeOK, Waiting, k
  <1>4. pt \in Nat
    BY <1>3 DEF Unplaced
  <1>5. n.outbox \in Seq(Rows) /\ PlainRow(pt) \in Rows /\ ~PlainRow(pt).wire /\ PlainRow(pt).body = pt
    BY <1>1, <1>4, RowsMade, NodeFields
  <1>6. /\ q \in Seq(Rows) /\ Len(q) = Len(n.outbox) + 1 /\ Len(q) \in Nat
        /\ \A i \in 1 .. Len(n.outbox) : i \in 1 .. Len(q) /\ q[i] = n.outbox[i]
        /\ Len(n.outbox) + 1 \in 1 .. Len(q) /\ q[Len(n.outbox) + 1] = PlainRow(pt)
        /\ \A i \in 1 .. Len(q) :
                (i \in 1 .. Len(n.outbox) /\ q[i] = n.outbox[i]) \/ (i = Len(n.outbox) + 1 /\ q[i] = PlainRow(pt))
    BY <1>5, Appended
  <1>z. z \in SUBSET Nat
    BY <1>1, <1>4, NodeFields
  <1> HIDE DEF q, z
  <1>7. m \in Nodes(p)
    BY <1>1, <1>2, <1>6, <1>z DEF Nodes
  <1>8. /\ m.mem = n.mem /\ m.disk = n.disk /\ m.stored = n.stored
        /\ m.out = n.out /\ m.drops = n.drops /\ m.id = p /\ m.otpk = n.otpk /\ m.pool = n.pool
    BY <1>1, <1>2 DEF Nodes
  <1>9. m.asks = n.asks /\ m.inflight = n.inflight /\ m.prekey = n.prekey /\ m.conn = n.conn
    BY <1>1, <1>2 DEF Nodes
  <1>10. m.outbox = q /\ m.pendSend = n.pendSend /\ m.pendRecv = n.pendRecv /\ m.queued = z
    BY <1>1, <1>2 DEF Nodes
  <1> HIDE DEF m
  <1>11. AllW(m, W) = X /\ AllD(m, D) = E
    BY <1>8 DEF AllW, AllD
  <1> HIDE DEF X, E
  <1>12. Behind(m, X, E, calm)
    BY <1>1, <1>8 DEF NodeOK, Behind, Sessions, OwnBehind, StoredOnce, StoredSpent
  <1>13. \A j : Unplaced(n, X, j, T) => Unplaced(m, X, j, T)
    BY <1>8 DEF Unplaced
  <1>14. ASSUME NEW i \in 1 .. Len(n.outbox), ~n.outbox[i].wire
         PROVE  /\ Unplaced(n, X, n.outbox[i].body, T) /\ n.outbox[i].body \notin H /\ n.outbox[i].body # pt
                /\ \A j \in 1 .. Len(n.outbox) : n.outbox[j] = n.outbox[i] => j = i
                /\ \A j \in 1 .. Len(n.pendSend) : n.pendSend[j] # n.outbox[i].body
    BY <1>3, <1>14 DEF Waiting, k
  <1>15. \A i \in 1 .. Len(n.pendSend) :
            /\ Unplaced(n, X, n.pendSend[i], T) /\ n.pendSend[i] \notin H /\ n.pendSend[i] # pt
            /\ \A j \in 1 .. Len(n.pendSend) : n.pendSend[j] = n.pendSend[i] => j = i
    BY <1>3 DEF Waiting, k
  <1>16. Waiting(m, X, H, T)
    <2>1. ASSUME NEW i \in 1 .. Len(q), ~q[i].wire
          PROVE  /\ Unplaced(m, X, q[i].body, T) /\ q[i].body \notin H
                 /\ \A j \in 1 .. Len(q) : q[j] = q[i] => j = i
                 /\ \A j \in 1 .. Len(n.pendSend) : n.pendSend[j] # q[i].body
      <3>1. CASE i \in 1 .. Len(n.outbox) /\ q[i] = n.outbox[i]
        <4>1. ASSUME NEW j \in 1 .. Len(q), q[j] = q[i] PROVE j = i
          <5>1. q[j] # PlainRow(pt)
            BY <1>5, <1>14, <2>1, <3>1, <4>1
          <5>2. j \in 1 .. Len(n.outbox) /\ q[j] = n.outbox[j]
            BY <1>6, <5>1
          <5> QED
            BY <1>14, <2>1, <3>1, <4>1, <5>2
        <4> QED
          BY <1>13, <1>14, <2>1, <3>1, <4>1
      <3>2. CASE i = Len(n.outbox) + 1 /\ q[i] = PlainRow(pt)
        <4>1. ASSUME NEW j \in 1 .. Len(q), q[j] = q[i] PROVE j = i
          <5>1. CASE j \in 1 .. Len(n.outbox) /\ q[j] = n.outbox[j]
            BY <1>5, <1>14, <3>2, <4>1, <5>1
          <5> QED
            BY <1>6, <3>2, <5>1
        <4> QED
          BY <1>3, <1>5, <1>13, <1>15, <3>2, <4>1
      <3> QED
        BY <1>6, <3>1, <3>2
    <2>2. \A j \in H : Unplaced(m, X, j, T)
      BY <1>3, <1>13 DEF Waiting, k
    <2> QED
      BY <1>10, <1>13, <1>15, <2>1, <2>2 DEF Waiting
  <1>17. calm => QueuedKept(m, X, H)
    <2> SUFFICES ASSUME QueuedKept(n, X, k), NEW j \in z
                 PROVE  \/ Wired(X, p, j) \/ j \in H
                        \/ \E i \in 1 .. Len(q) : q[i] = PlainRow(j)
                        \/ \E i \in 1 .. Len(n.pendSend) : n.pendSend[i] = j
      BY <1>1, <1>8, <1>10 DEF QueuedKept, NodeOK
    <2>1. CASE j = pt
      BY <1>6, <2>1
    <2>2. CASE j # pt
      <3>1. \/ Wired(X, p, j) \/ j \in H
            \/ \E i \in 1 .. Len(n.outbox) : n.outbox[i] = PlainRow(j)
            \/ \E i \in 1 .. Len(n.pendSend) : n.pendSend[i] = j
        BY <2>2 DEF QueuedKept, k, z
      <3> QED
        BY <1>6, <3>1
    <2> QED
      BY <2>1, <2>2
  <1>18. Post(m, X, E)
    <2>1. \A i \in 1 .. Len(q) : q[i].wire => i \in 1 .. Len(n.outbox) /\ q[i] = n.outbox[i]
      BY <1>5, <1>6
    <2> QED
      BY <1>1, <1>8, <1>10, <2>1 DEF NodeOK, Post
  <1>19. Good(m, W, D, calm, H, T)
    BY <1>1, <1>7, <1>8, <1>9, <1>11, <1>12, <1>16, <1>17, <1>18 DEF Good, NodeOK, Behind
  <1>20. Keeps(n, m)
    BY <1>1, <1>8, <1>9 DEF Keeps, NodeOK
  <1>21. Adds(n, m)
    <2>1. Len(n.outbox) \in Nat /\ Len(n.pendSend) \in Nat /\ Len(q) = Len(n.outbox) + 1 /\ Len(q) \in Nat
      BY <1>1, <1>6, NodeFields
    <2>2. Len(q) + Len(n.pendSend) <= Len(n.outbox) + Len(n.pendSend) + 1
      BY <2>1, OneMore, Zenon
    <2> QED
      BY <1>10, <2>2 DEF Adds
  <1> QED
    BY <1>19, <1>20, <1>21 DEF m

(* request_prekey_if_idle                                                  *)
LEMMA RequestKeeps ==
    ASSUME NEW W, NEW D, NEW calm \in BOOLEAN, NEW H, NEW T, NEW n, Good(n, W, D, calm, H, T), ~n.prekey
    PROVE  LET m == RequestPrekey(n) IN Good(m, W, D, calm, H, T) /\ Keeps(n, m) /\ SameQueues(n, m)
  <1> DEFINE p == n.id
             X == AllW(n, W)
             E == AllD(n, D)
             m == RequestPrekey(n)
  <1>1. /\ World(X, E, calm, T) /\ NodeOK(n, X, E, calm, H, T) /\ p \in Parties /\ n \in Nodes(p)
        /\ n.asks => n.inflight
    BY DEF Good, NodeOK
  <1>2. CASE n.inflight
    <2>1. m = n
      BY <1>2 DEF RequestPrekey
    <2> QED
      BY <1>1, <2>1, KeepsAll DEF SameQueues
  <1>3. CASE ~n.inflight
    <2>1. m = [n EXCEPT !.inflight = TRUE, !.asks = TRUE]
      BY <1>3 DEF RequestPrekey
    <2>2. m \in Nodes(p)
      BY <1>1, <2>1 DEF Nodes
    <2>3. /\ m.mem = n.mem /\ m.disk = n.disk /\ m.stored = n.stored
          /\ m.out = n.out /\ m.drops = n.drops /\ m.id = p /\ m.otpk = n.otpk /\ m.pool = n.pool
      BY <1>1, <2>1 DEF Nodes
    <2>4. m.asks /\ m.inflight /\ m.prekey = n.prekey /\ m.conn = n.conn
      BY <1>1, <2>1 DEF Nodes
    <2>5. SameQueues(n, m)
      BY <1>1, <2>1 DEF Nodes, SameQueues
    <2> HIDE DEF m
    <2>6. AllW(m, W) = X /\ AllD(m, D) = E
      BY <2>3 DEF AllW, AllD
    <2> HIDE DEF X, E
    <2>7. Behind(m, X, E, calm)
      BY <1>1, <2>3 DEF NodeOK, Behind, Sessions, OwnBehind, StoredOnce, StoredSpent
    <2>8. Waiting(m, X, H, T) /\ Post(m, X, E) /\ (calm => QueuedKept(m, X, H))
      BY <1>1, <2>3, <2>5, QueuesAlike DEF NodeOK
    <2>9. Good(m, W, D, calm, H, T)
      BY <1>1, <2>2, <2>3, <2>4, <2>6, <2>7, <2>8 DEF Good, NodeOK, Behind
    <2>10. Keeps(n, m)
      BY <1>1, <2>3, <2>4 DEF Keeps
    <2> QED
      BY <2>5, <2>9, <2>10 DEF m
  <1> QED
    BY <1>2, <1>3

(* The queue of sends that wait for the prekey.                            *)
LEMMA PendKeepsNode ==
    ASSUME NEW W, NEW D, NEW calm \in BOOLEAN, NEW H, NEW T, NEW n, NEW pt,
           Good(n, W, D, calm, H \cup {pt}, T), pt \notin H
    PROVE  LET m == [n EXCEPT !.pendSend = Append(@, pt)] IN
           Good(m, W, D, calm, H, T) /\ Keeps(n, m) /\ Adds(n, m)
  <1> DEFINE p == n.id
             X == AllW(n, W)
             E == AllD(n, D)
             q == Append(n.pendSend, pt)
             m == [n EXCEPT !.pendSend = q]
             k == H \cup {pt}
  <1>1. World(X, E, calm, T) /\ NodeOK(n, X, E, calm, k, T) /\ p \in Parties /\ n \in Nodes(p)
    BY DEF Good, NodeOK
  <1>2. m = [n EXCEPT !.pendSend = Append(@, pt)]
    OBVIOUS
  <1> HIDE DEF k
  <1>3. Waiting(n, X, k, T) /\ Unplaced(n, X, pt, T)
    BY <1>1 DEF NodeOK, Waiting, k
  <1>4. pt \in Nat
    BY <1>3 DEF Unplaced
  <1>5. n.pendSend \in Seq(Nat)
    BY <1>1, NodeFields
  <1>6. /\ q \in Seq(Nat) /\ Len(q) = Len(n.pendSend) + 1 /\ Len(q) \in Nat
        /\ \A i \in 1 .. Len(n.pendSend) : i \in 1 .. Len(q) /\ q[i] = n.pendSend[i]
        /\ Len(n.pendSend) + 1 \in 1 .. Len(q) /\ q[Len(n.pendSend) + 1] = pt
        /\ \A i \in 1 .. Len(q) :
                (i \in 1 .. Len(n.pendSend) /\ q[i] = n.pendSend[i]) \/ (i = Len(n.pendSend) + 1 /\ q[i] = pt)
    BY <1>4, <1>5, Appended
  <1> HIDE DEF q
  <1>7. m \in Nodes(p)
    BY <1>1, <1>6 DEF Nodes
  <1>8. /\ m.mem = n.mem /\ m.disk = n.disk /\ m.stored = n.stored
        /\ m.out = n.out /\ m.drops = n.drops /\ m.id = p /\ m.otpk = n.otpk /\ m.pool = n.pool
    BY <1>1 DEF Nodes
  <1>9. m.asks = n.asks /\ m.inflight = n.inflight /\ m.prekey = n.prekey /\ m.conn = n.conn
    BY <1>1 DEF Nodes
  <1>10. m.outbox = n.outbox /\ m.pendSend = q /\ m.pendRecv = n.pendRecv /\ m.queued = n.queued
    BY <1>1 DEF Nodes
  <1>11. AllW(m, W) = X /\ AllD(m, D) = E
    BY <1>8 DEF AllW, AllD
  <1> HIDE DEF X, E, m
  <1>12. Behind(m, X, E, calm)
    BY <1>1, <1>8 DEF NodeOK, Behind, Sessions, OwnBehind, StoredOnce, StoredSpent
  <1>13. \A j : Unplaced(n, X, j, T) => Unplaced(m, X, j, T)
    BY <1>8 DEF Unplaced
  <1>14. \A i \in 1 .. Len(n.outbox) : ~n.outbox[i].wire =>
                /\ Unplaced(n, X, n.outbox[i].body, T) /\ n.outbox[i].body \notin H /\ n.outbox[i].body # pt
                /\ \A j \in 1 .. Len(n.outbox) : n.outbox[j] = n.outbox[i] => j = i
                /\ \A j \in 1 .. Len(n.pendSend) : n.pendSend[j] # n.outbox[i].body
    BY <1>3 DEF Waiting, k
  <1>15. \A i \in 1 .. Len(n.pendSend) :
            /\ Unplaced(n, X, n.pendSend[i], T) /\ n.pendSend[i] \notin H /\ n.pendSend[i] # pt
            /\ \A j \in 1 .. Len(n.pendSend) : n.pendSend[j] = n.pendSend[i] => j = i
    BY <1>3 DEF Waiting, k
  <1>16. Waiting(m, X, H, T)
    <2>1. ASSUME NEW i \in 1 .. Len(q)
          PROVE  /\ Unplaced(m, X, q[i], T) /\ q[i] \notin H
                 /\ \A j \in 1 .. Len(q) : q[j] = q[i] => j = i
      BY <1>3, <1>6, <1>13, <1>15
    <2>2. \A j \in H : Unplaced(m, X, j, T)
      BY <1>3, <1>13 DEF Waiting, k
    <2>3. ASSUME NEW i \in 1 .. Len(n.outbox), ~n.outbox[i].wire
          PROVE  \A j \in 1 .. Len(q) : q[j] # n.outbox[i].body
      BY <1>6, <1>14, <2>3
    <2> QED
      BY <1>10, <1>13, <1>14, <2>1, <2>2, <2>3 DEF Waiting
  <1>17. calm => QueuedKept(m, X, H)
    <2> SUFFICES ASSUME QueuedKept(n, X, k), NEW j \in n.queued
                 PROVE  \/ Wired(X, p, j) \/ j \in H
                        \/ \E i \in 1 .. Len(n.outbox) : n.outbox[i] = PlainRow(j)
                        \/ \E i \in 1 .. Len(q) : q[i] = j
      BY <1>1, <1>8, <1>10 DEF QueuedKept, NodeOK
    <2>1. CASE j = pt
      BY <1>6, <2>1
    <2>2. CASE j # pt
      <3>1. \/ Wired(X, p, j) \/ j \in H
            \/ \E i \in 1 .. Len(n.outbox) : n.outbox[i] = PlainRow(j)
            \/ \E i \in 1 .. Len(n.pendSend) : n.pendSend[i] = j
        BY <2>2 DEF QueuedKept, k
      <3> QED
        BY <1>6, <3>1
    <2> QED
      BY <2>1, <2>2
  <1>18. Post(m, X, E)
    BY <1>1, <1>8, <1>10 DEF NodeOK, Post
  <1>19. Good(m, W, D, calm, H, T)
    BY <1>1, <1>7, <1>8, <1>9, <1>11, <1>12, <1>16, <1>17, <1>18 DEF Good, NodeOK, Behind
  <1>20. Keeps(n, m)
    BY <1>1, <1>8, <1>9 DEF Keeps, NodeOK
  <1>21. Adds(n, m)
    <2>1. Len(n.outbox) \in Nat /\ Len(n.pendSend) \in Nat /\ Len(q) = Len(n.pendSend) + 1 /\ Len(q) \in Nat
      BY <1>1, <1>6, NodeFields
    <2>2. Len(n.outbox) + Len(q) <= Len(n.outbox) + Len(n.pendSend) + 1
      BY <2>1, OneMore, Zenon
    <2> QED
      BY <1>10, <2>2 DEF Adds
  <1> QED
    BY <1>2, <1>19, <1>20, <1>21 DEF m

LEMMA AddsNone ==
    ASSUME NEW n, NEW m, SameQueues(n, m), Len(n.outbox) \in Nat, Len(n.pendSend) \in Nat
    PROVE  Adds(n, m)
  <1>1. Len(n.outbox) + Len(n.pendSend) <= Len(n.outbox) + Len(n.pendSend) + 1
    BY OneMore, Zenon
  <1> QED
    BY <1>1 DEF Adds, SameQueues

(* What a message to be sent goes through: restore_session_if_persisted or *)
(* build_x3dh_hello.                                                       *)
LEMMA Ready ==
    ASSUME NEW W, NEW D, NEW calm \in BOOLEAN, NEW H, NEW T, NEW n, Good(n, W, D, calm, H, T)
    PROVE  /\ HasSession(n) =>
                LET m == RestoreSession(n) IN
                /\ Good(m, W, D, calm, H, T) /\ Keeps(n, m) /\ SameQueues(n, m)
                /\ m.mem # NoSession /\ HelloOK(NoHello, m.id)
           /\ ~HasSession(n) =>
                LET m == InstallInitiator(n) IN
                /\ Good(m, W, D, calm, H, T) /\ Keeps(n, m) /\ SameQueues(n, m)
                /\ m.mem # NoSession /\ HelloOK(HelloOf(n), m.id)
  <1> DEFINE X == AllW(n, W)
             E == AllD(n, D)
  <1>1. World(X, E, calm, T) /\ NodeOK(n, X, E, calm, H, T) /\ n.id \in Parties /\ n \in Nodes(n.id)
    BY DEF Good, NodeOK
  <1>2. ASSUME HasSession(n)
        PROVE  LET m == RestoreSession(n) IN
               /\ Good(m, W, D, calm, H, T) /\ Keeps(n, m) /\ SameQueues(n, m)
               /\ m.mem # NoSession /\ HelloOK(NoHello, m.id)
    <2> DEFINE m == RestoreSession(n)
    <2>1. NodeOK(m, X, E, calm, H, T) /\ Keeps(n, m) /\ SameQueues(n, m) /\ m.mem # NoSession
      BY <1>1, <1>2, RestoreKeeps
    <2>2. m.out = n.out /\ m.drops = n.drops
      BY <1>1 DEF RestoreSession, Nodes
    <2>3. Good(m, W, D, calm, H, T)
      BY <1>1, <2>1, <2>2 DEF Good, AllW, AllD
    <2>4. HelloOK(NoHello, m.id)
      BY DmAssumption DEF HelloOK, NoHello
    <2> QED
      BY <2>1, <2>3, <2>4
  <1>3. ASSUME ~HasSession(n)
        PROVE  LET m == InstallInitiator(n) IN
               /\ Good(m, W, D, calm, H, T) /\ Keeps(n, m) /\ SameQueues(n, m)
               /\ m.mem # NoSession /\ HelloOK(HelloOf(n), m.id)
    <2> DEFINE m == InstallInitiator(n)
    <2>1. /\ NodeOK(m, X, E, calm, H, T) /\ Keeps(n, m) /\ SameQueues(n, m) /\ m.mem # NoSession
          /\ HelloOK(HelloOf(n), n.id)
      BY <1>1, <1>3, InstallKeeps
    <2>2. m.out = n.out /\ m.drops = n.drops
      BY <1>1 DEF InstallInitiator, Nodes
    <2> HIDE DEF m
    <2>3. Good(m, W, D, calm, H, T)
      BY <1>1, <2>1, <2>2 DEF Good, AllW, AllD
    <2>4. HelloOK(HelloOf(n), m.id)
      BY <2>1 DEF Keeps
    <2> QED
      BY <2>1, <2>3, <2>4 DEF m
  <1> QED
    BY <1>2, <1>3

(* encrypt_and_send_existing after either.                                 *)
LEMMA PendingSendKeeps ==
    ASSUME NEW W, NEW D, NEW calm \in BOOLEAN, NEW H, NEW T, NEW n, NEW pt,
           Good(n, W, D, calm, H \cup {pt}, T), pt \notin H, T[n.id] \in Nat
    PROVE  LET m == PendingSend(n, pt) IN Good(m, W, D, calm, H, T) /\ Keeps(n, m) /\ SameQueues(n, m)
  <1> DEFINE k == H \cup {pt}
  <1>1. ASSUME NEW l, NEW hello, Good(l, W, D, calm, k, T), Keeps(n, l), SameQueues(n, l),
               l.mem # NoSession, HelloOK(hello, l.id)
        PROVE  LET m == EncryptAndSendExisting(l, pt, hello) IN
               Good(m, W, D, calm, H, T) /\ Keeps(n, m) /\ SameQueues(n, m)
    <2> DEFINE m == EncryptAndSendExisting(l, pt, hello)
    <2>1. T[l.id] \in Nat
      BY <1>1 DEF Keeps
    <2>2. Good(m, W, D, calm, H, T) /\ Keeps(l, m) /\ SameQueues(l, m)
      BY <1>1, <2>1, SendKeepsNode
    <2> HIDE DEF m
    <2>3. Keeps(n, m)
      BY <1>1, <2>2, KeepsThrough
    <2>4. SameQueues(n, m)
      BY <1>1, <2>2 DEF SameQueues
    <2> QED
      BY <2>2, <2>3, <2>4 DEF m
  <1> HIDE DEF k
  <1>2. Good(n, W, D, calm, k, T)
    BY DEF k
  <1>3. CASE HasSession(n)
    <2> DEFINE l == RestoreSession(n)
    <2>1. /\ Good(l, W, D, calm, k, T) /\ Keeps(n, l) /\ SameQueues(n, l)
          /\ l.mem # NoSession /\ HelloOK(NoHello, l.id)
      BY <1>2, <1>3, Ready
    <2>2. PendingSend(n, pt) = EncryptAndSendExisting(l, pt, NoHello)
      BY <1>3 DEF PendingSend
    <2> HIDE DEF l
    <2> QED
      BY <1>1, <2>1, <2>2
  <1>4. CASE ~HasSession(n)
    <2> DEFINE l == InstallInitiator(n)
    <2>1. /\ Good(l, W, D, calm, k, T) /\ Keeps(n, l) /\ SameQueues(n, l)
          /\ l.mem # NoSession /\ HelloOK(HelloOf(n), l.id)
      BY <1>2, <1>4, Ready
    <2>2. PendingSend(n, pt) = EncryptAndSendExisting(l, pt, HelloOf(n))
      BY <1>4 DEF PendingSend, BootstrapInitiatorAndSend
    <2> HIDE DEF l
    <2> QED
      BY <1>1, <2>1, <2>2
  <1> QED
    BY <1>3, <1>4

(* try_send_or_queue                                                       *)
LEMMA TrySendKeeps ==
    ASSUME NEW W, NEW D, NEW calm \in BOOLEAN, NEW H, NEW T, NEW n, NEW pt,
           Good(n, W, D, calm, H \cup {pt}, T), pt \notin H, T[n.id] \in Nat
    PROVE  LET m == TrySendOrQueue(n, pt) IN Good(m, W, D, calm, H, T) /\ Keeps(n, m) /\ Adds(n, m)
  <1> DEFINE k == H \cup {pt}
  <1>1. ASSUME NEW l, NEW hello, Good(l, W, D, calm, k, T), Keeps(n, l), SameQueues(n, l),
               l.mem # NoSession, HelloOK(hello, l.id), ~n.conn
        PROVE  LET m == EncryptOffline(l, pt, hello) IN
               Good(m, W, D, calm, H, T) /\ Keeps(n, m) /\ Adds(n, m)
    <2> DEFINE m == EncryptOffline(l, pt, hello)
    <2>1. T[l.id] \in Nat /\ ~l.conn
      BY <1>1 DEF Keeps
    <2>2. Good(m, W, D, calm, H, T) /\ Keeps(l, m) /\ Adds(l, m)
      BY <1>1, <2>1, SendOfflineKeepsNode
    <2> HIDE DEF m
    <2>3. Keeps(n, m)
      BY <1>1, <2>2, KeepsThrough
    <2>4. Adds(n, m)
      BY <1>1, <2>2 DEF SameQueues, Adds, Keeps
    <2> QED
      BY <2>2, <2>3, <2>4 DEF m
  <1>9. Len(n.outbox) \in Nat /\ Len(n.pendSend) \in Nat
    BY NodeFields DEF Good, NodeOK
  <1> HIDE DEF k
  <1>2. Good(n, W, D, calm, k, T)
    BY DEF k
  <1>3. CASE n.conn /\ (HasSession(n) \/ n.prekey)
    <2>1. TrySendOrQueue(n, pt) = PendingSend(n, pt)
      BY <1>3 DEF TrySendOrQueue, PendingSend
    <2>2. LET m == PendingSend(n, pt) IN Good(m, W, D, calm, H, T) /\ Keeps(n, m) /\ SameQueues(n, m)
      BY PendingSendKeeps
    <2> QED
      BY <1>9, <2>1, <2>2, AddsNone
  <1>4. CASE ~n.conn /\ HasSession(n)
    <2> DEFINE l == RestoreSession(n)
    <2>1. /\ Good(l, W, D, calm, k, T) /\ Keeps(n, l) /\ SameQueues(n, l)
          /\ l.mem # NoSession /\ HelloOK(NoHello, l.id)
      BY <1>2, <1>4, Ready
    <2>2. TrySendOrQueue(n, pt) = EncryptOffline(l, pt, NoHello)
      BY <1>4 DEF TrySendOrQueue
    <2> HIDE DEF l
    <2> QED
      BY <1>1, <1>4, <2>1, <2>2
  <1>5. CASE ~n.conn /\ ~HasSession(n) /\ n.prekey
    <2> DEFINE l == InstallInitiator(n)
    <2>1. /\ Good(l, W, D, calm, k, T) /\ Keeps(n, l) /\ SameQueues(n, l)
          /\ l.mem # NoSession /\ HelloOK(HelloOf(n), l.id)
      BY <1>2, <1>5, Ready
    <2>2. TrySendOrQueue(n, pt) = EncryptOffline(l, pt, HelloOf(n))
      BY <1>5 DEF TrySendOrQueue
    <2> HIDE DEF l
    <2> QED
      BY <1>1, <1>5, <2>1, <2>2
  <1>6. CASE ~n.conn /\ ~HasSession(n) /\ ~n.prekey
    <2>1. TrySendOrQueue(n, pt) = OutboxAdd(n, PlainRow(pt), pt)
      BY <1>6 DEF TrySendOrQueue
    <2> QED
      BY <1>6, <2>1, QueueKeepsNode
  <1>7. CASE n.conn /\ ~HasSession(n) /\ ~n.prekey
    <2> DEFINE l == [n EXCEPT !.pendSend = Append(@, pt)]
               m == RequestPrekey(l)
    <2>1. TrySendOrQueue(n, pt) = m
      BY <1>7 DEF TrySendOrQueue
    <2>2. Good(l, W, D, calm, H, T) /\ Keeps(n, l) /\ Adds(n, l)
      BY PendKeepsNode
    <2> HIDE DEF l
    <2>6. ~l.prekey
      BY <1>7, <2>2 DEF Keeps
    <2>3. Good(m, W, D, calm, H, T) /\ Keeps(l, m) /\ SameQueues(l, m)
      BY <2>2, <2>6, RequestKeeps
    <2> HIDE DEF m
    <2>4. Keeps(n, m)
      BY <2>2, <2>3, KeepsThrough
    <2>5. Adds(n, m)
      BY <2>2, <2>3 DEF SameQueues, Adds
    <2> QED
      BY <2>1, <2>3, <2>4, <2>5
  <1> QED
    BY <1>3, <1>4, <1>5, <1>6, <1>7

(* The three drains are folds, of one step each.                           *)
FoldStep(kind, n, x) ==
    IF kind = "row" THEN DrainRow(n, x)
    ELSE IF kind = "receive" THEN PendingRecv(n, x) ELSE PendingSend(n, x)
Folds(f, kind, n, q, k) ==
    f = [i \in 0 .. k |-> IF i = 0 THEN n ELSE FoldStep(kind, f[i - 1], q[i])]

LEMMA FoldExists ==
    ASSUME NEW kind, NEW n, NEW q, NEW L \in Nat
    PROVE  \E f : Folds(f, kind, n, q, L)
  <1> DEFINE S == {k \in Nat : ~\E f : Folds(f, kind, n, q, k)}
  <1> SUFFICES ASSUME S # {} PROVE FALSE
    OBVIOUS
  <1>1. S \in SUBSET Nat
    OBVIOUS
  <1>2. PICK k \in S : \A j \in S : k <= j
    <2> HIDE DEF S
    <2> QED
      BY <1>1, Least
  <1>3. k \in Nat /\ \A f : ~Folds(f, kind, n, q, k)
    BY <1>2
  <1>4. CASE k = 0
    <2> DEFINE f == [i \in 0 .. k |-> n]
    <2>1. f = [i \in 0 .. k |-> IF i = 0 THEN n ELSE FoldStep(kind, f[i - 1], q[i])]
      BY <1>4
    <2> QED
      BY <1>3, <2>1 DEF Folds
  <1>5. CASE k # 0
    <2>1. k - 1 \in Nat /\ ~(k <= k - 1)
      BY <1>3, <1>5
    <2>2. PICK g : Folds(g, kind, n, q, k - 1)
      BY <1>2, <2>1
    <2> DEFINE f == [i \in 0 .. k |-> IF i = k THEN FoldStep(kind, g[k - 1], q[k]) ELSE g[i]]
    <2>3. ASSUME NEW i \in 0 .. k
          PROVE  f[i] = IF i = 0 THEN n ELSE FoldStep(kind, f[i - 1], q[i])
      <3>1. i = 0 \/ i - 1 \in 0 .. k - 1
        BY <1>3
      <3>2. i # k => i \in 0 .. k - 1
        BY <1>3
      <3>3. \A j \in 0 .. k - 1 : g[j] = IF j = 0 THEN n ELSE FoldStep(kind, g[j - 1], q[j])
        BY <2>2 DEF Folds
      <3>4. \A j \in 0 .. k - 1 : f[j] = g[j]
        BY <1>3
      <3>5. f[i] = IF i = k THEN FoldStep(kind, g[k - 1], q[k]) ELSE g[i]
        OBVIOUS
      <3> HIDE DEF f
      <3>6. CASE i = k
        BY <1>5, <3>1, <3>4, <3>5, <3>6
      <3>7. CASE i # k
        BY <3>1, <3>2, <3>3, <3>4, <3>5, <3>7
      <3> QED
        BY <3>6, <3>7
    <2>4. f = [i \in 0 .. k |-> f[i]]
      OBVIOUS
    <2> HIDE DEF f
    <2>5. Folds(f, kind, n, q, k)
      BY <2>3, <2>4 DEF Folds
    <2> QED
      BY <1>3, <2>5
  <1> QED
    BY <1>4, <1>5

LEMMA DrainsFold ==
    ASSUME NEW n
    PROVE  /\ Len(n.outbox) \in Nat =>
                \E f : /\ Folds(f, "row", n, n.outbox, Len(n.outbox))
                       /\ DrainOutbox(n) = f[Len(n.outbox)]
           /\ Len(n.pendRecv) \in Nat =>
                \E f : /\ Folds(f, "receive", [n EXCEPT !.pendRecv = << >>], n.pendRecv, Len(n.pendRecv))
                       /\ DrainReceives(n) = f[Len(n.pendRecv)]
           /\ Len(n.pendSend) \in Nat =>
                \E f : /\ Folds(f, "send", [n EXCEPT !.pendSend = << >>], n.pendSend, Len(n.pendSend))
                       /\ DrainSends(n) = f[Len(n.pendSend)]
  <1>1. ASSUME Len(n.outbox) \in Nat
        PROVE  \E f : Folds(f, "row", n, n.outbox, Len(n.outbox)) /\ DrainOutbox(n) = f[Len(n.outbox)]
    <2> DEFINE L == Len(n.outbox)
               q == n.outbox
               P(f) == f = [i \in 0 .. L |-> IF i = 0 THEN n ELSE DrainRow(f[i - 1], q[i])]
               g == CHOOSE f : P(f)
    <2>1. DrainOutbox(n) = g[L]
      BY DEF DrainOutbox
    <2>2. PICK f : Folds(f, "row", n, q, L)
      BY <1>1, FoldExists
    <2>3. \A h : P(h) <=> Folds(h, "row", n, q, L)
      BY DEF Folds, FoldStep
    <2>4. P(g)
      <3>1. P(f)
        BY <2>2, <2>3
      <3> HIDE DEF P
      <3> QED
        BY <3>1
    <2> HIDE DEF P, g
    <2> QED
      BY <2>1, <2>3, <2>4
  <1>2. ASSUME Len(n.pendRecv) \in Nat
        PROVE  \E f : /\ Folds(f, "receive", [n EXCEPT !.pendRecv = << >>], n.pendRecv, Len(n.pendRecv))
                      /\ DrainReceives(n) = f[Len(n.pendRecv)]
    <2> DEFINE L == Len(n.pendRecv)
               q == n.pendRecv
               b == [n EXCEPT !.pendRecv = << >>]
               P(f) == f = [i \in 0 .. L |-> IF i = 0 THEN b ELSE PendingRecv(f[i - 1], q[i])]
               g == CHOOSE f : P(f)
    <2>1. DrainReceives(n) = g[L]
      BY DEF DrainReceives
    <2>2. PICK f : Folds(f, "receive", b, q, L)
      BY <1>2, FoldExists
    <2>3. \A h : P(h) <=> Folds(h, "receive", b, q, L)
      BY DEF Folds, FoldStep
    <2>4. P(g)
      <3>1. P(f)
        BY <2>2, <2>3
      <3> HIDE DEF P
      <3> QED
        BY <3>1
    <2> HIDE DEF P, g
    <2> QED
      BY <2>1, <2>3, <2>4
  <1>3. ASSUME Len(n.pendSend) \in Nat
        PROVE  \E f : /\ Folds(f, "send", [n EXCEPT !.pendSend = << >>], n.pendSend, Len(n.pendSend))
                      /\ DrainSends(n) = f[Len(n.pendSend)]
    <2> DEFINE L == Len(n.pendSend)
               q == n.pendSend
               b == [n EXCEPT !.pendSend = << >>]
               P(f) == f = [i \in 0 .. L |-> IF i = 0 THEN b ELSE PendingSend(f[i - 1], q[i])]
               g == CHOOSE f : P(f)
    <2>1. DrainSends(n) = g[L]
      BY DEF DrainSends
    <2>2. PICK f : Folds(f, "send", b, q, L)
      BY <1>3, FoldExists
    <2>3. \A h : P(h) <=> Folds(h, "send", b, q, L)
      BY DEF Folds, FoldStep
    <2>4. P(g)
      <3>1. P(f)
        BY <2>2, <2>3
      <3> HIDE DEF P
      <3> QED
        BY <3>1
    <2> HIDE DEF P, g
    <2> QED
      BY <2>1, <2>3, <2>4
  <1> QED
    BY <1>1, <1>2, <1>3

(* What the first state of a fold has and every step keeps, its last has.  *)
LEMMA FoldSteps ==
    ASSUME NEW f, NEW kind, NEW n, NEW q, NEW L \in Nat, Folds(f, kind, n, q, L)
    PROVE  f[0] = n /\ \A i \in 1 .. L : i - 1 \in 0 .. L /\ f[i] = FoldStep(kind, f[i - 1], q[i])
  BY DEF Folds

LEMMA Induct ==
    ASSUME NEW S, NEW L \in Nat, 0 \in S, \A i \in 1 .. L : i - 1 \in S => i \in S
    PROVE  L \in S
  <1> DEFINE B == {i \in 0 .. L : i \notin S}
  <1> SUFFICES ASSUME B # {} PROVE FALSE
    OBVIOUS
  <1>1. B \in SUBSET Nat
    OBVIOUS
  <1>2. PICK k \in B : \A j \in B : k <= j
    <2> HIDE DEF B
    <2> QED
      BY <1>1, Least
  <1>3. k \in 0 .. L /\ k \notin S
    BY <1>2
  <1>4. k \in 1 .. L /\ k - 1 \in 0 .. L /\ ~(k <= k - 1)
    BY <1>3
  <1>5. k - 1 \in S
    BY <1>2, <1>4
  <1> QED
    BY <1>3, <1>4, <1>5

(* drain_outbox_for takes the first row.                                   *)
LEMMA PopRow ==
    ASSUME NEW W, NEW D, NEW calm \in BOOLEAN, NEW T, NEW n, Good(n, W, D, calm, {}, T),
           Len(n.outbox) >= 1
    PROVE  LET m == [n EXCEPT !.outbox = Tail(@)]
               row == n.outbox[1]
           IN  /\ Keeps(n, m) /\ m.outbox = Tail(n.outbox)
               /\ m.pendSend = n.pendSend /\ m.pendRecv = n.pendRecv
               /\ row.wire => Good([m EXCEPT !.out = @ \cup {row.body}], W, D, calm, {}, T)
               /\ ~row.wire => Good(m, W, D, calm, {row.body}, T)
  <1> DEFINE p == n.id
             X == AllW(n, W)
             E == AllD(n, D)
             q == Tail(n.outbox)
             m == [n EXCEPT !.outbox = q]
             row == n.outbox[1]
  <1>1. /\ World(X, E, calm, T) /\ NodeOK(n, X, E, calm, {}, T) /\ p \in Parties /\ n \in Nodes(p)
        /\ n.outbox \in Seq(Rows) /\ Len(n.outbox) \in Nat
    BY NodeFields DEF Good, NodeOK
  <1>2. /\ q \in Seq(Rows) /\ Len(q) = Len(n.outbox) - 1
        /\ \A i \in 1 .. Len(q) : i + 1 \in 1 .. Len(n.outbox) /\ q[i] = n.outbox[i + 1] /\ i + 1 # 1
        /\ row \in Rows /\ 1 \in 1 .. Len(n.outbox)
    BY <1>1
  <1>3. \A i \in 1 .. Len(n.outbox) : i = 1 \/ (i - 1 \in 1 .. Len(q) /\ q[i - 1] = n.outbox[i])
    BY <1>1, <1>2
  <1> HIDE DEF q
  <1>4. m \in Nodes(p)
    BY <1>1, <1>2 DEF Nodes
  <1>5. /\ m.mem = n.mem /\ m.disk = n.disk /\ m.stored = n.stored
        /\ m.out = n.out /\ m.drops = n.drops /\ m.id = p /\ m.otpk = n.otpk /\ m.pool = n.pool
    BY <1>1 DEF Nodes
  <1>6. m.asks = n.asks /\ m.inflight = n.inflight /\ m.prekey = n.prekey /\ m.conn = n.conn
    BY <1>1 DEF Nodes
  <1>7. m.outbox = q /\ m.pendSend = n.pendSend /\ m.pendRecv = n.pendRecv /\ m.queued = n.queued
    BY <1>1 DEF Nodes
  <1>8. AllW(m, W) = X /\ AllD(m, D) = E
    BY <1>5 DEF AllW, AllD
  <1>m. m = [n EXCEPT !.outbox = Tail(@)]
    BY DEF q
  <1> HIDE DEF X, E, m, row
  <1>9. Behind(m, X, E, calm)
    BY <1>1, <1>5 DEF NodeOK, Behind, Sessions, OwnBehind, StoredOnce, StoredSpent
  <1>10. \A j : Unplaced(n, X, j, T) => Unplaced(m, X, j, T)
    BY <1>5 DEF Unplaced
  <1>11. \A i \in 1 .. Len(n.outbox) : ~n.outbox[i].wire =>
                /\ Unplaced(n, X, n.outbox[i].body, T)
                /\ \A j \in 1 .. Len(n.outbox) : n.outbox[j] = n.outbox[i] => j = i
                /\ \A j \in 1 .. Len(n.pendSend) : n.pendSend[j] # n.outbox[i].body
    BY <1>1 DEF NodeOK, Waiting
  <1>12. \A i \in 1 .. Len(n.pendSend) :
            /\ Unplaced(n, X, n.pendSend[i], T)
            /\ \A j \in 1 .. Len(n.pendSend) : n.pendSend[j] = n.pendSend[i] => j = i
    BY <1>1 DEF NodeOK, Waiting
  <1>13. ASSUME NEW i \in 1 .. Len(q), ~q[i].wire
         PROVE  /\ Unplaced(m, X, q[i].body, T) /\ q[i] # row
                /\ \A j \in 1 .. Len(q) : q[j] = q[i] => j = i
                /\ \A j \in 1 .. Len(n.pendSend) : n.pendSend[j] # q[i].body
    <2>1. /\ Unplaced(n, X, q[i].body, T)
          /\ \A j \in 1 .. Len(n.outbox) : n.outbox[j] = q[i] => j = i + 1
          /\ \A j \in 1 .. Len(n.pendSend) : n.pendSend[j] # q[i].body
      BY <1>2, <1>11, <1>13
    <2>2. ASSUME NEW j \in 1 .. Len(q), q[j] = q[i] PROVE j = i
      <3>1. j + 1 = i + 1
        BY <1>2, <2>1, <2>2
      <3>2. j \in Int /\ i \in Int
        OBVIOUS
      <3> QED
        BY <3>1, <3>2
    <2>3. q[i] # row
      BY <1>2, <2>1 DEF row
    <2> QED
      BY <1>10, <2>1, <2>2, <2>3
  <1>14. Post(m, X, E)
    BY <1>1, <1>2, <1>5, <1>7 DEF NodeOK, Post
  <1>15. \A j \in n.queued : calm =>
            \/ Wired(X, p, j)
            \/ ~row.wire /\ j = row.body
            \/ \E i \in 1 .. Len(q) : q[i] = PlainRow(j)
            \/ \E i \in 1 .. Len(n.pendSend) : n.pendSend[i] = j
    <2> SUFFICES ASSUME NEW j \in n.queued, calm
                 PROVE  \/ Wired(X, p, j)
                        \/ ~row.wire /\ j = row.body
                        \/ \E i \in 1 .. Len(q) : q[i] = PlainRow(j)
                        \/ \E i \in 1 .. Len(n.pendSend) : n.pendSend[i] = j
      OBVIOUS
    <2>1. \/ Wired(X, p, j)
          \/ \E i \in 1 .. Len(n.outbox) : n.outbox[i] = PlainRow(j)
          \/ \E i \in 1 .. Len(n.pendSend) : n.pendSend[i] = j
      BY <1>1 DEF NodeOK, QueuedKept
    <2>2. ASSUME NEW i \in 1 .. Len(n.outbox), n.outbox[i] = PlainRow(j)
          PROVE  (~row.wire /\ j = row.body) \/ (i - 1 \in 1 .. Len(q) /\ q[i - 1] = PlainRow(j))
      <3>1. ~PlainRow(j).wire /\ PlainRow(j).body = j
        BY DEF PlainRow
      <3> QED
        BY <1>3, <2>2, <3>1 DEF row
    <2> QED
      BY <2>1, <2>2
  <1>16. Keeps(n, m)
    BY <1>1, <1>5, <1>6 DEF Keeps, NodeOK
  <1>17. ASSUME ~row.wire PROVE Good(m, W, D, calm, {row.body}, T)
    <2>1. /\ Unplaced(m, X, row.body, T) /\ row = PlainRow(row.body)
          /\ \A j \in 1 .. Len(n.pendSend) : n.pendSend[j] # row.body
      BY <1>2, <1>10, <1>11, <1>17, RowsMade DEF row
    <2>2. ASSUME NEW i \in 1 .. Len(q), ~q[i].wire PROVE q[i].body # row.body
      <3>1. q[i] = PlainRow(q[i].body)
        BY <1>2, <2>2, RowsMade
      <3> QED
        BY <1>13, <2>1, <2>2, <3>1
    <2>3. Waiting(m, X, {row.body}, T)
      BY <1>7, <1>10, <1>12, <1>13, <2>1, <2>2 DEF Waiting
    <2>4. calm => QueuedKept(m, X, {row.body})
      BY <1>5, <1>7, <1>15 DEF QueuedKept
    <2> QED
      BY <1>1, <1>4, <1>5, <1>6, <1>8, <1>9, <1>14, <2>3, <2>4 DEF Good, NodeOK, Behind
  <1>18. ASSUME row.wire PROVE Good([m EXCEPT !.out = @ \cup {row.body}], W, D, calm, {}, T)
    <2>1. row.body \in X /\ row.body \in E /\ row.body.from = p /\ row.body \in Wires
      BY <1>1, <1>2, <1>18, RowsMade DEF NodeOK, Post, row
    <2> DEFINE o == m.out \cup {row.body}
               l == [m EXCEPT !.out = o]
    <2>2. o \in SUBSET Wires
      BY <1>4, <1>1, <2>1, NodeFields
    <2>3. l = [m EXCEPT !.out = @ \cup {row.body}]
      OBVIOUS
    <2>o. o = m.out \cup {row.body}
      OBVIOUS
    <2> HIDE DEF o
    <2>4. l \in Nodes(p)
      BY <1>4, <2>2 DEF Nodes
    <2>5. /\ l.mem = m.mem /\ l.disk = m.disk /\ l.stored = m.stored
          /\ l.out = o /\ l.drops = m.drops /\ l.id = p
      BY <1>4 DEF Nodes
    <2>6. l.asks = m.asks /\ l.inflight = m.inflight
      BY <1>4 DEF Nodes
    <2>7. SameQueues(m, l)
      BY <1>4 DEF Nodes, SameQueues
    <2> HIDE DEF l
    <2>8. AllW(l, W) = X /\ AllD(l, D) = E
      BY <1>8, <2>1, <2>5, <2>o DEF AllW, AllD
    <2>9. Behind(l, X, E, calm)
      BY <1>5, <1>9, <2>5 DEF Behind, Sessions, OwnBehind, StoredOnce, StoredSpent
    <2>10. Waiting(m, X, {}, T)
      BY <1>7, <1>10, <1>12, <1>13 DEF Waiting
    <2>11. calm => QueuedKept(m, X, {})
      BY <1>5, <1>7, <1>15, <1>18 DEF QueuedKept
    <2>12. Waiting(l, X, {}, T) /\ (calm => QueuedKept(l, X, {}))
      BY <1>5, <2>5, <2>7, <2>10, <2>11, QueuesAlike
    <2>13. Post(l, X, E)
      BY <1>5, <1>14, <2>1, <2>5, <2>7, <2>o DEF Post, SameQueues
    <2>14. Good(l, W, D, calm, {}, T)
      BY <1>1, <1>5, <1>6, <2>4, <2>5, <2>6, <2>8, <2>9, <2>12, <2>13 DEF Good, NodeOK, Behind
    <2> QED
      BY <2>3, <2>14
  <1> QED
    BY <1>7, <1>16, <1>17, <1>18, <1>m DEF row, q

LEMMA PopArithmetic ==
    \A a, b, c, d \in Nat : a + b <= a + c + 1 => b <= c + 1
  OBVIOUS

LEMMA DrainRowKeeps ==
    ASSUME NEW W, NEW D, NEW calm \in BOOLEAN, NEW T, NEW n, Good(n, W, D, calm, {}, T),
           Len(n.outbox) >= 1, n.conn, T[n.id] \in Nat
    PROVE  LET m == DrainRow(n, n.outbox[1]) IN
           /\ Good(m, W, D, calm, {}, T) /\ Keeps(n, m)
           /\ m.outbox = Tail(n.outbox) /\ m.pendRecv = n.pendRecv
           /\ Len(m.pendSend) <= Len(n.pendSend) + 1
  <1> DEFINE row == n.outbox[1]
             l == [n EXCEPT !.outbox = Tail(@)]
             m == DrainRow(n, row)
  <1>1. /\ Keeps(n, l) /\ l.outbox = Tail(n.outbox)
        /\ l.pendSend = n.pendSend /\ l.pendRecv = n.pendRecv
        /\ row.wire => Good([l EXCEPT !.out = @ \cup {row.body}], W, D, calm, {}, T)
        /\ ~row.wire => Good(l, W, D, calm, {row.body}, T)
    BY PopRow
  <1>2. n \in Nodes(n.id) /\ n.id \in Parties /\ Len(n.pendSend) \in Nat
    BY NodeFields DEF Good, NodeOK
  <1>n. Len(n.pendSend) <= Len(n.pendSend) + 1
    BY <1>2
  <1>3. CASE row.wire
    <2>1. m = [l EXCEPT !.out = @ \cup {row.body}]
      BY <1>3 DEF DrainRow
    <2>2. m.outbox = l.outbox /\ m.pendSend = l.pendSend /\ m.pendRecv = l.pendRecv
      BY <1>2, <2>1 DEF Nodes
    <2>3. /\ m.id = l.id /\ m.otpk = l.otpk /\ m.pool = l.pool /\ m.disk = l.disk
          /\ l.out \subseteq m.out /\ m.drops = l.drops
      BY <1>2, <2>1 DEF Nodes
    <2>4. m.asks = l.asks /\ m.inflight = l.inflight /\ m.prekey = l.prekey /\ m.conn = l.conn
      BY <1>2, <2>1 DEF Nodes
    <2>5. Good(m, W, D, calm, {}, T)
      BY <1>1, <1>3, <2>1
    <2> HIDE DEF l, m
    <2>6. Keeps(n, m)
      BY <1>1, <2>3, <2>4 DEF Keeps
    <2> QED
      BY <1>1, <1>n, <2>2, <2>5, <2>6 DEF m
  <1>4. CASE ~row.wire
    <2>1. m = TrySendOrQueue(l, row.body)
      BY <1>4 DEF DrainRow
    <2>2. Good(l, W, D, calm, {row.body}, T)
      BY <1>1, <1>4
    <2> HIDE DEF l
    <2>3. l.conn /\ l.id = n.id
      BY <1>1 DEF Keeps
    <2>4. {} \cup {row.body} = {row.body} /\ row.body \notin {}
      OBVIOUS
    <2>x. Good(l, W, D, calm, {} \cup {row.body}, T) /\ T[l.id] \in Nat
      BY <2>2, <2>3, <2>4
    <2>y. LET z == TrySendOrQueue(l, row.body) IN Good(z, W, D, calm, {}, T) /\ Keeps(l, z) /\ Adds(l, z)
      <3> HIDE DEF row
      <3> QED
        BY <2>4, <2>x, TrySendKeeps, Zenon
    <2>5. Good(m, W, D, calm, {}, T) /\ Keeps(l, m) /\ Adds(l, m)
      BY <2>1, <2>y
    <2> HIDE DEF m
    <2>6. Keeps(n, m)
      BY <1>1, <2>5, KeepsThrough
    <2>7. /\ m.outbox = l.outbox /\ m.pendRecv = l.pendRecv
          /\ Len(l.outbox) + Len(m.pendSend) <= Len(l.outbox) + Len(n.pendSend) + 1
      BY <1>1, <2>3, <2>5 DEF Adds
    <2>8. Len(l.outbox) \in Nat /\ Len(m.pendSend) \in Nat
      BY <2>2, <2>5, NodeFields DEF Good, NodeOK
    <2>9. Len(m.pendSend) <= Len(n.pendSend) + 1
      BY <1>2, <2>7, <2>8, PopArithmetic
    <2> QED
      BY <1>1, <2>5, <2>6, <2>7, <2>9 DEF m
  <1> QED
    BY <1>3, <1>4

(* drain_outbox_for                                                        *)
Drained(n, m, i, W, D, calm, T) ==
    /\ Good(m, W, D, calm, {}, T) /\ Keeps(n, m) /\ m.pendRecv = n.pendRecv
    /\ Len(m.outbox) = Len(n.outbox) - i
    /\ \A j \in 1 .. Len(m.outbox) : m.outbox[j] = n.outbox[i + j]
    /\ Len(m.pendSend) <= Len(n.pendSend) + i

LEMMA DrainArithmetic ==
    /\ \A a, b, c, i \in Nat : a <= b + 1 /\ b <= c + i => a <= c + (i + 1)
    /\ \A a, b, i, j \in Nat : i + (j + 1) = (i + 1) + j /\ (a = b - 1 /\ j \in 1 .. a => j + 1 \in 1 .. b)
  OBVIOUS

LEMMA DrainStep ==
    ASSUME NEW W, NEW D, NEW calm \in BOOLEAN, NEW T, NEW n, NEW m, NEW i \in Nat,
           Drained(n, m, i, W, D, calm, T), n.conn, T[n.id] \in Nat, i + 1 <= Len(n.outbox),
           Len(n.outbox) \in Nat, Len(n.pendSend) \in Nat
    PROVE  Drained(n, DrainRow(m, n.outbox[i + 1]), i + 1, W, D, calm, T)
  <1> DEFINE l == DrainRow(m, m.outbox[1])
  <1>1. /\ Good(m, W, D, calm, {}, T) /\ Keeps(n, m) /\ Len(m.outbox) = Len(n.outbox) - i
        /\ m.pendRecv = n.pendRecv /\ Len(m.pendSend) <= Len(n.pendSend) + i
        /\ \A j \in 1 .. Len(m.outbox) : m.outbox[j] = n.outbox[i + j]
    BY DEF Drained
  <1>2. m.conn /\ m.id = n.id
    BY <1>1 DEF Keeps
  <1>3. Len(m.outbox) >= 1 /\ T[m.id] \in Nat
    BY <1>1, <1>2
  <1>4. /\ Good(l, W, D, calm, {}, T) /\ Keeps(m, l)
        /\ l.outbox = Tail(m.outbox) /\ l.pendRecv = m.pendRecv
        /\ Len(l.pendSend) <= Len(m.pendSend) + 1
    BY <1>1, <1>2, <1>3, DrainRowKeeps
  <1>5. m.outbox[1] = n.outbox[i + 1]
    BY <1>1, <1>3
  <1> HIDE DEF l
  <1>6. Keeps(n, l)
    BY <1>1, <1>4, KeepsThrough
  <1>7. /\ m.outbox \in Seq(Rows) /\ Len(m.pendSend) \in Nat /\ Len(l.pendSend) \in Nat
        /\ Len(m.outbox) \in Nat /\ Len(l.outbox) \in Nat
    BY <1>1, <1>4, NodeFields DEF Good, NodeOK
  <1>8. Len(l.outbox) = Len(m.outbox) - 1 /\ \A j \in 1 .. Len(l.outbox) : l.outbox[j] = m.outbox[j + 1]
    BY <1>3, <1>4, <1>7
  <1>9. Len(l.outbox) = Len(n.outbox) - (i + 1)
    BY <1>1, <1>8
  <1>10. ASSUME NEW j \in 1 .. Len(l.outbox)
         PROVE  l.outbox[j] = n.outbox[(i + 1) + j]
    <2>1. j + 1 \in 1 .. Len(m.outbox) /\ i + (j + 1) = (i + 1) + j
      <3>1. j \in Nat
        OBVIOUS
      <3> QED
        BY <1>7, <1>8, <3>1, DrainArithmetic
    <2> QED
      BY <1>1, <1>8, <2>1
  <1>11. Len(l.pendSend) <= Len(n.pendSend) + (i + 1)
    BY <1>1, <1>4, <1>7, DrainArithmetic
  <1> QED
    BY <1>1, <1>4, <1>5, <1>6, <1>9, <1>10, <1>11 DEF Drained, l

LEMMA DrainKeeps ==
    ASSUME NEW W, NEW D, NEW calm \in BOOLEAN, NEW T, NEW n, Good(n, W, D, calm, {}, T),
           n.conn, T[n.id] \in Nat
    PROVE  Drained(n, DrainOutbox(n), Len(n.outbox), W, D, calm, T)
  <1> DEFINE L == Len(n.outbox)
             q == n.outbox
  <1>1. L \in Nat /\ Len(n.pendSend) \in Nat /\ Keeps(n, n)
    BY NodeFields, KeepsAll DEF Good, NodeOK
  <1>2. PICK f : Folds(f, "row", n, q, L) /\ DrainOutbox(n) = f[L]
    BY <1>1, DrainsFold
  <1>3. f[0] = n /\ \A i \in 1 .. L : i - 1 \in 0 .. L /\ f[i] = FoldStep("row", f[i - 1], q[i])
    BY <1>1, <1>2, FoldSteps
  <1> DEFINE S == {i \in 0 .. L : Drained(n, f[i], i, W, D, calm, T)}
  <1>4. 0 \in S
    <2>1. Drained(n, n, 0, W, D, calm, T)
      BY <1>1 DEF Drained
    <2> QED
      BY <1>1, <1>3, <2>1
  <1>5. ASSUME NEW i \in 1 .. L, i - 1 \in S PROVE i \in S
    <2> DEFINE h == i - 1
    <2>1. h \in Nat /\ h + 1 = i /\ h + 1 <= L /\ i \in 0 .. L
      BY <1>1
    <2>2. Drained(n, f[h], h, W, D, calm, T)
      BY <1>5
    <2>3. f[i] = DrainRow(f[h], q[i])
      BY <1>3 DEF FoldStep
    <2> HIDE DEF h
    <2>4. Drained(n, DrainRow(f[h], q[h + 1]), h + 1, W, D, calm, T)
      BY <1>1, <2>1, <2>2, DrainStep
    <2> QED
      BY <2>1, <2>3, <2>4
  <1>6. L \in S
    <2> HIDE DEF S
    <2> QED
      BY <1>1, <1>4, <1>5, Induct
  <1> QED
    BY <1>2, <1>6

(* process_pending takes the queue of sends into its hands.                *)
InQueue(n) == {n.pendSend[j] : j \in 1 .. Len(n.pendSend)}

LEMMA TakeSends ==
    ASSUME NEW W, NEW D, NEW calm \in BOOLEAN, NEW T, NEW n, Good(n, W, D, calm, {}, T)
    PROVE  LET m == [n EXCEPT !.pendSend = << >>]
           IN  /\ Good(m, W, D, calm, InQueue(n), T) /\ Keeps(n, m) /\ m.id = n.id
               /\ m.outbox = n.outbox /\ m.pendRecv = n.pendRecv /\ Len(m.pendSend) = 0
  <1> DEFINE p == n.id
             X == AllW(n, W)
             E == AllD(n, D)
             e == << >>
             m == [n EXCEPT !.pendSend = e]
             H == InQueue(n)
  <1>1. World(X, E, calm, T) /\ NodeOK(n, X, E, calm, {}, T) /\ p \in Parties /\ n \in Nodes(p)
    BY DEF Good, NodeOK
  <1>2. e \in Seq(Nat) /\ Len(e) = 0
    OBVIOUS
  <1>m. m = [n EXCEPT !.pendSend = << >>]
    OBVIOUS
  <1> HIDE DEF e
  <1>4. m \in Nodes(p)
    BY <1>1, <1>2 DEF Nodes
  <1>5. /\ m.mem = n.mem /\ m.disk = n.disk /\ m.stored = n.stored
        /\ m.out = n.out /\ m.drops = n.drops /\ m.id = p /\ m.otpk = n.otpk /\ m.pool = n.pool
    BY <1>1 DEF Nodes
  <1>6. m.asks = n.asks /\ m.inflight = n.inflight /\ m.prekey = n.prekey /\ m.conn = n.conn
    BY <1>1 DEF Nodes
  <1>7. m.outbox = n.outbox /\ m.pendSend = e /\ m.pendRecv = n.pendRecv /\ m.queued = n.queued
    BY <1>1 DEF Nodes
  <1>8. AllW(m, W) = X /\ AllD(m, D) = E
    BY <1>5 DEF AllW, AllD
  <1> HIDE DEF X, E, m
  <1>9. Behind(m, X, E, calm)
    BY <1>1, <1>5 DEF NodeOK, Behind, Sessions, OwnBehind, StoredOnce, StoredSpent
  <1>10. \A j : Unplaced(n, X, j, T) => Unplaced(m, X, j, T)
    BY <1>5 DEF Unplaced
  <1>11. \A i \in 1 .. Len(n.outbox) : ~n.outbox[i].wire =>
                /\ Unplaced(n, X, n.outbox[i].body, T)
                /\ \A j \in 1 .. Len(n.outbox) : n.outbox[j] = n.outbox[i] => j = i
                /\ n.outbox[i].body \notin H
    BY <1>1 DEF NodeOK, Waiting, InQueue
  <1>12. \A k \in H : Unplaced(n, X, k, T)
    BY <1>1 DEF NodeOK, Waiting, InQueue
  <1>13. calm => \A k \in n.queued :
            \/ Wired(X, p, k)
            \/ k \in H
            \/ \E i \in 1 .. Len(n.outbox) : n.outbox[i] = PlainRow(k)
    BY <1>1 DEF NodeOK, QueuedKept, InQueue
  <1>14. Waiting(m, X, H, T)
    BY <1>2, <1>7, <1>10, <1>11, <1>12 DEF Waiting
  <1>15. calm => QueuedKept(m, X, H)
    BY <1>5, <1>7, <1>13 DEF QueuedKept
  <1>16. Post(m, X, E)
    BY <1>1, <1>5, <1>7 DEF NodeOK, Post
  <1>17. Good(m, W, D, calm, H, T)
    BY <1>1, <1>4, <1>5, <1>6, <1>8, <1>9, <1>14, <1>15, <1>16 DEF Good, NodeOK, Behind
  <1>18. Keeps(n, m)
    BY <1>1, <1>5, <1>6 DEF Keeps, NodeOK
  <1> QED
    BY <1>2, <1>5, <1>7, <1>17, <1>18, <1>m

LEMMA DrainSendsKeeps ==
    ASSUME NEW W, NEW D, NEW calm \in BOOLEAN, NEW T, NEW n, Good(n, W, D, calm, {}, T), T[n.id] \in Nat
    PROVE  LET m == DrainSends(n) IN
           /\ Good(m, W, D, calm, {}, T) /\ Keeps(n, m)
           /\ m.outbox = n.outbox /\ m.pendRecv = n.pendRecv /\ Len(m.pendSend) = 0
  <1> DEFINE L == Len(n.pendSend)
             q == n.pendSend
             b == [n EXCEPT !.pendSend = << >>]
             Left(i) == {q[j] : j \in i + 1 .. L}
  <1>1. /\ L \in Nat
        /\ \A i, j \in 1 .. L : q[i] = q[j] => i = j
    <2>1. L \in Nat /\ Waiting(n, AllW(n, W), {}, T)
      BY NodeFields DEF Good, NodeOK
    <2> QED
      BY <2>1 DEF Waiting
  <1>2. PICK f : Folds(f, "send", b, q, L) /\ DrainSends(n) = f[L]
    BY <1>1, DrainsFold
  <1>3. f[0] = b /\ \A i \in 1 .. L : i - 1 \in 0 .. L /\ f[i] = FoldStep("send", f[i - 1], q[i])
    BY <1>1, <1>2, FoldSteps
  <1>4. /\ Good(b, W, D, calm, InQueue(n), T) /\ Keeps(n, b) /\ b.id = n.id
        /\ b.outbox = n.outbox /\ b.pendRecv = n.pendRecv /\ Len(b.pendSend) = 0
    BY TakeSends
  <1> HIDE DEF b
  <1> DEFINE P(i) == /\ Good(f[i], W, D, calm, Left(i), T) /\ Keeps(n, f[i])
                     /\ f[i].outbox = n.outbox /\ f[i].pendRecv = n.pendRecv /\ Len(f[i].pendSend) = 0
             S == {i \in 0 .. L : P(i)}
  <1>5. 0 \in S
    <2>1. Left(0) = InQueue(n)
      BY DEF InQueue
    <2>2. P(0)
      BY <1>3, <1>4, <2>1
    <2> QED
      BY <1>1, <2>2
  <1>6. ASSUME NEW i \in 1 .. L, i - 1 \in S PROVE i \in S
    <2> DEFINE g == f[i - 1]
               m == PendingSend(g, q[i])
               H == Left(i)
    <2>1. P(i - 1)
      BY <1>6
    <2>2. Left(i - 1) = H \cup {q[i]} /\ q[i] \notin H
      <3>1. \A j : j \in (i - 1) + 1 .. L <=> j \in i + 1 .. L \/ j = i
        BY <1>1
      <3>2. \A j \in i + 1 .. L : j \in 1 .. L /\ j # i
        BY <1>1
      <3> QED
        BY <1>1, <3>1, <3>2
    <2>3. /\ Good(g, W, D, calm, H \cup {q[i]}, T) /\ Keeps(n, g)
          /\ g.outbox = n.outbox /\ g.pendRecv = n.pendRecv /\ Len(g.pendSend) = 0
      BY <2>1, <2>2
    <2>4. f[i] = m
      BY <1>3 DEF FoldStep
    <2>5. T[g.id] \in Nat
      BY <2>3 DEF Keeps
    <2> HIDE DEF g, H
    <2>6. Good(m, W, D, calm, H, T) /\ Keeps(g, m) /\ SameQueues(g, m)
      BY <2>2, <2>3, <2>5, PendingSendKeeps
    <2> HIDE DEF m
    <2>7. Keeps(n, m)
      BY <2>3, <2>6, KeepsThrough
    <2>8. m.outbox = n.outbox /\ m.pendRecv = n.pendRecv /\ Len(m.pendSend) = 0
      BY <2>3, <2>6 DEF SameQueues
    <2>9. P(i)
      BY <2>4, <2>6, <2>7, <2>8 DEF H
    <2>10. i \in 0 .. L
      BY <1>1
    <2> HIDE DEF P
    <2> QED
      BY <2>9, <2>10
  <1>7. L \in S
    <2> HIDE DEF S
    <2> QED
      BY <1>1, <1>5, <1>6, Induct
  <1>8. Left(L) = {}
    BY <1>1
  <1> QED
    BY <1>2, <1>7, <1>8

-----------------------------------------------------------------------------
(* Receiving changes the sessions, the message table and the prekey pool.  *)
Alike(n, m) ==
    /\ m \in Nodes(n.id) /\ m.id = n.id /\ m.otpk = n.otpk /\ m.prekey = n.prekey /\ m.conn = n.conn
    /\ (m.asks <=> n.asks) /\ (m.inflight <=> n.inflight)
    /\ m.out = n.out /\ m.drops = n.drops /\ SameQueues(n, m)

LEMMA AlikeGood ==
    ASSUME NEW W, NEW D, NEW calm \in BOOLEAN, NEW H, NEW T, NEW n, NEW m, Good(n, W, D, calm, H, T),
           Alike(n, m), Behind(m, AllW(n, W), AllD(n, D), calm)
    PROVE  Good(m, W, D, calm, H, T)
  <1> DEFINE X == AllW(n, W)
             E == AllD(n, D)
  <1>1. World(X, E, calm, T) /\ NodeOK(n, X, E, calm, H, T)
    BY DEF Good
  <1>2. AllW(m, W) = X /\ AllD(m, D) = E
    BY DEF Alike, AllW, AllD
  <1> HIDE DEF X, E
  <1>3. Behind(m, X, E, calm)
    BY DEF X, E
  <1>4. m.id = n.id /\ SameQueues(n, m) /\ m.out = n.out /\ m.drops = n.drops /\ m \in Nodes(n.id)
    BY DEF Alike
  <1>5. Waiting(m, X, H, T) /\ Post(m, X, E) /\ (calm => QueuedKept(m, X, H))
    BY <1>1, <1>4, QueuesAlike DEF NodeOK
  <1>6. m.asks => m.inflight
    BY <1>1 DEF Alike, NodeOK
  <1> QED
    BY <1>1, <1>2, <1>3, <1>4, <1>5, <1>6 DEF Good, NodeOK, Behind

LEMMA AlikeKeeps ==
    ASSUME NEW n, NEW m, Alike(n, m), n.asks => n.inflight, DiskKept(n, m),
           \A k \in 1 .. OtpkCount : n.pool[k] # "fresh" => m.pool[k] # "fresh"
    PROVE  Keeps(n, m)
  BY DEF Alike, Keeps, DiskKept

(* decrypt_and_store, field by field.                                      *)
LEMMA DecryptNode ==
    ASSUME NEW p \in Parties, NEW n \in Nodes(p), SideOf(n.mem, p), NEW w \in Wires,
           w.pt \in MsgIds(Other(p))
    PROVE  LET m == DecryptAndStore(n, w)
               r == Decrypt(n.mem, w, Drawn(n, "dh"))
           IN  /\ Alike(n, m) /\ m.pool = n.pool /\ m.mem = r.st
               /\ r.err = "ok" => m.disk = r.st /\ m.stored = [n.stored EXCEPT ![w.pt] = @ + 1]
               /\ r.err # "ok" => m.disk = n.disk /\ m.stored = n.stored
  <1> DEFINE m == DecryptAndStore(n, w)
             r == Decrypt(n.mem, w, Drawn(n, "dh"))
             d == IF DrewDh(n, r) THEN n.drawn + 1 ELSE n.drawn
             z == [n.stored EXCEPT ![w.pt] = @ + 1]
             l == [n EXCEPT !.mem = r.st, !.drawn = d]
  <1>1. Drawn(n, "dh") \in Keys /\ n.drawn + 1 \in Nat /\ n.drawn \in Nat /\ n.id = p
    BY DrawnKey, NodeFields DEF Kinds
  <1>2. r.st \in States
    <2>1. SideOf(r.st, p)
      BY <1>1, DecryptSide
    <2> QED
      BY <2>1 DEF SideOf, Sane
  <1>3. d \in Nat
    BY <1>1
  <1>4. n.stored \in [MsgIds(Other(p)) -> Nat]
    BY NodeFields
  <1>5. z \in [MsgIds(Other(p)) -> Nat]
    BY <1>4
  <1>6. m = IF r.err = "ok" THEN StorePlaintext(PersistSession(l), w.pt) ELSE l
    BY DEF DecryptAndStore
  <1> HIDE DEF r, d
  <1>7. ASSUME r.err = "ok" PROVE m = [n EXCEPT !.mem = r.st, !.drawn = d, !.disk = r.st, !.stored = z]
    BY <1>6, <1>7 DEF StorePlaintext, PersistSession, Nodes
  <1> HIDE DEF z
  <1>8. CASE r.err = "ok"
    <2> DEFINE u == [n EXCEPT !.mem = r.st, !.drawn = d, !.disk = r.st, !.stored = z]
    <2>1. u \in Nodes(p)
      BY <1>2, <1>3, <1>5 DEF Nodes
    <2>2. /\ u.id = p /\ u.otpk = n.otpk /\ u.pool = n.pool /\ u.mem = r.st /\ u.disk = r.st
          /\ u.stored = z /\ u.out = n.out /\ u.drops = n.drops
      BY DEF Nodes
    <2>3. u.asks = n.asks /\ u.inflight = n.inflight /\ u.prekey = n.prekey /\ u.conn = n.conn
      BY DEF Nodes
    <2>4. SameQueues(n, u)
      BY DEF SameQueues, Nodes
    <2> HIDE DEF u
    <2>5. Alike(n, u)
      BY <1>1, <2>1, <2>2, <2>3, <2>4 DEF Alike
    <2>6. m = u
      BY <1>7, <1>8 DEF u
    <2> QED
      BY <1>8, <2>2, <2>5, <2>6 DEF r, z
  <1>9. CASE r.err # "ok"
    <2>1. l \in Nodes(p)
      BY <1>2, <1>3 DEF Nodes
    <2>2. /\ l.id = p /\ l.otpk = n.otpk /\ l.pool = n.pool /\ l.mem = r.st /\ l.disk = n.disk
          /\ l.stored = n.stored /\ l.out = n.out /\ l.drops = n.drops
      BY DEF Nodes
    <2>3. l.asks = n.asks /\ l.inflight = n.inflight /\ l.prekey = n.prekey /\ l.conn = n.conn
      BY DEF Nodes
    <2>4. SameQueues(n, l)
      BY DEF SameQueues, Nodes
    <2>6. m = l
      BY <1>6, <1>9
    <2> HIDE DEF l, m
    <2>5. Alike(n, l)
      BY <1>1, <2>1, <2>2, <2>3, <2>4 DEF Alike
    <2> QED
      BY <1>9, <2>2, <2>5, <2>6 DEF r, m
  <1> QED
    BY <1>8, <1>9

LEMMA TypedIds ==
    ASSUME NEW W, NEW D, NEW calm, NEW T, World(W, D, calm, T)
    PROVE  (\A p \in Parties : T[p] \in Nat) /\ \A w \in W : w.pt \in MsgIds(w.from)
  <1>1. ASSUME NEW p \in Parties
        PROVE  Quota[p] \in Nat /\ T[p] \in 0 .. Quota[p]
    <2>1. Quota[p] = IF p = "A" THEN MsgsA ELSE MsgsB
      BY DEF Quota, Parties
    <2> QED
      BY <2>1, DmAssumption DEF World, Typed
  <1>2. ASSUME NEW w \in W PROVE w.pt \in MsgIds(w.from)
    <2>1. w.from \in Parties /\ w.pt \in 1 .. T[w.from]
      BY DEF World, WireOK, Wires
    <2> QED
      BY <1>1, <2>1 DEF MsgIds
  <1> QED
    BY <1>1, <1>2

(* What receiving does to a node.                                          *)
Takes(n, m) ==
    /\ m.outbox = n.outbox /\ m.pendSend = n.pendSend /\ m.out = n.out /\ m.drops = n.drops
    /\ \A k \in MsgIds(Other(n.id)) : n.stored[k] # 0 => m.stored[k] # 0
    /\ \A k \in 1 .. OtpkCount : n.pool[k] # "fresh" => m.pool[k] # "fresh"
Incoming(n, w, W) == w \in W /\ w.to = n.id

(* decrypt_and_store in a session                                          *)
LEMMA OpenKeeps ==
    ASSUME NEW W, NEW D, NEW calm \in BOOLEAN, NEW H, NEW T, NEW n, NEW w, Good(n, W, D, calm, H, T),
           n.mem # NoSession, Incoming(n, w, AllW(n, W))
    PROVE  LET m == DecryptAndStore(n, w) IN
           Good(m, W, D, calm, H, T) /\ Keeps(n, m) /\ Takes(n, m) /\ SameQueues(n, m)
  <1> DEFINE p == n.id
             X == AllW(n, W)
             E == AllD(n, D)
             m == DecryptAndStore(n, w)
             s == n.mem
             r == Decrypt(s, w, Drawn(n, "dh"))
             t == r.st
             z == [n.stored EXCEPT ![w.pt] = @ + 1]
  <1>1. /\ World(X, E, calm, T) /\ NodeOK(n, X, E, calm, H, T) /\ p \in Parties /\ n \in Nodes(p)
        /\ n.asks => n.inflight
    BY DEF Good, NodeOK
  <1>0. \A v \in X : v.to = p => v.pt \in MsgIds(Other(p))
    <2>1. \A v \in X : v.pt \in MsgIds(v.from) /\ v.to = Other(v.from) /\ v.from \in Parties
      BY <1>1, TypedIds DEF World, WireOK, Wires
    <2> QED
      BY <2>1, Others
  <1>2. w \in X /\ w.to = p /\ w.pt \in MsgIds(Other(p)) /\ w \in Wires /\ w.mk \in ChainKeys
    BY <1>0, <1>1 DEF Incoming, World, WireOK, Wires
  <1>3. Session(s, p) /\ SideOf(s, p) /\ CanEncrypt(s) /\ Drawn(n, "dh") \in Keys
    BY <1>1, DrawnKey DEF NodeOK, Sessions, Session, Kinds
  <1>4. /\ SideOf(t, p) /\ SameSession(s, t) /\ NoGain(s, t)
        /\ r.err = "ok" => Reads(s, w.mk) /\ ~Reads(t, w.mk)
        /\ \A mk \in ChainKeys : Past(s, p, mk) => Past(t, p, mk)
        /\ CanEncrypt(s) => CanEncrypt(t)
    BY <1>1, <1>2, <1>3, DecryptSide
  <1>5. /\ Alike(n, m) /\ m.pool = n.pool /\ m.mem = t
        /\ r.err = "ok" => m.disk = t /\ m.stored = z
        /\ r.err # "ok" => m.disk = n.disk /\ m.stored = n.stored
    BY <1>1, <1>2, <1>3, DecryptNode
  <1>6. n.stored \in [MsgIds(Other(p)) -> Nat]
    BY <1>1, NodeFields
  <1>7. z[w.pt] = n.stored[w.pt] + 1 /\ \A k \in MsgIds(Other(p)) : k # w.pt => z[k] = n.stored[k]
    BY <1>2, <1>6
  <1>8. z[w.pt] # 0 /\ (n.stored[w.pt] = 0 => z[w.pt] = 1)
    BY <1>2, <1>6, <1>7
  <1> HIDE DEF m, z, X, E, t
  <1>9. Session(t, p) /\ t # NoSession /\ t.sessionId = s.sessionId
    BY <1>3, <1>4, NoSessionApart DEF Session, SideOf, Sane, SameSession
  <1>10. m.disk = t \/ m.disk = n.disk
    BY <1>5
  <1>id. m.id = p
    BY <1>5 DEF Alike
  <1> HIDE DEF r
  <1>11. Sessions(m)
    BY <1>1, <1>5, <1>9, <1>10, <1>id DEF NodeOK, Sessions
  <1>12. \A v \in X : v.mk \in ChainKeys /\ v.to = Other(v.from) /\ v.from \in Parties
    BY <1>1 DEF World, WireOK, Wires
  <1>13. OwnBehind(m, X, E, calm)
    <2> SUFFICES ASSUME NEW v \in X, v.from = p
                 PROVE  /\ v \notin E => m.disk # NoSession /\ Past(m.disk, p, v.mk)
                        /\ v \notin E \/ calm => Past(t, p, v.mk)
      BY <1>5, <1>9, <1>id DEF OwnBehind
    <2>1. /\ v \notin E => n.disk # NoSession /\ Past(n.disk, p, v.mk)
          /\ v \notin E \/ calm => Past(s, p, v.mk)
      BY <1>1 DEF NodeOK, OwnBehind
    <2> QED
      BY <1>4, <1>9, <1>10, <1>12, <2>1
  <1>14. r.err = "ok" => n.stored[w.pt] = 0
    BY <1>1, <1>2, <1>4 DEF NodeOK, StoredSpent
  <1>15. w.from = Other(p)
    BY <1>2, <1>12, Others
  <1>16. StoredOnce(m, X)
    <2> SUFFICES ASSUME NEW k \in MsgIds(Other(p)), m.stored[k] # 0
                 PROVE  m.stored[k] = 1 /\ Wired(X, Other(p), k)
      BY <1>id DEF StoredOnce
    <2>1. n.stored[k] # 0 => n.stored[k] = 1 /\ Wired(X, Other(p), k)
      BY <1>1 DEF NodeOK, StoredOnce
    <2>2. Wired(X, Other(p), w.pt)
      BY <1>2, <1>15 DEF Wired
    <2>3. CASE r.err = "ok" /\ k = w.pt
      BY <1>5, <1>8, <1>14, <2>2, <2>3
    <2>4. CASE ~(r.err = "ok" /\ k = w.pt)
      <3>1. m.stored[k] = n.stored[k]
        BY <1>5, <1>7, <2>4
      <3> QED
        BY <2>1, <3>1
    <2> QED
      BY <2>3, <2>4
  <1>17. StoredSpent(m, X)
    <2> SUFFICES ASSUME NEW v \in X, v.to = p, m.stored[v.pt] # 0
                 PROVE  m.disk # NoSession /\ ~Reads(m.disk, v.mk) /\ ~Reads(t, v.mk)
      BY <1>5, <1>id DEF StoredSpent
    <2>1. n.stored[v.pt] # 0 => n.disk # NoSession /\ ~Reads(n.disk, v.mk) /\ ~Reads(s, v.mk)
      BY <1>1 DEF NodeOK, StoredSpent
    <2>2. v.from = Other(p)
      BY <1>12, Others
    <2>3. CASE r.err = "ok" /\ v.pt = w.pt
      <3>1. v = w
        BY <1>1, <1>2, <1>15, <2>2, <2>3 DEF World, OneWire
      <3> QED
        BY <1>4, <1>5, <1>9, <2>3, <3>1
    <2>4. CASE ~(r.err = "ok" /\ v.pt = w.pt)
      <3>1. n.stored[v.pt] # 0
        <4>1. CASE r.err = "ok"
          <5>1. m.stored = [n.stored EXCEPT ![w.pt] = @ + 1] /\ v.pt # w.pt
            BY <1>5, <2>4, <4>1 DEF z
          <5>2. v.pt \in MsgIds(Other(p)) => m.stored[v.pt] = n.stored[v.pt]
            BY <1>6, <5>1
          <5>3. v.pt \in MsgIds(Other(p))
            BY <1>0
          <5> QED
            BY <5>2, <5>3
        <4> QED
          BY <1>5, <4>1
      <3>2. ~Reads(t, v.mk)
        BY <1>4, <1>12, <2>1, <3>1 DEF NoGain
      <3> QED
        BY <1>9, <1>10, <2>1, <3>1, <3>2
    <2> QED
      BY <2>3, <2>4
  <1>18. Good(m, W, D, calm, H, T)
    <2>1. Behind(m, X, E, calm)
      BY <1>11, <1>13, <1>16, <1>17 DEF Behind
    <2> QED
      BY <1>5, <2>1, AlikeGood DEF X, E
  <1>19. Keeps(n, m)
    <2>1. DiskKept(n, m)
      BY <1>1, <1>9, <1>10 DEF DiskKept, NodeOK, Sessions
    <2> QED
      BY <1>1, <1>5, <2>1, AlikeKeeps
  <1>20. Takes(n, m) /\ SameQueues(n, m)
    <2>1. \A k \in MsgIds(Other(p)) : n.stored[k] # 0 => m.stored[k] # 0
      BY <1>5, <1>7, <1>8
    <2> QED
      BY <1>5, <2>1 DEF Alike, Takes, SameQueues
  <1> QED
    BY <1>18, <1>19, <1>20 DEF m

(* bootstrap_responder_and_decrypt sets up the responder's side.           *)
LEMMA ResponderSide ==
    ASSUME NEW p \in Parties, NEW n \in Nodes(p), NEW w, NEW T, WireOK(w, T), w.to = p, w.eph # Absent
    PROVE  LET s == ResponderSession(n, w) IN
           SideOf(s, p) /\ s \in States /\ s.ckr = NoChain /\ Len(s.skipped) = 0
  <1> DEFINE sk == ResponderDerive(Spk(p), Otpk(p, w.otpk), w.eph, Spk(w.from), w.pq)
             s == NewResponder(<<sk>>, Spk(p))
  <1>1. w \in Wires /\ w.from \in Parties /\ w.otpk \in 0 .. OtpkCount /\ w.pq \in Keys /\ w.to = Other(w.from)
    BY DEF WireOK, Wires
  <1>2. p = Other(w.from) /\ Otpk(p, w.otpk) \in Keys \cup {Absent}
    BY <1>1, OtpkKey
  <1>3. PICK k \in Nat : w.eph = <<w.from, "eph", k>>
    BY DEF WireOK
  <1>4. Agreed(sk) /\ sk \in Outputs /\ Role(p, sk) = "B"
    BY <1>1, <1>2, <1>3, SecretAgreed
  <1>5. Spk(p) \in Keys
    BY DEF Spk, Keys, Kinds
  <1>6. ResponderSession(n, w) = s
    BY NodeFields DEF ResponderSession
  <1> HIDE DEF sk
  <1>7. Sane(s, "B") /\ s.rk[1] = sk /\ s.ckr = NoChain /\ Len(s.skipped) = 0
    BY <1>4, <1>5, ResponderMade
  <1> HIDE DEF s
  <1> QED
    BY <1>4, <1>6, <1>7 DEF SideOf, Sane

LEMMA PoolKept ==
    ASSUME NEW p \in Parties, NEW n \in Nodes(p), NEW id \in 0 .. OtpkCount
    PROVE  LET m == ConsumeOtpk(n, id) IN
           /\ Alike(n, m) /\ m.mem = n.mem /\ m.disk = n.disk /\ m.stored = n.stored
           /\ \A k \in 1 .. OtpkCount : n.pool[k] # "fresh" => m.pool[k] # "fresh"
  <1> DEFINE z == [n.pool EXCEPT ![id] = "consumed"]
             m == [n EXCEPT !.pool = z]
  <1>0. n.id = p
    BY NodeFields
  <1>1. CASE id = 0
    <2>1. ConsumeOtpk(n, id) = n
      BY <1>1 DEF ConsumeOtpk
    <2>2. Alike(n, n)
      BY <1>0 DEF Alike, SameQueues
    <2> QED
      BY <2>1, <2>2
  <1>2. CASE id # 0
    <2>1. ConsumeOtpk(n, id) = m
      BY <1>2 DEF ConsumeOtpk
    <2>2. n.pool \in [1 .. OtpkCount -> {"fresh", "served", "consumed"}]
      BY NodeFields
    <2>3. /\ z \in [1 .. OtpkCount -> {"fresh", "served", "consumed"}]
          /\ \A k \in 1 .. OtpkCount : n.pool[k] # "fresh" => z[k] # "fresh"
      BY <2>2
    <2> HIDE DEF z
    <2>4. m \in Nodes(p)
      BY <2>3 DEF Nodes
    <2>5. /\ m.mem = n.mem /\ m.disk = n.disk /\ m.stored = n.stored /\ m.out = n.out /\ m.drops = n.drops
          /\ m.id = p /\ m.otpk = n.otpk /\ m.pool = z
      BY DEF Nodes
    <2>6. m.asks = n.asks /\ m.inflight = n.inflight /\ m.prekey = n.prekey /\ m.conn = n.conn
      BY DEF Nodes
    <2>7. SameQueues(n, m)
      BY DEF Nodes, SameQueues
    <2> HIDE DEF m
    <2>8. Alike(n, m)
      BY <1>0, <2>4, <2>5, <2>6, <2>7 DEF Alike
    <2> QED
      BY <2>1, <2>3, <2>5, <2>8
  <1> QED
    BY <1>1, <1>2

LEMMA AlikeThrough ==
    ASSUME NEW n, NEW m, NEW l, Alike(n, m), Alike(m, l)
    PROVE  Alike(n, l)
  <1>1. /\ l \in Nodes(n.id) /\ l.id = n.id /\ l.otpk = n.otpk /\ l.prekey = n.prekey /\ l.conn = n.conn
        /\ l.out = n.out /\ l.drops = n.drops /\ SameQueues(n, l)
    BY DEF Alike, SameQueues
  <1>2. (l.asks <=> n.asks) /\ (l.inflight <=> n.inflight)
    BY DEF Alike
  <1> QED
    BY <1>1, <1>2 DEF Alike

LEMMA SwapMem ==
    ASSUME NEW p \in Parties, NEW n \in Nodes(p), NEW s \in States \cup {NoSession}
    PROVE  LET m == [n EXCEPT !.mem = s] IN
           /\ Alike(n, m) /\ m.mem = s /\ m.disk = n.disk /\ m.stored = n.stored /\ m.pool = n.pool
           /\ m.drawn = n.drawn
  <1> DEFINE m == [n EXCEPT !.mem = s]
  <1>1. m \in Nodes(p) /\ n.id = p
    BY DEF Nodes
  <1>2. /\ m.mem = s /\ m.disk = n.disk /\ m.stored = n.stored /\ m.out = n.out /\ m.drops = n.drops
        /\ m.id = p /\ m.otpk = n.otpk /\ m.pool = n.pool /\ m.drawn = n.drawn
    BY DEF Nodes
  <1>3. m.asks = n.asks /\ m.inflight = n.inflight /\ m.prekey = n.prekey /\ m.conn = n.conn
    BY DEF Nodes
  <1>4. SameQueues(n, m)
    BY DEF Nodes, SameQueues
  <1> HIDE DEF m
  <1>5. Alike(n, m)
    BY <1>1, <1>2, <1>3, <1>4 DEF Alike
  <1> QED
    BY <1>2, <1>5 DEF m

(* bootstrap_responder_and_decrypt                                         *)
LEMMA BootstrapKeeps ==
    ASSUME NEW W, NEW D, NEW calm \in BOOLEAN, NEW H, NEW T, NEW n, NEW w, Good(n, W, D, calm, H, T),
           ~HasSession(n), Incoming(n, w, AllW(n, W)), w.eph # Absent
    PROVE  LET m == BootstrapResponder(n, w) IN
           Good(m, W, D, calm, H, T) /\ Keeps(n, m) /\ Takes(n, m) /\ SameQueues(n, m)
  <1> DEFINE p == n.id
             X == AllW(n, W)
             E == AllD(n, D)
             s == ResponderSession(n, w)
             a == [n EXCEPT !.mem = s]
             b == DecryptAndStore(a, w)
             r == Decrypt(s, w, Drawn(n, "dh"))
             t == r.st
             z == [n.stored EXCEPT ![w.pt] = @ + 1]
             m == BootstrapResponder(n, w)
  <1>1. /\ World(X, E, calm, T) /\ NodeOK(n, X, E, calm, H, T) /\ p \in Parties /\ n \in Nodes(p)
        /\ n.asks => n.inflight
    BY DEF Good, NodeOK
  <1>0. \A v \in X : /\ v.pt \in MsgIds(v.from) /\ v.to = Other(v.from) /\ v.from \in Parties
                     /\ v.to = p => v.from = Other(p)
    <2>1. \A v \in X : v.pt \in MsgIds(v.from) /\ v.to = Other(v.from) /\ v.from \in Parties
      BY <1>1, TypedIds DEF World, WireOK, Wires
    <2> QED
      BY <2>1, Others
  <1>2. /\ w \in X /\ w.to = p /\ w.pt \in MsgIds(Other(p)) /\ w \in Wires /\ WireOK(w, T)
        /\ w.otpk \in 0 .. OtpkCount /\ w.from = Other(p)
    BY <1>0, <1>1 DEF Incoming, World, WireOK, Wires
  <1>3. SideOf(s, p) /\ s \in States /\ s.ckr = NoChain /\ Len(s.skipped) = 0
    BY <1>1, <1>2, ResponderSide
  <1>B. Blank(n, X, E, calm)
    BY <1>1, NothingYet
  <1>4. /\ n.mem = NoSession /\ n.disk = NoSession
        /\ \A v \in X : v.from = p => v \in E /\ ~calm
        /\ \A k \in MsgIds(Other(p)) : n.stored[k] = 0
    BY <1>B DEF Blank
  <1> HIDE DEF s
  <1>5. /\ Alike(n, a) /\ a.mem = s /\ a.disk = NoSession /\ a.stored = n.stored /\ a.pool = n.pool
        /\ Drawn(a, "dh") = Drawn(n, "dh") /\ Drawn(n, "dh") \in Keys
    <2>1. /\ Alike(n, a) /\ a.mem = s /\ a.disk = n.disk /\ a.stored = n.stored /\ a.pool = n.pool
          /\ a.drawn = n.drawn
      BY <1>1, <1>3, SwapMem
    <2> HIDE DEF a
    <2>2. Drawn(n, "dh") \in Keys
      BY <1>1, DrawnKey DEF Kinds
    <2>3. Drawn(a, "dh") = Drawn(n, "dh")
      BY <2>1 DEF Drawn, Alike
    <2> QED
      BY <1>4, <2>1, <2>2, <2>3
  <1> HIDE DEF a
  <1>6. a \in Nodes(p) /\ SideOf(a.mem, p)
    BY <1>3, <1>5 DEF Alike
  <1>7. /\ Alike(a, b) /\ b.pool = a.pool /\ b.mem = t
        /\ r.err = "ok" => b.disk = t /\ b.stored = z
        /\ r.err # "ok" => b.disk = NoSession /\ b.stored = n.stored
    BY <1>1, <1>2, <1>5, <1>6, DecryptNode
  <1>8. /\ SideOf(t, p) /\ NoGain(s, t)
        /\ r.err = "ok" => Reads(s, w.mk) /\ ~Reads(t, w.mk)
        /\ r.err = "ok" => CanEncrypt(t)
    BY <1>1, <1>2, <1>3, <1>5, DecryptSide
  <1>9. /\ n.stored \in [MsgIds(Other(p)) -> Nat]
        /\ z[w.pt] = n.stored[w.pt] + 1 /\ \A k \in MsgIds(Other(p)) : k # w.pt => z[k] = n.stored[k]
    BY <1>1, <1>2, NodeFields
  <1>10. z[w.pt] = 1 /\ (\A k \in MsgIds(Other(p)) : k # w.pt => z[k] = 0) /\ z # n.stored
    BY <1>2, <1>4, <1>9
  <1>11. m = IF ~OtpkLoads(n, w.otpk) THEN n
             ELSE IF b.stored = n.stored THEN [b EXCEPT !.mem = NoSession]
             ELSE ConsumeOtpk(b, w.otpk)
    BY DEF BootstrapResponder, a, s
  <1> HIDE DEF b, m, t, r, z
  <1>12. Alike(n, b)
    BY <1>5, <1>7, AlikeThrough
  <1>nb. b \in Nodes(p) /\ b.id = p
    BY <1>12 DEF Alike
  <1>13. CASE ~OtpkLoads(n, w.otpk)
    <2>1. m = n
      BY <1>11, <1>13
    <2>2. Keeps(n, n)
      BY <1>1, KeepsAll
    <2> QED
      BY <2>1, <2>2 DEF Takes, SameQueues, m
  <1>14. CASE OtpkLoads(n, w.otpk) /\ r.err # "ok"
    <2>1. m = [b EXCEPT !.mem = NoSession]
      BY <1>7, <1>11, <1>14
    <2>2. /\ Alike(b, m) /\ m.mem = NoSession /\ m.disk = b.disk /\ m.stored = b.stored /\ m.pool = b.pool
      BY <1>1, <1>nb, <2>1, SwapMem
    <2>3. /\ Alike(n, m) /\ m.mem = NoSession /\ m.disk = NoSession /\ m.stored = n.stored /\ m.pool = n.pool
      BY <1>5, <1>7, <1>12, <1>14, <2>2, AlikeThrough
    <2>id. m.id = p
      BY <2>3 DEF Alike
    <2>4. Behind(m, X, E, calm)
      BY <1>1, <1>4, <2>3, <2>id DEF NodeOK, Behind, Sessions, OwnBehind, StoredOnce, StoredSpent
    <2>5. Good(m, W, D, calm, H, T)
      BY <2>3, <2>4, AlikeGood
    <2>6. Keeps(n, m)
      <3>1. DiskKept(n, m)
        BY <1>4 DEF DiskKept
      <3> QED
        BY <1>1, <2>3, <3>1, AlikeKeeps
    <2>7. Takes(n, m) /\ SameQueues(n, m)
      BY <2>3 DEF Alike, Takes, SameQueues
    <2> QED
      BY <2>5, <2>6, <2>7 DEF m
  <1>15. CASE OtpkLoads(n, w.otpk) /\ r.err = "ok"
    <2>1. m = ConsumeOtpk(b, w.otpk) /\ b.disk = t /\ b.stored = z
      BY <1>7, <1>10, <1>11, <1>15
    <2>2. /\ Alike(b, m) /\ m.mem = b.mem /\ m.disk = b.disk /\ m.stored = b.stored
          /\ \A k \in 1 .. OtpkCount : b.pool[k] # "fresh" => m.pool[k] # "fresh"
      BY <1>1, <1>2, <1>nb, <2>1, PoolKept
    <2>3. /\ Alike(n, m) /\ m.mem = t /\ m.disk = t /\ m.stored = z
          /\ \A k \in 1 .. OtpkCount : n.pool[k] # "fresh" => m.pool[k] # "fresh"
      BY <1>5, <1>7, <1>12, <2>1, <2>2, AlikeThrough
    <2>id. m.id = p
      BY <2>3 DEF Alike
    <2>4. Session(t, p) /\ t # NoSession /\ ~Reads(t, w.mk)
      BY <1>8, <1>15, NoSessionApart DEF Session, SideOf, Sane
    <2>5. Sessions(m) /\ OwnBehind(m, X, E, calm)
      BY <1>4, <2>3, <2>4, <2>id DEF Sessions, OwnBehind
    <2>6. StoredOnce(m, X)
      <3>1. Wired(X, Other(p), w.pt)
        BY <1>2 DEF Wired
      <3> QED
        BY <1>10, <2>3, <2>id, <3>1 DEF StoredOnce
    <2>7. StoredSpent(m, X)
      <3> SUFFICES ASSUME NEW v \in X, v.to = p, z[v.pt] # 0 PROVE v = w
        BY <2>3, <2>4, <2>id DEF StoredSpent
      <3>1. v.from = Other(p) /\ v.pt \in MsgIds(Other(p))
        BY <1>0
      <3>2. v.pt = w.pt
        BY <1>10, <3>1
      <3> QED
        BY <1>1, <1>2, <3>1, <3>2 DEF World, OneWire
    <2>8. Good(m, W, D, calm, H, T)
      <3>1. Behind(m, X, E, calm)
        BY <2>5, <2>6, <2>7 DEF Behind
      <3> QED
        BY <2>3, <3>1, AlikeGood
    <2>9. Keeps(n, m)
      <3>1. DiskKept(n, m)
        BY <1>4 DEF DiskKept
      <3> QED
        BY <1>1, <2>3, <3>1, AlikeKeeps
    <2>10. Takes(n, m) /\ SameQueues(n, m)
      BY <1>4, <2>3 DEF Alike, Takes, SameQueues
    <2> QED
      BY <2>8, <2>9, <2>10 DEF m
  <1> QED
    BY <1>13, <1>14, <1>15

LEMMA TakesThrough ==
    ASSUME NEW n, NEW m, NEW l, m.id = n.id, Takes(n, m), Takes(m, l)
    PROVE  Takes(n, l)
  BY DEF Takes

(* decrypt_and_store after restore_session_if_persisted                    *)
LEMMA RestoreOpenKeeps ==
    ASSUME NEW W, NEW D, NEW calm \in BOOLEAN, NEW H, NEW T, NEW n, NEW w, Good(n, W, D, calm, H, T),
           HasSession(n), Incoming(n, w, AllW(n, W))
    PROVE  LET m == DecryptAndStore(RestoreSession(n), w) IN
           Good(m, W, D, calm, H, T) /\ Keeps(n, m) /\ Takes(n, m) /\ SameQueues(n, m)
  <1> DEFINE l == RestoreSession(n)
             m == DecryptAndStore(l, w)
  <1>1. Good(l, W, D, calm, H, T) /\ Keeps(n, l) /\ SameQueues(n, l) /\ l.mem # NoSession
    BY Ready
  <1>2. l.out = n.out /\ l.drops = n.drops /\ l.stored = n.stored /\ l.pool = n.pool /\ l.id = n.id
    <2>1. n \in Nodes(n.id)
      BY DEF Good, NodeOK
    <2> QED
      BY <2>1 DEF RestoreSession, Nodes
  <1> HIDE DEF l
  <1>3. Incoming(l, w, AllW(l, W))
    BY <1>2 DEF Incoming, AllW
  <1>4. Good(m, W, D, calm, H, T) /\ Keeps(l, m) /\ Takes(l, m) /\ SameQueues(l, m)
    BY <1>1, <1>3, OpenKeeps
  <1> HIDE DEF m
  <1>5. Keeps(n, m)
    BY <1>1, <1>4, KeepsThrough
  <1>6. Takes(n, m) /\ SameQueues(n, m)
    BY <1>1, <1>2, <1>4 DEF Takes, SameQueues
  <1> QED
    BY <1>4, <1>5, <1>6 DEF m, l

LEMMA PendingRecvKeeps ==
    ASSUME NEW W, NEW D, NEW calm \in BOOLEAN, NEW H, NEW T, NEW n, NEW w, Good(n, W, D, calm, H, T),
           Incoming(n, w, AllW(n, W))
    PROVE  LET m == PendingRecv(n, w) IN
           Good(m, W, D, calm, H, T) /\ Keeps(n, m) /\ Takes(n, m) /\ SameQueues(n, m)
  <1>1. CASE HasSession(n)
    BY <1>1, RestoreOpenKeeps DEF PendingRecv
  <1>2. CASE ~HasSession(n) /\ w.eph # Absent
    BY <1>2, BootstrapKeeps DEF PendingRecv
  <1>3. CASE ~HasSession(n) /\ w.eph = Absent
    <2>1. PendingRecv(n, w) = n
      BY <1>3 DEF PendingRecv
    <2>2. Keeps(n, n)
      BY KeepsAll DEF Good
    <2> QED
      BY <2>1, <2>2 DEF Takes, SameQueues
  <1> QED
    BY <1>1, <1>2, <1>3

(* The queue of messages that wait for the prekey.                         *)
LEMMA HoldKeeps ==
    ASSUME NEW W, NEW D, NEW calm \in BOOLEAN, NEW H, NEW T, NEW n, NEW q, Good(n, W, D, calm, H, T),
           q \in Seq(Wires), \A i \in 1 .. Len(q) : Incoming(n, q[i], AllW(n, W))
    PROVE  LET m == [n EXCEPT !.pendRecv = q] IN
           Good(m, W, D, calm, H, T) /\ Keeps(n, m) /\ Takes(n, m)
  <1> DEFINE p == n.id
             X == AllW(n, W)
             E == AllD(n, D)
             m == [n EXCEPT !.pendRecv = q]
  <1>1. World(X, E, calm, T) /\ NodeOK(n, X, E, calm, H, T) /\ p \in Parties /\ n \in Nodes(p)
    BY DEF Good, NodeOK
  <1>4. m \in Nodes(p)
    BY <1>1 DEF Nodes
  <1>5. /\ m.mem = n.mem /\ m.disk = n.disk /\ m.stored = n.stored
        /\ m.out = n.out /\ m.drops = n.drops /\ m.id = p /\ m.otpk = n.otpk /\ m.pool = n.pool
    BY <1>1 DEF Nodes
  <1>6. m.asks = n.asks /\ m.inflight = n.inflight /\ m.prekey = n.prekey /\ m.conn = n.conn
    BY <1>1 DEF Nodes
  <1>7. m.outbox = n.outbox /\ m.pendSend = n.pendSend /\ m.pendRecv = q /\ m.queued = n.queued
    BY <1>1 DEF Nodes
  <1>8. AllW(m, W) = X /\ AllD(m, D) = E
    BY <1>5 DEF AllW, AllD
  <1>p. \A i \in 1 .. Len(q) : q[i] \in X /\ q[i].to = p
    BY DEF Incoming
  <1> HIDE DEF X, E, m
  <1>9. Behind(m, X, E, calm)
    BY <1>1, <1>5 DEF NodeOK, Behind, Sessions, OwnBehind, StoredOnce, StoredSpent
  <1>10. Waiting(m, X, H, T) /\ (calm => QueuedKept(m, X, H))
    BY <1>1, <1>5, <1>7 DEF NodeOK, Waiting, Unplaced, QueuedKept
  <1>11. Post(m, X, E)
    BY <1>1, <1>5, <1>7, <1>p DEF NodeOK, Post
  <1>12. Good(m, W, D, calm, H, T)
    BY <1>1, <1>4, <1>5, <1>6, <1>8, <1>9, <1>10, <1>11 DEF Good, NodeOK, Behind
  <1>13. Keeps(n, m)
    BY <1>1, <1>5, <1>6 DEF Keeps, NodeOK
  <1>14. Takes(n, m)
    BY <1>5, <1>7 DEF Takes
  <1> QED
    BY <1>12, <1>13, <1>14 DEF m

(* process_incoming_dm                                                     *)
LEMMA IncomingKeeps ==
    ASSUME NEW W, NEW D, NEW calm \in BOOLEAN, NEW H, NEW T, NEW n, NEW w, Good(n, W, D, calm, H, T),
           Incoming(n, w, AllW(n, W))
    PROVE  LET m == ProcessIncomingDm(n, w) IN
           Good(m, W, D, calm, H, T) /\ Keeps(n, m) /\ Takes(n, m)
  <1>1. CASE HasSession(n) \/ w.eph = Absent \/ n.prekey
    <2>1. ProcessIncomingDm(n, w) = PendingRecv(n, w)
      BY <1>1 DEF ProcessIncomingDm, PendingRecv
    <2> QED
      BY <2>1, PendingRecvKeeps
  <1>2. CASE ~(HasSession(n) \/ w.eph = Absent \/ n.prekey)
    <2> DEFINE q == Append(n.pendRecv, w)
               l == [n EXCEPT !.pendRecv = q]
               m == RequestPrekey(l)
    <2>1. ProcessIncomingDm(n, w) = m
      BY <1>2 DEF ProcessIncomingDm
    <2>2. n.pendRecv \in Seq(Wires) /\ w \in Wires
      BY NodeFields DEF Good, NodeOK, Incoming, World, WireOK
    <2>3. \A i \in 1 .. Len(n.pendRecv) : Incoming(n, n.pendRecv[i], AllW(n, W))
      BY DEF Good, NodeOK, Post, Incoming
    <2>4. q \in Seq(Wires) /\ \A i \in 1 .. Len(q) : (i \in 1 .. Len(n.pendRecv) /\ q[i] = n.pendRecv[i]) \/ q[i] = w
      BY <2>2, Appended
    <2> HIDE DEF q
    <2>5. \A i \in 1 .. Len(q) : Incoming(n, q[i], AllW(n, W))
      BY <2>3, <2>4
    <2>6. Good(l, W, D, calm, H, T) /\ Keeps(n, l) /\ Takes(n, l)
      BY <2>4, <2>5, HoldKeeps
    <2> HIDE DEF l
    <2>11. ~l.prekey
      BY <1>2, <2>6 DEF Keeps
    <2>7. Good(m, W, D, calm, H, T) /\ Keeps(l, m) /\ SameQueues(l, m)
      BY <2>6, <2>11, RequestKeeps
    <2>8. m.out = l.out /\ m.drops = l.drops /\ m.stored = l.stored /\ m.pool = l.pool
      <3>1. l \in Nodes(l.id)
        BY <2>6 DEF Good, NodeOK
      <3> QED
        BY <3>1 DEF RequestPrekey, Nodes
    <2> HIDE DEF m
    <2>9. Keeps(n, m)
      BY <2>6, <2>7, KeepsThrough
    <2>10. Takes(n, m)
      BY <2>6, <2>7, <2>8 DEF Takes, SameQueues
    <2> QED
      BY <2>1, <2>7, <2>9, <2>10
  <1> QED
    BY <1>1, <1>2

(* process_pending: the receives                                           *)
LEMMA DrainReceivesKeeps ==
    ASSUME NEW W, NEW D, NEW calm \in BOOLEAN, NEW T, NEW n, Good(n, W, D, calm, {}, T)
    PROVE  LET m == DrainReceives(n) IN
           Good(m, W, D, calm, {}, T) /\ Keeps(n, m) /\ Takes(n, m) /\ Len(m.pendRecv) = 0
  <1> DEFINE L == Len(n.pendRecv)
             q == n.pendRecv
             b == [n EXCEPT !.pendRecv = << >>]
             X == AllW(n, W)
  <1>1. L \in Nat /\ \A i \in 1 .. L : Incoming(n, q[i], X)
    BY NodeFields DEF Good, NodeOK, Post, Incoming
  <1>2. PICK f : Folds(f, "receive", b, q, L) /\ DrainReceives(n) = f[L]
    BY <1>1, DrainsFold
  <1>3. f[0] = b /\ \A i \in 1 .. L : i - 1 \in 0 .. L /\ f[i] = FoldStep("receive", f[i - 1], q[i])
    BY <1>1, <1>2, FoldSteps
  <1>4. Good(b, W, D, calm, {}, T) /\ Keeps(n, b) /\ Takes(n, b) /\ Len(b.pendRecv) = 0
    <2> DEFINE e == << >>
    <2>1. e \in Seq(Wires) /\ Len(e) = 0
      OBVIOUS
    <2>2. b = [n EXCEPT !.pendRecv = e]
      OBVIOUS
    <2> HIDE DEF e
    <2>5. \A i \in 1 .. Len(e) : Incoming(n, e[i], AllW(n, W))
      BY <2>1
    <2>3. Good(b, W, D, calm, {}, T) /\ Keeps(n, b) /\ Takes(n, b)
      <3> HIDE DEF b
      <3> QED
        BY <2>1, <2>2, <2>5, HoldKeeps
    <2>4. b.pendRecv = e
      BY <2>2 DEF Good, NodeOK, Nodes
    <2> QED
      BY <2>1, <2>3, <2>4
  <1> HIDE DEF b
  <1> DEFINE P(i) == Good(f[i], W, D, calm, {}, T) /\ Keeps(n, f[i]) /\ Takes(n, f[i]) /\ Len(f[i].pendRecv) = 0
             S == {i \in 0 .. L : P(i)}
  <1>5. 0 \in S
    BY <1>1, <1>3, <1>4
  <1>6. ASSUME NEW i \in 1 .. L, i - 1 \in S PROVE i \in S
    <2> DEFINE g == f[i - 1]
               m == PendingRecv(g, q[i])
    <2>1. Good(g, W, D, calm, {}, T) /\ Keeps(n, g) /\ Takes(n, g) /\ Len(g.pendRecv) = 0
      BY <1>6
    <2>2. f[i] = m
      BY <1>3 DEF FoldStep
    <2> HIDE DEF g
    <2>3. g.id = n.id /\ g.out = n.out /\ g.drops = n.drops
      BY <2>1 DEF Keeps, Takes
    <2>4. Incoming(g, q[i], AllW(g, W))
      BY <1>1, <2>3 DEF Incoming, AllW
    <2>5. Good(m, W, D, calm, {}, T) /\ Keeps(g, m) /\ Takes(g, m) /\ SameQueues(g, m)
      BY <2>1, <2>4, PendingRecvKeeps
    <2> HIDE DEF m
    <2>6. Keeps(n, m) /\ Takes(n, m)
      BY <2>1, <2>3, <2>5, KeepsThrough, TakesThrough
    <2>7. P(i)
      BY <2>1, <2>2, <2>5, <2>6 DEF SameQueues
    <2>8. i \in 0 .. L
      BY <1>1
    <2> HIDE DEF P
    <2> QED
      BY <2>7, <2>8
  <1>7. L \in S
    <2> HIDE DEF S
    <2> QED
      BY <1>1, <1>5, <1>6, Induct
  <1> QED
    BY <1>2, <1>7

(* process_pending                                                         *)
LEMMA PendingKeeps ==
    ASSUME NEW W, NEW D, NEW calm \in BOOLEAN, NEW T, NEW n, Good(n, W, D, calm, {}, T), T[n.id] \in Nat
    PROVE  LET m == ProcessPending(n) IN
           /\ Good(m, W, D, calm, {}, T) /\ Keeps(n, m) /\ m.outbox = n.outbox /\ Len(m.pendSend) = 0
  <1> DEFINE l == DrainReceives(n)
             m == DrainSends(l)
  <1>1. Good(l, W, D, calm, {}, T) /\ Keeps(n, l) /\ Takes(n, l)
    BY DrainReceivesKeeps
  <1>2. ProcessPending(n) = m
    BY DEF ProcessPending
  <1> HIDE DEF l
  <1>3. T[l.id] \in Nat
    BY <1>1 DEF Keeps
  <1>4. Good(m, W, D, calm, {}, T) /\ Keeps(l, m) /\ m.outbox = l.outbox /\ Len(m.pendSend) = 0
    BY <1>1, <1>3, DrainSendsKeeps
  <1> HIDE DEF m
  <1>5. Keeps(n, m)
    BY <1>1, <1>4, KeepsThrough
  <1> QED
    BY <1>1, <1>2, <1>4, <1>5 DEF Takes

-----------------------------------------------------------------------------
(* The whole system: N and F are the nodes and the prekey exchanges, M the *)
(* messages in flight.                                                     *)
Idle(n) == n.out = {} /\ n.drops = {} /\ ~n.asks
Pairs(n, f, o) ==
    /\ f.stage \in {"none", "asked", "answered"} /\ f.otpk \in 0 .. OtpkCount
    /\ (n.inflight <=> f.stage # "none")
    /\ (n.otpk # 0 => o.pool[n.otpk] # "fresh") /\ (f.otpk # 0 => o.pool[f.otpk] # "fresh")
QueuesFit(n, t) == Len(n.outbox) + Len(n.pendSend) <= t
OverParties(f) == f = [p \in Parties |-> f[p]]
Whole(N, F, M, W, D, calm, T) ==
    /\ OverParties(N) /\ OverParties(F) /\ OverParties(T)
    /\ World(W, D, calm, T) /\ M \subseteq W
    /\ \A p \in Parties :
        /\ NodeOK(N[p], W, D, calm, {}, T) /\ N[p].id = p /\ Idle(N[p])
        /\ Pairs(N[p], F[p], N[Other(p)]) /\ QueuesFit(N[p], T[p])

Put(f, p, x) == [f EXCEPT ![p] = x]

LEMMA Update ==
    ASSUME NEW f, OverParties(f), NEW p \in Parties, NEW x, NEW g, g = Put(f, p, x)
    PROVE  OverParties(g) /\ g[p] = x /\ g[Other(p)] = f[Other(p)]
  <1>1. Other(p) \in Parties /\ Other(p) # p
    BY Others
  <1> QED
    BY <1>1 DEF OverParties, Put

(* The node that did not act: new wires are of the other one.              *)
Grows(W, V, D, E, q) ==
    /\ W \subseteq V /\ D \subseteq E /\ \A w \in V : w \in W \/ w.from # q

LEMMA BystanderKept ==
    ASSUME NEW W, NEW V, NEW D, NEW E, NEW calm \in BOOLEAN, NEW T, NEW U, NEW o,
           NodeOK(o, W, D, calm, {}, T), World(V, E, calm, U), Grows(W, V, D, E, o.id),
           U[o.id] = T[o.id]
    PROVE  NodeOK(o, V, E, calm, {}, U)
  <1> DEFINE q == o.id
  <1>1. /\ W \subseteq V /\ D \subseteq E /\ \A w \in V : w.from = q => w \in W
        /\ q \in Parties
    BY DEF Grows, NodeOK
  <1>2. \A k : Wired(V, q, k) <=> Wired(W, q, k)
    BY <1>1 DEF Wired
  <1>3. \A k, r : Wired(W, r, k) => Wired(V, r, k)
    BY <1>1 DEF Wired
  <1>4. OwnBehind(o, V, E, calm)
    BY <1>1 DEF NodeOK, OwnBehind
  <1>5. StoredOnce(o, V)
    BY <1>3 DEF NodeOK, StoredOnce
  <1>6. StoredSpent(o, V)
    <2> SUFFICES ASSUME NEW w \in V, w.to = q, o.stored[w.pt] # 0 PROVE w \in W
      BY DEF NodeOK, StoredSpent
    <2>1. w.pt \in MsgIds(w.from) /\ w.to = Other(w.from) /\ w.from \in Parties
      BY TypedIds DEF World, WireOK, Wires
    <2>2. w.from = Other(q)
      BY <2>1, Others
    <2>3. PICK v \in W : v.from = Other(q) /\ v.pt = w.pt
      BY <2>1, <2>2 DEF NodeOK, StoredOnce, Wired
    <2>4. v = w
      BY <1>1, <2>2, <2>3 DEF World, OneWire
    <2> QED
      BY <2>4
  <1>7. \A k : Unplaced(o, W, k, T) => Unplaced(o, V, k, U)
    BY <1>2 DEF Unplaced
  <1>8. Waiting(o, V, {}, U)
    BY <1>7 DEF NodeOK, Waiting
  <1>9. Post(o, V, E)
    BY <1>1 DEF NodeOK, Post
  <1>10. calm => QueuedKept(o, V, {})
    BY <1>3 DEF NodeOK, QueuedKept
  <1> QED
    BY <1>4, <1>5, <1>6, <1>8, <1>9, <1>10 DEF NodeOK

(* Commit: the handler is done.                                            *)
Done(m) == [m EXCEPT !.out = {}, !.drops = {}, !.asks = FALSE]

LEMMA DoneGood ==
    ASSUME NEW W, NEW D, NEW calm \in BOOLEAN, NEW T, NEW m, Good(m, W, D, calm, {}, T)
    PROVE  LET l == Done(m) IN
           /\ NodeOK(l, AllW(m, W), AllD(m, D), calm, {}, T) /\ l.id = m.id /\ Idle(l)
           /\ l.inflight = m.inflight /\ l.otpk = m.otpk /\ l.pool = m.pool /\ l.disk = m.disk
           /\ l.outbox = m.outbox /\ l.pendSend = m.pendSend
  <1> DEFINE l == Done(m)
             X == AllW(m, W)
             E == AllD(m, D)
             p == m.id
             e == {}
  <1>1. NodeOK(m, X, E, calm, {}, T) /\ p \in Parties /\ m \in Nodes(p)
    BY DEF Good, NodeOK
  <1>2. e \in SUBSET Wires
    OBVIOUS
  <1>3. l = [m EXCEPT !.out = e, !.drops = e, !.asks = FALSE]
    BY DEF Done
  <1> HIDE DEF e, X, E, l
  <1>4. l \in Nodes(p)
    BY <1>1, <1>2, <1>3 DEF Nodes
  <1>5. /\ l.id = p /\ l.mem = m.mem /\ l.disk = m.disk /\ l.stored = m.stored /\ l.out = e /\ l.drops = e
        /\ l.otpk = m.otpk /\ l.pool = m.pool
    BY <1>1, <1>3 DEF Nodes
  <1>6. ~l.asks /\ l.inflight = m.inflight
    BY <1>1, <1>3 DEF Nodes
  <1>7. SameQueues(m, l)
    BY <1>1, <1>3 DEF Nodes, SameQueues
  <1>8. Behind(l, X, E, calm)
    BY <1>1, <1>5 DEF NodeOK, Behind, Sessions, OwnBehind, StoredOnce, StoredSpent
  <1>9. Waiting(l, X, {}, T) /\ (calm => QueuedKept(l, X, {}))
    BY <1>1, <1>5, <1>7, QueuesAlike DEF NodeOK
  <1>10. Post(l, X, E)
    BY <1>1, <1>5, <1>7 DEF NodeOK, Post, SameQueues, e
  <1>11. NodeOK(l, X, E, calm, {}, T)
    BY <1>1, <1>4, <1>5, <1>6, <1>8, <1>9, <1>10 DEF NodeOK, Behind
  <1>12. Idle(l)
    BY <1>5, <1>6 DEF Idle, e
  <1> QED
    BY <1>5, <1>6, <1>7, <1>11, <1>12 DEF l, X, E, SameQueues

(* What an event leaves.                                                   *)
Ends(N, F, M, W, D, calm, T, p, m, G, L, U) ==
    /\ Good(m, W, D, calm, {}, U) /\ m.id = p /\ OverParties(U) /\ U[Other(p)] = T[Other(p)]
    /\ \A k \in 1 .. OtpkCount : N[p].pool[k] # "fresh" => m.pool[k] # "fresh"
    /\ OverParties(G) /\ G[Other(p)] = F[Other(p)] /\ Pairs(m, G[p], N[Other(p)])
    /\ QueuesFit(m, U[p]) /\ L \subseteq AllW(m, W)

LEMMA CommitKeeps ==
    ASSUME NEW N, NEW F, NEW M, NEW W, NEW D, NEW calm \in BOOLEAN, NEW T, NEW p \in Parties,
           NEW m, NEW G, NEW L, NEW U,
           Whole(N, F, M, W, D, calm, T), Ends(N, F, M, W, D, calm, T, p, m, G, L, U)
    PROVE  Whole(Put(N, p, Done(m)), G, L, AllW(m, W), AllD(m, D), calm, U)
  <1> DEFINE q == Other(p)
             o == N[q]
             l == Done(m)
             K == Put(N, p, l)
             X == AllW(m, W)
             E == AllD(m, D)
  <1>1. q \in Parties /\ q # p /\ Other(q) = p /\ Parties = {p, q}
    BY Others DEF Parties, Other
  <1>2. /\ Good(m, W, D, calm, {}, U) /\ m.id = p /\ OverParties(U) /\ U[q] = T[q]
        /\ \A k \in 1 .. OtpkCount : N[p].pool[k] # "fresh" => m.pool[k] # "fresh"
        /\ OverParties(G) /\ G[q] = F[q] /\ Pairs(m, G[p], o)
        /\ QueuesFit(m, U[p]) /\ L \subseteq X
    BY DEF Ends
  <1>3. /\ OverParties(N) /\ NodeOK(o, W, D, calm, {}, T) /\ o.id = q /\ Idle(o)
        /\ Pairs(o, F[q], N[p]) /\ QueuesFit(o, T[q])
    BY <1>1 DEF Whole
  <1>4. /\ NodeOK(l, X, E, calm, {}, U) /\ l.id = p /\ Idle(l)
        /\ l.inflight = m.inflight /\ l.otpk = m.otpk /\ l.pool = m.pool
        /\ l.outbox = m.outbox /\ l.pendSend = m.pendSend
    BY <1>2, DoneGood
  <1>5. World(X, E, calm, U) /\ \A w \in m.out \cup m.drops : w.from = p
    BY <1>2 DEF Good, NodeOK, Post
  <1> HIDE DEF l
  <1>6. OverParties(K) /\ K[p] = l /\ K[q] = o
    BY <1>3, Update
  <1>7. Grows(W, X, D, E, q)
    BY <1>1, <1>5 DEF Grows, AllW, AllD
  <1> HIDE DEF X, E, K, o
  <1>8. NodeOK(o, X, E, calm, {}, U)
    BY <1>2, <1>3, <1>5, <1>7, BystanderKept
  <1>9. Pairs(l, G[p], o) /\ QueuesFit(l, U[p])
    <2>1. QueuesFit(l, U[p])
      BY <1>2, <1>4 DEF QueuesFit
    <2>2. Pairs(l, G[p], o)
      BY <1>2, <1>4 DEF Pairs
    <2> QED
      BY <2>1, <2>2
  <1>10. Pairs(o, G[q], l) /\ QueuesFit(o, U[q])
    <2>1. o.otpk \in 0 .. OtpkCount /\ F[q].otpk \in 0 .. OtpkCount
      BY <1>3, NodeFields DEF NodeOK, Pairs
    <2>2. \A k \in 0 .. OtpkCount : k # 0 => k \in 1 .. OtpkCount
      BY DmAssumption
    <2>3. (o.otpk # 0 => l.pool[o.otpk] # "fresh") /\ (F[q].otpk # 0 => l.pool[F[q].otpk] # "fresh")
      BY <1>2, <1>3, <1>4, <2>1, <2>2 DEF Pairs
    <2> QED
      BY <1>2, <1>3, <2>3 DEF Pairs, QueuesFit
  <1>11. \A r \in Parties :
            /\ NodeOK(K[r], X, E, calm, {}, U) /\ K[r].id = r /\ Idle(K[r])
            /\ Pairs(K[r], G[r], K[Other(r)]) /\ QueuesFit(K[r], U[r])
    BY <1>1, <1>3, <1>4, <1>6, <1>8, <1>9, <1>10
  <1> QED
    BY <1>2, <1>5, <1>6, <1>11 DEF Whole, K, X, E, l

LEMMA IdleGood ==
    ASSUME NEW N, NEW F, NEW M, NEW W, NEW D, NEW calm \in BOOLEAN, NEW T, NEW p \in Parties,
           Whole(N, F, M, W, D, calm, T)
    PROVE  /\ Good(N[p], W, D, calm, {}, T) /\ AllW(N[p], W) = W /\ AllD(N[p], D) = D
           /\ N[p].id = p /\ N[p] \in Nodes(p) /\ T[p] \in Nat /\ Idle(N[p])
           /\ Pairs(N[p], F[p], N[Other(p)]) /\ QueuesFit(N[p], T[p])
           /\ Len(N[p].outbox) \in Nat /\ Len(N[p].pendSend) \in Nat
  <1> DEFINE n == N[p]
  <1>1. /\ NodeOK(n, W, D, calm, {}, T) /\ n.id = p /\ Idle(n) /\ World(W, D, calm, T)
        /\ Pairs(n, F[p], N[Other(p)]) /\ QueuesFit(n, T[p])
    BY DEF Whole
  <1>2. n \in Nodes(p)
    BY <1>1 DEF NodeOK
  <1> HIDE DEF n
  <1>3. AllW(n, W) = W /\ AllD(n, D) = D
    BY <1>1 DEF Idle, AllW, AllD
  <1>4. Good(n, W, D, calm, {}, T)
    BY <1>1, <1>3 DEF Good
  <1>5. T[p] \in Nat /\ Len(n.outbox) \in Nat /\ Len(n.pendSend) \in Nat
    BY <1>1, <1>2, TypedIds, NodeFields
  <1> QED
    BY <1>1, <1>2, <1>3, <1>4, <1>5 DEF n

(* A message is typed.                                                     *)
OneTyped(T, U, p) == OverParties(U) /\ U[p] = T[p] + 1 /\ U[Other(p)] = T[Other(p)]

LEMMA TypeOne ==
    ASSUME NEW N, NEW F, NEW M, NEW W, NEW D, NEW calm \in BOOLEAN, NEW T, NEW p \in Parties, NEW U,
           Whole(N, F, M, W, D, calm, T), T[p] < Quota[p], OneTyped(T, U, p)
    PROVE  Good(N[p], W, D, calm, {} \cup {T[p] + 1}, U) /\ U[p] \in Nat
  <1> DEFINE q == Other(p)
             n == N[p]
             k == T[p] + 1
  <1>1. /\ Good(n, W, D, calm, {}, T) /\ AllW(n, W) = W /\ AllD(n, D) = D
        /\ n.id = p /\ T[p] \in Nat
    BY IdleGood
  <1>2. World(W, D, calm, T) /\ OverParties(T) /\ NodeOK(n, W, D, calm, {}, T)
    BY DEF Whole
  <1>3. q \in Parties /\ q # p /\ Parties = {p, q}
    BY Others DEF Parties, Other
  <1>4. OverParties(U) /\ U[p] = k /\ U[q] = T[q]
    BY DEF OneTyped
  <1>5. k \in Nat /\ k \in 0 .. Quota[p] /\ T[q] \in 0 .. Quota[q] /\ T[q] \in Nat
    <2>1. Quota[p] \in Nat
      <3>1. Quota[p] = IF p = "A" THEN MsgsA ELSE MsgsB
        BY DEF Quota, Parties
      <3> QED
        BY <3>1, DmAssumption
    <2>2. T[q] \in 0 .. Quota[q] /\ T[q] \in Nat
      BY <1>2, <1>3, TypedIds DEF World, Typed
    <2> QED
      BY <1>1, <2>1, <2>2
  <1>6. \A r \in Parties : \A j : j \in 1 .. T[r] => j \in 1 .. U[r]
    BY <1>1, <1>3, <1>4, <1>5
  <1>7. World(W, D, calm, U)
    <2>1. Typed(U)
      BY <1>3, <1>4, <1>5 DEF Typed
    <2>2. ASSUME NEW w \in W PROVE WireOK(w, U)
      <3>1. WireOK(w, T) /\ w.from \in Parties
        BY <1>2 DEF World, WireOK, Wires
      <3>2. w.pt \in 1 .. U[w.from]
        BY <1>6, <3>1 DEF WireOK
      <3> QED
        BY <3>1, <3>2 DEF WireOK
    <2> QED
      BY <1>2, <2>1, <2>2 DEF World
  <1>8. k \notin 1 .. T[p] /\ k \in 1 .. U[p]
    BY <1>1, <1>4
  <1>9. \A w \in W : w.from = p => w.pt \in 1 .. T[p]
    BY <1>2 DEF World, WireOK
  <1> HIDE DEF k
  <1>10. Unplaced(n, W, k, U) /\ \A j : Unplaced(n, W, j, T) => Unplaced(n, W, j, U) /\ j # k
    BY <1>1, <1>6, <1>8, <1>9 DEF Unplaced, Wired
  <1>11. Waiting(n, W, {k}, U)
    BY <1>2, <1>10 DEF NodeOK, Waiting
  <1>12. calm => QueuedKept(n, W, {k})
    BY <1>2 DEF NodeOK, QueuedKept
  <1>13. NodeOK(n, W, D, calm, {k}, U)
    BY <1>2, <1>11, <1>12 DEF NodeOK
  <1>14. {} \cup {k} = {k}
    OBVIOUS
  <1> QED
    BY <1>1, <1>4, <1>5, <1>7, <1>13, <1>14 DEF Good, k

(* Ask: a handler that has marked the exchange as in flight starts it.     *)
Asking(p, m, f) == IF m.asks THEN [f EXCEPT ![p] = [stage |-> "asked", otpk |-> 0]] ELSE f

LEMMA AskPairs ==
    ASSUME NEW F, NEW G, NEW p \in Parties, NEW n, NEW m, NEW o, OverParties(F), Pairs(n, F[p], o),
           Keeps(n, m), ~n.asks, G = Asking(p, m, F)
    PROVE  OverParties(G) /\ G[Other(p)] = F[Other(p)] /\ Pairs(m, G[p], o)
  <1> DEFINE x == [stage |-> "asked", otpk |-> 0]
  <1>1. /\ m.otpk = 0 \/ m.otpk = n.otpk
        /\ m.otpk # 0 => o.pool[m.otpk] # "fresh"
    BY DEF Keeps, Pairs
  <1>2. CASE m.asks
    <2>0. G = Put(F, p, x)
      BY <1>2 DEF Asking, Put
    <2> HIDE DEF x
    <2>1. OverParties(G) /\ G[p] = x /\ G[Other(p)] = F[Other(p)]
      BY <2>0, Update
    <2>2. m.inflight
      BY <1>2 DEF Keeps
    <2>3. x.stage = "asked" /\ x.otpk = 0 /\ 0 \in 0 .. OtpkCount
      BY DmAssumption DEF x
    <2>4. Pairs(m, x, o)
      BY <1>1, <2>2, <2>3 DEF Pairs
    <2> QED
      BY <2>1, <2>4
  <1>3. CASE ~m.asks
    <2>1. G = F
      BY <1>3 DEF Asking
    <2>2. m.inflight <=> n.inflight
      BY <1>3, Zenon DEF Keeps
    <2>3. Pairs(m, F[p], o)
      BY <1>1, <2>2 DEF Pairs
    <2> QED
      BY <2>1, <2>3
  <1> QED
    BY <1>2, <1>3

-----------------------------------------------------------------------------
Calm == restarts = 0
Everything == Whole(node, fetch, dms, wires, dht, Calm, typed)
DisksKept == \A p \in Parties : DiskKept(node[p], node'[p])

LEMMA CalmIs == Calm \in BOOLEAN
  BY DEF Calm

LEMMA CommitStep ==
    ASSUME NEW p \in Parties, NEW m, NEW inFlight, Everything, Commit(p, m, inFlight), UNCHANGED restarts,
           Ends(node, fetch, dms, wires, dht, Calm, typed, p, m, fetch', dms', typed'), DiskKept(node[p], m)
    PROVE  Everything' /\ DisksKept
  <1> DEFINE K == Put(node, p, Done(m))
             c == Calm
  <1>1. node' = K /\ dht' = AllD(m, dht) /\ wires' = AllW(m, wires)
    BY DEF Commit, Done, AllD, AllW, Put
  <1>2. Calm' = Calm /\ c \in BOOLEAN
    BY DEF Calm
  <1>3. /\ Whole(node, fetch, dms, wires, dht, c, typed)
        /\ Ends(node, fetch, dms, wires, dht, c, typed, p, m, fetch', dms', typed')
    BY DEF Everything
  <1> HIDE DEF c
  <1>4. Whole(K, fetch', dms', AllW(m, wires), AllD(m, dht), c, typed')
    BY <1>2, <1>3, CommitKeeps
  <1>5. OverParties(node) /\ Done(m).disk = m.disk
    <2>1. Good(m, wires, dht, c, {}, typed')
      BY <1>3 DEF Ends
    <2> QED
      BY <1>2, <1>3, <2>1, DoneGood DEF Whole
  <1>6. K[p] = Done(m) /\ K[Other(p)] = node[Other(p)]
    BY <1>5, Update
  <1> HIDE DEF K
  <1>7. Everything'
    BY <1>1, <1>2, <1>4 DEF Everything, c
  <1>8. ASSUME NEW q \in Parties PROVE DiskKept(node[q], node'[q])
    <2>1. CASE q = p
      BY <1>1, <1>5, <1>6, <2>1 DEF DiskKept
    <2>2. CASE q = Other(p)
      BY <1>1, <1>6, <2>2 DEF DiskKept
    <2> QED
      BY <2>1, <2>2 DEF Parties, Other
  <1> QED
    BY <1>7, <1>8 DEF DisksKept

LEMMA FitsMore ==
    \A a, b, c, d, t \in Nat : c + d <= a + b + 1 /\ a + b <= t => c + d <= t + 1
  OBVIOUS

LEMMA FitsLess ==
    \A a, b, d, t \in Nat : a + b <= t => (d <= b + a => 0 + d <= t) /\ a + 0 <= t
  OBVIOUS

LEMMA SendStep ==
    ASSUME NEW p \in Parties, Everything, SendMessage(p)
    PROVE  Everything' /\ DisksKept
  <1> DEFINE n == node[p]
             k == typed[p] + 1
             m == TrySendOrQueue(n, k)
             c == Calm
             X == AllW(m, wires)
  <1>1. /\ typed[p] < Quota[p] /\ typed' = [typed EXCEPT ![p] = typed[p] + 1]
        /\ Commit(p, m, dms) /\ fetch' = Asking(p, m, fetch) /\ UNCHANGED restarts
    BY DEF SendMessage, Ask, Asking
  <1>2. Whole(node, fetch, dms, wires, dht, c, typed) /\ c \in BOOLEAN
    BY CalmIs DEF Everything
  <1>d. dms' = dms \cup m.out /\ dms \subseteq wires
    BY <1>1, <1>2 DEF Commit, Whole
  <1> HIDE DEF c, m
  <1>t. OneTyped(typed, typed', p)
    <2> DEFINE x == typed[p] + 1
    <2>1. typed' = Put(typed, p, x) /\ OverParties(typed)
      BY <1>1, <1>2 DEF Whole, Put
    <2> HIDE DEF x
    <2>2. OverParties(typed') /\ typed'[p] = x /\ typed'[Other(p)] = typed[Other(p)]
      BY <2>1, Update
    <2> QED
      BY <2>2 DEF OneTyped, x
  <1>3. /\ Good(n, wires, dht, c, {} \cup {k}, typed')
        /\ OverParties(typed') /\ typed'[p] = k /\ typed'[Other(p)] = typed[Other(p)] /\ typed'[p] \in Nat
    <2>0. typed[p] < Quota[p]
      BY <1>1
    <2>1. Good(n, wires, dht, c, {} \cup {k}, typed') /\ typed'[p] \in Nat
      BY <1>2, <1>t, <2>0, TypeOne, Zenon
    <2> QED
      BY <1>t, <2>1 DEF OneTyped
  <1>f. OverParties(fetch)
    BY <1>2 DEF Whole
  <1>4. /\ n.id = p /\ Idle(n) /\ Pairs(n, fetch[p], node[Other(p)]) /\ QueuesFit(n, typed[p]) /\ typed[p] \in Nat
        /\ Len(n.outbox) \in Nat /\ Len(n.pendSend) \in Nat
    BY <1>2, IdleGood
  <1> HIDE DEF n, k
  <1>5. Good(m, wires, dht, c, {}, typed') /\ Keeps(n, m) /\ Adds(n, m)
    <2>1. k \notin {} /\ typed'[n.id] \in Nat
      BY <1>3, <1>4
    <2> QED
      BY <1>2, <1>3, <2>1, TrySendKeeps, Zenon DEF m
  <1>6. OverParties(fetch') /\ fetch'[Other(p)] = fetch[Other(p)] /\ Pairs(m, fetch'[p], node[Other(p)])
    <2>1. ~n.asks
      BY <1>4 DEF Idle
    <2> QED
      BY <1>1, <1>f, <1>4, <1>5, <2>1, AskPairs
  <1>7. QueuesFit(m, typed'[p])
    <2>1. Len(m.outbox) \in Nat /\ Len(m.pendSend) \in Nat
      BY <1>5, NodeFields DEF Good, NodeOK
    <2>2. /\ Len(m.outbox) + Len(m.pendSend) <= Len(n.outbox) + Len(n.pendSend) + 1
          /\ Len(n.outbox) + Len(n.pendSend) <= typed[p]
      BY <1>4, <1>5 DEF Adds, QueuesFit
    <2>3. Len(m.outbox) + Len(m.pendSend) <= typed[p] + 1
      BY <1>4, <2>1, <2>2, FitsMore
    <2> QED
      BY <1>3, <2>3 DEF QueuesFit, k
  <1>8. m.id = p /\ DiskKept(n, m) /\ \A j \in 1 .. OtpkCount : n.pool[j] # "fresh" => m.pool[j] # "fresh"
    BY <1>4, <1>5 DEF Keeps, DiskKept
  <1>9. dms' \subseteq X
    BY <1>d DEF AllW
  <1>10. Ends(node, fetch, dms, wires, dht, c, typed, p, m, fetch', dms', typed')
    BY <1>3, <1>5, <1>6, <1>7, <1>8, <1>9 DEF Ends, n
  <1> QED
    BY <1>1, <1>8, <1>10, CommitStep DEF c, n

(* A handler that only moves marks: connected, cached, in flight.          *)
Reflag(n, m) ==
    /\ m \in Nodes(n.id) /\ m.id = n.id /\ m.mem = n.mem /\ m.disk = n.disk /\ m.stored = n.stored
    /\ m.out = n.out /\ m.drops = n.drops /\ SameQueues(n, m) /\ (m.asks => m.inflight)

LEMMA ReflagGood ==
    ASSUME NEW W, NEW D, NEW calm \in BOOLEAN, NEW T, NEW n, NEW m, Good(n, W, D, calm, {}, T), Reflag(n, m)
    PROVE  Good(m, W, D, calm, {}, T)
  <1> DEFINE X == AllW(n, W)
             E == AllD(n, D)
  <1>1. World(X, E, calm, T) /\ NodeOK(n, X, E, calm, {}, T)
    BY DEF Good
  <1>2. /\ AllW(m, W) = X /\ AllD(m, D) = E
    BY DEF Reflag, AllW, AllD
  <1>3. /\ m \in Nodes(n.id) /\ m.id = n.id /\ m.mem = n.mem /\ m.disk = n.disk /\ m.stored = n.stored
        /\ m.out = n.out /\ m.drops = n.drops /\ SameQueues(n, m)
    BY DEF Reflag
  <1>4. m.asks => m.inflight
    BY DEF Reflag
  <1> HIDE DEF X, E
  <1>5. Behind(m, X, E, calm)
    BY <1>1, <1>3 DEF NodeOK, Behind, Sessions, OwnBehind, StoredOnce, StoredSpent
  <1>6. Waiting(m, X, {}, T) /\ Post(m, X, E) /\ (calm => QueuedKept(m, X, {}))
    BY <1>1, <1>3, QueuesAlike DEF NodeOK
  <1> QED
    BY <1>1, <1>2, <1>3, <1>4, <1>5, <1>6 DEF Good, NodeOK, Behind

(* The parts of Ends that every handler shares.                            *)
Here(p, n) ==
    /\ Whole(node, fetch, dms, wires, dht, Calm, typed) /\ OverParties(fetch) /\ OverParties(typed)
    /\ Good(n, wires, dht, Calm, {}, typed) /\ AllW(n, wires) = wires /\ AllD(n, dht) = dht
    /\ n.id = p /\ n \in Nodes(p) /\ typed[p] \in Nat /\ Idle(n)
    /\ Pairs(n, fetch[p], node[Other(p)]) /\ QueuesFit(n, typed[p])
    /\ Len(n.outbox) \in Nat /\ Len(n.pendSend) \in Nat

LEMMA HereIs ==
    ASSUME NEW p \in Parties, Everything
    PROVE  Here(p, node[p]) /\ Calm \in BOOLEAN /\ dms \subseteq wires
  <1> DEFINE n == node[p]
             c == Calm
  <1>1. Whole(node, fetch, dms, wires, dht, c, typed) /\ c \in BOOLEAN
    BY CalmIs DEF Everything
  <1>2. OverParties(fetch) /\ OverParties(typed) /\ dms \subseteq wires
    BY <1>1 DEF Whole
  <1> HIDE DEF c
  <1>3. /\ Good(n, wires, dht, c, {}, typed) /\ AllW(n, wires) = wires /\ AllD(n, dht) = dht
        /\ n.id = p /\ n \in Nodes(p) /\ typed[p] \in Nat /\ Idle(n)
        /\ Pairs(n, fetch[p], node[Other(p)]) /\ QueuesFit(n, typed[p])
        /\ Len(n.outbox) \in Nat /\ Len(n.pendSend) \in Nat
    BY <1>1, IdleGood
  <1> HIDE DEF n
  <1>4. Here(p, n)
    BY <1>1, <1>2, <1>3 DEF Here, c
  <1> QED
    BY <1>1, <1>2, <1>4 DEF n, c

LEMMA PeerConnectedStep ==
    ASSUME NEW p \in Parties, Everything, PeerConnected(p)
    PROVE  Everything' /\ DisksKept
  <1> DEFINE n == node[p]
             c == Calm
             l == [n EXCEPT !.conn = TRUE]
             m == DrainOutbox(l)
             o == node[Other(p)]
  <1>1. /\ Commit(p, m, dms) /\ fetch' = Asking(p, m, fetch) /\ UNCHANGED restarts /\ typed' = typed
    BY DEF PeerConnected, Ask, Asking
  <1>2. Here(p, n) /\ c \in BOOLEAN /\ dms \subseteq wires
    BY HereIs
  <1>3. n \in Nodes(p) /\ n.id = p
    BY <1>2 DEF Here
  <1>d. dms' = dms \cup m.out
    BY <1>1 DEF Commit
  <1> HIDE DEF n, m
  <1>4. l \in Nodes(p)
    BY <1>3 DEF Nodes
  <1>5. /\ l.id = n.id /\ l.mem = n.mem /\ l.disk = n.disk /\ l.stored = n.stored /\ l.otpk = n.otpk
        /\ l.pool = n.pool /\ l.out = n.out /\ l.drops = n.drops
    BY <1>3 DEF Nodes
  <1>6. l.asks = n.asks /\ l.inflight = n.inflight /\ l.conn
    BY <1>3 DEF Nodes
  <1>7. SameQueues(n, l)
    BY <1>3 DEF Nodes, SameQueues
  <1> HIDE DEF l, c
  <1>8. /\ Good(n, wires, dht, c, {}, typed) /\ ~n.asks /\ Pairs(n, fetch[p], o) /\ QueuesFit(n, typed[p])
        /\ OverParties(fetch) /\ OverParties(typed) /\ typed[p] \in Nat
        /\ Len(n.outbox) \in Nat /\ Len(n.pendSend) \in Nat
    BY <1>2 DEF Here, Idle, c
  <1>9. Reflag(n, l)
    BY <1>3, <1>4, <1>5, <1>6, <1>7, <1>8 DEF Reflag
  <1>10. Good(l, wires, dht, c, {}, typed)
    BY <1>2, <1>8, <1>9, ReflagGood
  <1>11. Drained(l, m, Len(l.outbox), wires, dht, c, typed)
    <2>1. typed[l.id] \in Nat
      BY <1>3, <1>5, <1>8
    <2> QED
      BY <1>2, <1>6, <1>10, <2>1, DrainKeeps DEF m
  <1>12. /\ Good(m, wires, dht, c, {}, typed) /\ Keeps(l, m)
         /\ Len(m.outbox) = Len(n.outbox) - Len(n.outbox) /\ Len(m.pendSend) <= Len(n.pendSend) + Len(n.outbox)
    BY <1>7, <1>11 DEF Drained, SameQueues
  <1>13. OverParties(fetch') /\ fetch'[Other(p)] = fetch[Other(p)] /\ Pairs(m, fetch'[p], o)
    <2>1. Pairs(l, fetch[p], o)
      BY <1>5, <1>6, <1>8 DEF Pairs
    <2>2. ~l.asks
      BY <1>6, <1>8
    <2> HIDE DEF o
    <2> QED
      BY <1>1, <1>8, <1>12, <2>1, <2>2, AskPairs
  <1>14. QueuesFit(m, typed[p])
    <2>1. Len(m.pendSend) \in Nat
      BY <1>12, NodeFields DEF Good, NodeOK
    <2>2. Len(m.outbox) = 0
      BY <1>8, <1>12
    <2>3. Len(n.outbox) + Len(n.pendSend) <= typed[p]
      BY <1>8 DEF QueuesFit
    <2>4. /\ Len(n.outbox) \in Nat /\ Len(n.pendSend) \in Nat /\ typed[p] \in Nat
          /\ Len(m.pendSend) <= Len(n.pendSend) + Len(n.outbox)
      BY <1>8, <1>12
    <2>5. 0 + Len(m.pendSend) <= typed[p]
      BY <2>1, <2>3, <2>4, FitsLess
    <2> QED
      BY <2>2, <2>5 DEF QueuesFit
  <1>15. m.id = p /\ DiskKept(n, m) /\ \A j \in 1 .. OtpkCount : n.pool[j] # "fresh" => m.pool[j] # "fresh"
    BY <1>3, <1>5, <1>12 DEF Keeps, DiskKept
  <1>16. dms' \subseteq AllW(m, wires)
    BY <1>2, <1>d DEF AllW
  <1>17. Ends(node, fetch, dms, wires, dht, c, typed, p, m, fetch', dms', typed')
    BY <1>1, <1>8, <1>12, <1>13, <1>14, <1>15, <1>16 DEF Ends, n
  <1> QED
    BY <1>1, <1>15, <1>17, CommitStep DEF c, n

(* ReceiveDm and FetchDrop                                                 *)
LEMMA IncomingStep ==
    ASSUME NEW w \in wires, NEW inFlight \in SUBSET dms, Everything,
           Commit(w.to, ProcessIncomingDm(node[w.to], w), inFlight),
           Ask(w.to, ProcessIncomingDm(node[w.to], w)), UNCHANGED <<typed, restarts>>
    PROVE  Everything' /\ DisksKept
  <1> DEFINE p == w.to
             n == node[p]
             c == Calm
             m == ProcessIncomingDm(n, w)
             o == node[Other(p)]
  <1>0. p \in Parties
    BY Others DEF Everything, Whole, World, WireOK, Wires
  <1>1. /\ Commit(p, m, inFlight) /\ fetch' = Asking(p, m, fetch) /\ UNCHANGED restarts /\ typed' = typed
    BY DEF Ask, Asking
  <1>2. Here(p, n) /\ c \in BOOLEAN /\ dms \subseteq wires
    BY <1>0, HereIs
  <1>d. dms' = inFlight \cup m.out
    BY <1>1 DEF Commit
  <1> HIDE DEF n, m, c
  <1>8. /\ Good(n, wires, dht, c, {}, typed) /\ ~n.asks /\ Pairs(n, fetch[p], o) /\ QueuesFit(n, typed[p])
        /\ OverParties(fetch) /\ OverParties(typed) /\ AllW(n, wires) = wires /\ n.id = p
    BY <1>2 DEF Here, Idle, c
  <1>9. Incoming(n, w, AllW(n, wires))
    BY <1>8 DEF Incoming
  <1>12. Good(m, wires, dht, c, {}, typed) /\ Keeps(n, m) /\ Takes(n, m)
    BY <1>2, <1>8, <1>9, IncomingKeeps DEF m
  <1>13. OverParties(fetch') /\ fetch'[Other(p)] = fetch[Other(p)] /\ Pairs(m, fetch'[p], o)
    <2> HIDE DEF o
    <2> QED
      BY <1>0, <1>1, <1>8, <1>12, AskPairs
  <1>14. QueuesFit(m, typed[p])
    BY <1>8, <1>12 DEF QueuesFit, Takes
  <1>15. m.id = p /\ DiskKept(n, m) /\ \A j \in 1 .. OtpkCount : n.pool[j] # "fresh" => m.pool[j] # "fresh"
    BY <1>8, <1>12 DEF Keeps, DiskKept
  <1>16. dms' \subseteq AllW(m, wires)
    BY <1>2, <1>d DEF AllW
  <1>17. Ends(node, fetch, dms, wires, dht, c, typed, p, m, fetch', dms', typed')
    BY <1>1, <1>8, <1>12, <1>13, <1>14, <1>15, <1>16 DEF Ends, n
  <1> QED
    BY <1>0, <1>1, <1>15, <1>17, CommitStep DEF c, n

LEMMA ReceivePrekeyStep ==
    ASSUME NEW p \in Parties, Everything, ReceivePrekey(p)
    PROVE  Everything' /\ DisksKept
  <1> DEFINE n == node[p]
             c == Calm
             id == fetch[p].otpk
             k == IF id = 0 THEN n.otpk ELSE id
             l == [n EXCEPT !.prekey = TRUE, !.inflight = FALSE, !.otpk = k]
             m == ProcessPending(l)
             o == node[Other(p)]
  <1>1. /\ Commit(p, m, dms) /\ fetch' = Put(fetch, p, NoFetch) /\ UNCHANGED restarts /\ typed' = typed
    BY DEF ReceivePrekey, Put
  <1>2. Here(p, n) /\ c \in BOOLEAN /\ dms \subseteq wires
    BY HereIs
  <1>3. n \in Nodes(p) /\ n.id = p /\ Pairs(n, fetch[p], o)
    BY <1>2 DEF Here
  <1>k. k \in 0 .. OtpkCount /\ (k # 0 => o.pool[k] # "fresh")
    BY <1>3, NodeFields DEF Pairs
  <1>d. dms' = dms \cup m.out
    BY <1>1 DEF Commit
  <1> HIDE DEF n, m, k
  <1>4. l \in Nodes(p)
    BY <1>3, <1>k DEF Nodes
  <1>5. /\ l.id = n.id /\ l.mem = n.mem /\ l.disk = n.disk /\ l.stored = n.stored /\ l.otpk = k
        /\ l.pool = n.pool /\ l.out = n.out /\ l.drops = n.drops
    BY <1>3 DEF Nodes
  <1>6. l.asks = n.asks /\ l.prekey /\ ~l.inflight
    BY <1>3 DEF Nodes
  <1>7. SameQueues(n, l)
    BY <1>3 DEF Nodes, SameQueues
  <1> HIDE DEF l, c
  <1>8. /\ Good(n, wires, dht, c, {}, typed) /\ ~n.asks /\ QueuesFit(n, typed[p])
        /\ OverParties(fetch) /\ OverParties(typed) /\ typed[p] \in Nat
        /\ Len(n.outbox) \in Nat /\ Len(n.pendSend) \in Nat
    BY <1>2 DEF Here, Idle, c
  <1>9. Reflag(n, l)
    BY <1>3, <1>4, <1>5, <1>6, <1>7, <1>8 DEF Reflag
  <1>10. Good(l, wires, dht, c, {}, typed)
    BY <1>2, <1>8, <1>9, ReflagGood
  <1>11. Good(m, wires, dht, c, {}, typed) /\ Keeps(l, m) /\ m.outbox = l.outbox /\ Len(m.pendSend) = 0
    <2>1. typed[l.id] \in Nat
      BY <1>3, <1>5, <1>8
    <2> QED
      BY <1>2, <1>10, <2>1, PendingKeeps DEF m
  <1>13. OverParties(fetch') /\ fetch'[Other(p)] = fetch[Other(p)] /\ Pairs(m, fetch'[p], o)
    <2>1. OverParties(fetch') /\ fetch'[Other(p)] = fetch[Other(p)] /\ fetch'[p] = NoFetch
      BY <1>1, <1>8, Update
    <2>2. ~m.inflight
      BY <1>6, <1>8, <1>11, Zenon DEF Keeps
    <2>3. m.otpk # 0 => o.pool[m.otpk] # "fresh"
      BY <1>k, <1>5, <1>11 DEF Keeps
    <2>4. NoFetch.stage = "none" /\ NoFetch.otpk = 0 /\ 0 \in 0 .. OtpkCount
      BY DmAssumption DEF NoFetch
    <2>5. Pairs(m, NoFetch, o)
      BY <2>2, <2>3, <2>4 DEF Pairs
    <2> QED
      BY <2>1, <2>5
  <1>14. QueuesFit(m, typed[p])
    <2>1. m.outbox = n.outbox /\ Len(m.pendSend) = 0
      BY <1>7, <1>11 DEF SameQueues
    <2>3. Len(n.outbox) + Len(n.pendSend) <= typed[p]
      BY <1>8 DEF QueuesFit
    <2>2. Len(n.outbox) \in Nat /\ Len(n.pendSend) \in Nat /\ typed[p] \in Nat /\ 0 \in Nat
      BY <1>8
    <2>4. Len(n.outbox) + 0 <= typed[p]
      BY <2>2, <2>3, FitsLess
    <2> QED
      BY <2>1, <2>4 DEF QueuesFit
  <1>15. m.id = p /\ DiskKept(n, m) /\ \A j \in 1 .. OtpkCount : n.pool[j] # "fresh" => m.pool[j] # "fresh"
    BY <1>3, <1>5, <1>11 DEF Keeps, DiskKept
  <1>16. dms' \subseteq AllW(m, wires)
    BY <1>2, <1>d DEF AllW
  <1>17. Ends(node, fetch, dms, wires, dht, c, typed, p, m, fetch', dms', typed')
    BY <1>1, <1>8, <1>11, <1>13, <1>14, <1>15, <1>16 DEF Ends, n
  <1> QED
    BY <1>1, <1>15, <1>17, CommitStep DEF c, n

(* The events that publish nothing: the node is idle as it is.             *)
LEMMA IdleDone ==
    ASSUME NEW p \in Parties, NEW m \in Nodes(p), Idle(m)
    PROVE  Done(m) = m
  <1>1. m.out = {} /\ m.drops = {} /\ m.asks \in BOOLEAN /\ ~m.asks
    BY DEF Idle, Nodes
  <1>2. m.asks = FALSE
    BY <1>1
  <1> QED
    BY <1>1, <1>2 DEF Done, Nodes

LEMMA PutKeeps ==
    ASSUME NEW N, NEW F, NEW M, NEW W, NEW D, NEW calm \in BOOLEAN, NEW T, NEW p \in Parties,
           NEW m \in Nodes(p), NEW G, NEW L, NEW U, Idle(m),
           Whole(N, F, M, W, D, calm, T), Ends(N, F, M, W, D, calm, T, p, m, G, L, U)
    PROVE  Whole(Put(N, p, m), G, L, W, D, calm, U)
  <1>1. Done(m) = m
    BY IdleDone
  <1>2. AllW(m, W) = W /\ AllD(m, D) = D
    BY DEF Idle, AllW, AllD
  <1>3. Whole(Put(N, p, Done(m)), G, L, AllW(m, W), AllD(m, D), calm, U)
    BY CommitKeeps
  <1> QED
    BY <1>1, <1>2, <1>3

(* A mark or the pool changes, and nothing else that the invariant reads.  *)
Marks(n, m) ==
    Reflag(n, m) /\ Idle(m) /\ \A k \in 1 .. OtpkCount : n.pool[k] # "fresh" => m.pool[k] # "fresh"

LEMMA MarksKeep ==
    ASSUME NEW N, NEW F, NEW M, NEW W, NEW D, NEW calm \in BOOLEAN, NEW T, NEW p \in Parties, NEW m, NEW G,
           Whole(N, F, M, W, D, calm, T), Marks(N[p], m),
           OverParties(G), G[Other(p)] = F[Other(p)], Pairs(m, G[p], N[Other(p)])
    PROVE  Whole(Put(N, p, m), G, M, W, D, calm, T)
  <1> DEFINE n == N[p]
             o == N[Other(p)]
  <1>1. Good(n, W, D, calm, {}, T) /\ n.id = p /\ QueuesFit(n, T[p])
    BY IdleGood
  <1>2. OverParties(T) /\ M \subseteq W /\ Marks(n, m) /\ Pairs(m, G[p], o)
    BY DEF Whole
  <1>0. \A k \in 1 .. OtpkCount : n.pool[k] # "fresh" => m.pool[k] # "fresh"
    BY <1>2 DEF Marks
  <1> HIDE DEF n, o
  <1>3. Good(m, W, D, calm, {}, T)
    BY <1>1, <1>2, ReflagGood DEF Marks
  <1>4. m \in Nodes(p) /\ m.id = p /\ m.outbox = n.outbox /\ m.pendSend = n.pendSend /\ Idle(m)
    BY <1>1, <1>2 DEF Marks, Reflag, SameQueues
  <1>5. QueuesFit(m, T[p])
    BY <1>1, <1>4 DEF QueuesFit
  <1>6. M \subseteq AllW(m, W)
    BY <1>2 DEF AllW
  <1>7. Ends(N, F, M, W, D, calm, T, p, m, G, M, T)
    BY <1>0, <1>2, <1>3, <1>4, <1>5, <1>6 DEF Ends, n, o
  <1> QED
    BY <1>4, <1>7, PutKeeps

LEMMA MarksStep ==
    ASSUME NEW p \in Parties, NEW m, Everything, Marks(node[p], m), node' = Put(node, p, m),
           OverParties(fetch'), fetch'[Other(p)] = fetch[Other(p)], Pairs(m, fetch'[p], node[Other(p)]),
           UNCHANGED <<dms, dht, typed, wires, restarts>>
    PROVE  Everything' /\ DisksKept
  <1> DEFINE c == Calm
             K == Put(node, p, m)
  <1>1. Whole(node, fetch, dms, wires, dht, c, typed) /\ c \in BOOLEAN /\ Calm' = c
    BY CalmIs DEF Everything, Calm
  <1>2. m.disk = node[p].disk
    BY DEF Marks, Reflag
  <1> HIDE DEF c
  <1>3. Whole(K, fetch', dms, wires, dht, c, typed)
    BY <1>1, MarksKeep
  <1>4. OverParties(node)
    BY <1>1 DEF Whole
  <1>5. K[p] = m /\ K[Other(p)] = node[Other(p)] /\ node' = K
    BY <1>4, Update
  <1> HIDE DEF K
  <1>6. Everything'
    BY <1>1, <1>3, <1>5 DEF Everything
  <1>7. ASSUME NEW q \in Parties PROVE DiskKept(node[q], node'[q])
    <2>1. CASE q = p
      BY <1>2, <1>5, <2>1 DEF DiskKept
    <2>2. CASE q = Other(p)
      BY <1>5, <2>2 DEF DiskKept
    <2> QED
      BY <2>1, <2>2 DEF Parties, Other
  <1> QED
    BY <1>6, <1>7 DEF DisksKept

LEMMA PeerDisconnectedStep ==
    ASSUME NEW p \in Parties, Everything, PeerDisconnected(p)
    PROVE  Everything' /\ DisksKept
  <1> DEFINE n == node[p]
             l == [n EXCEPT !.conn = FALSE]
             o == node[Other(p)]
  <1>1. node' = Put(node, p, l) /\ UNCHANGED <<dms, fetch, dht, typed, wires, restarts>>
    BY DEF PeerDisconnected, Put
  <1>2. Here(p, n)
    BY HereIs
  <1>3. n \in Nodes(p) /\ n.id = p /\ Pairs(n, fetch[p], o) /\ OverParties(fetch) /\ Idle(n)
    BY <1>2 DEF Here
  <1> HIDE DEF n, o
  <1>4. l \in Nodes(p)
    BY <1>3 DEF Nodes
  <1>5. /\ l.id = n.id /\ l.mem = n.mem /\ l.disk = n.disk /\ l.stored = n.stored /\ l.otpk = n.otpk
        /\ l.pool = n.pool /\ l.out = n.out /\ l.drops = n.drops
    BY <1>3 DEF Nodes
  <1>6. l.asks = n.asks /\ l.inflight = n.inflight
    BY <1>3 DEF Nodes
  <1>7. SameQueues(n, l)
    BY <1>3 DEF Nodes, SameQueues
  <1> HIDE DEF l
  <1>8. Marks(n, l)
    BY <1>3, <1>4, <1>5, <1>6, <1>7 DEF Reflag, Idle, Marks
  <1>9. Pairs(l, fetch[p], o)
    BY <1>3, <1>5, <1>6 DEF Pairs
  <1> QED
    BY <1>1, <1>3, <1>8, <1>9, MarksStep DEF n, o

LEMMA PrekeyFailsStep ==
    ASSUME NEW p \in Parties, Everything, PrekeyFails(p)
    PROVE  Everything' /\ DisksKept
  <1> DEFINE n == node[p]
             l == [n EXCEPT !.inflight = FALSE]
             o == node[Other(p)]
  <1>1. /\ node' = Put(node, p, l) /\ fetch' = Put(fetch, p, NoFetch)
        /\ UNCHANGED <<dms, dht, typed, wires, restarts>>
    BY DEF PrekeyFails, Put
  <1>2. Here(p, n)
    BY HereIs
  <1>3. n \in Nodes(p) /\ n.id = p /\ Pairs(n, fetch[p], o) /\ OverParties(fetch) /\ Idle(n)
    BY <1>2 DEF Here
  <1> HIDE DEF n, o
  <1>4. l \in Nodes(p)
    BY <1>3 DEF Nodes
  <1>5. /\ l.id = n.id /\ l.mem = n.mem /\ l.disk = n.disk /\ l.stored = n.stored /\ l.otpk = n.otpk
        /\ l.pool = n.pool /\ l.out = n.out /\ l.drops = n.drops
    BY <1>3 DEF Nodes
  <1>6. l.asks = n.asks /\ ~l.inflight
    BY <1>3 DEF Nodes
  <1>7. SameQueues(n, l)
    BY <1>3 DEF Nodes, SameQueues
  <1> HIDE DEF l
  <1>8. Marks(n, l)
    BY <1>3, <1>4, <1>5, <1>6, <1>7 DEF Reflag, Idle, Marks
  <1>9. OverParties(fetch') /\ fetch'[Other(p)] = fetch[Other(p)] /\ fetch'[p] = NoFetch
    BY <1>1, <1>3, Update
  <1>10. Pairs(l, fetch'[p], o)
    <2>1. NoFetch.stage = "none" /\ NoFetch.otpk = 0 /\ 0 \in 0 .. OtpkCount
      BY DmAssumption DEF NoFetch
    <2> QED
      BY <1>3, <1>5, <1>6, <1>9, <2>1 DEF Pairs
  <1> QED
    BY <1>1, <1>8, <1>9, <1>10, MarksStep DEF n, o

LEMMA FetchKeeps ==
    ASSUME NEW N, NEW F, NEW M, NEW W, NEW D, NEW calm \in BOOLEAN, NEW T, NEW p \in Parties, NEW G,
           Whole(N, F, M, W, D, calm, T),
           OverParties(G), G[Other(p)] = F[Other(p)], Pairs(N[p], G[p], N[Other(p)])
    PROVE  Whole(N, G, M, W, D, calm, T)
  <1>1. \A r \in Parties : r = p \/ r = Other(p)
    BY DEF Parties, Other
  <1>2. ASSUME NEW r \in Parties PROVE Pairs(N[r], G[r], N[Other(r)])
    <2>1. Pairs(N[r], F[r], N[Other(r)])
      BY DEF Whole
    <2>2. CASE r = p
      BY <2>2
    <2>3. CASE r = Other(p)
      BY <2>1, <2>3
    <2> QED
      BY <1>1, <2>2, <2>3
  <1> QED
    BY <1>2 DEF Whole

(* The node that answers marks the key it hands out.                       *)
LEMMA ServesKept ==
    ASSUME NEW q \in Parties, NEW n \in Nodes(q), NEW id \in 1 .. OtpkCount, NEW l, Idle(n),
           l = [n EXCEPT !.pool[id] = "served"]
    PROVE  /\ Marks(n, l) /\ l.pool[id] # "fresh" /\ l.otpk = n.otpk
           /\ l.inflight = n.inflight
  <1> DEFINE z == [n.pool EXCEPT ![id] = "served"]
  <1>1. n.pool \in [1 .. OtpkCount -> {"fresh", "served", "consumed"}] /\ n.id = q
    BY NodeFields
  <1>2. /\ z \in [1 .. OtpkCount -> {"fresh", "served", "consumed"}] /\ z[id] = "served"
        /\ \A k \in 1 .. OtpkCount : n.pool[k] # "fresh" => z[k] # "fresh"
    BY <1>1
  <1>3. l = [n EXCEPT !.pool = z]
    BY DEF Nodes
  <1> HIDE DEF z
  <1>4. l \in Nodes(q)
    BY <1>2, <1>3 DEF Nodes
  <1>5. /\ l.id = n.id /\ l.mem = n.mem /\ l.disk = n.disk /\ l.stored = n.stored /\ l.otpk = n.otpk
        /\ l.pool = z /\ l.out = n.out /\ l.drops = n.drops
    BY <1>3 DEF Nodes
  <1>6. l.asks = n.asks /\ l.inflight = n.inflight
    BY <1>3 DEF Nodes
  <1>7. SameQueues(n, l)
    BY <1>3 DEF Nodes, SameQueues
  <1>8. Marks(n, l)
    BY <1>1, <1>2, <1>4, <1>5, <1>6, <1>7 DEF Reflag, Idle, Marks
  <1> QED
    BY <1>2, <1>5, <1>6, <1>8

LEMMA AnswerPrekeyStep ==
    ASSUME NEW p \in Parties, NEW attach \in BOOLEAN, Everything, AnswerPrekey(p, attach)
    PROVE  Everything' /\ DisksKept
  <1> DEFINE q == Other(p)
             n == node[p]
             o == node[q]
             c == Calm
             pool == FreshOtpks(o)
             id == CHOOSE k \in pool : \A j \in pool : k <= j
             l == [o EXCEPT !.pool[id] = "served"]
             K == Put(node, q, l)
             x == [stage |-> "answered", otpk |-> id]
             y == [stage |-> "answered", otpk |-> 0]
  <1>q. q \in Parties /\ Other(q) = p
    BY Others
  <1>1. /\ fetch[p].stage = "asked" /\ UNCHANGED <<dms, dht, typed, wires, restarts>>
        /\ \/ pool # {} /\ node' = K /\ fetch' = Put(fetch, p, x)
           \/ node' = node /\ fetch' = Put(fetch, p, y)
    BY DEF AnswerPrekey, Put
  <1>2. Here(p, n) /\ Here(q, o) /\ c \in BOOLEAN
    BY <1>q, HereIs
  <1>3. /\ Whole(node, fetch, dms, wires, dht, c, typed) /\ OverParties(fetch) /\ OverParties(node)
        /\ Calm' = c
    BY <1>1 DEF Everything, Calm, Whole
  <1>4. n \in Nodes(p) /\ Pairs(n, fetch[p], o) /\ o \in Nodes(q) /\ Idle(o) /\ Pairs(o, fetch[q], n)
    BY <1>q, <1>2 DEF Here
  <1> HIDE DEF c
  <1>5. CASE pool # {} /\ node' = K /\ fetch' = Put(fetch, p, x)
    <2>1. id \in 1 .. OtpkCount
      <3>0. o.pool \in [1 .. OtpkCount -> {"fresh", "served", "consumed"}]
        BY <1>q, <1>4, NodeFields
      <3>1. pool \in SUBSET (1 .. OtpkCount)
        BY <3>0 DEF FreshOtpks
      <3> HIDE DEF pool
      <3>2. pool \in SUBSET Nat
        BY <3>1, DmAssumption
      <3>3. id \in pool
        BY <1>5, <3>2, Smallest
      <3> QED
        BY <3>1, <3>3
    <2> HIDE DEF id
    <2>2. Marks(o, l) /\ l.pool[id] # "fresh" /\ l.otpk = o.otpk /\ l.inflight = o.inflight
      BY <1>q, <1>4, <2>1, ServesKept
    <2>3. x.stage = "answered" /\ x.otpk = id /\ id \in 0 .. OtpkCount
      BY <2>1, DmAssumption
    <2> HIDE DEF l, x
    <2>4. Pairs(l, fetch[q], n)
      BY <1>4, <2>2 DEF Pairs
    <2>5. Whole(K, fetch, dms, wires, dht, c, typed)
      BY <1>q, <1>2, <1>3, <2>2, <2>4, MarksKeep
    <2>6. K[q] = l /\ K[p] = n
      BY <1>q, <1>3, Update
    <2>7. OverParties(fetch') /\ fetch'[q] = fetch[q] /\ fetch'[p] = x
      BY <1>3, <1>5, Update
    <2>8. Pairs(n, x, l)
      <3>1. n.inflight
        BY <1>1, <1>4 DEF Pairs
      <3>2. n.otpk # 0 => l.pool[n.otpk] # "fresh"
        <4>1. n.otpk \in 0 .. OtpkCount
          BY <1>4, NodeFields
        <4>2. n.otpk # 0 => n.otpk \in 1 .. OtpkCount
          BY <4>1, DmAssumption
        <4> QED
          BY <1>4, <2>2, <4>2 DEF Pairs, Marks
      <3> QED
        BY <2>2, <2>3, <3>1, <3>2 DEF Pairs
    <2>9. Whole(K, fetch', dms, wires, dht, c, typed)
      BY <1>q, <1>2, <2>5, <2>6, <2>7, <2>8, FetchKeeps
    <2>10. Everything'
      BY <1>1, <1>3, <1>5, <2>9 DEF Everything
    <2>11. l.disk = o.disk
      BY <2>2 DEF Marks, Reflag
    <2> HIDE DEF K
    <2>12. ASSUME NEW r \in Parties PROVE DiskKept(node[r], node'[r])
      <3>1. r = p \/ r = q
        BY DEF Parties, Other
      <3>2. CASE r = p
        BY <1>5, <2>6, <3>2 DEF DiskKept
      <3>3. CASE r = q
        BY <1>5, <2>6, <2>11, <3>3 DEF DiskKept
      <3> QED
        BY <3>1, <3>2, <3>3
    <2> QED
      BY <2>10, <2>12 DEF DisksKept
  <1>6. CASE node' = node /\ fetch' = Put(fetch, p, y)
    <2>1. y.stage = "answered" /\ y.otpk = 0 /\ 0 \in 0 .. OtpkCount
      BY DmAssumption
    <2>2. Pairs(n, y, o)
      BY <1>1, <1>4, <2>1 DEF Pairs
    <2> HIDE DEF y
    <2>3. OverParties(fetch') /\ fetch'[q] = fetch[q] /\ fetch'[p] = y
      BY <1>3, <1>6, Update
    <2>4. Whole(node, fetch', dms, wires, dht, c, typed)
      BY <1>2, <1>3, <2>2, <2>3, FetchKeeps
    <2>5. Everything'
      BY <1>1, <1>3, <1>6, <2>4 DEF Everything
    <2> QED
      BY <1>6, <2>5 DEF DisksKept, DiskKept
  <1> QED
    BY <1>1, <1>5, <1>6

(* A restart: from here on a session may have been set back.               *)
LEMMA CalmEnds ==
    ASSUME NEW N, NEW F, NEW M, NEW W, NEW D, NEW calm \in BOOLEAN, NEW T, Whole(N, F, M, W, D, calm, T)
    PROVE  Whole(N, F, M, W, D, FALSE, T)
  <1>1. World(W, D, FALSE, T)
    BY DEF Whole, World, OneSeal
  <1>2. ASSUME NEW p \in Parties PROVE NodeOK(N[p], W, D, FALSE, {}, T)
    <2>1. NodeOK(N[p], W, D, calm, {}, T)
      BY DEF Whole
    <2>2. OwnBehind(N[p], W, D, FALSE)
      BY <2>1 DEF NodeOK, OwnBehind
    <2> QED
      BY <2>1, <2>2 DEF NodeOK
  <1> QED
    BY <1>1, <1>2 DEF Whole

(* What may be left when n stops on the way to m: what is on disk is m's,  *)
(* and the message is stored or not yet.                                   *)
Stopped(n, m, s) == [n EXCEPT !.disk = m.disk, !.drawn = m.drawn, !.stored = s]

LEMMA RestartedFields ==
    ASSUME NEW p \in Parties, NEW n \in Nodes(p), NEW m \in Nodes(p), NEW s, s \in {n.stored, m.stored}
    PROVE  LET r == Restarted(Stopped(n, m, s)) IN
           /\ r \in Nodes(p) /\ r.id = p /\ r.mem = NoSession /\ r.disk = m.disk /\ r.stored = s
           /\ r.otpk = 0 /\ r.pool = n.pool /\ r.outbox = n.outbox /\ r.pendSend = << >> /\ r.pendRecv = << >>
           /\ ~r.inflight /\ Idle(r)
  <1> DEFINE e == {}
             k == Stopped(n, m, s)
             r == Restarted(k)
  <1>0. s \in [MsgIds(Other(p)) -> Nat] /\ m.disk \in States \cup {NoSession} /\ m.drawn \in Nat
    BY NodeFields
  <1>1. k \in Nodes(p)
    BY <1>0 DEF Stopped, Nodes
  <1>2. k.id = p /\ k.disk = m.disk /\ k.stored = s /\ k.pool = n.pool /\ k.outbox = n.outbox
    BY <1>0 DEF Stopped, Nodes
  <1>3. e \in SUBSET Wires /\ 0 \in 0 .. OtpkCount /\ << >> \in Seq(Nat) /\ << >> \in Seq(Wires)
    BY DmAssumption
  <1>4. r = [k EXCEPT !.mem = NoSession, !.otpk = 0, !.pendSend = << >>, !.pendRecv = << >>,
                      !.inflight = FALSE, !.conn = FALSE, !.out = e, !.drops = e, !.asks = FALSE]
    BY DEF Restarted
  <1> HIDE DEF k, e, r
  <1>5. r \in Nodes(p)
    BY <1>1, <1>3, <1>4 DEF Nodes
  <1>6. /\ r.id = p /\ r.mem = NoSession /\ r.disk = m.disk /\ r.stored = s
        /\ r.otpk = 0 /\ r.pool = n.pool /\ r.outbox = n.outbox /\ r.pendSend = << >> /\ r.pendRecv = << >>
    BY <1>1, <1>2, <1>4 DEF Nodes
  <1>7. ~r.inflight /\ ~r.asks /\ r.out = e /\ r.drops = e
    BY <1>1, <1>4 DEF Nodes
  <1>8. Idle(r)
    BY <1>7 DEF Idle, e
  <1> QED
    BY <1>5, <1>6, <1>7, <1>8 DEF r, k

(* Both ends of the way satisfy the invariant, and nothing stored is lost. *)
Between(n, m, W, D, T) ==
    /\ World(W, D, FALSE, T) /\ NodeOK(n, W, D, FALSE, {}, T) /\ NodeOK(m, W, D, FALSE, {}, T)
    /\ m.id = n.id /\ DiskKept(n, m)
    /\ \A k \in MsgIds(Other(n.id)) : n.stored[k] # 0 => m.stored[k] # 0

LEMMA RestartedGood ==
    ASSUME NEW W, NEW D, NEW T, NEW n, NEW m, NEW s, s \in {n.stored, m.stored}, Between(n, m, W, D, T),
           NEW r, r = Restarted(Stopped(n, m, s))
    PROVE  Good(r, W, D, FALSE, {}, T)
  <1> DEFINE p == n.id
  <1>1. /\ World(W, D, FALSE, T) /\ NodeOK(n, W, D, FALSE, {}, T) /\ NodeOK(m, W, D, FALSE, {}, T)
        /\ p \in Parties /\ n \in Nodes(p) /\ m \in Nodes(p) /\ m.id = p
    BY DEF Between, NodeOK
  <1>2. /\ r \in Nodes(p) /\ r.id = p /\ r.mem = NoSession /\ r.disk = m.disk /\ r.stored = s
        /\ r.outbox = n.outbox /\ r.pendSend = << >> /\ r.pendRecv = << >> /\ Idle(r)
    BY <1>1, RestartedFields
  <1>3. Sessions(r)
    BY <1>1, <1>2 DEF NodeOK, Sessions
  <1>4. OwnBehind(r, W, D, FALSE)
    BY <1>1, <1>2 DEF NodeOK, OwnBehind
  <1>5. StoredOnce(r, W)
    BY <1>1, <1>2 DEF NodeOK, StoredOnce
  <1>6. StoredSpent(r, W)
    <2> SUFFICES ASSUME NEW w \in W, w.to = p, s[w.pt] # 0
                 PROVE  m.disk # NoSession /\ ~Reads(m.disk, w.mk)
      BY <1>2 DEF StoredSpent
    <2>1. w.pt \in MsgIds(w.from) /\ w.to = Other(w.from) /\ w.from \in Parties
      BY <1>1, TypedIds DEF World, WireOK, Wires
    <2>2. w.pt \in MsgIds(Other(p))
      BY <2>1, Others
    <2>3. m.stored[w.pt] # 0
      BY <2>2 DEF Between
    <2> QED
      BY <1>1, <2>3 DEF NodeOK, StoredSpent
  <1>7. Len(<< >>) = 0 /\ 1 .. 0 = {}
    OBVIOUS
  <1>8. Waiting(r, W, {}, T)
    BY <1>1, <1>2, <1>7 DEF NodeOK, Waiting, Unplaced
  <1>9. Post(r, W, D)
    BY <1>1, <1>2, <1>7 DEF NodeOK, Post, Idle
  <1>10. NodeOK(r, W, D, FALSE, {}, T)
    BY <1>1, <1>2, <1>3, <1>4, <1>5, <1>6, <1>8, <1>9 DEF NodeOK, Idle
  <1>11. AllW(r, W) = W /\ AllD(r, D) = D
    BY <1>2 DEF Idle, AllW, AllD
  <1> QED
    BY <1>1, <1>10, <1>11 DEF Good

Shaken(N, F, M, W, D, T) == Whole(N, F, M, W, D, FALSE, T)
Halts(N, F, M, W, D, T, p, n, m, s, L, r, G) ==
    /\ Whole(N, F, M, W, D, FALSE, T) /\ Marks(N[p], n) /\ Between(n, m, W, D, T)
    /\ s \in {n.stored, m.stored} /\ L \subseteq M
    /\ r = Restarted(Stopped(n, m, s)) /\ G = Put(F, p, NoFetch)

LEMMA RestartKeeps ==
    ASSUME NEW N, NEW F, NEW M, NEW W, NEW D, NEW T, NEW p \in Parties, NEW n, NEW m, NEW s, NEW L,
           NEW r, NEW G, Halts(N, F, M, W, D, T, p, n, m, s, L, r, G)
    PROVE  Shaken(Put(N, p, r), G, L, W, D, T) /\ r.disk = m.disk
  <1> DEFINE k == N[p]
             o == N[Other(p)]
  <1>0. /\ Whole(N, F, M, W, D, FALSE, T) /\ Marks(N[p], n) /\ Between(n, m, W, D, T)
        /\ s \in {n.stored, m.stored} /\ L \subseteq M
        /\ r = Restarted(Stopped(n, m, s)) /\ G = Put(F, p, NoFetch)
    BY DEF Halts
  <1>1. /\ Good(k, W, D, FALSE, {}, T) /\ k.id = p /\ QueuesFit(k, T[p]) /\ T[p] \in Nat
        /\ Len(k.outbox) \in Nat /\ Len(k.pendSend) \in Nat
    BY <1>0, IdleGood
  <1>2. /\ OverParties(T) /\ OverParties(F) /\ M \subseteq W /\ Marks(k, n)
    BY <1>0 DEF Whole
  <1> HIDE DEF k, o
  <1>3. /\ n \in Nodes(p) /\ n.id = p /\ n.outbox = k.outbox
        /\ \A i \in 1 .. OtpkCount : k.pool[i] # "fresh" => n.pool[i] # "fresh"
    BY <1>1, <1>2 DEF Marks, Reflag, SameQueues
  <1>4. m \in Nodes(p)
    BY <1>0, <1>3 DEF Between, NodeOK
  <1>5. /\ r \in Nodes(p) /\ r.id = p /\ r.disk = m.disk /\ r.otpk = 0 /\ r.pool = n.pool
        /\ r.outbox = n.outbox /\ r.pendSend = << >> /\ Idle(r)
    BY <1>0, <1>3, <1>4, RestartedFields
  <1>6. ~r.inflight
    BY <1>0, <1>3, <1>4, RestartedFields
  <1>7. Good(r, W, D, FALSE, {}, T)
    BY <1>0, RestartedGood
  <1>8. OverParties(G) /\ G[Other(p)] = F[Other(p)] /\ G[p] = NoFetch
    BY <1>0, <1>2, Update
  <1>9. Pairs(r, G[p], o)
    <2>1. NoFetch.stage = "none" /\ NoFetch.otpk = 0 /\ 0 \in 0 .. OtpkCount
      BY DmAssumption DEF NoFetch
    <2> QED
      BY <1>5, <1>6, <1>8, <2>1 DEF Pairs
  <1>10. QueuesFit(r, T[p])
    <2>1. Len(k.outbox) + Len(k.pendSend) <= T[p]
      BY <1>1 DEF QueuesFit
    <2>2. Len(k.outbox) + 0 <= T[p]
      <3>1. Len(k.outbox) \in Nat /\ Len(k.pendSend) \in Nat /\ T[p] \in Nat /\ 0 \in Nat
        BY <1>1
      <3> QED
        BY <2>1, <3>1, FitsLess
    <2>3. Len(<< >>) = 0
      OBVIOUS
    <2> QED
      BY <1>3, <1>5, <2>2, <2>3 DEF QueuesFit
  <1>11. L \subseteq AllW(r, W)
    BY <1>0, <1>2 DEF AllW
  <1>12. Ends(N, F, M, W, D, FALSE, T, p, r, G, L, T)
    BY <1>2, <1>3, <1>5, <1>7, <1>8, <1>9, <1>10, <1>11 DEF Ends, k, o
  <1>13. Whole(Put(N, p, r), G, L, W, D, FALSE, T)
    BY <1>0, <1>5, <1>12, PutKeeps
  <1> QED
    BY <1>5, <1>13 DEF Shaken

LEMMA StartsAgainStep ==
    ASSUME NEW p \in Parties, NEW n, NEW m, NEW s, Everything, restarts \in Nat,
           Marks(node[p], n), Between(n, m, wires, dht, typed), s \in {n.stored, m.stored},
           StartsAgain(p, Stopped(n, m, s)), dms' \subseteq dms
    PROVE  Everything' /\ DisksKept
  <1> DEFINE back == Restarted(Stopped(n, m, s))
             all == Put(node, p, back)
             c == Calm
  <1>1. /\ node' = all /\ fetch' = Put(fetch, p, NoFetch) /\ restarts' = restarts + 1
        /\ UNCHANGED <<dht, typed, wires>>
    BY DEF StartsAgain, Put
  <1>2. Calm' = FALSE
    BY <1>1 DEF Calm
  <1>3. Whole(node, fetch, dms, wires, dht, c, typed) /\ c \in BOOLEAN
    BY CalmIs DEF Everything
  <1> HIDE DEF c
  <1>4. Whole(node, fetch, dms, wires, dht, FALSE, typed)
    BY <1>3, CalmEnds
  <1>5. Whole(all, fetch', dms', wires, dht, FALSE, typed) /\ back.disk = m.disk
    <2> DEFINE g == fetch'
               h == dms'
    <2>1. g = Put(fetch, p, NoFetch) /\ h \subseteq dms /\ back = Restarted(Stopped(n, m, s))
      BY <1>1
    <2> HIDE DEF g, h, back
    <2>2. Halts(node, fetch, dms, wires, dht, typed, p, n, m, s, h, back, g)
      BY <1>4, <2>1 DEF Halts
    <2>3. Shaken(Put(node, p, back), g, h, wires, dht, typed) /\ back.disk = m.disk
      BY <2>2, RestartKeeps
    <2> QED
      BY <2>3 DEF g, h, Shaken
  <1> HIDE DEF back
  <1>6. all[p] = back /\ all[Other(p)] = node[Other(p)]
    <2>1. OverParties(node)
      BY <1>4 DEF Whole
    <2> QED
      BY <2>1, Update
  <1>7. n.disk = node[p].disk /\ DiskKept(n, m)
    BY DEF Marks, Reflag, Between
  <1> HIDE DEF all
  <1>8. Everything'
    BY <1>1, <1>2, <1>5 DEF Everything
  <1>9. ASSUME NEW q \in Parties PROVE DiskKept(node[q], node'[q])
    <2>1. CASE q = p
      BY <1>1, <1>5, <1>6, <1>7, <2>1 DEF DiskKept
    <2>2. CASE q = Other(p)
      BY <1>1, <1>6, <2>2 DEF DiskKept
    <2> QED
      BY <2>1, <2>2 DEF Parties, Other
  <1> QED
    BY <1>8, <1>9 DEF DisksKept

LEMMA StillHere ==
    ASSUME NEW p \in Parties, Everything
    PROVE  /\ Good(node[p], wires, dht, FALSE, {}, typed) /\ Marks(node[p], node[p])
           /\ AllW(node[p], wires) = wires /\ AllD(node[p], dht) = dht /\ Idle(node[p])
           /\ node[p].id = p /\ node[p] \in Nodes(p)
  <1> DEFINE n == node[p]
             c == Calm
  <1>1. Whole(node, fetch, dms, wires, dht, c, typed) /\ c \in BOOLEAN
    BY CalmIs DEF Everything
  <1> HIDE DEF c
  <1> DEFINE f == FALSE
  <1>2. Whole(node, fetch, dms, wires, dht, f, typed) /\ f \in BOOLEAN
    BY <1>1, CalmEnds
  <1> HIDE DEF f
  <1>3. /\ Good(n, wires, dht, f, {}, typed) /\ AllW(n, wires) = wires /\ AllD(n, dht) = dht
        /\ n.id = p /\ n \in Nodes(p) /\ typed[p] \in Nat /\ Idle(n)
        /\ Pairs(n, fetch[p], node[Other(p)]) /\ QueuesFit(n, typed[p])
        /\ Len(n.outbox) \in Nat /\ Len(n.pendSend) \in Nat
    BY <1>2, IdleGood
  <1> HIDE DEF n
  <1>4. Marks(n, n)
    BY <1>3 DEF Marks, Reflag, SameQueues, Good, NodeOK
  <1> QED
    BY <1>3, <1>4 DEF n, f

LEMMA RestartStep ==
    ASSUME NEW p \in Parties, Everything, restarts \in Nat, Restart(p)
    PROVE  Everything' /\ DisksKept
  <1> DEFINE n == node[p]
  <1>1. StartsAgain(p, n) /\ dms' \subseteq dms
    BY DEF Restart
  <1>2. /\ Good(n, wires, dht, FALSE, {}, typed) /\ Marks(n, n)
        /\ AllW(n, wires) = wires /\ AllD(n, dht) = dht /\ n \in Nodes(p)
    BY StillHere
  <1>3. Between(n, n, wires, dht, typed)
    BY <1>2 DEF Between, Good, DiskKept
  <1>4. Stopped(n, n, n.stored) = n
    BY <1>2 DEF Stopped, Nodes
  <1>5. StartsAgain(p, Stopped(n, n, n.stored))
    BY <1>1, <1>4
  <1>6. n.stored \in {n.stored, n.stored} /\ Marks(node[p], n)
    BY <1>2
  <1> HIDE DEF n
  <1> QED
    BY <1>1, <1>3, <1>5, <1>6, StartsAgainStep

(* The node stopped while it opened a message.                             *)
LEMMA OpeningBetween ==
    ASSUME NEW W, NEW D, NEW T, NEW n, NEW m, Good(n, W, D, FALSE, {}, T), Good(m, W, D, FALSE, {}, T),
           Keeps(n, m), Takes(n, m), Idle(n)
    PROVE  Between(n, m, W, D, T)
  <1>1. AllW(n, W) = W /\ AllD(n, D) = D
    BY DEF Idle, AllW, AllD
  <1>2. AllW(m, W) = W /\ AllD(m, D) = D
    BY DEF Idle, Takes, AllW, AllD
  <1>3. World(W, D, FALSE, T) /\ NodeOK(n, W, D, FALSE, {}, T) /\ NodeOK(m, W, D, FALSE, {}, T)
    BY <1>1, <1>2 DEF Good
  <1> QED
    BY <1>3 DEF Between, Keeps, Takes, DiskKept

LEMMA CrashInReceiveStep ==
    ASSUME NEW w \in wires, NEW stored \in BOOLEAN, Everything, restarts \in Nat, CrashInReceive(w, stored)
    PROVE  Everything' /\ DisksKept
  <1> DEFINE p == w.to
             n == node[p]
             m == ProcessIncomingDm(n, w)
             s == IF stored THEN m.stored ELSE n.stored
  <1>0. p \in Parties
    BY DEF Everything, Whole, World, WireOK, Wires
  <1>2. /\ Good(n, wires, dht, FALSE, {}, typed) /\ Marks(n, n) /\ Idle(n)
        /\ AllW(n, wires) = wires /\ AllD(n, dht) = dht /\ n \in Nodes(p) /\ n.id = p
    BY <1>0, StillHere
  <1>1. StartsAgain(p, Stopped(n, m, s)) /\ dms' \subseteq dms
    BY <1>2 DEF CrashInReceive, CrashOpening, Stopped
  <1>3. Marks(node[p], n)
    BY <1>2
  <1>4. s \in {n.stored, m.stored}
    OBVIOUS
  <1> HIDE DEF m, n, s
  <1>5. Incoming(n, w, AllW(n, wires))
    BY <1>2 DEF Incoming
  <1>6. Good(m, wires, dht, FALSE, {}, typed) /\ Keeps(n, m) /\ Takes(n, m)
    BY <1>2, <1>5, IncomingKeeps DEF m
  <1>7. Between(n, m, wires, dht, typed)
    BY <1>2, <1>6, OpeningBetween
  <1> QED
    BY <1>0, <1>1, <1>3, <1>4, <1>7, StartsAgainStep

LEMMA CrashInPendingStep ==
    ASSUME NEW p \in Parties, NEW stored \in BOOLEAN, Everything, restarts \in Nat, CrashInPending(p, stored)
    PROVE  Everything' /\ DisksKept
  <1> DEFINE n == node[p]
             l == [n EXCEPT !.prekey = TRUE]
             w == Head(n.pendRecv)
             m == PendingRecv(l, w)
             s == IF stored THEN m.stored ELSE l.stored
  <1>2. /\ Good(n, wires, dht, FALSE, {}, typed) /\ Idle(n)
        /\ AllW(n, wires) = wires /\ AllD(n, dht) = dht /\ n \in Nodes(p) /\ n.id = p
    BY StillHere
  <1>3. n.pendRecv # << >> /\ CrashOpening(l, m, stored) /\ UNCHANGED dms
    BY DEF CrashInPending
  <1> HIDE DEF n
  <1>4. l \in Nodes(p)
    BY <1>2 DEF Nodes
  <1>5. /\ l.id = n.id /\ l.mem = n.mem /\ l.disk = n.disk /\ l.stored = n.stored /\ l.otpk = n.otpk
        /\ l.pool = n.pool /\ l.out = n.out /\ l.drops = n.drops
    BY <1>2 DEF Nodes
  <1>6. l.asks = n.asks /\ l.inflight = n.inflight
    BY <1>2 DEF Nodes
  <1>7. SameQueues(n, l)
    BY <1>2 DEF Nodes, SameQueues
  <1> HIDE DEF l, m
  <1>8. Marks(n, l) /\ Idle(l)
    BY <1>2, <1>4, <1>5, <1>6, <1>7 DEF Reflag, Idle, Marks
  <1>9. Good(l, wires, dht, FALSE, {}, typed)
    BY <1>2, <1>8, ReflagGood DEF Marks
  <1>10. StartsAgain(p, Stopped(l, m, s)) /\ dms' \subseteq dms
    BY <1>2, <1>3, <1>5 DEF CrashOpening, Stopped
  <1>11. s \in {l.stored, m.stored}
    OBVIOUS
  <1> HIDE DEF s
  <1>12. w \in wires /\ w.to = p
    <2>1. n.pendRecv \in Seq(Wires)
      BY <1>2, NodeFields
    <2>2. 1 \in 1 .. Len(n.pendRecv) /\ w = n.pendRecv[1]
      BY <1>3, <2>1
    <2>3. Post(n, wires, dht)
      BY <1>2 DEF Good, NodeOK
    <2> HIDE DEF w
    <2> QED
      BY <1>2, <2>2, <2>3 DEF Post
  <1> HIDE DEF w
  <1>13. Incoming(l, w, AllW(l, wires))
    BY <1>2, <1>5, <1>12 DEF Incoming, AllW
  <1>14. Good(m, wires, dht, FALSE, {}, typed) /\ Keeps(l, m) /\ Takes(l, m)
    BY <1>9, <1>13, PendingRecvKeeps DEF m
  <1>15. Between(l, m, wires, dht, typed)
    BY <1>8, <1>9, <1>14, OpeningBetween
  <1> QED
    BY <1>8, <1>10, <1>11, <1>15, StartsAgainStep DEF n

-----------------------------------------------------------------------------
(* The invariant of the direct-message path.                               *)
DmInv == Everything /\ fetches \in 0 .. MaxFetches /\ restarts \in 0 .. MaxRestarts

LEMMA StartsEmpty ==
    ASSUME NEW p \in Parties, NEW n,
           n = [id |-> p, mem |-> NoSession, disk |-> NoSession,
                prekey |-> FALSE, otpk |-> 0, inflight |-> FALSE, conn |-> FALSE,
                pendSend |-> << >>, pendRecv |-> << >>,
                outbox |-> << >>, queued |-> {}, pool |-> [id \in 1 .. OtpkCount |-> "fresh"], drawn |-> 0,
                stored |-> [k \in MsgIds(Other(p)) |-> 0],
                out |-> {}, drops |-> {}, asks |-> FALSE],
           NEW T, NEW D
    PROVE  NodeOK(n, {}, D, TRUE, {}, T) /\ n.id = p /\ Idle(n) /\ ~n.inflight /\ n.otpk = 0
           /\ Len(n.outbox) = 0 /\ Len(n.pendSend) = 0
  <1> DEFINE e == {}
             z == [id \in 1 .. OtpkCount |-> "fresh"]
             y == [k \in MsgIds(Other(p)) |-> 0]
  <1>1. /\ e \in SUBSET Wires /\ e \in SUBSET Nat /\ 0 \in 0 .. OtpkCount /\ 0 \in Nat
        /\ << >> \in Seq(Nat) /\ << >> \in Seq(Wires) /\ << >> \in Seq(Rows) /\ Len(<< >>) = 0
    BY DmAssumption
  <1>2. z \in [1 .. OtpkCount -> {"fresh", "served", "consumed"}] /\ y \in [MsgIds(Other(p)) -> Nat]
    OBVIOUS
  <1>3. \A k \in MsgIds(Other(p)) : y[k] = 0
    OBVIOUS
  <1>4. n = [id |-> p, mem |-> NoSession, disk |-> NoSession,
             prekey |-> FALSE, otpk |-> 0, inflight |-> FALSE, conn |-> FALSE,
             pendSend |-> << >>, pendRecv |-> << >>,
             outbox |-> << >>, queued |-> e, pool |-> z, drawn |-> 0, stored |-> y,
             out |-> e, drops |-> e, asks |-> FALSE]
    OBVIOUS
  <1> HIDE DEF e, z, y
  <1>5. n \in Nodes(p)
    BY <1>1, <1>2, <1>4 DEF Nodes
  <1>6. /\ n.id = p /\ n.mem = NoSession /\ n.disk = NoSession /\ n.otpk = 0 /\ n.pendSend = << >>
        /\ n.pendRecv = << >> /\ n.outbox = << >> /\ n.queued = e /\ n.stored = y /\ n.out = e /\ n.drops = e
    BY <1>4
  <1>7. ~n.inflight /\ ~n.asks
    BY <1>4
  <1>8. Idle(n)
    BY <1>6, <1>7 DEF Idle, e
  <1>9. Sessions(n) /\ OwnBehind(n, {}, D, TRUE) /\ StoredSpent(n, {})
    BY <1>6 DEF Sessions, OwnBehind, StoredSpent
  <1>10. StoredOnce(n, {})
    BY <1>3, <1>6 DEF StoredOnce
  <1>11. 1 .. Len(n.outbox) = {} /\ 1 .. Len(n.pendSend) = {} /\ 1 .. Len(n.pendRecv) = {}
    BY <1>1, <1>6
  <1>12. Waiting(n, {}, {}, T) /\ QueuedKept(n, {}, {})
    BY <1>6, <1>11 DEF Waiting, QueuedKept, e
  <1>13. Post(n, {}, D)
    BY <1>6, <1>11 DEF Post, e
  <1>14. NodeOK(n, {}, D, TRUE, {}, T)
    BY <1>5, <1>6, <1>7, <1>9, <1>10, <1>12, <1>13 DEF NodeOK
  <1> QED
    BY <1>1, <1>6, <1>7, <1>8, <1>14

LEMMA DmInit == Init => DmInv
  <1> SUFFICES ASSUME Init PROVE DmInv
    OBVIOUS
  <1>1. /\ dms = {} /\ dht = {} /\ wires = {} /\ restarts = 0 /\ fetches = 0
        /\ fetch = [p \in Parties |-> NoFetch] /\ typed = [p \in Parties |-> 0]
    BY DEF Init
  <1>2. OverParties(node)
    BY DEF Init, OverParties
  <1>3. OverParties(fetch) /\ OverParties(typed) /\ \A p \in Parties : fetch[p] = NoFetch /\ typed[p] = 0
    BY <1>1 DEF OverParties
  <1>4. World({}, {}, TRUE, typed)
    <2>1. Typed(typed)
      <3> SUFFICES ASSUME NEW p \in Parties PROVE 0 \in 0 .. Quota[p]
        BY <1>3 DEF Typed
      <3>1. Quota[p] = IF p = "A" THEN MsgsA ELSE MsgsB
        BY DEF Quota, Parties
      <3> QED
        BY <3>1, DmAssumption
    <2> QED
      BY <2>1 DEF World, OneWire, OneSeal
  <1>5. ASSUME NEW p \in Parties
        PROVE  /\ NodeOK(node[p], {}, {}, TRUE, {}, typed) /\ node[p].id = p /\ Idle(node[p])
               /\ ~node[p].inflight /\ node[p].otpk = 0
               /\ Len(node[p].outbox) = 0 /\ Len(node[p].pendSend) = 0
    <2> DEFINE n == node[p]
    <2>1. n = [id |-> p, mem |-> NoSession, disk |-> NoSession,
               prekey |-> FALSE, otpk |-> 0, inflight |-> FALSE, conn |-> FALSE,
               pendSend |-> << >>, pendRecv |-> << >>,
               outbox |-> << >>, queued |-> {}, pool |-> [id \in 1 .. OtpkCount |-> "fresh"], drawn |-> 0,
               stored |-> [k \in MsgIds(Other(p)) |-> 0],
               out |-> {}, drops |-> {}, asks |-> FALSE]
      BY DEF Init
    <2> HIDE DEF n
    <2>2. /\ NodeOK(n, {}, {}, TRUE, {}, typed) /\ n.id = p /\ Idle(n)
          /\ ~n.inflight /\ n.otpk = 0 /\ Len(n.outbox) = 0 /\ Len(n.pendSend) = 0
      BY <2>1, StartsEmpty
    <2> QED
      BY <2>2 DEF n
  <1>6. ASSUME NEW p \in Parties
        PROVE  Pairs(node[p], fetch[p], node[Other(p)]) /\ QueuesFit(node[p], typed[p])
    <2>1. NoFetch.stage = "none" /\ NoFetch.otpk = 0 /\ 0 \in 0 .. OtpkCount
      BY DmAssumption DEF NoFetch
    <2>2. Pairs(node[p], fetch[p], node[Other(p)])
      BY <1>3, <1>5, <2>1 DEF Pairs
    <2>3. QueuesFit(node[p], typed[p])
      <3>1. 0 + 0 <= 0
        OBVIOUS
      <3> QED
        BY <1>3, <1>5, <3>1 DEF QueuesFit
    <2> QED
      BY <2>2, <2>3
  <1>7. Whole(node, fetch, {}, {}, {}, TRUE, typed)
    BY <1>2, <1>3, <1>4, <1>5, <1>6 DEF Whole
  <1>8. Calm = TRUE
    BY <1>1 DEF Calm
  <1>9. Everything
    BY <1>1, <1>7, <1>8 DEF Everything
  <1> QED
    BY <1>1, <1>9, DmAssumption DEF DmInv

LEMMA DmStep == DmInv /\ [Next]_vars => DmInv' /\ (Next => DisksKept)
  <1> SUFFICES ASSUME DmInv, [Next]_vars PROVE DmInv' /\ (Next => DisksKept)
    OBVIOUS
  <1>0. Everything /\ restarts \in Nat /\ fetches \in 0 .. MaxFetches /\ restarts \in 0 .. MaxRestarts
    BY DmAssumption DEF DmInv
  <1>1. ASSUME Next PROVE Everything' /\ DisksKept
    <2>0. dms \subseteq wires /\ dht \subseteq wires
      BY <1>0 DEF Everything, Whole, World
    <2>1. ASSUME NEW p \in Parties, SendMessage(p) PROVE Everything' /\ DisksKept
      BY <1>0, <2>1, SendStep
    <2>2. ASSUME NEW p \in Parties, PeerConnected(p) PROVE Everything' /\ DisksKept
      BY <1>0, <2>2, PeerConnectedStep
    <2>3. ASSUME NEW p \in Parties, PeerDisconnected(p) PROVE Everything' /\ DisksKept
      BY <1>0, <2>3, PeerDisconnectedStep
    <2>4. ASSUME NEW p \in Parties, NEW attach \in BOOLEAN, AnswerPrekey(p, attach)
          PROVE  Everything' /\ DisksKept
      BY <1>0, <2>4, AnswerPrekeyStep
    <2>5. ASSUME NEW p \in Parties, ReceivePrekey(p) PROVE Everything' /\ DisksKept
      BY <1>0, <2>5, ReceivePrekeyStep
    <2>6. ASSUME NEW p \in Parties, PrekeyFails(p) PROVE Everything' /\ DisksKept
      BY <1>0, <2>6, PrekeyFailsStep
    <2>7. ASSUME NEW p \in Parties, Restart(p) PROVE Everything' /\ DisksKept
      BY <1>0, <2>7, RestartStep
    <2>8. ASSUME NEW p \in Parties, NEW stored \in BOOLEAN, CrashInPending(p, stored)
          PROVE  Everything' /\ DisksKept
      BY <1>0, <2>8, CrashInPendingStep
    <2>9. ASSUME NEW w \in dms, ReceiveDm(w) PROVE Everything' /\ DisksKept
      <3> DEFINE h == dms \ {w}
      <3>1. /\ Commit(w.to, ProcessIncomingDm(node[w.to], w), h)
            /\ Ask(w.to, ProcessIncomingDm(node[w.to], w)) /\ UNCHANGED <<typed, restarts>>
        BY <2>9 DEF ReceiveDm
      <3>2. h \in SUBSET dms /\ w \in wires
        BY <2>0
      <3> HIDE DEF h
      <3> QED
        BY <1>0, <3>1, <3>2, IncomingStep
    <2>10. ASSUME NEW w \in dms, NEW stored \in BOOLEAN, CrashInReceive(w, stored)
           PROVE  Everything' /\ DisksKept
      <3>1. w \in wires
        BY <2>0
      <3> QED
        BY <1>0, <2>10, <3>1, CrashInReceiveStep
    <2>11. ASSUME NEW w \in dht, FetchDrop(w) PROVE Everything' /\ DisksKept
      <3>1. /\ Commit(w.to, ProcessIncomingDm(node[w.to], w), dms)
            /\ Ask(w.to, ProcessIncomingDm(node[w.to], w)) /\ UNCHANGED <<typed, restarts>>
        BY <2>11 DEF FetchDrop
      <3>2. dms \in SUBSET dms /\ w \in wires
        BY <2>0
      <3> QED
        BY <1>0, <3>1, <3>2, IncomingStep
    <2> QED
      BY <1>1, <2>1, <2>2, <2>3, <2>4, <2>5, <2>6, <2>7, <2>8, <2>9, <2>10, <2>11 DEF Next
  <1>2. ASSUME UNCHANGED vars PROVE DmInv'
    BY <1>2 DEF vars, DmInv, Everything, Calm
  <1>3. ASSUME Next PROVE fetches' \in 0 .. MaxFetches /\ restarts' \in 0 .. MaxRestarts
    <2>1. CASE UNCHANGED <<fetches, restarts>>
      BY <1>0, <2>1
    <2>2. ASSUME NEW w \in dht, FetchDrop(w) PROVE fetches' \in 0 .. MaxFetches /\ UNCHANGED restarts
      <3>1. fetches < MaxFetches /\ fetches' = fetches + 1 /\ UNCHANGED restarts
        BY <2>2 DEF FetchDrop
      <3> QED
        BY <1>0, <3>1, DmAssumption
    <2>3. ASSUME restarts < MaxRestarts, restarts' = restarts + 1, UNCHANGED fetches
          PROVE  restarts' \in 0 .. MaxRestarts /\ fetches' \in 0 .. MaxFetches
      BY <1>0, <2>3, DmAssumption
    <2>4. \/ UNCHANGED <<fetches, restarts>>
          \/ \E w \in dht : FetchDrop(w)
          \/ restarts < MaxRestarts /\ restarts' = restarts + 1 /\ UNCHANGED fetches
      <3>1. \A p, n : StartsAgain(p, n) => restarts < MaxRestarts /\ restarts' = restarts + 1 /\ UNCHANGED fetches
        BY DEF StartsAgain
      <3>2. ASSUME NEW p \in Parties, NEW stored, Restart(p) \/ CrashInPending(p, stored)
            PROVE  restarts < MaxRestarts /\ restarts' = restarts + 1 /\ UNCHANGED fetches
        BY <3>1, <3>2, Zenon DEF Restart, CrashInPending, CrashOpening
      <3>3. ASSUME NEW w, NEW stored, CrashInReceive(w, stored)
            PROVE  restarts < MaxRestarts /\ restarts' = restarts + 1 /\ UNCHANGED fetches
        BY <3>1, <3>3, Zenon DEF CrashInReceive, CrashOpening
      <3>4. ASSUME NEW p \in Parties, NEW attach,
                   \/ SendMessage(p) \/ PeerConnected(p) \/ PeerDisconnected(p) \/ AnswerPrekey(p, attach)
                   \/ ReceivePrekey(p) \/ PrekeyFails(p)
            PROVE  UNCHANGED <<fetches, restarts>>
        BY <3>4 DEF SendMessage, PeerConnected, PeerDisconnected, AnswerPrekey, ReceivePrekey, PrekeyFails
      <3>5. ASSUME NEW w, ReceiveDm(w) PROVE UNCHANGED <<fetches, restarts>>
        BY <3>5 DEF ReceiveDm
      <3> QED
        BY <1>3, <3>2, <3>3, <3>4, <3>5 DEF Next
    <2> QED
      BY <1>0, <2>1, <2>2, <2>3, <2>4
  <1>4. CASE Next
    BY <1>1, <1>3, <1>4 DEF DmInv
  <1>5. CASE UNCHANGED vars
    <2>1. DisksKept
      BY <1>5 DEF DisksKept, DiskKept, vars
    <2> QED
      BY <1>2, <1>5, <2>1
  <1> QED
    BY <1>4, <1>5

(* process_incoming_dm, process_pending, try_send_or_queue: whatever the   *)
(* network and the restarts do, the two nodes' sessions, queues, stored    *)
(* messages and wires stay consistent with each other.                     *)
THEOREM DmInvariance == Spec => []DmInv
  BY DmInit, DmStep, PTL DEF Spec

(* A session cannot give back a key of the other side that it cannot read: *)
(* its own sending chains are of the other parity.                         *)
LEMMA UnreadUnderivable ==
    ASSUME NEW s, NEW p \in Parties, Session(s, p), NEW w, NEW T, WireOK(w, T), w.to = p, ~Reads(s, w.mk)
    PROVE  ~CanDerive(s, w.mk)
  <1> DEFINE mk == w.mk
             r == Role(p, s.rk[1])
             q == Role(w.from, mk.root[1])
  <1>1. /\ mk \in ChainKeys /\ w.from \in Parties /\ w.from = Other(p) /\ OfParty(q, mk.root)
    BY Others DEF WireOK, Wires
  <1>2. Agreed(s.rk[1]) /\ Sane(s, r) /\ s \in States
    BY DEF Session, SideOf, Sane
  <1>3. /\ s.skipped \in Seq(Entries) /\ Len(s.rk) \in Nat /\ mk.i \in Nat /\ Len(mk.root) \in Nat
    BY <1>1, <1>2, StateFields DEF ChainKeys
  <1>4. DOMAIN s.skipped = 1 .. Len(s.skipped)
    BY <1>3
  <1> SUFFICES ASSUME CanDerive(s, mk) PROVE FALSE
    OBVIOUS
  <1>5. Cached(s, mk) \/ (s.cks # NoChain /\ mk.root = s.cks.root /\ mk.i >= s.cks.i)
        \/ Ahead(s, mk) \/ Len(s.rk) < Len(mk.root)
    BY <1>4 DEF CanDerive, IsProperPrefix, Cached, Ahead
  <1>6. ~Cached(s, mk) /\ ~Ahead(s, mk) /\ ~(Len(mk.root) > Len(s.rk))
    BY DEF Reads
  <1>7. s.cks # NoChain /\ mk.root = s.cks.root
    BY <1>3, <1>5, <1>6
  <1>8. mk.root = s.rk /\ Len(mk.root) % 2 = Par(r)
    BY <1>2, <1>7 DEF Sane, Rooted
  <1>9. Len(mk.root) % 2 = Par(q)
    BY <1>1 DEF OfParty
  <1>10. q = Role(Other(p), s.rk[1])
    BY <1>1, <1>8
  <1>11. r \in Parties /\ q \in Parties /\ q # r
    BY <1>2, <1>10, RolesDiffer
  <1> HIDE DEF q, r
  <1>12. Par(r) = Par(q)
    BY <1>8, <1>9
  <1>13. (r = "A" \/ r = "B") /\ (q = "A" \/ q = "B")
    BY <1>11 DEF Parties
  <1> QED
    BY <1>11, <1>12, <1>13 DEF Par

LEMMA TypesHold ==
    ASSUME DmInv
    PROVE  TypeOK
  <1>0. /\ fetches \in 0 .. MaxFetches /\ restarts \in 0 .. MaxRestarts /\ Everything
    BY DEF DmInv
  <1>1. World(wires, dht, Calm, typed) /\ dms \subseteq wires
    BY <1>0 DEF Everything, Whole
  <1>2. dht \subseteq wires /\ \A w \in wires : w.pt \in 1 .. typed[w.from]
    BY <1>1 DEF World, WireOK
  <1>3. ASSUME NEW p \in Parties
        PROVE  /\ node[p].inflight = (fetch[p].stage # "none")
               /\ node[p].otpk # 0 => node[Other(p)].pool[node[p].otpk] # "fresh"
               /\ node[p].out = {} /\ node[p].drops = {} /\ ~node[p].asks
               /\ Len(node[p].outbox) + Len(node[p].pendSend) <= typed[p]
    <2>1. Pairs(node[p], fetch[p], node[Other(p)]) /\ Idle(node[p]) /\ QueuesFit(node[p], typed[p])
          /\ node[p] \in Nodes(p)
      BY <1>0 DEF Everything, Whole, NodeOK
    <2>2. node[p].inflight \in BOOLEAN
      BY <2>1 DEF Nodes
    <2>3. node[p].inflight = (fetch[p].stage # "none")
      BY <2>1, <2>2 DEF Pairs
    <2> QED
      BY <2>1, <2>3 DEF Pairs, Idle, QueuesFit
  <1> QED
    BY <1>0, <1>1, <1>2, <1>3 DEF TypeOK

(* decrypt_and_store, process_incoming_dm, the outbox and mailbox copies:  *)
(* for any number of messages, fetches and restarts, no plaintext is       *)
(* stored twice and no key of a stored one is left in memory or on disk.   *)
THEOREM NothingStoredComesBack == Spec => []NothingComesBack
  <1>1. DmInv => NothingComesBack
    <2> SUFFICES ASSUME DmInv PROVE NothingComesBack
      OBVIOUS
    <2>1. World(wires, dht, Calm, typed)
      BY DEF DmInv, Everything, Whole
    <2>2. ASSUME NEW p \in Parties
          PROVE  /\ NodeOK(node[p], wires, dht, Calm, {}, typed) /\ node[p].id = p
                 /\ node[p].stored \in [MsgIds(Other(p)) -> Nat]
      <3>1. NodeOK(node[p], wires, dht, Calm, {}, typed) /\ node[p].id = p
        BY DEF DmInv, Everything, Whole
      <3>2. node[p] \in Nodes(p)
        BY <3>1 DEF NodeOK
      <3> QED
        BY <3>1, <3>2, NodeFields
    <2>3. StoredAtMostOnce
      <3> SUFFICES ASSUME NEW p \in Parties, NEW k \in DOMAIN node[p].stored
                   PROVE  node[p].stored[k] <= 1
        BY DEF StoredAtMostOnce
      <3>1. k \in MsgIds(Other(p)) /\ node[p].stored[k] \in Nat
        BY <2>2
      <3>2. node[p].stored[k] = 0 \/ node[p].stored[k] = 1
        BY <2>2, <3>1 DEF NodeOK, StoredOnce
      <3> QED
        BY <3>2
    <2>4. ReceivedKeysForgotten
      <3> SUFFICES ASSUME NEW p \in Parties, NEW w \in wires, w.to = p, node[p].stored[w.pt] > 0,
                          NEW s \in {node[p].mem, node[p].disk}, s # NoSession
                   PROVE  ~CanDerive(s, w.mk)
        BY DEF ReceivedKeysForgotten, OpenedKeys
      <3> DEFINE n == node[p]
      <3>1. Sessions(n) /\ StoredSpent(n, wires) /\ n.id = p
        BY <2>2 DEF NodeOK
      <3>2. WireOK(w, typed)
        BY <2>1 DEF World
      <3>3. n.stored[w.pt] # 0
        OBVIOUS
      <3>4. n.disk # NoSession /\ ~Reads(n.disk, w.mk) /\ (n.mem # NoSession => ~Reads(n.mem, w.mk))
        BY <3>1, <3>3 DEF StoredSpent
      <3>5. Session(s, p) /\ ~Reads(s, w.mk)
        BY <3>1, <3>4 DEF Sessions
      <3> QED
        BY <3>2, <3>5, UnreadUnderivable
    <2> QED
      BY <2>3, <2>4, TypesHold DEF NothingComesBack
  <1> QED
    BY DmInvariance, <1>1, PTL

(* encrypt with persist_session: a message key seals one plaintext, save a *)
(* key of an offline message after a restart.                              *)
THEOREM OneKeyOneMessage == Spec => []KeySealsOnce
  <1>1. DmInv => KeySealsOnce
    <2> SUFFICES ASSUME DmInv, NEW v \in wires, NEW w \in wires, v.mk = w.mk
                 PROVE  v = w \/ (restarts > 0 /\ {v, w} \cap dht # {})
      BY DEF KeySealsOnce
    <2>1. OneSeal(wires, dht, Calm) /\ restarts \in 0 .. MaxRestarts
      BY DEF DmInv, Everything, Whole, World
    <2>2. v = w \/ (~Calm /\ {v, w} \cap dht # {})
      BY <2>1 DEF OneSeal
    <2>3. ~Calm => restarts > 0
      BY <2>1, DmAssumption DEF Calm
    <2> QED
      BY <2>2, <2>3
  <1> QED
    BY DmInvariance, <1>1, PTL

(* try_send_or_queue, drain_outbox_for: without a restart, what entered    *)
(* the outbox is there, waits for the prekey, or has been encrypted.       *)
THEOREM OutboxLosesNothing == Spec => []OutboxKept
  <1>1. DmInv => OutboxKept
    <2> SUFFICES ASSUME DmInv, restarts = 0, NEW p \in Parties, NEW k \in node[p].queued
                 PROVE  \/ \E w \in wires : w.from = p /\ w.pt = k
                        \/ \E i \in DOMAIN node[p].outbox : node[p].outbox[i] = PlainRow(k)
                        \/ \E i \in DOMAIN node[p].pendSend : node[p].pendSend[i] = k
      BY DEF OutboxKept
    <2> DEFINE n == node[p]
    <2>1. NodeOK(n, wires, dht, Calm, {}, typed) /\ n.id = p /\ Calm
      BY DEF DmInv, Everything, Whole, Calm
    <2>2. QueuedKept(n, wires, {}) /\ n \in Nodes(p)
      BY <2>1 DEF NodeOK
    <2> HIDE DEF n
    <2>3. n.outbox \in Seq(Rows) /\ n.pendSend \in Seq(Nat)
      BY <2>2, NodeFields
    <2>4. DOMAIN n.outbox = 1 .. Len(n.outbox) /\ DOMAIN n.pendSend = 1 .. Len(n.pendSend)
      BY <2>3
    <2>5. k \in n.queued
      BY DEF n
    <2>6. \/ \E w \in wires : w.from = p /\ w.pt = k
          \/ \E i \in 1 .. Len(n.outbox) : n.outbox[i] = PlainRow(k)
          \/ \E i \in 1 .. Len(n.pendSend) : n.pendSend[i] = k
      BY <2>1, <2>2, <2>5 DEF QueuedKept, Wired
    <2> QED
      BY <2>4, <2>6 DEF n
  <1> QED
    BY DmInvariance, <1>1, PTL

(* process_incoming_dm, bootstrap_responder_and_decrypt: no step replaces  *)
(* the session on disk by another one.                                     *)
THEOREM DiskSessionStays == Spec => PersistedSessionKept
  <1> DEFINE OnDisk == \A p \in Parties :
                          node[p].disk # NoSession =>
                            /\ node'[p].disk # NoSession
                            /\ node'[p].disk.sessionId = node[p].disk.sessionId
  <1>1. DmInv /\ [Next]_vars => [OnDisk]_vars
    BY DmStep DEF DisksKept, DiskKept
  <1>2. Spec => [][OnDisk]_vars
    BY DmInvariance, <1>1, PTL DEF Spec
  <1> QED
    BY <1>2 DEF PersistedSessionKept
=============================================================================
