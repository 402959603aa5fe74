---------------------------- MODULE GroupProofs ----------------------------
(***************************************************************************)
(* Proofs about Group, for any set of peers, any founder, any choice of    *)
(* who is added, removed, writes or leaves, any MAX_SKIP and any number of *)
(* changes, messages and crashes.                                          *)
(***************************************************************************)
EXTENDS Group, SequenceTheorems, TLAPS

(* The chains that have been generated so far.                             *)
Issued == {c \in Chains : c[2] # 0 /\ c[2] <= drawn[c[1]]}

(* A chain is generated by SenderChain::new and goes nowhere before: the   *)
(* next chain is in nobody's hands.  Each message names its sender's chain.*)
MineIssued ==
    \A p \in Peers : mine[p] = NoSender \/ (mine[p].chain \in Issued /\ mine[p].chain[1] = p)
HeldIssued == \A p \in Peers : \A b \in held[p] : b.chain \in Issued
WireIssued ==
    \A m \in net :
        /\ m.kind = "key" => m.bundle.chain \in Issued /\ m.bundle.chain[1] = m.from
        /\ m.kind = "message" => m.msg.chain \in Issued /\ m.msg.chain[1] = m.from
SentIssued == \A s \in sent : s.msg.chain \in Issued /\ s.msg.chain[1] = s.from
TheirsIssued ==
    \A p, q \in Peers : theirs[p][q] # NoReceiver =>
        theirs[p][q].chain \in Issued /\ theirs[p][q].chain[1] = q


(* Nothing is ahead of the chain it belongs to: bundles are no later than  *)
(* the sender's row, messages and what receivers expect come before it.    *)
HeldBehind ==
    \A p, x \in Peers : \A b \in held[x] :
        HasChain(p) /\ b.chain = mine[p].chain => b.index <= mine[p].index
WireBehind ==
    \A p \in Peers : \A m \in net : HasChain(p) =>
        /\ m.kind = "key" /\ m.bundle.chain = mine[p].chain => m.bundle.index <= mine[p].index
        /\ m.kind = "message" /\ m.msg.chain = mine[p].chain => m.msg.index < mine[p].index
SentBehind ==
    \A p \in Peers : \A s \in sent :
        HasChain(p) /\ s.msg.chain = mine[p].chain => s.msg.index < mine[p].index
TheirsBehind ==
    \A p, x \in Peers :
        HasChain(p) /\ theirs[x][p].chain = mine[p].chain => theirs[x][p].next <= mine[p].index

(* Only members hold the chain a node is going to seal with, unless a      *)
(* crash came before the rotation.                                         *)
HoldersAreMembers ==
    \A p, x \in Peers : \A b \in held[x] :
        HasChain(p) /\ mine[p].chain \notin unrotated /\ b.chain = mine[p].chain =>
            x \in members[p] \cup {p}

(* Every member holds it, unless it was drawn before the node had a group. *)
MembersAreHolders ==
    \A p \in Peers : HasChain(p) /\ mine[p].chain \notin orphans =>
        \A x \in members[p] \ {p} : \E b \in held[x] : b.chain = mine[p].chain

(* One CreateGroup per node, before anything else it knows of the group;   *)
(* none and no update for the founder.                                     *)
NothingBefore ==
    ~Created => \A p \in Peers : net = {} /\ heard[p] = <<>> /\ ~Known(p)
StrangersEmpty ==
    \A p \in Peers : ~Known(p) => members[p] = {} /\ (HasChain(p) => mine[p].chain \in orphans)
ControlsFit ==
    \A m \in net :
        /\ m.kind = "create" => /\ ~Known(m.to) /\ heard[m.to] = <<>>
                                /\ m.from = Founder /\ m.members = roster[1]
        /\ m.kind \in {"create", "update"} => m.to # Founder
        /\ m.kind = "leave" => m.from \in left

(* An update is the difference between two lists of the founder's.         *)
UpdatesDiffer ==
    \A m \in net : m.kind = "update" =>
        /\ m.epoch > 0 /\ m.epoch < Len(roster)
        /\ m.removed = {} \/ (m.added = {} /\ \E x \in Peers : m.removed = {x})
        /\ roster[m.epoch + 1] = (roster[m.epoch] \cup m.added) \ m.removed

Ordered(h) == \A i \in 1 .. Len(h) : h[i] = i

(* The founder's epoch is the last one, no node is ahead of it, and a node *)
(* that has heard every update in order is at the epoch of the last one.   *)
EpochsInRange == \A p \in Peers : Known(p) => epoch[p] < Len(roster)
FounderCurrent == Known(Founder) => epoch[Founder] + 1 = Len(roster) /\ Ordered(heard[Founder])
OrderedAgree ==
    \A p \in Peers : Known(p) /\ Ordered(heard[p]) =>
        epoch[p] = Len(heard[p]) /\ members[p] \ left = roster[epoch[p] + 1] \ left

SenderParts ==
    /\ MineIssued /\ HeldIssued /\ WireIssued /\ SentIssued
    /\ HeldBehind /\ WireBehind /\ SentBehind
    /\ HoldersAreMembers /\ MembersAreHolders /\ DepartedLockedOut /\ AudienceHasChain
ReceiverParts == TheirsIssued /\ TheirsBehind /\ InFlightOpens
ChainParts == SenderParts /\ ReceiverParts
RosterParts ==
    /\ NothingBefore /\ StrangersEmpty /\ ControlsFit /\ UpdatesDiffer
    /\ EpochsInRange /\ FounderCurrent /\ OrderedAgree

IndInv == TypeOK /\ ChainParts /\ RosterParts

-----------------------------------------------------------------------------
(* What the kind of a message says of its fields.                          *)
LEMMA MessageShapes ==
    ASSUME NEW m \in Messages
    PROVE  /\ m.from \in Peers /\ m.to \in Peers
           /\ m.kind \in {"create", "update", "key", "leave", "message"}
           /\ m.kind = "create" => m.members \in SUBSET Peers
           /\ m.kind = "update" => /\ m.added \in SUBSET Peers /\ m.removed \in SUBSET Peers
                                   /\ m.epoch \in Nat
           /\ m.kind = "key" => m.bundle \in Bundles /\ m.epoch \in Nat
           /\ m.kind = "message" => m.msg \in Bundles
  BY DEF Messages

LEMMA MessagesMade ==
    ASSUME NEW p \in Peers, NEW q \in Peers
    PROVE  /\ \A ms \in SUBSET Peers : CreateMsg(q, ms) \in Messages
           /\ \A a, r \in SUBSET Peers : \A e \in Nat : UpdateMsg(q, a, r, e) \in Messages
           /\ \A b \in Bundles : \A e \in Nat : KeyMsg(p, q, b, e) \in Messages
           /\ LeaveMsg(p, q) \in Messages
           /\ \A b \in Bundles : GroupMsg(p, q, b) \in Messages
  <1>1. \A ms \in SUBSET Peers : CreateMsg(q, ms) \in Messages
    BY GroupAssumption DEF CreateMsg, Messages
  <1>2. \A a, r \in SUBSET Peers : \A e \in Nat : UpdateMsg(q, a, r, e) \in Messages
    BY GroupAssumption DEF UpdateMsg, Messages
  <1>3. \A b \in Bundles : \A e \in Nat : KeyMsg(p, q, b, e) \in Messages
    BY DEF KeyMsg, Messages
  <1>4. LeaveMsg(p, q) \in Messages
    BY DEF LeaveMsg, Messages
  <1>5. \A b \in Bundles : GroupMsg(p, q, b) \in Messages
    BY DEF GroupMsg, Messages
  <1> QED
    BY <1>1, <1>2, <1>3, <1>4, <1>5

LEMMA NoChainRows ==
    /\ NoSender \in Bundles /\ NoSender.index = 0 /\ NoSender.chain = <<Founder, 0>>
    /\ NoReceiver \in [chain : Chains, next : Nat, skipped : SUBSET Nat]
    /\ NoReceiver.chain = <<Founder, 0>> /\ <<Founder, 0>> \notin Issued
  <1>1. <<Founder, 0>> \in Chains
    BY GroupAssumption DEF Chains
  <1>2. NoSender \in Bundles /\ NoSender.index = 0 /\ NoSender.chain = <<Founder, 0>>
    BY <1>1 DEF NoSender, NewSenderChain, Bundles
  <1>3. /\ NoReceiver \in [chain : Chains, next : Nat, skipped : SUBSET Nat]
        /\ NoReceiver.chain = <<Founder, 0>>
    BY <1>1, <1>2 DEF NoReceiver, FromBundle
  <1>4. <<Founder, 0>> \notin Issued
    BY DEF Issued
  <1> QED
    BY <1>2, <1>3, <1>4

(* SenderChain::new: the chain is new to everybody.                        *)
LEMMA FreshChain ==
    ASSUME TypeOK, NEW p \in Peers, drawn' = [drawn EXCEPT ![p] = @ + 1]
    PROVE  /\ Fresh(p) \in Chains /\ Fresh(p)[1] = p /\ Fresh(p) # <<Founder, 0>>
           /\ Fresh(p) \notin Issued /\ Fresh(p) \in Issued' /\ Issued \subseteq Issued'
           /\ drawn' \in [Peers -> Nat]
           /\ NewSenderChain(Fresh(p)) \in Bundles /\ NewSenderChain(Fresh(p)).chain = Fresh(p)
           /\ NewSenderChain(Fresh(p)).index = 0
  <1>1. drawn \in [Peers -> Nat]
    BY DEF TypeOK
  <1>2. Fresh(p) \in Chains /\ Fresh(p)[1] = p /\ Fresh(p)[2] = drawn[p] + 1
    BY <1>1 DEF Fresh, Chains
  <1>3. drawn' \in [Peers -> Nat] /\ drawn'[p] = drawn[p] + 1 /\ \A q \in Peers : drawn'[q] >= drawn[q]
    BY <1>1
  <1>4. \A c \in Chains : c[1] \in Peers /\ c[2] \in Nat
    BY DEF Chains
  <1>5. Fresh(p) \notin Issued
    BY <1>1, <1>2 DEF Issued
  <1>6. Fresh(p) \in Issued'
    BY <1>1, <1>2, <1>3 DEF Issued
  <1>7. Issued \subseteq Issued'
    BY <1>1, <1>3, <1>4 DEF Issued
  <1>8. /\ NewSenderChain(Fresh(p)) \in Bundles /\ NewSenderChain(Fresh(p)).chain = Fresh(p)
        /\ NewSenderChain(Fresh(p)).index = 0
    BY <1>2 DEF NewSenderChain, Bundles
  <1>9. Fresh(p) # <<Founder, 0>>
    BY <1>1 DEF Fresh
  <1> QED
    BY <1>2, <1>3, <1>5, <1>6, <1>7, <1>8, <1>9

-----------------------------------------------------------------------------
(* A handler writes nothing to the wire but control messages before it     *)
(* hands out chains, and forgets receiving chains at most.                 *)
NoNewChains(out) == \A m \in out : m.kind \in {"key", "message"} => m \in net
OnlyForgets == \A x, q \in Peers : theirs'[x][q] \in {theirs[x][q], NoReceiver}

(* Then a message on its way opens as it did.                              *)
LEMMA InFlightStays ==
    ASSUME IndInv, OnlyForgets, base' = base,
           \A m \in net' : m.kind = "message" => m \in net
    PROVE  InFlightOpens'
  <1> SUFFICES ASSUME NEW m \in net', m.kind = "message",
                      theirs'[m.to][m.from].chain = m.msg.chain,
                      base[m.to][m.from] <= m.msg.index
               PROVE  \/ Decrypts(theirs'[m.to][m.from], m.msg)
                      \/ /\ m.msg.index >= theirs'[m.to][m.from].next
                         /\ TooManySkipped(theirs'[m.to][m.from], m.msg)
    BY DEF InFlightOpens, Decrypts, TooManySkipped, Verifies
  <1>1. m \in net /\ m.from \in Peers /\ m.to \in Peers
    BY MessageShapes DEF IndInv, TypeOK
  <1>2. m.msg.chain \in Issued
    BY <1>1 DEF IndInv, ChainParts, SenderParts, WireIssued
  <1>3. theirs'[m.to][m.from] = theirs[m.to][m.from]
    BY <1>1, <1>2, NoChainRows DEF OnlyForgets
  <1> QED
    BY <1>1, <1>3 DEF IndInv, ChainParts, ReceiverParts, InFlightOpens

(* rotate_my_sender_chain_and_broadcast, with the member list it works on. *)
LEMMA RotateKeepsChains ==
    ASSUME IndInv, NEW p \in Peers, NEW ms \in SUBSET Peers, NEW e, NEW out,
           Rotate(p, ms, e, out), NoNewChains(out), OnlyForgets,
           members' = [members EXCEPT ![p] = ms],
           UNCHANGED <<base, sent, unrotated>>
    PROVE  ChainParts'
  <1> USE DEF IndInv, ChainParts, SenderParts, ReceiverParts
  <1> DEFINE c == Fresh(p)
             b == CurrentBundle(NewSenderChain(c))
  <1>1. /\ c \in Chains /\ c[1] = p /\ c \notin Issued /\ c \in Issued' /\ Issued \subseteq Issued'
        /\ b.chain = c /\ b.index = 0 /\ b = NewSenderChain(c) /\ c # <<Founder, 0>>
    BY FreshChain DEF Rotate, CurrentBundle, NewSenderChain
  <1>2. /\ mine' = [mine EXCEPT ![p] = b] /\ held' = Handed(ms \ {p}, b)
        /\ orphans \subseteq orphans'
        /\ net' = out \cup {KeyMsg(p, q, b, e) : q \in ms \ {p}}
    BY <1>1 DEF Rotate
  <1> HIDE DEF b, c
  <1>3. /\ mine'[p] = b /\ \A r \in Peers : r # p => mine'[r] = mine[r]
        /\ members'[p] = ms /\ \A r \in Peers : r # p => members'[r] = members[r]
    BY <1>2 DEF TypeOK
  <1>4. \A q \in Peers : /\ \A d \in held'[q] : d \in held[q] \/ (d = b /\ q \in ms \ {p})
                         /\ held[q] \subseteq held'[q] /\ (q \in ms \ {p} => b \in held'[q])
    BY <1>2 DEF Handed
  <1>5. \A m \in net' : m.kind \in {"key", "message"} =>
            m \in net \/ (m.kind = "key" /\ m.bundle = b /\ m.from = p)
    BY <1>2 DEF NoNewChains, KeyMsg
  <1>6. \A q \in Peers : \A d \in held[q] : d.chain # c
    BY <1>1 DEF HeldIssued
  <1>7. \A s \in sent : s.msg.chain # c
    BY <1>1 DEF SentIssued
  <1>8. \A x, q \in Peers : theirs'[x][q].chain # c /\ (theirs'[x][q] # NoReceiver => theirs'[x][q] = theirs[x][q])
    BY <1>1, NoChainRows DEF TheirsIssued, OnlyForgets
  <1>9. \A r \in Peers : mine[r] # NoSender => mine[r].chain # c
    BY <1>1 DEF MineIssued
  <1>10. MineIssued' /\ HeldIssued' /\ WireIssued' /\ TheirsIssued' /\ SentIssued'
    <2>1. MineIssued'
      BY <1>1, <1>3 DEF MineIssued
    <2>2. HeldIssued'
      BY <1>1, <1>4 DEF HeldIssued
    <2>3. WireIssued'
      BY <1>1, <1>5 DEF WireIssued
    <2>4. TheirsIssued'
      BY <1>1, <1>8 DEF TheirsIssued
    <2>5. SentIssued'
      BY <1>1 DEF SentIssued
    <2> QED
      BY <2>1, <2>2, <2>3, <2>4, <2>5
  <1>11. HeldBehind'
    <2> SUFFICES ASSUME NEW r \in Peers, NEW x \in Peers, NEW d \in held'[x],
                        mine'[r] # NoSender, d.chain = mine'[r].chain
                 PROVE  d.index <= mine'[r].index
      BY DEF HeldBehind, HasChain
    <2>1. CASE r = p
      BY <1>1, <1>3, <1>4, <1>6, <2>1
    <2>2. CASE r # p
      BY <1>1, <1>3, <1>4, <1>9, <2>2 DEF HeldBehind, HasChain
    <2> QED
      BY <2>1, <2>2
  <1>12. WireBehind'
    <2> SUFFICES ASSUME NEW r \in Peers, NEW m \in net', mine'[r] # NoSender
                 PROVE  /\ m.kind = "key" /\ m.bundle.chain = mine'[r].chain =>
                            m.bundle.index <= mine'[r].index
                        /\ m.kind = "message" /\ m.msg.chain = mine'[r].chain =>
                            m.msg.index < mine'[r].index
      BY DEF WireBehind, HasChain
    <2>1. CASE r = p
      BY <1>1, <1>3, <1>5, <2>1 DEF WireIssued
    <2>2. CASE r # p
      BY <1>1, <1>3, <1>5, <1>9, <2>2 DEF WireBehind, HasChain
    <2> QED
      BY <2>1, <2>2
  <1>13. SentBehind'
    BY <1>1, <1>3, <1>7 DEF SentBehind, HasChain
  <1>14. TheirsBehind'
    <2> SUFFICES ASSUME NEW r \in Peers, NEW x \in Peers, mine'[r] # NoSender,
                        theirs'[x][r].chain = mine'[r].chain
                 PROVE  theirs'[x][r].next <= mine'[r].index
      BY DEF TheirsBehind, HasChain
    <2>1. r # p
      BY <1>1, <1>3, <1>8
    <2>2. theirs'[x][r] = theirs[x][r]
      BY <1>3, <1>8, <2>1, NoChainRows DEF MineIssued
    <2> QED
      BY <1>3, <2>1, <2>2 DEF TheirsBehind, HasChain
  <1>15. HoldersAreMembers'
    <2> SUFFICES ASSUME NEW r \in Peers, mine'[r] # NoSender, mine'[r].chain \notin unrotated,
                        NEW x \in Peers, NEW d \in held'[x], d.chain = mine'[r].chain
                 PROVE  x \in members'[r] \cup {r}
      BY DEF HoldersAreMembers, HasChain
    <2>1. CASE r = p
      BY <1>1, <1>3, <1>4, <1>6, <2>1
    <2>2. CASE r # p
      BY <1>1, <1>3, <1>4, <1>9, <2>2 DEF HoldersAreMembers, HasChain
    <2> QED
      BY <2>1, <2>2
  <1>16. MembersAreHolders'
    <2> SUFFICES ASSUME NEW r \in Peers, mine'[r] # NoSender, mine'[r].chain \notin orphans',
                        NEW x \in members'[r] \ {r}
                 PROVE  \E d \in held'[x] : d.chain = mine'[r].chain
      BY DEF MembersAreHolders, HasChain
    <2>1. CASE r = p
      BY <1>1, <1>3, <1>4, <2>1
    <2>2. CASE r # p
      <3>1. x \in members[r] \ {r} /\ x \in Peers
        BY <1>3, <2>2 DEF TypeOK
      <3>2. \E d \in held[x] : d.chain = mine[r].chain
        BY <1>2, <1>3, <2>2, <3>1 DEF MembersAreHolders, HasChain
      <3> QED
        BY <1>3, <1>4, <2>2, <3>1, <3>2
    <2> QED
      BY <2>1, <2>2
  <1>17. \A x \in Peers : \A s \in sent : CanRead(x, s.msg)' <=> CanRead(x, s.msg)
    BY <1>1, <1>4, <1>7 DEF CanRead
  <1>18. DepartedLockedOut'
    BY <1>17 DEF DepartedLockedOut
  <1>19. AudienceHasChain'
    <2>1. \A s \in sent : s.audience \subseteq Peers
      BY DEF TypeOK
    <2> QED
      BY <1>2, <1>17, <2>1 DEF AudienceHasChain
  <1>20. InFlightOpens'
    BY <1>5, InFlightStays
  <1> QED
    BY <1>10, <1>11, <1>12, <1>13, <1>14, <1>15, <1>16, <1>18, <1>19, <1>20

(* Every other step of a sender goes on with the chains there are: p may   *)
(* hand its chain to more peers, a node may forget its chain, and a member *)
(* goes only when a crash has been counted or the chain is forgotten.      *)
LEMMA OldChainsKeepSender ==
    ASSUME IndInv, NEW p \in Peers, NEW to \in SUBSET Peers, to = {} \/ HasChain(p),
           UNCHANGED <<drawn, sent, orphans>>, unrotated \subseteq unrotated',
           \A r \in Peers : mine'[r] \in {mine[r], NoSender},
           \A q \in Peers : held'[q] = held[q] \cup (IF q \in to THEN {mine[p]} ELSE {}),
           \A m \in net' : m.kind \in {"key", "message"} =>
                m \in net \/ (m.kind = "key" /\ to # {} /\ m.bundle = mine[p] /\ m.from = p),
           to \subseteq members'[p] \cup {p},
           \A r \in Peers : mine'[r] # NoSender /\ mine'[r].chain \notin unrotated' =>
                members[r] \subseteq members'[r],
           \A r \in Peers : mine'[r] # NoSender /\ mine'[r].chain \notin orphans =>
                members'[r] \subseteq members[r] \cup {r} \cup (IF r = p THEN to ELSE {})
    PROVE  SenderParts'
  <1> USE DEF IndInv, ChainParts, SenderParts
  <1>1. Issued' = Issued
    BY DEF Issued, Chains
  <1>2. /\ mine \in [Peers -> Bundles] /\ members \in [Peers -> SUBSET Peers]
        /\ \A r \in Peers : mine[r].index \in Nat
    BY DEF TypeOK, Bundles
  <1>3. to # {} => mine[p].chain \in Issued /\ mine[p].chain[1] = p
    BY DEF MineIssued, HasChain
  <1>4. \A r \in Peers : mine'[r] # NoSender => mine'[r] = mine[r] /\ HasChain(r)
    BY DEF HasChain
  <1>5. \A q \in Peers : /\ \A d \in held'[q] : d \in held[q] \/ (d = mine[p] /\ q \in to)
                         /\ held[q] \subseteq held'[q] /\ (q \in to => mine[p] \in held'[q])
    OBVIOUS
  <1>6. MineIssued' /\ HeldIssued' /\ WireIssued' /\ SentIssued'
    <2>1. MineIssued'
      BY <1>1 DEF MineIssued
    <2>2. HeldIssued'
      BY <1>1, <1>3, <1>5 DEF HeldIssued
    <2>3. WireIssued'
      BY <1>1, <1>3 DEF WireIssued
    <2>4. SentIssued'
      BY <1>1 DEF SentIssued
    <2> QED
      BY <2>1, <2>2, <2>3, <2>4
  <1>7. \A r \in Peers : HasChain(r) /\ to # {} /\ mine[r].chain = mine[p].chain => r = p
    BY <1>3 DEF MineIssued, HasChain
  <1>8. HeldBehind'
    <2> SUFFICES ASSUME NEW r \in Peers, NEW x \in Peers, NEW d \in held'[x],
                        mine'[r] # NoSender, d.chain = mine'[r].chain
                 PROVE  d.index <= mine'[r].index
      BY DEF HeldBehind, HasChain
    <2>1. CASE d \in held[x]
      BY <1>4, <2>1 DEF HeldBehind
    <2>2. CASE d = mine[p] /\ x \in to
      BY <1>2, <1>4, <1>7, <2>2
    <2> QED
      BY <1>5, <2>1, <2>2
  <1>9. WireBehind'
    <2> SUFFICES ASSUME NEW r \in Peers, NEW m \in net', mine'[r] # NoSender
                 PROVE  /\ m.kind = "key" /\ m.bundle.chain = mine'[r].chain =>
                            m.bundle.index <= mine'[r].index
                        /\ m.kind = "message" /\ m.msg.chain = mine'[r].chain =>
                            m.msg.index < mine'[r].index
      BY DEF WireBehind, HasChain
    <2>1. CASE m \in net
      BY <1>4, <2>1 DEF WireBehind
    <2>2. CASE m.kind = "key" /\ to # {} /\ m.bundle = mine[p]
      BY <1>2, <1>4, <1>7, <2>2
    <2> QED
      BY <2>1, <2>2
  <1>10. SentBehind'
    BY <1>4 DEF SentBehind, HasChain
  <1>11. HoldersAreMembers'
    <2> SUFFICES ASSUME NEW r \in Peers, mine'[r] # NoSender, mine'[r].chain \notin unrotated',
                        NEW x \in Peers, NEW d \in held'[x], d.chain = mine'[r].chain
                 PROVE  x \in members'[r] \cup {r}
      BY DEF HoldersAreMembers, HasChain
    <2>1. CASE d \in held[x]
      <3>1. x \in members[r] \cup {r}
        BY <1>4, <2>1 DEF HoldersAreMembers
      <3> QED
        BY <3>1
    <2>2. CASE d = mine[p] /\ x \in to
      BY <1>4, <1>7, <2>2
    <2> QED
      BY <1>5, <2>1, <2>2
  <1>12. MembersAreHolders'
    <2> SUFFICES ASSUME NEW r \in Peers, mine'[r] # NoSender, mine'[r].chain \notin orphans,
                        NEW x \in members'[r] \ {r}
                 PROVE  \E d \in held'[x] : d.chain = mine'[r].chain
      BY DEF MembersAreHolders, HasChain
    <2>1. CASE x \in members[r]
      <3>1. x \in Peers /\ \E d \in held[x] : d.chain = mine[r].chain
        BY <1>2, <1>4, <2>1 DEF MembersAreHolders
      <3> QED
        BY <1>4, <1>5, <3>1
    <2>2. CASE r = p /\ x \in to
      BY <1>4, <1>5, <2>2
    <2> QED
      BY <2>1, <2>2
  <1>13. \A x \in Peers : \A s \in sent : CanRead(x, s.msg)' <=> CanRead(x, s.msg)
    <2> SUFFICES ASSUME NEW x \in Peers, NEW s \in sent,
                        NEW d \in held'[x], d.chain = s.msg.chain, d.index <= s.msg.index
                 PROVE  d \in held[x]
      BY <1>5 DEF CanRead
    <2>1. s.msg.index \in Nat
      BY DEF TypeOK, Bundles
    <2>2. CASE d = mine[p] /\ x \in to
      BY <1>2, <2>1, <2>2 DEF SentBehind
    <2> QED
      BY <1>5, <2>2
  <1>14. DepartedLockedOut'
    BY <1>13 DEF DepartedLockedOut
  <1>15. AudienceHasChain'
    <2>1. \A s \in sent : s.audience \subseteq Peers
      BY DEF TypeOK
    <2> QED
      BY <1>13, <2>1 DEF AudienceHasChain
  <1> QED
    BY <1>6, <1>8, <1>9, <1>10, <1>11, <1>12, <1>14, <1>15

LEMMA OldChainsKeepReceivers ==
    ASSUME IndInv, UNCHANGED <<drawn, base>>, OnlyForgets,
           \A r \in Peers : mine'[r] \in {mine[r], NoSender},
           \A m \in net' : m.kind = "message" => m \in net
    PROVE  ReceiverParts'
  <1> USE DEF IndInv, ChainParts, ReceiverParts
  <1>1. Issued' = Issued
    BY DEF Issued, Chains
  <1>2. TheirsIssued'
    BY <1>1 DEF TheirsIssued, OnlyForgets
  <1>3. TheirsBehind'
    <2> SUFFICES ASSUME NEW r \in Peers, NEW x \in Peers, mine'[r] # NoSender,
                        theirs'[x][r].chain = mine'[r].chain
                 PROVE  theirs'[x][r].next <= mine'[r].index
      BY DEF TheirsBehind, HasChain
    <2>1. mine'[r] = mine[r] /\ mine[r].chain \in Issued
      BY DEF SenderParts, MineIssued
    <2>2. theirs'[x][r] = theirs[x][r]
      BY <2>1, NoChainRows DEF OnlyForgets
    <2> QED
      BY <2>1, <2>2 DEF TheirsBehind, HasChain
  <1> QED
    BY <1>2, <1>3, InFlightStays

-----------------------------------------------------------------------------
(* group_send: what it seals with is held by exactly the members, and is   *)
(* ahead of everything sealed, handed out or expected before.              *)
LEMMA GroupSendKeepsChains ==
    ASSUME IndInv, NEW p \in Peers, GroupSend(p)
    PROVE  ChainParts'
  <1> USE DEF IndInv, ChainParts, SenderParts, ReceiverParts
  <1> DEFINE fresh == ~HasChain(p)
             ck == IF fresh THEN NewSenderChain(Fresh(p)) ELSE mine[p]
             to == members[p] \ {p}
             b == CurrentBundle(ck)
             sn == [msg |-> Sealed(ck), from |-> p, audience |-> to]
  <1>1. /\ mine' = [mine EXCEPT ![p] = AfterEncrypt(ck)]
        /\ drawn' = IF fresh THEN [drawn EXCEPT ![p] = @ + 1] ELSE drawn
        /\ held' = IF fresh THEN Handed(to, b) ELSE held
        /\ net' = net \cup {GroupMsg(p, q, Sealed(ck)) : q \in to}
                      \cup {KeyMsg(p, q, b, epoch[p]) : q \in IF fresh THEN to ELSE {}}
        /\ sent' = sent \cup {sn}
        /\ UNCHANGED <<members, theirs, base, orphans, unrotated>>
    BY DEF GroupSend
  <1>2. /\ mine \in [Peers -> Bundles] /\ held \in [Peers -> SUBSET Bundles]
        /\ members \in [Peers -> SUBSET Peers] /\ drawn \in [Peers -> Nat]
        /\ theirs \in [Peers -> [Peers -> [chain : Chains, next : Nat, skipped : SUBSET Nat]]]
    BY DEF TypeOK
  <1>3. /\ ck \in Bundles /\ ck.chain \in Issued' /\ ck.chain[1] = p /\ ck.chain # <<Founder, 0>>
        /\ Issued \subseteq Issued'
        /\ fresh => ck.chain \notin Issued /\ ck.index = 0
        /\ ~fresh => ck = mine[p] /\ ck.chain \in Issued
    <2>1. CASE fresh
      BY <1>1, <2>1, FreshChain
    <2>2. CASE ~fresh
      <3>1. Issued' = Issued
        BY <1>1, <2>2 DEF Issued, Chains
      <3> QED
        BY <1>2, <2>2, <3>1, NoChainRows DEF MineIssued, HasChain
    <2> QED
      BY <2>1, <2>2
  <1>4. b = Sealed(ck) /\ b.chain = ck.chain /\ b.index = ck.index /\ ck.index \in Nat /\ b \in Bundles
    BY <1>3 DEF CurrentBundle, Sealed, Bundles
  <1>5. /\ mine'[p].chain = ck.chain /\ mine'[p].index = ck.index + 1 /\ mine'[p] # NoSender
        /\ \A r \in Peers : r # p => mine'[r] = mine[r]
    BY <1>1, <1>2, <1>3, NoChainRows DEF AfterEncrypt, Bundles
  <1>6. /\ sn.msg = b /\ sn.from = p /\ sn.audience = to /\ to \subseteq Peers
    BY <1>2, <1>4
  <1> HIDE DEF fresh, ck, b, sn, to
  <1>7. \A q \in Peers : /\ \A d \in held'[q] : d \in held[q] \/ (fresh /\ d = b /\ q \in to)
                         /\ held[q] \subseteq held'[q] /\ (fresh /\ q \in to => b \in held'[q])
    BY <1>1 DEF Handed
  <1>8. \A m \in net' :
            \/ m \in net
            \/ m.kind = "message" /\ m.from = p /\ m.msg = b /\ m.to \in to
            \/ m.kind = "key" /\ m.from = p /\ m.bundle = b /\ m.to \in to
    BY <1>1, <1>4 DEF GroupMsg, KeyMsg
  <1>9. \A r \in Peers : r # p /\ mine[r] # NoSender => mine[r].chain # ck.chain
    BY <1>3 DEF MineIssued
  <1>10. \A x \in Peers : \A d \in held[x] : d.chain = ck.chain => ~fresh /\ d.index <= ck.index
    BY <1>3 DEF HeldIssued, HeldBehind, HasChain, fresh
  <1>11. \A s \in sent : s.msg.chain = ck.chain => ~fresh /\ s.msg.index < ck.index
    BY <1>3 DEF SentIssued, SentBehind, HasChain, fresh
  <1>12. \A x \in Peers : theirs[x][p].chain = ck.chain => theirs[x][p].next <= ck.index
    BY <1>3, NoChainRows DEF TheirsIssued, TheirsBehind, HasChain, fresh
  <1>13. MineIssued' /\ HeldIssued' /\ WireIssued' /\ SentIssued' /\ TheirsIssued'
    <2>1. MineIssued'
      BY <1>3, <1>5 DEF MineIssued
    <2>2. HeldIssued'
      BY <1>3, <1>4, <1>7 DEF HeldIssued
    <2>3. WireIssued'
      BY <1>3, <1>4, <1>8 DEF WireIssued
    <2>4. SentIssued'
      BY <1>1, <1>3, <1>4, <1>6 DEF SentIssued
    <2>5. TheirsIssued'
      BY <1>1, <1>3 DEF TheirsIssued
    <2> QED
      BY <2>1, <2>2, <2>3, <2>4, <2>5
  <1>14. HeldBehind'
    <2> SUFFICES ASSUME NEW r \in Peers, NEW x \in Peers, NEW d \in held'[x],
                        mine'[r] # NoSender, d.chain = mine'[r].chain
                 PROVE  d.index <= mine'[r].index
      BY DEF HeldBehind, HasChain
    <2>1. CASE r = p
      <3>1. d.index <= ck.index /\ d.index \in Nat
        BY <1>2, <1>4, <1>5, <1>7, <1>10, <2>1 DEF Bundles
      <3> QED
        BY <1>4, <1>5, <2>1, <3>1
    <2>2. CASE r # p
      BY <1>4, <1>5, <1>7, <1>9, <2>2 DEF HeldBehind, HasChain
    <2> QED
      BY <2>1, <2>2
  <1>15. WireBehind'
    <2> SUFFICES ASSUME NEW r \in Peers, NEW m \in net', mine'[r] # NoSender
                 PROVE  /\ m.kind = "key" /\ m.bundle.chain = mine'[r].chain =>
                            m.bundle.index <= mine'[r].index
                        /\ m.kind = "message" /\ m.msg.chain = mine'[r].chain =>
                            m.msg.index < mine'[r].index
      BY DEF WireBehind, HasChain
    <2>1. CASE r # p
      BY <1>4, <1>5, <1>8, <1>9, <2>1 DEF WireBehind, HasChain
    <2>2. CASE r = p /\ m \in net
      <3>1. m.kind = "key" => m.bundle.index \in Nat
        BY <2>2, MessageShapes DEF TypeOK, Bundles
      <3>2. m.kind = "message" => m.msg.index \in Nat
        BY <2>2, MessageShapes DEF TypeOK, Bundles
      <3>3. CASE fresh
        BY <1>3, <1>5, <2>2, <3>3 DEF WireIssued
      <3>4. CASE ~fresh
        <4>1. /\ m.kind = "key" /\ m.bundle.chain = ck.chain => m.bundle.index <= ck.index
              /\ m.kind = "message" /\ m.msg.chain = ck.chain => m.msg.index < ck.index
          BY <1>3, <2>2, <3>4 DEF WireBehind, HasChain, fresh
        <4> QED
          BY <1>4, <1>5, <2>2, <3>1, <3>2, <4>1
      <3> QED
        BY <3>3, <3>4
    <2>3. CASE r = p /\ m \notin net
      BY <1>4, <1>5, <1>8, <2>3
    <2> QED
      BY <2>1, <2>2, <2>3
  <1>16. SentBehind'
    <2> SUFFICES ASSUME NEW r \in Peers, NEW s \in sent', mine'[r] # NoSender,
                        s.msg.chain = mine'[r].chain
                 PROVE  s.msg.index < mine'[r].index
      BY DEF SentBehind, HasChain
    <2>1. CASE r # p
      BY <1>1, <1>4, <1>5, <1>6, <1>9, <2>1 DEF SentBehind, HasChain
    <2>2. CASE r = p /\ s \in sent
      <3>1. s.msg.index \in Nat /\ s.msg.index < ck.index
        BY <1>5, <1>11, <2>2 DEF TypeOK, Bundles
      <3> QED
        BY <1>4, <1>5, <2>2, <3>1
    <2>3. CASE r = p /\ s = sn
      BY <1>4, <1>5, <1>6, <2>3
    <2> QED
      BY <1>1, <2>1, <2>2, <2>3
  <1>17. TheirsBehind'
    <2> SUFFICES ASSUME NEW r \in Peers, NEW x \in Peers, mine'[r] # NoSender,
                        theirs[x][r].chain = mine'[r].chain
                 PROVE  theirs[x][r].next <= mine'[r].index
      BY <1>1 DEF TheirsBehind, HasChain
    <2>1. theirs[x][r].next \in Nat
      BY <1>2
    <2>2. CASE r = p
      BY <1>4, <1>5, <1>12, <2>1, <2>2
    <2>3. CASE r # p
      BY <1>5, <2>3 DEF TheirsBehind, HasChain
    <2> QED
      BY <2>2, <2>3
  <1>18. HoldersAreMembers'
    <2> SUFFICES ASSUME NEW r \in Peers, mine'[r] # NoSender, mine'[r].chain \notin unrotated,
                        NEW x \in Peers, NEW d \in held'[x], d.chain = mine'[r].chain
                 PROVE  x \in members[r] \cup {r}
      BY <1>1 DEF HoldersAreMembers, HasChain
    <2>1. CASE r = p
      BY <1>3, <1>5, <1>7, <1>10, <2>1 DEF HoldersAreMembers, HasChain, fresh, to
    <2>2. CASE r # p
      BY <1>4, <1>5, <1>7, <1>9, <2>2 DEF HoldersAreMembers, HasChain
    <2> QED
      BY <2>1, <2>2
  <1>19. MembersAreHolders'
    <2> SUFFICES ASSUME NEW r \in Peers, mine'[r] # NoSender, mine'[r].chain \notin orphans,
                        NEW x \in members[r] \ {r}
                 PROVE  \E d \in held'[x] : d.chain = mine'[r].chain
      BY <1>1 DEF MembersAreHolders, HasChain
    <2>1. x \in Peers
      BY <1>2
    <2>2. CASE r = p /\ fresh
      BY <1>4, <1>5, <1>7, <2>1, <2>2 DEF to
    <2>3. CASE ~(r = p /\ fresh)
      <3>1. mine'[r].chain = mine[r].chain /\ mine[r] # NoSender
        BY <1>3, <1>5, <2>3 DEF HasChain, fresh
      <3>2. \E d \in held[x] : d.chain = mine[r].chain
        BY <3>1 DEF MembersAreHolders, HasChain
      <3> QED
        BY <1>7, <2>1, <3>1, <3>2
    <2> QED
      BY <2>2, <2>3
  <1>20. \A x \in Peers : \A s \in sent : CanRead(x, s.msg)' <=> CanRead(x, s.msg)
    BY <1>4, <1>7, <1>11 DEF CanRead
  <1>21. DepartedLockedOut'
    <2>1. ASSUME NEW x \in Peers, x \notin to, x # p, ck.chain \notin unrotated
          PROVE  \A d \in held'[x] : d.chain # b.chain
      BY <1>3, <1>4, <1>6, <1>7, <1>10, <2>1
         DEF CanRead, HoldersAreMembers, HasChain, fresh, to
    <2>2. \A s \in sent : \A x \in Peers \ (s.audience \cup {s.from}) :
            s.msg.chain \notin unrotated => ~CanRead(x, s.msg)'
      BY <1>20 DEF DepartedLockedOut
    <2> QED
      BY <1>1, <1>4, <1>6, <2>1, <2>2 DEF DepartedLockedOut, CanRead
  <1>22. AudienceHasChain'
    <2>1. ASSUME NEW q \in to, ck.chain \notin orphans
          PROVE  \E d \in held'[q] : d.chain = b.chain /\ d.index <= b.index
      <3>1. q \in Peers
        BY <1>6
      <3>2. CASE fresh
        BY <1>4, <1>7, <3>1, <3>2
      <3>3. CASE ~fresh
        <4>1. \E d \in held[q] : d.chain = ck.chain /\ d.index <= ck.index
          BY <1>3, <1>10, <2>1, <3>1, <3>3 DEF MembersAreHolders, HasChain, fresh, to
        <4> QED
          BY <1>4, <1>7, <3>1, <4>1
      <3> QED
        BY <3>2, <3>3
    <2>2. \A s \in sent : s.msg.chain \notin orphans => \A q \in s.audience : CanRead(q, s.msg)'
      <3>1. \A s \in sent : s.audience \subseteq Peers
        BY DEF TypeOK
      <3> QED
        BY <1>20, <3>1 DEF AudienceHasChain
    <2> QED
      BY <1>1, <1>4, <1>6, <2>1, <2>2 DEF AudienceHasChain, CanRead
  <1>23. InFlightOpens'
    <2> SUFFICES ASSUME NEW m \in net', m.kind = "message",
                        theirs[m.to][m.from].chain = m.msg.chain,
                        base[m.to][m.from] <= m.msg.index
                 PROVE  \/ Decrypts(theirs[m.to][m.from], m.msg)
                        \/ /\ m.msg.index >= theirs[m.to][m.from].next
                           /\ TooManySkipped(theirs[m.to][m.from], m.msg)
      BY <1>1 DEF InFlightOpens, Decrypts, TooManySkipped, Verifies
    <2>1. CASE m \in net
      BY <2>1 DEF InFlightOpens
    <2>2. CASE m.from = p /\ m.msg = b /\ m.to \in to
      <3>1. m.msg.index >= theirs[m.to][m.from].next
        BY <1>2, <1>4, <1>6, <1>12, <2>2
      <3> QED
        BY <3>1 DEF Decrypts, Verifies
    <2> QED
      BY <1>8, <2>1, <2>2
  <1> QED
    BY <1>13, <1>14, <1>15, <1>16, <1>17, <1>18, <1>19, <1>21, <1>22, <1>23

-----------------------------------------------------------------------------
(* Steps that change nothing a sender reads or writes.                     *)
LEMMA SenderIdle ==
    ASSUME IndInv, UNCHANGED <<drawn, sent, orphans, unrotated, mine, held, members>>,
           net' \subseteq net
    PROVE  SenderParts'
  <1> DEFINE to == {}
  <1>1. Founder \in Peers /\ to \in SUBSET Peers /\ to \subseteq members'[Founder] \cup {Founder}
    BY GroupAssumption
  <1>2. \A q \in Peers : held'[q] = held[q] \cup (IF q \in to THEN {mine[Founder]} ELSE {})
    OBVIOUS
  <1>3. /\ \A r \in Peers : mine'[r] \in {mine[r], NoSender}
        /\ \A r \in Peers : members[r] \subseteq members'[r]
        /\ \A r \in Peers : members'[r] \subseteq members[r] \cup {r} \cup (IF r = Founder THEN to ELSE {})
        /\ unrotated \subseteq unrotated' /\ \A m \in net' : m \in net
    OBVIOUS
  <1>4. to = {}
    OBVIOUS
  <1> HIDE DEF to
  <1> QED
    BY <1>1, <1>2, <1>3, <1>4, OldChainsKeepSender

(* SenderKeyDistribution: an installed bundle is where the walk starts.    *)
LEMMA ReceiveKeyKeepsChains ==
    ASSUME IndInv, NEW m \in net, ReceiveKey(m)
    PROVE  ChainParts'
  <1> USE DEF IndInv, ChainParts, ReceiverParts
  <1>1. SenderParts'
    BY SenderIdle DEF ReceiveKey
  <1>2. m.from \in Peers /\ m.to \in Peers /\ m.bundle \in Bundles /\ m.kind = "key"
    BY MessageShapes DEF ReceiveKey, TypeOK
  <1>3. Issued' = Issued
    BY DEF ReceiveKey, Issued, Chains
  <1>4. /\ theirs \in [Peers -> [Peers -> [chain : Chains, next : Nat, skipped : SUBSET Nat]]]
        /\ base \in [Peers -> [Peers -> Nat]]
    BY DEF TypeOK
  <1>5. CASE m.from \notin members[m.to]
    <2>1. UNCHANGED <<theirs, base, mine, drawn>> /\ net' \subseteq net
      BY <1>5 DEF ReceiveKey
    <2>2. OnlyForgets /\ \A r \in Peers : mine'[r] \in {mine[r], NoSender}
      BY <2>1 DEF OnlyForgets
    <2> QED
      BY <1>1, <2>1, <2>2, OldChainsKeepReceivers
  <1>6. CASE m.from \in members[m.to]
    <2> DEFINE n == FromBundle(m.bundle)
    <2>1. n.chain = m.bundle.chain /\ n.next = m.bundle.index
      BY DEF FromBundle
    <2>2. /\ theirs' = [theirs EXCEPT ![m.to][m.from] = n]
          /\ base' = [base EXCEPT ![m.to][m.from] = m.bundle.index]
          /\ mine' = mine /\ net' \subseteq net
      BY <1>6 DEF ReceiveKey
    <2> HIDE DEF n
    <2>3. \A x, q \in Peers :
            \/ x = m.to /\ q = m.from /\ theirs'[x][q] = n /\ base'[x][q] = m.bundle.index
            \/ theirs'[x][q] = theirs[x][q] /\ base'[x][q] = base[x][q]
      BY <1>2, <1>4, <2>2
    <2>4. TheirsIssued'
      BY <1>2, <1>3, <2>1, <2>3 DEF TheirsIssued, SenderParts, WireIssued
    <2>5. TheirsBehind'
      BY <1>2, <2>1, <2>2, <2>3 DEF TheirsBehind, SenderParts, WireBehind, HasChain
    <2>6. InFlightOpens'
      <3> SUFFICES ASSUME NEW k \in net', k.kind = "message",
                          theirs'[k.to][k.from].chain = k.msg.chain,
                          base'[k.to][k.from] <= k.msg.index
                   PROVE  \/ Decrypts(theirs'[k.to][k.from], k.msg)
                          \/ /\ k.msg.index >= theirs'[k.to][k.from].next
                             /\ TooManySkipped(theirs'[k.to][k.from], k.msg)
        BY DEF InFlightOpens, Decrypts, TooManySkipped, Verifies
      <3>1. k \in net /\ k.from \in Peers /\ k.to \in Peers /\ k.msg.index \in Nat
        BY <2>2, MessageShapes DEF TypeOK, Bundles
      <3>2. CASE theirs'[k.to][k.from] = n /\ base'[k.to][k.from] = m.bundle.index
        BY <1>2, <2>1, <3>1, <3>2 DEF Decrypts, Verifies, Bundles
      <3>3. CASE theirs'[k.to][k.from] = theirs[k.to][k.from] /\ base'[k.to][k.from] = base[k.to][k.from]
        BY <3>1, <3>3 DEF InFlightOpens
      <3> QED
        BY <2>3, <3>1, <3>2, <3>3
    <2> QED
      BY <1>1, <2>4, <2>5, <2>6
  <1> QED
    BY <1>5, <1>6

(* process_group_message: each key is used once, and the keys of messages  *)
(* still on their way are kept.                                            *)
LEMMA ReceiveMessageKeepsChains ==
    ASSUME IndInv, NEW m \in net, ReceiveMessage(m)
    PROVE  ChainParts'
  <1> USE DEF IndInv, ChainParts, ReceiverParts
  <1>1. SenderParts'
    BY SenderIdle DEF ReceiveMessage
  <1>2. m.from \in Peers /\ m.to \in Peers /\ m.msg \in Bundles /\ m.kind = "message"
    BY MessageShapes DEF ReceiveMessage, TypeOK
  <1>3. Issued' = Issued
    BY DEF ReceiveMessage, Issued, Chains
  <1>4. theirs \in [Peers -> [Peers -> [chain : Chains, next : Nat, skipped : SUBSET Nat]]]
    BY DEF TypeOK
  <1> DEFINE r == theirs[m.to][m.from]
             a == AfterDecrypt(r, m.msg)
             opens == m.from \in members[m.to] /\ r # NoReceiver /\ Decrypts(r, m.msg)
  <1>5. CASE ~opens
    <2>1. UNCHANGED <<theirs, base, mine, drawn>> /\ net' \subseteq net
      BY <1>5 DEF ReceiveMessage
    <2>2. OnlyForgets /\ \A x \in Peers : mine'[x] \in {mine[x], NoSender}
      BY <2>1 DEF OnlyForgets
    <2> QED
      BY <1>1, <2>1, <2>2, OldChainsKeepReceivers
  <1>6. CASE opens
    <2>1. r \in [chain : Chains, next : Nat, skipped : SUBSET Nat] /\ m.msg.index \in Nat
      BY <1>2, <1>4 DEF Bundles
    <2>2. theirs' = [theirs EXCEPT ![m.to][m.from] = a] /\ base' = base /\ mine' = mine
          /\ net' = net \ {m}
      BY <1>6 DEF ReceiveMessage
    <2>3. /\ r.chain = m.msg.chain /\ r.chain \in Issued /\ r.chain[1] = m.from
      BY <1>2, <1>6 DEF Decrypts, Verifies, TheirsIssued
    <2>4. /\ a.chain = r.chain
          /\ m.msg.index < r.next => a.next = r.next /\ a.skipped = r.skipped \ {m.msg.index}
          /\ m.msg.index >= r.next => /\ a.next = m.msg.index + 1
                                      /\ a.skipped = r.skipped \cup (r.next .. (m.msg.index - 1))
      <3>1. CASE m.msg.index < r.next
        BY <2>1, <3>1 DEF AfterDecrypt
      <3>2. CASE m.msg.index >= r.next
        BY <2>1, <3>2 DEF AfterDecrypt
      <3> QED
        BY <2>1, <3>1, <3>2
    <2> HIDE DEF r, a, opens
    <2>5. \A x, q \in Peers :
            \/ x = m.to /\ q = m.from /\ theirs'[x][q] = a
            \/ (x # m.to \/ q # m.from) /\ theirs'[x][q] = theirs[x][q]
      BY <1>2, <1>4, <2>2
    <2>6. TheirsIssued'
      BY <1>3, <2>3, <2>4, <2>5 DEF TheirsIssued
    <2>7. TheirsBehind'
      <3> SUFFICES ASSUME NEW s \in Peers, NEW x \in Peers, mine[s] # NoSender,
                          theirs'[x][s].chain = mine[s].chain
                   PROVE  theirs'[x][s].next <= mine[s].index
        BY <2>2 DEF TheirsBehind, HasChain
      <3>1. CASE x = m.to /\ s = m.from /\ theirs'[x][s] = a
        <4>1. r.next <= mine[s].index /\ m.msg.index < mine[s].index
          BY <1>2, <2>3, <2>4, <3>1 DEF TheirsBehind, SenderParts, WireBehind, HasChain, r
        <4>2. mine[s].index \in Nat
          BY DEF TypeOK, Bundles
        <4> QED
          BY <2>1, <2>4, <3>1, <4>1, <4>2
      <3>2. CASE theirs'[x][s] = theirs[x][s]
        BY <3>2 DEF TheirsBehind, HasChain
      <3> QED
        BY <2>5, <3>1, <3>2
    <2>8. InFlightOpens'
      <3> SUFFICES ASSUME NEW k \in net', k.kind = "message",
                          theirs'[k.to][k.from].chain = k.msg.chain,
                          base[k.to][k.from] <= k.msg.index
                   PROVE  \/ Decrypts(theirs'[k.to][k.from], k.msg)
                          \/ /\ k.msg.index >= theirs'[k.to][k.from].next
                             /\ TooManySkipped(theirs'[k.to][k.from], k.msg)
        BY <2>2 DEF InFlightOpens, Decrypts, TooManySkipped, Verifies
      <3>1. k \in net /\ k # m /\ k.from \in Peers /\ k.to \in Peers /\ k.msg \in Bundles
        BY <2>2, MessageShapes DEF TypeOK
      <3>2. CASE theirs'[k.to][k.from] = theirs[k.to][k.from]
        BY <3>1, <3>2 DEF InFlightOpens
      <3>3. CASE k.to = m.to /\ k.from = m.from /\ theirs'[k.to][k.from] = a
        <4>1. k.msg.index # m.msg.index
          <5>1. k.msg.chain = m.msg.chain
            BY <2>3, <2>4, <3>3
          <5>2. /\ k \in [kind : {"message"}, from : Peers, to : Peers, msg : Bundles]
                /\ m \in [kind : {"message"}, from : Peers, to : Peers, msg : Bundles]
            BY <1>2, <3>1 DEF TypeOK, Messages
          <5>3. k.msg # m.msg
            BY <3>1, <3>3, <5>2
          <5> QED
            BY <1>2, <3>1, <5>1, <5>3 DEF Bundles
        <4>2. k.msg.index \in Nat
          BY <3>1 DEF Bundles
        <4>3. k.msg.index < a.next => k.msg.index \in a.skipped
          <5>1. k.msg.index < r.next => k.msg.index \in r.skipped
            BY <2>1, <2>4, <3>1, <3>3, <4>2 DEF InFlightOpens, Decrypts, r
          <5> QED
            BY <2>1, <2>4, <4>1, <4>2, <5>1
        <4>4. a.next \in Nat
          BY <2>1, <2>4
        <4> QED
          BY <3>3, <4>2, <4>3, <4>4 DEF Decrypts, Verifies
      <3> QED
        BY <2>5, <3>1, <3>2, <3>3
    <2> QED
      BY <1>1, <2>6, <2>7, <2>8
  <1> QED
    BY <1>5, <1>6

-----------------------------------------------------------------------------
(* What handing out chains leaves of the types.                            *)
KeysTyped ==
    /\ mine \in [Peers -> Bundles] /\ drawn \in [Peers -> Nat]
    /\ held \in [Peers -> SUBSET Bundles] /\ net \subseteq Messages
    /\ \A m \in net : m.from # m.to
    /\ orphans \subseteq Chains /\ unrotated \subseteq Chains /\ crashes \in Nat
    /\ \A p \in Peers : HasChain(p) => mine[p].chain[1] = p

WellSent(out) == out \subseteq Messages /\ \A m \in out : m.from # m.to

LEMMA HandedTyped ==
    ASSUME TypeOK, NEW qs, NEW b \in Bundles
    PROVE  Handed(qs, b) \in [Peers -> SUBSET Bundles]
  BY DEF TypeOK, Handed

LEMMA RotateTyped ==
    ASSUME TypeOK, NEW p \in Peers, NEW ms \in SUBSET Peers, NEW e \in Nat, NEW out,
           WellSent(out), RotateOrCrash(p, ms, e, out)
    PROVE  /\ KeysTyped' /\ orphans \subseteq orphans'
           /\ \A r \in Peers : r # p => mine'[r] = mine[r]
           /\ mine'[p] = mine[p] \/ Known(p) \/ mine'[p].chain \in orphans'
           /\ \A m \in net' : m \in out \/ m.kind = "key"
  <1>1. CASE Rotate(p, ms, e, out) /\ UNCHANGED <<crashes, unrotated>>
    <2> DEFINE b == CurrentBundle(NewSenderChain(Fresh(p)))
    <2>1. /\ Fresh(p) \in Chains /\ Fresh(p)[1] = p /\ drawn' \in [Peers -> Nat]
          /\ b = NewSenderChain(Fresh(p)) /\ b \in Bundles /\ b.chain = Fresh(p)
      BY <1>1, FreshChain DEF Rotate, CurrentBundle, NewSenderChain
    <2>2. /\ mine' = [mine EXCEPT ![p] = b] /\ held' = Handed(ms \ {p}, b)
          /\ net' = out \cup {KeyMsg(p, q, b, e) : q \in ms \ {p}}
          /\ orphans' = IF Known(p) THEN orphans ELSE orphans \cup {Fresh(p)}
      BY <1>1, <2>1 DEF Rotate
    <2> HIDE DEF b
    <2>3. held' \in [Peers -> SUBSET Bundles]
      BY <2>1, <2>2, HandedTyped
    <2>4. /\ mine' \in [Peers -> Bundles] /\ mine'[p] = b
          /\ \A r \in Peers : r # p => mine'[r] = mine[r]
      BY <2>1, <2>2 DEF TypeOK
    <2>5. \A q \in ms \ {p} : KeyMsg(p, q, b, e) \in Messages
      BY <2>1, MessagesMade
    <2>6. \A q \in ms \ {p} : LET k == KeyMsg(p, q, b, e) IN k.from # k.to /\ k.kind = "key"
      BY DEF KeyMsg
    <2>7. net' \subseteq Messages /\ \A m \in net' : m.from # m.to /\ (m \in out \/ m.kind = "key")
      BY <2>2, <2>5, <2>6 DEF WellSent
    <2>8. \A r \in Peers : mine'[r] # NoSender => mine'[r].chain[1] = r
      BY <2>1, <2>4 DEF TypeOK, HasChain
    <2> QED
      BY <1>1, <2>1, <2>2, <2>3, <2>4, <2>7, <2>8 DEF KeysTyped, TypeOK, HasChain
  <1>2. CASE CrashUnrotated(p, out)
    <2>1. /\ UNCHANGED <<mine, drawn, held, orphans>> /\ net' = out /\ crashes' \in Nat
          /\ unrotated' \subseteq unrotated \cup {mine[p].chain}
      BY <1>2 DEF CrashUnrotated, TypeOK
    <2>2. mine[p].chain \in Chains
      BY DEF TypeOK, Bundles
    <2> QED
      BY <2>1, <2>2 DEF KeysTyped, TypeOK, WellSent, HasChain
  <1> QED
    BY <1>1, <1>2 DEF RotateOrCrash

LEMMA SendMyBundleTyped ==
    ASSUME TypeOK, NEW p \in Peers, NEW qs \in SUBSET Peers, NEW e \in Nat, NEW out,
           WellSent(out), SendMyBundleTo(p, qs, e, out), UNCHANGED <<crashes, unrotated>>
    PROVE  /\ KeysTyped' /\ mine' = mine /\ orphans' = orphans
           /\ \A m \in net' : m \in out \/ m.kind = "key"
  <1> DEFINE to == IF HasChain(p) THEN qs \ {p} ELSE {}
             b == CurrentBundle(mine[p])
  <1>1. /\ UNCHANGED <<mine, drawn, orphans>> /\ held' = Handed(to, b)
        /\ net' = out \cup {KeyMsg(p, q, b, e) : q \in to}
    BY DEF SendMyBundleTo
  <1>2. b \in Bundles /\ to \subseteq Peers /\ p \notin to
    BY DEF TypeOK, CurrentBundle, Bundles
  <1> HIDE DEF b, to
  <1>3. held' \in [Peers -> SUBSET Bundles]
    BY <1>1, <1>2, HandedTyped
  <1>4. \A q \in to : KeyMsg(p, q, b, e) \in Messages
    BY <1>2, MessagesMade
  <1>5. \A q \in to : LET k == KeyMsg(p, q, b, e) IN k.from # k.to /\ k.kind = "key"
    BY <1>2 DEF KeyMsg
  <1>6. net' \subseteq Messages /\ \A m \in net' : m.from # m.to /\ (m \in out \/ m.kind = "key")
    BY <1>1, <1>4, <1>5 DEF WellSent
  <1> QED
    BY <1>1, <1>3, <1>6 DEF KeysTyped, TypeOK, HasChain

(* Hearing one more update keeps the order only if it is the next one.     *)
LEMMA OrderedAppend ==
    ASSUME NEW h \in Seq(Nat), NEW e \in Nat
    PROVE  /\ Append(h, e) \in Seq(Nat) /\ Len(Append(h, e)) = Len(h) + 1
           /\ Ordered(Append(h, e)) <=> Ordered(h) /\ e = Len(h) + 1
  <1>1. /\ Append(h, e) \in Seq(Nat) /\ Len(Append(h, e)) = Len(h) + 1 /\ Len(h) \in Nat
        /\ Append(h, e)[Len(h) + 1] = e /\ \A i \in 1 .. Len(h) : Append(h, e)[i] = h[i]
    OBVIOUS
  <1>2. Ordered(Append(h, e)) => Ordered(h) /\ e = Len(h) + 1
    BY <1>1 DEF Ordered
  <1>3. Ordered(h) /\ e = Len(h) + 1 => Ordered(Append(h, e))
    BY <1>1 DEF Ordered
  <1> QED
    BY <1>1, <1>2, <1>3

-----------------------------------------------------------------------------
(* Steps that hand out no chain.                                           *)
LEMMA QuietKeepsChains ==
    ASSUME IndInv, UNCHANGED <<drawn, sent, orphans, unrotated, held, base>>, OnlyForgets,
           \A m \in net' : m.kind \in {"key", "message"} => m \in net,
           \A r \in Peers : mine'[r] \in {mine[r], NoSender},
           \A r \in Peers : mine'[r] # NoSender =>
                /\ members[r] \subseteq members'[r]
                /\ mine'[r].chain \notin orphans => members'[r] \subseteq members[r]
    PROVE  ChainParts'
  <1> DEFINE to == {}
  <1>1. Founder \in Peers /\ to \in SUBSET Peers /\ to \subseteq members'[Founder] \cup {Founder}
    BY GroupAssumption
  <1>2. \A q \in Peers : held'[q] = held[q] \cup (IF q \in to THEN {mine[Founder]} ELSE {})
    OBVIOUS
  <1>3. /\ \A r \in Peers : mine'[r] # NoSender /\ mine'[r].chain \notin orphans =>
            members'[r] \subseteq members[r] \cup {r} \cup (IF r = Founder THEN to ELSE {})
        /\ \A r \in Peers : mine'[r] # NoSender /\ mine'[r].chain \notin unrotated' =>
            members[r] \subseteq members'[r]
        /\ unrotated \subseteq unrotated' /\ UNCHANGED <<drawn, sent, orphans>>
    OBVIOUS
  <1>4. /\ to = {} \/ HasChain(Founder)
        /\ \A m \in net' : m.kind \in {"key", "message"} =>
            m \in net \/ (m.kind = "key" /\ to # {} /\ m.bundle = mine[Founder] /\ m.from = Founder)
    OBVIOUS
  <1> HIDE DEF to
  <1>5. SenderParts'
    BY <1>1, <1>2, <1>3, <1>4, OldChainsKeepSender
  <1>6. ReceiverParts'
    BY OldChainsKeepReceivers
  <1> QED
    BY <1>5, <1>6 DEF ChainParts

LEMMA HandleGroupCreatePreserves ==
    ASSUME IndInv, NEW invited \in Invitations, HandleGroupCreate(invited)
    PROVE  IndInv'
  <1> DEFINE ms == invited \cup {Founder}
  <1>1. ms \in SUBSET Peers /\ Founder \in ms /\ Founder \in Peers
    BY GroupAssumption
  <1>2. /\ ~Created /\ roster' = <<ms>> /\ epoch' = [epoch EXCEPT ![Founder] = 0]
        /\ members' = [members EXCEPT ![Founder] = ms]
        /\ net' = net \cup {CreateMsg(q, ms) : q \in ms \ {Founder}}
        /\ UNCHANGED <<mine, theirs, stored, drawn, crashes, left, heard, held, base, sent,
                       orphans, unrotated>>
    BY DEF HandleGroupCreate
  <1> HIDE DEF ms
  <1>3. net = {} /\ \A p \in Peers : heard[p] = <<>> /\ epoch[p] = NoGroup
    BY <1>1, <1>2 DEF IndInv, RosterParts, NothingBefore, Known
  <1>4. \A p \in Peers : members[p] = {} /\ (mine[p] # NoSender => mine[p].chain \in orphans)
    BY <1>3 DEF IndInv, RosterParts, StrangersEmpty, Known, HasChain
  <1>5. \A m \in net' : /\ m.kind = "create" /\ m.to \in ms \ {Founder} /\ m.members = ms
                        /\ m.from = Founder
                        /\ m \in Messages /\ m.from # m.to
    BY <1>1, <1>2, <1>3, MessagesMade DEF CreateMsg
  <1>6. TypeOK'
    <2>1. roster' \in Seq(SUBSET Peers)
      BY <1>1, <1>2
    <2>2. epoch' \in [Peers -> Nat \cup {NoGroup}] /\ members' \in [Peers -> SUBSET Peers]
      BY <1>1, <1>2 DEF IndInv, TypeOK
    <2> QED
      BY <1>2, <1>5, <2>1, <2>2 DEF IndInv, TypeOK, HasChain
  <1>7. ChainParts'
    <2>1. OnlyForgets
      BY <1>2 DEF OnlyForgets
    <2> QED
      BY <1>2, <1>4, <1>5, <2>1, QuietKeepsChains
  <1>8. /\ epoch'[Founder] = 0 /\ members'[Founder] = ms
        /\ \A p \in Peers : p # Founder => epoch'[p] = NoGroup /\ members'[p] = {}
    BY <1>1, <1>2, <1>3, <1>4 DEF IndInv, TypeOK
  <1>9. Len(roster') = 1 /\ roster'[1] = ms /\ Len(<<>>) = 0
    BY <1>2
  <1>10. RosterParts'
    <2>1. NothingBefore' /\ UpdatesDiffer'
      BY <1>2, <1>5 DEF NothingBefore, UpdatesDiffer, Created
    <2>2. StrangersEmpty'
      BY <1>2, <1>4, <1>8 DEF StrangersEmpty, Known, HasChain, NoGroup
    <2>3. ControlsFit'
      BY <1>1, <1>2, <1>3, <1>5, <1>8, <1>9 DEF ControlsFit, Known, NoGroup
    <2>4. EpochsInRange'
      BY <1>8, <1>9 DEF EpochsInRange, Known
    <2>5. FounderCurrent' /\ OrderedAgree'
      BY <1>1, <1>2, <1>3, <1>8, <1>9 DEF FounderCurrent, OrderedAgree, Ordered, Known
    <2> QED
      BY <2>1, <2>2, <2>3, <2>4, <2>5 DEF RosterParts
  <1> QED
    BY <1>6, <1>7, <1>10 DEF IndInv

LEMMA HandleGroupLeavePreserves ==
    ASSUME IndInv, NEW p \in Peers, HandleGroupLeave(p)
    PROVE  IndInv'
  <1>1. /\ Known(p) /\ left' = left \cup {p}
        /\ net' = net \cup {LeaveMsg(p, q) : q \in members[p] \ {p}}
        /\ epoch' = [epoch EXCEPT ![p] = NoGroup] /\ members' = [members EXCEPT ![p] = {}]
        /\ mine' = [mine EXCEPT ![p] = NoSender]
        /\ theirs' = [theirs EXCEPT ![p] = [q \in Peers |-> NoReceiver]]
        /\ UNCHANGED <<stored, drawn, crashes, roster, heard, held, base, sent, orphans, unrotated>>
    BY DEF HandleGroupLeave, GroupForget
  <1>2. \A m \in net' : \/ m \in net
                        \/ /\ m.kind = "leave" /\ m.from = p
                           /\ m \in Messages /\ m.from # m.to
    <2>1. \A q \in members[p] \ {p} : q \in Peers /\ LeaveMsg(p, q) \in Messages
      BY MessagesMade DEF IndInv, TypeOK
    <2> QED
      BY <1>1, <2>1 DEF LeaveMsg
  <1>3. /\ epoch'[p] = NoGroup /\ members'[p] = {} /\ mine'[p] = NoSender
        /\ \A r \in Peers : r # p =>
            epoch'[r] = epoch[r] /\ members'[r] = members[r] /\ mine'[r] = mine[r]
    BY <1>1 DEF IndInv, TypeOK
  <1>4. TypeOK'
    <2>1. /\ epoch' \in [Peers -> Nat \cup {NoGroup}] /\ members' \in [Peers -> SUBSET Peers]
          /\ mine' \in [Peers -> Bundles]
          /\ theirs' \in [Peers -> [Peers -> [chain : Chains, next : Nat, skipped : SUBSET Nat]]]
      BY <1>1, NoChainRows DEF IndInv, TypeOK
    <2>2. net' \subseteq Messages /\ \A m \in net' : m.from # m.to
      BY <1>2 DEF IndInv, TypeOK
    <2> QED
      BY <1>1, <1>3, <2>1, <2>2 DEF IndInv, TypeOK, HasChain
  <1>5. ChainParts'
    <2>1. OnlyForgets
      BY <1>1 DEF OnlyForgets, IndInv, TypeOK
    <2> QED
      BY <1>1, <1>2, <1>3, <2>1, QuietKeepsChains
  <1>6. RosterParts'
    <2> USE DEF IndInv, RosterParts
    <2>1. NothingBefore'
      BY <1>1 DEF NothingBefore, Created
    <2>2. StrangersEmpty'
      BY <1>1, <1>3 DEF StrangersEmpty, Known, HasChain
    <2>3. ControlsFit'
      <3>1. \A m \in net : m.to \in Peers
        BY MessageShapes DEF TypeOK
      <3> QED
        BY <1>1, <1>2, <1>3, <3>1 DEF ControlsFit, Known
    <2>4. UpdatesDiffer'
      BY <1>1, <1>2 DEF UpdatesDiffer
    <2>5. EpochsInRange' /\ FounderCurrent'
      BY <1>1, <1>3 DEF EpochsInRange, FounderCurrent, Known, NoGroup
    <2>6. OrderedAgree'
      BY <1>1, <1>3 DEF OrderedAgree, Known
    <2> QED
      BY <2>1, <2>2, <2>3, <2>4, <2>5, <2>6
  <1> QED
    BY <1>4, <1>5, <1>6 DEF IndInv

LEMMA GroupSendPreserves ==
    ASSUME IndInv, NEW p \in Peers, GroupSend(p)
    PROVE  IndInv'
  <1> DEFINE fresh == ~HasChain(p)
             ck == IF fresh THEN NewSenderChain(Fresh(p)) ELSE mine[p]
             to == members[p] \ {p}
             b == Sealed(ck)
  <1>1. /\ Known(p) /\ mine' = [mine EXCEPT ![p] = AfterEncrypt(ck)]
        /\ drawn' = IF fresh THEN [drawn EXCEPT ![p] = @ + 1] ELSE drawn
        /\ held' = IF fresh THEN Handed(to, b) ELSE held
        /\ net' = net \cup {GroupMsg(p, q, b) : q \in to}
                      \cup {KeyMsg(p, q, b, epoch[p]) : q \in IF fresh THEN to ELSE {}}
        /\ sent' = sent \cup {[msg |-> b, from |-> p, audience |-> to]}
        /\ UNCHANGED <<epoch, members, theirs, stored, crashes, roster, left, heard, base,
                       orphans, unrotated>>
    BY DEF GroupSend, CurrentBundle, Sealed
  <1>2. ck \in Bundles /\ ck.chain[1] = p /\ drawn' \in [Peers -> Nat]
    <2>1. CASE fresh
      BY <1>1, <2>1, FreshChain DEF IndInv
    <2>2. CASE ~fresh
      BY <1>1, <2>2 DEF IndInv, TypeOK
    <2> QED
      BY <2>1, <2>2
  <1>3. b \in Bundles /\ AfterEncrypt(ck) \in Bundles /\ AfterEncrypt(ck).chain = ck.chain
    BY <1>2 DEF Sealed, AfterEncrypt, Bundles
  <1>4. to \subseteq Peers /\ p \notin to /\ epoch[p] \in Nat
    BY <1>1 DEF IndInv, TypeOK, Known, NoGroup
  <1> HIDE DEF fresh, ck, to, b
  <1>5. \A m \in net' : \/ m \in net
                        \/ m.kind \in {"key", "message"} /\ m \in Messages /\ m.from # m.to
    <2>1. \A q \in to : GroupMsg(p, q, b) \in Messages /\ KeyMsg(p, q, b, epoch[p]) \in Messages
      BY <1>3, <1>4, MessagesMade
    <2>2. \A q \in to : /\ GroupMsg(p, q, b).kind = "message" /\ KeyMsg(p, q, b, epoch[p]).kind = "key"
                        /\ GroupMsg(p, q, b).from # GroupMsg(p, q, b).to
                        /\ KeyMsg(p, q, b, epoch[p]).from # KeyMsg(p, q, b, epoch[p]).to
      BY <1>4 DEF GroupMsg, KeyMsg
    <2>3. \A m \in net' :
            m \in net \/ \E q \in to : m = GroupMsg(p, q, b) \/ m = KeyMsg(p, q, b, epoch[p])
      BY <1>1
    <2> QED
      BY <2>1, <2>2, <2>3
  <1>6. TypeOK'
    <2>1. mine' \in [Peers -> Bundles] /\ \A r \in Peers : mine'[r] # NoSender => mine'[r].chain[1] = r
      BY <1>1, <1>2, <1>3 DEF IndInv, TypeOK, HasChain
    <2>2. held' \in [Peers -> SUBSET Bundles]
      BY <1>1, <1>3, HandedTyped DEF IndInv, TypeOK
    <2>3. net' \subseteq Messages /\ \A m \in net' : m.from # m.to
      BY <1>5 DEF IndInv, TypeOK
    <2>4. sent' \subseteq [msg : Bundles, from : Peers, audience : SUBSET Peers]
      BY <1>1, <1>3, <1>4 DEF IndInv, TypeOK
    <2> QED
      BY <1>1, <1>2, <2>1, <2>2, <2>3, <2>4 DEF IndInv, TypeOK, HasChain
  <1>7. RosterParts'
    <2> USE DEF IndInv, RosterParts
    <2>1. NothingBefore'
      <3>1. ~Created => ~Known(p)
        BY DEF NothingBefore
      <3> QED
        BY <1>1, <3>1 DEF NothingBefore, Created
    <2>2. StrangersEmpty'
      BY <1>1 DEF StrangersEmpty, Known, HasChain, TypeOK
    <2>3. ControlsFit' /\ UpdatesDiffer'
      BY <1>1, <1>5 DEF ControlsFit, UpdatesDiffer, Known
    <2>4. EpochsInRange' /\ FounderCurrent' /\ OrderedAgree'
      BY <1>1 DEF EpochsInRange, FounderCurrent, OrderedAgree, Known
    <2> QED
      BY <2>1, <2>2, <2>3, <2>4
  <1> QED
    BY <1>6, <1>7, GroupSendKeepsChains DEF IndInv

-----------------------------------------------------------------------------
(* send_my_bundle_to: who is added gets the chain as it is now.            *)
LEMMA BundleKeepsChains ==
    ASSUME IndInv, NEW p \in Peers, NEW qs \in SUBSET Peers, NEW e, NEW out,
           SendMyBundleTo(p, qs, e, out), NoNewChains(out),
           members' = [members EXCEPT ![p] = @ \cup qs],
           UNCHANGED <<theirs, base, sent, unrotated>>
    PROVE  ChainParts'
  <1> DEFINE to == IF HasChain(p) THEN qs \ {p} ELSE {}
  <1>1. mine \in [Peers -> Bundles] /\ held \in [Peers -> SUBSET Bundles]
        /\ members \in [Peers -> SUBSET Peers]
    BY DEF IndInv, TypeOK
  <1>2. CurrentBundle(mine[p]) = mine[p]
    BY <1>1 DEF CurrentBundle, Bundles
  <1>3. /\ UNCHANGED <<mine, drawn, orphans>> /\ held' = Handed(to, mine[p])
        /\ net' = out \cup {KeyMsg(p, q, mine[p], e) : q \in to}
    BY <1>2 DEF SendMyBundleTo
  <1>4. /\ to \in SUBSET Peers /\ (to = {} \/ HasChain(p)) /\ to \subseteq qs
        /\ HasChain(p) => qs \subseteq to \cup {p}
    OBVIOUS
  <1> HIDE DEF to
  <1>5. \A q \in Peers : held'[q] = held[q] \cup (IF q \in to THEN {mine[p]} ELSE {})
    BY <1>3 DEF Handed
  <1>6. \A m \in net' : m.kind \in {"key", "message"} =>
            m \in net \/ (m.kind = "key" /\ to # {} /\ m.bundle = mine[p] /\ m.from = p)
    BY <1>3 DEF NoNewChains, KeyMsg
  <1>7. /\ members'[p] = members[p] \cup qs
        /\ \A r \in Peers : r # p => members'[r] = members[r]
    BY <1>1
  <1>8. /\ to \subseteq members'[p] \cup {p}
        /\ \A r \in Peers : mine'[r] # NoSender /\ mine'[r].chain \notin unrotated' =>
                members[r] \subseteq members'[r]
        /\ \A r \in Peers : mine'[r] # NoSender /\ mine'[r].chain \notin orphans =>
                members'[r] \subseteq members[r] \cup {r} \cup (IF r = p THEN to ELSE {})
    <2>1. to \subseteq members'[p] \cup {p}
      BY <1>4, <1>7
    <2>2. \A r \in Peers : members[r] \subseteq members'[r]
      BY <1>7
    <2>3. ASSUME NEW r \in Peers, mine'[r] # NoSender
          PROVE  members'[r] \subseteq members[r] \cup {r} \cup (IF r = p THEN to ELSE {})
      <3>1. CASE r = p
        <4>1. qs \subseteq to \cup {p}
          BY <1>3, <1>4, <2>3, <3>1 DEF HasChain
        <4> QED
          BY <1>7, <3>1, <4>1
      <3>2. CASE r # p
        BY <1>7, <3>2
      <3> QED
        BY <3>1, <3>2
    <2> QED
      BY <2>1, <2>2, <2>3
  <1>9. /\ \A r \in Peers : mine'[r] \in {mine[r], NoSender}
        /\ unrotated \subseteq unrotated' /\ UNCHANGED <<drawn, sent, orphans>>
    BY <1>3
  <1>10. SenderParts'
    BY <1>4, <1>5, <1>6, <1>8, <1>9, OldChainsKeepSender
  <1>11. OnlyForgets /\ \A m \in net' : m.kind = "message" => m \in net
    BY <1>6 DEF OnlyForgets
  <1>12. ReceiverParts'
    BY <1>9, <1>11, OldChainsKeepReceivers
  <1> QED
    BY <1>10, <1>12 DEF ChainParts

(* A removal: the chain is replaced, or the crash is on record.            *)
LEMMA RemovalKeepsChains ==
    ASSUME IndInv, NEW p \in Peers, NEW ms \in SUBSET members[p], NEW e, NEW out,
           RotateOrCrash(p, ms, e, out), NoNewChains(out), OnlyForgets,
           members' = [members EXCEPT ![p] = ms], UNCHANGED <<base, sent>>
    PROVE  ChainParts'
  <1>1. members \in [Peers -> SUBSET Peers] /\ ms \in SUBSET Peers
    BY DEF IndInv, TypeOK
  <1>2. CASE Rotate(p, ms, e, out) /\ UNCHANGED <<crashes, unrotated>>
    BY <1>1, <1>2, RotateKeepsChains
  <1>3. CASE CrashUnrotated(p, out)
    <2> DEFINE to == {}
    <2>1. /\ UNCHANGED <<mine, drawn, held, orphans>> /\ net' = out
          /\ unrotated' = IF HasChain(p) THEN unrotated \cup {mine[p].chain} ELSE unrotated
      BY <1>3 DEF CrashUnrotated
    <2>2. members'[p] = ms /\ \A r \in Peers : r # p => members'[r] = members[r]
      BY <1>1
    <2>3. /\ to \in SUBSET Peers /\ to \subseteq members'[p] \cup {p} /\ (to = {} \/ HasChain(p))
          /\ \A q \in Peers : held'[q] = held[q] \cup (IF q \in to THEN {mine[p]} ELSE {})
          /\ \A m \in net' : m.kind \in {"key", "message"} =>
                m \in net \/ (m.kind = "key" /\ to # {} /\ m.bundle = mine[p] /\ m.from = p)
      BY <2>1 DEF NoNewChains
    <2>4. \A r \in Peers : mine'[r] # NoSender /\ mine'[r].chain \notin unrotated' =>
                members[r] \subseteq members'[r]
      BY <2>1, <2>2 DEF HasChain
    <2>5. \A r \in Peers : mine'[r] # NoSender /\ mine'[r].chain \notin orphans =>
                members'[r] \subseteq members[r] \cup {r} \cup (IF r = p THEN to ELSE {})
      BY <2>2
    <2>6. /\ \A r \in Peers : mine'[r] \in {mine[r], NoSender}
          /\ unrotated \subseteq unrotated' /\ UNCHANGED <<drawn, sent, orphans>>
      BY <2>1
    <2> HIDE DEF to
    <2>7. SenderParts'
      BY <2>3, <2>4, <2>5, <2>6, OldChainsKeepSender
    <2>8. \A m \in net' : m.kind = "message" => m \in net
      BY <2>1 DEF NoNewChains
    <2>9. ReceiverParts'
      BY <2>6, <2>8, OldChainsKeepReceivers
    <2> QED
      BY <2>7, <2>9 DEF ChainParts
  <1> QED
    BY <1>2, <1>3 DEF RotateOrCrash

(* The founder's list grows by one epoch.                                  *)
LEMMA RosterAppend ==
    ASSUME TypeOK, NEW ms \in SUBSET Peers, roster' = Append(roster, ms)
    PROVE  /\ roster' \in Seq(SUBSET Peers) /\ Len(roster') = Len(roster) + 1 /\ Len(roster) \in Nat
           /\ roster'[Len(roster) + 1] = ms /\ roster' # <<>>
           /\ \A i \in 1 .. Len(roster) : roster'[i] = roster[i]
  <1>1. roster \in Seq(SUBSET Peers)
    BY DEF TypeOK
  <1>2. Len(roster) \in Nat
    BY <1>1
  <1> QED
    BY <1>1, <1>2, AppendProperties

(* What the founder's two operations do to the parts about rosters: a is   *)
(* added or d removed, the update is the difference, and the founder has   *)
(* heard its own update.                                                   *)
FounderChange(a, d, ms, e) ==
    /\ Known(Founder) /\ ms = (members[Founder] \cup a) \ d /\ e = epoch[Founder] + 1
    /\ epoch' = [epoch EXCEPT ![Founder] = e]
    /\ members' = [members EXCEPT ![Founder] = ms]
    /\ roster' = Append(roster, (roster[Len(roster)] \cup a) \ d)
    /\ heard' = [heard EXCEPT ![Founder] = Append(@, e)]
    /\ \A m \in net' : \/ m \in net \/ m.kind = "key"
                       \/ \E q \in ms \ {Founder} : m = UpdateMsg(q, a, d, e)
    /\ \A r \in Peers : r # Founder => mine'[r] = mine[r]
    /\ orphans \subseteq orphans' /\ left' = left

LEMMA FounderChanges ==
    ASSUME IndInv, NEW x \in Peers, NEW a \in SUBSET {x}, NEW d \in SUBSET {x}, a = {} \/ d = {},
           NEW ms, NEW e, FounderChange(a, d, ms, e)
    PROVE  /\ RosterParts' /\ roster' \in Seq(SUBSET Peers) /\ heard' \in [Peers -> Seq(Nat)]
           /\ epoch' \in [Peers -> Nat \cup {NoGroup}] /\ members' \in [Peers -> SUBSET Peers]
  <1> USE DEF FounderChange
  <1> DEFINE rs == (roster[Len(roster)] \cup a) \ d
  <1> USE GroupAssumption
  <1>1. /\ epoch \in [Peers -> Nat \cup {NoGroup}] /\ members \in [Peers -> SUBSET Peers]
        /\ heard \in [Peers -> Seq(Nat)] /\ roster \in Seq(SUBSET Peers) /\ Founder \in Peers
        /\ net \subseteq Messages
    BY DEF IndInv, TypeOK
  <1>2. epoch[Founder] \in Nat /\ Len(roster) = e /\ e \in Nat /\ e >= 1 /\ Ordered(heard[Founder])
        /\ epoch[Founder] = Len(heard[Founder])
        /\ members[Founder] \ left = roster[Len(roster)] \ left
    <2>1. epoch[Founder] \in Nat
      BY <1>1 DEF Known
    <2>2. epoch[Founder] + 1 = Len(roster) /\ Ordered(heard[Founder])
      BY DEF IndInv, RosterParts, FounderCurrent
    <2>3. epoch[Founder] = Len(heard[Founder])
          /\ members[Founder] \ left = roster[epoch[Founder] + 1] \ left
      BY <1>1, <2>2 DEF IndInv, RosterParts, OrderedAgree
    <2> QED
      BY <2>1, <2>2, <2>3
  <1>3. rs \in SUBSET Peers /\ ms \in SUBSET Peers
    <2>1. roster[Len(roster)] \in SUBSET Peers
      BY <1>1, <1>2
    <2> QED
      BY <1>1, <2>1
  <1>4. /\ roster' \in Seq(SUBSET Peers) /\ Len(roster') = e + 1 /\ roster'[e + 1] = rs
        /\ roster' # <<>> /\ \A i \in 1 .. e : roster'[i] = roster[i]
    <2>1. roster' = Append(roster, rs) /\ TypeOK
      BY DEF IndInv
    <2> HIDE DEF rs
    <2>2. /\ roster' \in Seq(SUBSET Peers) /\ Len(roster') = Len(roster) + 1 /\ roster' # <<>>
          /\ roster'[Len(roster) + 1] = rs /\ \A i \in 1 .. Len(roster) : roster'[i] = roster[i]
      BY <1>3, <2>1, RosterAppend
    <2> QED
      BY <1>2, <2>2
  <1>5. /\ epoch' \in [Peers -> Nat \cup {NoGroup}] /\ members' \in [Peers -> SUBSET Peers]
        /\ epoch'[Founder] = e /\ members'[Founder] = ms /\ heard'[Founder] = Append(heard[Founder], e)
        /\ \A r \in Peers : r # Founder =>
            epoch'[r] = epoch[r] /\ members'[r] = members[r] /\ heard'[r] = heard[r]
    BY <1>1, <1>2, <1>3
  <1>6. /\ heard'[Founder] \in Seq(Nat) /\ Len(heard'[Founder]) = e /\ Ordered(heard'[Founder])
    BY <1>1, <1>2, <1>5, OrderedAppend
  <1>7. heard' \in [Peers -> Seq(Nat)]
    BY <1>1, <1>2, <1>5, <1>6
  <1>8. \A m \in net' : \/ m \in net \/ m.kind = "key"
                        \/ /\ m.kind = "update" /\ m.to # Founder /\ m.added = a
                           /\ m.removed = d /\ m.epoch = e
    BY DEF UpdateMsg
  <1>9. \A m \in net : m.to \in Peers
    BY <1>1, MessageShapes
  <1>10. roster[e] \in SUBSET Peers /\ rs = (roster[e] \cup a) \ d /\ ms \ left = rs \ left
    BY <1>1, <1>2
  <1>11. \A r \in Peers : epoch[r] # NoGroup => epoch[r] \in Nat /\ epoch[r] < e
    BY <1>1, <1>2 DEF IndInv, RosterParts, EpochsInRange, Known
  <1> HIDE DEF rs
  <1> USE DEF IndInv, RosterParts
  <1>12. NothingBefore'
    BY <1>4 DEF NothingBefore, Created
  <1>13. StrangersEmpty'
    BY <1>2, <1>5 DEF StrangersEmpty, Known, HasChain, NoGroup
  <1>14. ControlsFit'
    <2>1. roster'[1] = roster[1]
      BY <1>2, <1>4
    <2> QED
      BY <1>5, <1>8, <1>9, <2>1 DEF ControlsFit, Known
  <1>15. UpdatesDiffer'
    <2> SUFFICES ASSUME NEW m \in net', m.kind = "update"
                 PROVE  /\ m.epoch > 0 /\ m.epoch < Len(roster')
                        /\ m.removed = {} \/ (m.added = {} /\ \E y \in Peers : m.removed = {y})
                        /\ roster'[m.epoch + 1] = (roster'[m.epoch] \cup m.added) \ m.removed
      BY DEF UpdatesDiffer
    <2>1. CASE m \in net
      <3>1. m.epoch \in Nat
        BY <1>1, <2>1, MessageShapes
      <3>2. /\ m.epoch > 0 /\ m.epoch < e
            /\ m.removed = {} \/ (m.added = {} /\ \E y \in Peers : m.removed = {y})
            /\ roster[m.epoch + 1] = (roster[m.epoch] \cup m.added) \ m.removed
        BY <1>2, <2>1 DEF UpdatesDiffer
      <3>3. roster'[m.epoch + 1] = roster[m.epoch + 1] /\ roster'[m.epoch] = roster[m.epoch]
        BY <1>2, <1>4, <3>1, <3>2
      <3> QED
        BY <1>2, <1>4, <3>1, <3>2, <3>3
    <2>2. CASE m.added = a /\ m.removed = d /\ m.epoch = e
      <3>1. roster'[e] = roster[e] /\ e > 0 /\ e < e + 1
        BY <1>2, <1>4
      <3>2. d = {} \/ (a = {} /\ d = {x})
        OBVIOUS
      <3> QED
        BY <1>4, <1>10, <2>2, <3>1, <3>2
    <2> QED
      BY <1>8, <2>1, <2>2
  <1>16. EpochsInRange' /\ FounderCurrent'
    BY <1>1, <1>2, <1>4, <1>5, <1>6, <1>11 DEF EpochsInRange, FounderCurrent, Known
  <1>17. OrderedAgree'
    <2> SUFFICES ASSUME NEW r \in Peers, epoch'[r] # NoGroup, Ordered(heard'[r])
                 PROVE  epoch'[r] = Len(heard'[r]) /\ members'[r] \ left = roster'[epoch'[r] + 1] \ left
      BY DEF OrderedAgree, Known, Ordered
    <2>1. CASE r = Founder
      BY <1>4, <1>5, <1>6, <1>10, <2>1
    <2>2. CASE r # Founder
      <3>1. epoch[r] = Len(heard[r]) /\ members[r] \ left = roster[epoch[r] + 1] \ left
        BY <1>5, <2>2 DEF OrderedAgree, Known
      <3>2. roster'[epoch[r] + 1] = roster[epoch[r] + 1]
        BY <1>2, <1>4, <1>5, <1>11, <2>2
      <3> QED
        BY <1>5, <2>2, <3>1, <3>2
    <2> QED
      BY <2>1, <2>2
  <1> QED
    BY <1>4, <1>5, <1>7, <1>12, <1>13, <1>14, <1>15, <1>16, <1>17

LEMMA HandleGroupAddPreserves ==
    ASSUME IndInv, NEW x \in Targets, HandleGroupAdd(x)
    PROVE  IndInv'
  <1> DEFINE ms == members[Founder] \cup {x}
             e == epoch[Founder] + 1
             out == net \cup {UpdateMsg(q, {x}, {}, e) : q \in ms \ {Founder}}
  <1> USE GroupAssumption
  <1>1. /\ Known(Founder) /\ epoch' = [epoch EXCEPT ![Founder] = e]
        /\ members' = [members EXCEPT ![Founder] = ms]
        /\ roster' = Append(roster, roster[Len(roster)] \cup {x})
        /\ heard' = [heard EXCEPT ![Founder] = Append(@, e)]
        /\ SendMyBundleTo(Founder, {x}, e, out)
        /\ UNCHANGED <<theirs, stored, crashes, left, base, sent, unrotated>>
    <2>1. SendMyBundleTo(Founder, {x}, e, out)
      BY Zenon DEF HandleGroupAdd
    <2>2. /\ Known(Founder) /\ epoch' = [epoch EXCEPT ![Founder] = e]
          /\ members' = [members EXCEPT ![Founder] = ms]
          /\ roster' = Append(roster, roster[Len(roster)] \cup {x})
          /\ heard' = [heard EXCEPT ![Founder] = Append(@, e)]
          /\ UNCHANGED <<theirs, stored, crashes, left, base, sent, unrotated>>
      BY Zenon DEF HandleGroupAdd
    <2> HIDE DEF ms, e, out
    <2> QED
      BY <2>1, <2>2, Zenon
  <1>2. x \in Peers /\ Founder \in Peers /\ ms \subseteq Peers /\ e \in Nat
    BY <1>1 DEF IndInv, TypeOK, Known, NoGroup
  <1>3. \A q \in ms \ {Founder} : LET u == UpdateMsg(q, {x}, {}, e) IN
            u \in Messages /\ u.from # u.to /\ u.kind = "update"
    <2>1. \A q \in ms \ {Founder} : UpdateMsg(q, {x}, {}, e) \in Messages
      BY <1>2, MessagesMade
    <2> QED
      BY <2>1 DEF UpdateMsg
  <1> HIDE DEF ms, e
  <1>4. WellSent(out) /\ NoNewChains(out)
    BY <1>3 DEF WellSent, NoNewChains, IndInv, TypeOK
  <1> HIDE DEF out
  <1>5. /\ KeysTyped' /\ mine' = mine /\ orphans' = orphans
        /\ \A m \in net' : m \in out \/ m.kind = "key"
    BY <1>1, <1>2, <1>4, SendMyBundleTyped DEF IndInv
  <1>6. members' = [members EXCEPT ![Founder] = @ \cup {x}]
    BY <1>1 DEF ms, IndInv, TypeOK
  <1>7. ChainParts'
    BY <1>1, <1>2, <1>4, <1>6, BundleKeepsChains
  <1>8. /\ RosterParts' /\ roster' \in Seq(SUBSET Peers) /\ heard' \in [Peers -> Seq(Nat)]
        /\ epoch' \in [Peers -> Nat \cup {NoGroup}] /\ members' \in [Peers -> SUBSET Peers]
    <2> DEFINE a == {x}
               d == {}
    <2>1. /\ a \in SUBSET {x} /\ d \in SUBSET {x} /\ (a = {} \/ d = {})
          /\ ms = (members[Founder] \cup a) \ d
          /\ roster' = Append(roster, (roster[Len(roster)] \cup a) \ d)
      <3>1. (roster[Len(roster)] \cup a) \ d = roster[Len(roster)] \cup {x}
        OBVIOUS
      <3>2. ms = (members[Founder] \cup a) \ d
        BY DEF ms
      <3> QED
        BY <1>1, <3>1, <3>2
    <2>2. \A m \in net' : m \in net \/ m.kind = "key" \/ \E q \in ms \ {Founder} : m = UpdateMsg(q, a, d, e)
      BY <1>5 DEF out
    <2>3. e = epoch[Founder] + 1
      BY DEF e
    <2>4. orphans \subseteq orphans' /\ \A r \in Peers : r # Founder => mine'[r] = mine[r]
      BY <1>5
    <2> HIDE DEF a, d
    <2> QED
      <3>1. FounderChange(a, d, ms, e)
        BY <1>1, <2>1, <2>2, <2>3, <2>4 DEF FounderChange
      <3> QED
        BY <1>2, <2>1, <3>1, FounderChanges
  <1>9. TypeOK'
    BY <1>1, <1>5, <1>8 DEF IndInv, TypeOK, KeysTyped
  <1> QED
    BY <1>7, <1>8, <1>9 DEF IndInv

LEMMA HandleGroupRemovePreserves ==
    ASSUME IndInv, NEW x \in Targets, HandleGroupRemove(x)
    PROVE  IndInv'
  <1> DEFINE ms == members[Founder] \ {x}
             e == epoch[Founder] + 1
             out == net \cup {UpdateMsg(q, {}, {x}, e) : q \in ms \ {Founder}}
  <1> USE GroupAssumption
  <1>1. /\ Known(Founder) /\ epoch' = [epoch EXCEPT ![Founder] = e]
        /\ members' = [members EXCEPT ![Founder] = ms]
        /\ theirs' = [theirs EXCEPT ![Founder][x] = NoReceiver]
        /\ roster' = Append(roster, roster[Len(roster)] \ {x})
        /\ heard' = [heard EXCEPT ![Founder] = Append(@, e)]
        /\ RotateOrCrash(Founder, ms, e, out)
        /\ UNCHANGED <<stored, left, base, sent>>
    BY DEF HandleGroupRemove, DropMember
  <1>2. x \in Peers /\ Founder \in Peers /\ ms \in SUBSET Peers /\ ms \in SUBSET members[Founder]
        /\ e \in Nat
    <2>1. members[Founder] \in SUBSET Peers /\ epoch[Founder] \in Nat
      BY <1>1 DEF IndInv, TypeOK, Known
    <2> QED
      BY <2>1
  <1>3. \A q \in ms \ {Founder} : LET u == UpdateMsg(q, {}, {x}, e) IN
            u \in Messages /\ u.from # u.to /\ u.kind = "update"
    <2>1. \A q \in ms \ {Founder} : UpdateMsg(q, {}, {x}, e) \in Messages
      BY <1>2, MessagesMade
    <2> QED
      BY <2>1 DEF UpdateMsg
  <1> HIDE DEF ms, e
  <1>4. WellSent(out) /\ NoNewChains(out)
    BY <1>3 DEF WellSent, NoNewChains, IndInv, TypeOK
  <1> HIDE DEF out
  <1>5. /\ KeysTyped' /\ orphans \subseteq orphans'
        /\ \A r \in Peers : r # Founder => mine'[r] = mine[r]
        /\ \A m \in net' : m \in out \/ m.kind = "key"
    BY <1>1, <1>2, <1>4, RotateTyped DEF IndInv
  <1>6. /\ OnlyForgets
        /\ theirs' \in [Peers -> [Peers -> [chain : Chains, next : Nat, skipped : SUBSET Nat]]]
    BY <1>1, <1>2, NoChainRows DEF OnlyForgets, IndInv, TypeOK
  <1>7. ChainParts'
    BY <1>1, <1>2, <1>4, <1>6, RemovalKeepsChains
  <1>8. /\ RosterParts' /\ roster' \in Seq(SUBSET Peers) /\ heard' \in [Peers -> Seq(Nat)]
        /\ epoch' \in [Peers -> Nat \cup {NoGroup}] /\ members' \in [Peers -> SUBSET Peers]
    <2> DEFINE a == {}
               d == {x}
    <2>1. /\ a \in SUBSET {x} /\ d \in SUBSET {x} /\ (a = {} \/ d = {})
          /\ ms = (members[Founder] \cup a) \ d
          /\ roster' = Append(roster, (roster[Len(roster)] \cup a) \ d)
      <3>1. (roster[Len(roster)] \cup a) \ d = roster[Len(roster)] \ {x}
        OBVIOUS
      <3>2. ms = (members[Founder] \cup a) \ d
        BY DEF ms
      <3> QED
        BY <1>1, <3>1, <3>2
    <2>2. \A m \in net' : m \in net \/ m.kind = "key" \/ \E q \in ms \ {Founder} : m = UpdateMsg(q, a, d, e)
      BY <1>5 DEF out
    <2>3. e = epoch[Founder] + 1
      BY DEF e
    <2>4. orphans \subseteq orphans' /\ \A r \in Peers : r # Founder => mine'[r] = mine[r]
      BY <1>5
    <2> HIDE DEF a, d
    <2> QED
      <3>1. FounderChange(a, d, ms, e)
        BY <1>1, <2>1, <2>2, <2>3, <2>4 DEF FounderChange
      <3> QED
        BY <1>2, <2>1, <3>1, FounderChanges
  <1>9. TypeOK'
    BY <1>1, <1>5, <1>6, <1>8 DEF IndInv, TypeOK, KeysTyped
  <1> QED
    BY <1>7, <1>8, <1>9 DEF IndInv

-----------------------------------------------------------------------------
(* Keys and messages do not touch the parts about rosters.                 *)
LEMMA RosterIdle ==
    ASSUME IndInv, UNCHANGED <<epoch, members, heard, roster, left, mine, orphans>>, net' \subseteq net
    PROVE  RosterParts'
  <1> USE DEF IndInv, RosterParts
  <1>1. NothingBefore'
    BY DEF NothingBefore, Created, Known
  <1>2. StrangersEmpty'
    BY DEF StrangersEmpty, Known, HasChain
  <1>3. ControlsFit' /\ UpdatesDiffer'
    BY DEF ControlsFit, UpdatesDiffer, Known
  <1>4. EpochsInRange' /\ FounderCurrent' /\ OrderedAgree'
    BY DEF EpochsInRange, FounderCurrent, OrderedAgree, Known
  <1> QED
    BY <1>1, <1>2, <1>3, <1>4

(* A MembershipUpdate at a node that knows the group: it counts as heard,  *)
(* and is applied exactly if its epoch is a later one.                     *)
UpdateHeard(m) ==
    /\ m.kind = "update" /\ Known(m.to)
    /\ heard' = [heard EXCEPT ![m.to] = Append(@, m.epoch)]
    /\ \/ m.epoch <= epoch[m.to] /\ UNCHANGED <<epoch, members>>
       \/ /\ m.epoch > epoch[m.to]
          /\ epoch' = [epoch EXCEPT ![m.to] = m.epoch]
          /\ members' = [members EXCEPT ![m.to] = (@ \cup m.added) \ m.removed]
    /\ \A n \in net' : n \in net \/ n.kind = "key"
    /\ \A r \in Peers : r # m.to => mine'[r] = mine[r]
    /\ orphans \subseteq orphans' /\ UNCHANGED <<roster, left>>

LEMMA UpdateKeepsRosters ==
    ASSUME IndInv, NEW m \in net, UpdateHeard(m)
    PROVE  /\ RosterParts' /\ heard' \in [Peers -> Seq(Nat)]
           /\ epoch' \in [Peers -> Nat \cup {NoGroup}] /\ members' \in [Peers -> SUBSET Peers]
  <1> DEFINE p == m.to
             e == m.epoch
  <1> USE DEF IndInv, RosterParts
  <1>1. /\ epoch \in [Peers -> Nat \cup {NoGroup}] /\ members \in [Peers -> SUBSET Peers]
        /\ heard \in [Peers -> Seq(Nat)] /\ roster \in Seq(SUBSET Peers) /\ net \subseteq Messages
    BY DEF TypeOK
  <1>2. p \in Peers /\ e \in Nat /\ m.added \in SUBSET Peers /\ m.removed \in SUBSET Peers
    BY <1>1, MessageShapes DEF UpdateHeard
  <1>3. p # Founder /\ epoch[p] \in Nat /\ epoch[p] # NoGroup
    BY <1>1, <1>2 DEF ControlsFit, UpdateHeard, Known
  <1>4. /\ e > 0 /\ e < Len(roster)
        /\ roster[e + 1] = (roster[e] \cup m.added) \ m.removed
    BY DEF UpdatesDiffer, UpdateHeard
  <1>5. /\ heard'[p] = Append(heard[p], e) /\ \A r \in Peers : r # p => heard'[r] = heard[r]
        /\ heard' \in [Peers -> Seq(Nat)]
        /\ Len(heard[p]) \in Nat
        /\ Ordered(heard'[p]) <=> Ordered(heard[p]) /\ e = Len(heard[p]) + 1
        /\ Len(heard'[p]) = Len(heard[p]) + 1
    <2>1. heard[p] \in Seq(Nat)
      BY <1>1, <1>2
    <2>2. /\ Append(heard[p], e) \in Seq(Nat)
          /\ Ordered(Append(heard[p], e)) <=> Ordered(heard[p]) /\ e = Len(heard[p]) + 1
          /\ Len(Append(heard[p], e)) = Len(heard[p]) + 1
      BY <1>2, <2>1, OrderedAppend
    <2>3. /\ heard'[p] = Append(heard[p], e) /\ \A r \in Peers : r # p => heard'[r] = heard[r]
      BY <1>1, <1>2 DEF UpdateHeard
    <2>4. heard' \in [Peers -> Seq(Nat)]
      BY <1>1, <1>2, <2>2 DEF UpdateHeard
    <2>5. Len(heard[p]) \in Nat
      BY <2>1
    <2> QED
      BY <2>2, <2>3, <2>4, <2>5
  <1>6. /\ epoch' \in [Peers -> Nat \cup {NoGroup}] /\ members' \in [Peers -> SUBSET Peers]
        /\ \A r \in Peers : r # p => epoch'[r] = epoch[r] /\ members'[r] = members[r]
        /\ \/ e <= epoch[p] /\ epoch'[p] = epoch[p] /\ members'[p] = members[p]
           \/ /\ e > epoch[p] /\ epoch'[p] = e
              /\ members'[p] = (members[p] \cup m.added) \ m.removed
    <2>1. CASE e <= epoch[p] /\ UNCHANGED <<epoch, members>>
      BY <1>1, <2>1
    <2>2. CASE /\ e > epoch[p] /\ epoch' = [epoch EXCEPT ![p] = e]
               /\ members' = [members EXCEPT ![p] = (@ \cup m.added) \ m.removed]
      BY <1>1, <1>2, <2>2
    <2> QED
      BY <2>1, <2>2 DEF UpdateHeard
  <1>7. /\ \A n \in net' : n \in net \/ n.kind = "key"
        /\ \A r \in Peers : r # p => mine'[r] = mine[r]
        /\ orphans \subseteq orphans' /\ roster' = roster /\ left' = left
    BY DEF UpdateHeard
  <1>8. epoch'[p] \in Nat /\ epoch'[p] # NoGroup /\ epoch'[p] < Len(roster)
    BY <1>2, <1>3, <1>4, <1>6 DEF EpochsInRange, Known, NoGroup
  <1>9. \A n \in net : n.to \in Peers
    BY <1>1, MessageShapes
  <1> HIDE DEF p, e
  <1>10. NothingBefore'
    <2>1. Created
      BY <1>2 DEF NothingBefore
    <2> QED
      BY <1>7, <2>1 DEF NothingBefore, Created
  <1>11. StrangersEmpty'
    BY <1>6, <1>7, <1>8 DEF StrangersEmpty, Known, HasChain
  <1>12. ControlsFit'
    BY <1>3, <1>5, <1>6, <1>7, <1>9 DEF ControlsFit, Known
  <1>13. UpdatesDiffer'
    BY <1>7 DEF UpdatesDiffer
  <1>14. EpochsInRange' /\ FounderCurrent'
    BY <1>3, <1>5, <1>6, <1>7, <1>8, GroupAssumption DEF EpochsInRange, FounderCurrent, Known
  <1>15. OrderedAgree'
    <2> SUFFICES ASSUME NEW r \in Peers, epoch'[r] # NoGroup, Ordered(heard'[r])
                 PROVE  epoch'[r] = Len(heard'[r]) /\ members'[r] \ left = roster[epoch'[r] + 1] \ left
      BY <1>7 DEF OrderedAgree, Known, Ordered
    <2>1. CASE r = p
      <3>1. epoch[p] = Len(heard[p]) /\ members[p] \ left = roster[epoch[p] + 1] \ left
        BY <1>2, <1>3, <1>5, <2>1 DEF OrderedAgree, Known
      <3>2. e = epoch[p] + 1
        BY <1>5, <2>1, <3>1
      <3>3. epoch'[p] = e /\ members'[p] = (members[p] \cup m.added) \ m.removed
        BY <1>2, <1>3, <1>6, <3>2
      <3> QED
        BY <1>4, <1>5, <2>1, <3>1, <3>2, <3>3
    <2>2. CASE r # p
      BY <1>5, <1>6, <2>2 DEF OrderedAgree, Known
    <2> QED
      BY <2>1, <2>2
  <1> QED
    BY <1>5, <1>6, <1>10, <1>11, <1>12, <1>13, <1>14, <1>15

LEMMA ReceiveUpdateIgnoredPreserves ==
    ASSUME IndInv, NEW m \in net, ReceiveUpdateIgnored(m)
    PROVE  IndInv'
  <1>1. /\ m.kind = "update" /\ ~UpdateApplies(m) /\ net' = net \ {m} /\ Hears(m)
        /\ UNCHANGED <<epoch, members, mine, theirs, stored, drawn, crashes, roster, left, held,
                       base, sent, orphans, unrotated>>
    BY DEF ReceiveUpdateIgnored, store
  <1>2. ChainParts'
    <2>1. OnlyForgets
      BY <1>1 DEF OnlyForgets
    <2> QED
      BY <1>1, <2>1, QuietKeepsChains
  <1>3. RosterParts' /\ heard' \in [Peers -> Seq(Nat)]
    <2>1. CASE Known(m.to)
      <3>1. m.epoch \in Nat /\ epoch[m.to] \in Nat
        BY <1>1, <2>1, MessageShapes DEF IndInv, TypeOK, Known
      <3>2. UpdateHeard(m)
        BY <1>1, <2>1, <3>1 DEF UpdateHeard, UpdateApplies, Hears
      <3> QED
        BY <3>2, UpdateKeepsRosters
    <2>2. CASE ~Known(m.to)
      BY <1>1, <2>2, RosterIdle DEF Hears, IndInv, TypeOK
    <2> QED
      BY <2>1, <2>2
  <1>4. TypeOK'
    BY <1>1, <1>3 DEF IndInv, TypeOK, HasChain
  <1> QED
    BY <1>2, <1>3, <1>4 DEF IndInv

LEMMA ReceiveAddedPreserves ==
    ASSUME IndInv, NEW m \in net, ReceiveAdded(m)
    PROVE  IndInv'
  <1> DEFINE out == net \ {m}
  <1>1. /\ m.kind = "update" /\ Known(m.to) /\ m.epoch > epoch[m.to] /\ m.removed = {}
        /\ epoch' = [epoch EXCEPT ![m.to] = m.epoch]
        /\ members' = [members EXCEPT ![m.to] = @ \cup m.added]
        /\ heard' = [heard EXCEPT ![m.to] = Append(@, m.epoch)]
        /\ SendMyBundleTo(m.to, m.added, m.epoch, out)
        /\ UNCHANGED <<theirs, stored, crashes, roster, left, base, sent, unrotated>>
    BY DEF ReceiveAdded, UpdateApplies, Hears
  <1>2. m.to \in Peers /\ m.epoch \in Nat /\ m.added \in SUBSET Peers
    BY <1>1, MessageShapes DEF IndInv, TypeOK
  <1>3. WellSent(out) /\ NoNewChains(out)
    BY DEF WellSent, NoNewChains, IndInv, TypeOK
  <1>4. out \subseteq net
    OBVIOUS
  <1> HIDE DEF out
  <1>5. /\ KeysTyped' /\ mine' = mine /\ orphans' = orphans
        /\ \A n \in net' : n \in out \/ n.kind = "key"
    BY <1>1, <1>2, <1>3, SendMyBundleTyped DEF IndInv
  <1>6. ChainParts'
    BY <1>1, <1>2, <1>3, BundleKeepsChains
  <1>7. UpdateHeard(m)
    <2>1. members' = [members EXCEPT ![m.to] = (@ \cup m.added) \ m.removed]
      BY <1>1
    <2> QED
      BY <1>1, <1>4, <1>5, <2>1 DEF UpdateHeard
  <1>8. /\ RosterParts' /\ heard' \in [Peers -> Seq(Nat)]
        /\ epoch' \in [Peers -> Nat \cup {NoGroup}] /\ members' \in [Peers -> SUBSET Peers]
    BY <1>7, UpdateKeepsRosters
  <1>9. TypeOK'
    BY <1>1, <1>5, <1>8 DEF IndInv, TypeOK, KeysTyped
  <1> QED
    BY <1>6, <1>8, <1>9 DEF IndInv

LEMMA ReceiveRemovedPreserves ==
    ASSUME IndInv, NEW m \in net, ReceiveRemoved(m)
    PROVE  IndInv'
  <1> DEFINE out == net \ {m}
             ms == members[m.to] \ m.removed
  <1>1. /\ m.kind = "update" /\ Known(m.to) /\ m.epoch > epoch[m.to] /\ m.removed # {}
        /\ \E x \in m.removed : DropMember(m.to, x, m.epoch)
        /\ heard' = [heard EXCEPT ![m.to] = Append(@, m.epoch)]
        /\ RotateOrCrash(m.to, ms, m.epoch, out)
        /\ UNCHANGED <<stored, roster, left, base, sent>>
    BY DEF ReceiveRemoved, UpdateApplies, Hears
  <1>2. m.to \in Peers /\ m.epoch \in Nat
    BY <1>1, MessageShapes DEF IndInv, TypeOK
  <1>3. PICK x \in Peers : m.removed = {x} /\ m.added = {}
    BY <1>1 DEF IndInv, RosterParts, UpdatesDiffer
  <1>4. /\ epoch' = [epoch EXCEPT ![m.to] = m.epoch]
        /\ members' = [members EXCEPT ![m.to] = ms]
        /\ theirs' = [theirs EXCEPT ![m.to][x] = NoReceiver]
    BY <1>1, <1>3 DEF DropMember
  <1>5. ms \in SUBSET members[m.to] /\ ms \in SUBSET Peers /\ out \subseteq net
    BY <1>2 DEF IndInv, TypeOK
  <1>6. WellSent(out) /\ NoNewChains(out)
    BY DEF WellSent, NoNewChains, IndInv, TypeOK
  <1>7. members' = [members EXCEPT ![m.to] = (@ \cup m.added) \ m.removed]
    BY <1>3, <1>4
  <1> HIDE DEF out, ms
  <1>8. /\ KeysTyped' /\ orphans \subseteq orphans'
        /\ \A r \in Peers : r # m.to => mine'[r] = mine[r]
        /\ \A n \in net' : n \in out \/ n.kind = "key"
    BY <1>1, <1>2, <1>5, <1>6, RotateTyped DEF IndInv
  <1>9. /\ OnlyForgets
        /\ theirs' \in [Peers -> [Peers -> [chain : Chains, next : Nat, skipped : SUBSET Nat]]]
    BY <1>2, <1>3, <1>4, NoChainRows DEF OnlyForgets, IndInv, TypeOK
  <1>10. ChainParts'
    BY <1>1, <1>2, <1>4, <1>5, <1>6, <1>9, RemovalKeepsChains
  <1>11. UpdateHeard(m)
    BY <1>1, <1>4, <1>5, <1>7, <1>8 DEF UpdateHeard
  <1>12. /\ RosterParts' /\ heard' \in [Peers -> Seq(Nat)]
         /\ epoch' \in [Peers -> Nat \cup {NoGroup}] /\ members' \in [Peers -> SUBSET Peers]
    BY <1>11, UpdateKeepsRosters
  <1>13. TypeOK'
    BY <1>1, <1>8, <1>9, <1>12 DEF IndInv, TypeOK, KeysTyped
  <1> QED
    BY <1>10, <1>12, <1>13 DEF IndInv

LEMMA ReceiveKeyPreserves ==
    ASSUME IndInv, NEW m \in net, ReceiveKey(m)
    PROVE  IndInv'
  <1>1. m.from \in Peers /\ m.to \in Peers /\ m.bundle \in Bundles
    BY MessageShapes DEF ReceiveKey, IndInv, TypeOK
  <1>2. FromBundle(m.bundle) \in [chain : Chains, next : Nat, skipped : SUBSET Nat] /\ m.bundle.index \in Nat
    BY <1>1 DEF Bundles, FromBundle
  <1>3. /\ theirs' \in [Peers -> [Peers -> [chain : Chains, next : Nat, skipped : SUBSET Nat]]]
        /\ base' \in [Peers -> [Peers -> Nat]]
    <2>1. /\ theirs \in [Peers -> [Peers -> [chain : Chains, next : Nat, skipped : SUBSET Nat]]]
          /\ base \in [Peers -> [Peers -> Nat]]
      BY DEF IndInv, TypeOK
    <2>2. CASE m.from \in members[m.to]
      <3>1. /\ theirs' = [theirs EXCEPT ![m.to][m.from] = FromBundle(m.bundle)]
            /\ base' = [base EXCEPT ![m.to][m.from] = m.bundle.index]
        BY <2>2 DEF ReceiveKey
      <3> QED
        BY <1>1, <1>2, <2>1, <3>1
    <2>3. CASE m.from \notin members[m.to]
      BY <2>1, <2>3 DEF ReceiveKey
    <2> QED
      BY <2>2, <2>3
  <1>4. TypeOK'
    BY <1>3 DEF ReceiveKey, IndInv, TypeOK, HasChain
  <1>5. RosterParts'
    BY RosterIdle DEF ReceiveKey
  <1> QED
    BY <1>4, <1>5, ReceiveKeyKeepsChains DEF IndInv

LEMMA ReceiveMessagePreserves ==
    ASSUME IndInv, NEW m \in net, ReceiveMessage(m)
    PROVE  IndInv'
  <1> DEFINE Rows == [chain : Chains, next : Nat, skipped : SUBSET Nat]
  <1>1. m.from \in Peers /\ m.to \in Peers /\ m.msg \in Bundles
    BY MessageShapes DEF ReceiveMessage, IndInv, TypeOK
  <1>2. theirs[m.to][m.from] \in Rows /\ m.msg.index \in Nat
    <2>1. theirs \in [Peers -> [Peers -> Rows]]
      BY DEF IndInv, TypeOK
    <2> HIDE DEF Rows
    <2>2. theirs[m.to][m.from] \in Rows
      BY <1>1, <2>1
    <2>3. m.msg.index \in Nat
      BY <1>1 DEF Bundles
    <2> QED
      BY <2>2, <2>3
  <1>3. AfterDecrypt(theirs[m.to][m.from], m.msg) \in Rows
    <2> DEFINE r == theirs[m.to][m.from]
    <2>1. r \in Rows /\ r.next \in Nat /\ r.skipped \in SUBSET Nat
      BY <1>2
    <2>2. /\ [r EXCEPT !.skipped = @ \ {m.msg.index}] \in Rows
          /\ [r EXCEPT !.skipped = @ \cup (r.next .. (m.msg.index - 1)), !.next = m.msg.index + 1] \in Rows
      <3>1. r.skipped \ {m.msg.index} \in SUBSET Nat
        BY <2>1
      <3>2. r.skipped \cup (r.next .. (m.msg.index - 1)) \in SUBSET Nat
        BY <1>2, <2>1
      <3>3. \A t \in Rows : \A k \in SUBSET Nat : \A i \in Nat :
              [t EXCEPT !.skipped = k] \in Rows /\ [t EXCEPT !.skipped = k, !.next = i] \in Rows
        OBVIOUS
      <3>4. m.msg.index + 1 \in Nat
        BY <1>2
      <3> HIDE DEF r, Rows
      <3> QED
        BY <2>1, <3>1, <3>2, <3>3, <3>4
    <2> HIDE DEF r, Rows
    <2>3. AfterDecrypt(r, m.msg) \in Rows
      BY <2>2 DEF AfterDecrypt
    <2> QED
      BY <2>3 DEF r
  <1>4. theirs' \in [Peers -> [Peers -> Rows]] /\ stored' \in [Peers -> SUBSET Bundles]
    <2>1. theirs \in [Peers -> [Peers -> Rows]] /\ stored \in [Peers -> SUBSET Bundles]
      BY DEF IndInv, TypeOK
    <2> HIDE DEF Rows
    <2>2. \/ /\ theirs' = [theirs EXCEPT ![m.to][m.from] = AfterDecrypt(@, m.msg)]
             /\ stored' = [stored EXCEPT ![m.to] = @ \cup {m.msg}]
          \/ theirs' = theirs /\ stored' = stored
      BY DEF ReceiveMessage
    <2> QED
      BY <1>1, <1>3, <2>1, <2>2
  <1>5. TypeOK'
    BY <1>4 DEF ReceiveMessage, IndInv, TypeOK, HasChain
  <1>6. RosterParts'
    BY RosterIdle DEF ReceiveMessage
  <1> QED
    BY <1>5, <1>6, ReceiveMessageKeepsChains DEF IndInv

LEMMA ReceiveCreatePreserves ==
    ASSUME IndInv, NEW m \in net, ReceiveCreate(m)
    PROVE  IndInv'
  <1> DEFINE p == m.to
  <1>1. /\ m.kind = "create" /\ epoch' = [epoch EXCEPT ![p] = 0]
        /\ members' = [members EXCEPT ![p] = @ \cup m.members]
        /\ net' = net \ {m}
        /\ UNCHANGED <<mine, theirs, stored, drawn, crashes, roster, left, heard, held, base, sent,
                       orphans, unrotated>>
    BY DEF ReceiveCreate
  <1>2. /\ epoch \in [Peers -> Nat \cup {NoGroup}] /\ members \in [Peers -> SUBSET Peers]
        /\ net \subseteq Messages /\ roster \in Seq(SUBSET Peers)
    BY DEF IndInv, TypeOK
  <1>3. p \in Peers /\ m.members \in SUBSET Peers
    BY <1>1, <1>2, MessageShapes
  <1>4. /\ epoch[p] = NoGroup /\ heard[p] = <<>> /\ m.from = Founder /\ m.members = roster[1]
        /\ p # Founder
    BY <1>1 DEF IndInv, RosterParts, ControlsFit, Known
  <1>5. members[p] = {} /\ (mine[p] # NoSender => mine[p].chain \in orphans)
    BY <1>3, <1>4 DEF IndInv, RosterParts, StrangersEmpty, Known, HasChain
  <1>6. /\ epoch'[p] = 0 /\ members'[p] = m.members /\ 0 # NoGroup
        /\ \A r \in Peers : r # p => epoch'[r] = epoch[r] /\ members'[r] = members[r]
    BY <1>1, <1>2, <1>3, <1>5 DEF NoGroup
  <1>7. roster # <<>> /\ Len(roster) \in Nat /\ Len(roster) > 0
    <2>1. Created
      BY <1>3 DEF IndInv, RosterParts, NothingBefore
    <2> QED
      BY <1>2, <2>1 DEF Created
  <1>8. \A n \in net' : n \in net /\ n.to \in Peers /\ (n.kind = "create" => n.to # p)
    <2>1. ASSUME NEW n \in net, n.kind = "create", n.to = p
          PROVE  n = m
      <3>1. n.from = Founder /\ n.members = roster[1]
        BY <2>1 DEF IndInv, RosterParts, ControlsFit
      <3>2. /\ n \in [kind : {"create"}, from : Peers, to : Peers, members : SUBSET Peers]
            /\ m \in [kind : {"create"}, from : Peers, to : Peers, members : SUBSET Peers]
        BY <1>1, <1>2, <2>1 DEF Messages
      <3> QED
        BY <1>1, <1>4, <2>1, <3>1, <3>2
    <2> QED
      BY <1>1, <1>2, <2>1, MessageShapes
  <1> HIDE DEF p
  <1>9. TypeOK'
    <2>1. epoch' \in [Peers -> Nat \cup {NoGroup}] /\ members' \in [Peers -> SUBSET Peers]
      BY <1>1, <1>2, <1>3
    <2> QED
      BY <1>1, <2>1 DEF IndInv, TypeOK, HasChain
  <1>10. ChainParts'
    <2>1. OnlyForgets
      BY <1>1 DEF OnlyForgets
    <2>2. \A r \in Peers : mine'[r] # NoSender =>
            /\ members[r] \subseteq members'[r]
            /\ mine'[r].chain \notin orphans => members'[r] \subseteq members[r]
      BY <1>1, <1>5, <1>6
    <2> QED
      BY <1>1, <2>1, <2>2, QuietKeepsChains
  <1>11. RosterParts'
    <2> USE DEF IndInv, RosterParts
    <2>1. NothingBefore'
      BY <1>1, <1>7 DEF NothingBefore, Created
    <2>2. StrangersEmpty'
      BY <1>1, <1>6 DEF StrangersEmpty, Known, HasChain
    <2>3. ControlsFit'
      BY <1>1, <1>6, <1>8 DEF ControlsFit, Known
    <2>4. UpdatesDiffer'
      BY <1>1 DEF UpdatesDiffer
    <2>5. EpochsInRange' /\ FounderCurrent'
      BY <1>1, <1>4, <1>6, <1>7, GroupAssumption DEF EpochsInRange, FounderCurrent, Known
    <2>6. OrderedAgree'
      BY <1>1, <1>4, <1>6 DEF OrderedAgree, Known
    <2> QED
      BY <2>1, <2>2, <2>3, <2>4, <2>5, <2>6
  <1> QED
    BY <1>9, <1>10, <1>11 DEF IndInv

LEMMA ReceiveLeavePreserves ==
    ASSUME IndInv, NEW m \in net, ReceiveLeave(m)
    PROVE  IndInv'
  <1> DEFINE p == m.to
             ms == members[p] \ {m.from}
             e == IF Known(p) THEN epoch[p] ELSE 0
             out == net \ {m}
  <1>1. /\ m.kind = "leave" /\ members' = [members EXCEPT ![p] = ms]
        /\ theirs' = [theirs EXCEPT ![p][m.from] = NoReceiver]
        /\ RotateOrCrash(p, ms, e, out)
        /\ UNCHANGED <<epoch, stored, roster, left, heard, base, sent>>
    BY DEF ReceiveLeave
  <1>2. p \in Peers /\ m.from \in Peers /\ m.from \in left
    BY <1>1, MessageShapes DEF IndInv, TypeOK, RosterParts, ControlsFit
  <1>3. /\ ms \in SUBSET members[p] /\ ms \in SUBSET Peers /\ e \in Nat /\ out \subseteq net
        /\ ms \ left = members[p] \ left
    BY <1>2 DEF IndInv, TypeOK, Known
  <1>4. WellSent(out) /\ NoNewChains(out)
    BY DEF WellSent, NoNewChains, IndInv, TypeOK
  <1>5. members[p] = {} => ms = {}
    OBVIOUS
  <1>6. Created
    BY <1>2 DEF IndInv, RosterParts, NothingBefore
  <1> HIDE DEF out, ms, e, p
  <1>7. /\ KeysTyped' /\ orphans \subseteq orphans'
        /\ \A r \in Peers : r # p => mine'[r] = mine[r]
        /\ mine'[p] = mine[p] \/ Known(p) \/ mine'[p].chain \in orphans'
        /\ \A n \in net' : n \in out \/ n.kind = "key"
    BY <1>1, <1>2, <1>3, <1>4, RotateTyped DEF IndInv
  <1>8. /\ OnlyForgets
        /\ theirs' \in [Peers -> [Peers -> [chain : Chains, next : Nat, skipped : SUBSET Nat]]]
    BY <1>1, <1>2, NoChainRows DEF OnlyForgets, IndInv, TypeOK
  <1>9. ChainParts'
    BY <1>1, <1>2, <1>3, <1>4, <1>8, RemovalKeepsChains
  <1>10. /\ members' \in [Peers -> SUBSET Peers] /\ members'[p] = ms
         /\ \A r \in Peers : r # p => members'[r] = members[r]
    BY <1>1, <1>2, <1>3 DEF IndInv, TypeOK
  <1>11. RosterParts'
    <2> USE DEF IndInv, RosterParts
    <2>1. NothingBefore'
      BY <1>1, <1>6 DEF NothingBefore, Created
    <2>2. StrangersEmpty'
      BY <1>1, <1>2, <1>5, <1>7, <1>10 DEF StrangersEmpty, Known, HasChain
    <2>3. ControlsFit' /\ UpdatesDiffer'
      BY <1>1, <1>3, <1>7 DEF ControlsFit, UpdatesDiffer, Known
    <2>4. EpochsInRange' /\ FounderCurrent'
      BY <1>1 DEF EpochsInRange, FounderCurrent, Known
    <2>5. OrderedAgree'
      BY <1>1, <1>3, <1>10 DEF OrderedAgree, Known
    <2> QED
      BY <2>1, <2>2, <2>3, <2>4, <2>5
  <1>12. TypeOK'
    BY <1>1, <1>7, <1>8, <1>10 DEF IndInv, TypeOK, KeysTyped
  <1> QED
    BY <1>9, <1>11, <1>12 DEF IndInv

-----------------------------------------------------------------------------
LEMMA InitHolds == Init => IndInv
  <1> SUFFICES ASSUME Init PROVE IndInv
    OBVIOUS
  <1>1. TypeOK
    <2>1. NoGroup \in Nat \cup {NoGroup} /\ 0 \in Nat
      OBVIOUS
    <2>2. roster \in Seq(SUBSET Peers) /\ heard \in [Peers -> Seq(Nat)]
      BY DEF Init
    <2> QED
      BY <2>1, <2>2, NoChainRows DEF Init, TypeOK, HasChain
  <1>2. ChainParts
    <2>1. SenderParts
      BY DEF Init, SenderParts, MineIssued, HeldIssued, WireIssued, SentIssued, HeldBehind,
             WireBehind, SentBehind, HoldersAreMembers, MembersAreHolders, DepartedLockedOut,
             AudienceHasChain, HasChain
    <2>2. ReceiverParts
      BY DEF Init, ReceiverParts, TheirsIssued, TheirsBehind, InFlightOpens, HasChain
    <2> QED
      BY <2>1, <2>2 DEF ChainParts
  <1>3. RosterParts
    <2>1. \A q \in Peers : epoch[q] = NoGroup /\ members[q] = {} /\ mine[q] = NoSender /\ heard[q] = <<>>
      BY DEF Init
    <2> QED
      BY <2>1, GroupAssumption
      DEF Init, RosterParts, NothingBefore, StrangersEmpty, ControlsFit, UpdatesDiffer,
          EpochsInRange, FounderCurrent, OrderedAgree, Known, HasChain
  <1> QED
    BY <1>1, <1>2, <1>3 DEF IndInv

LEMMA NextPreserves == IndInv /\ [Next]_vars => IndInv'
  <1> SUFFICES ASSUME IndInv, [Next]_vars PROVE IndInv'
    OBVIOUS
  <1>1. ASSUME NEW invited \in Invitations, HandleGroupCreate(invited) PROVE IndInv'
    BY <1>1, HandleGroupCreatePreserves
  <1>2. ASSUME NEW x \in Targets, HandleGroupAdd(x) PROVE IndInv'
    BY <1>2, HandleGroupAddPreserves
  <1>3. ASSUME NEW x \in Targets, HandleGroupRemove(x) PROVE IndInv'
    BY <1>3, HandleGroupRemovePreserves
  <1>4. ASSUME NEW p \in Leavers, HandleGroupLeave(p) PROVE IndInv'
    BY <1>4, HandleGroupLeavePreserves, GroupAssumption
  <1>5. ASSUME NEW p \in Senders, GroupSend(p) PROVE IndInv'
    BY <1>5, GroupSendPreserves, GroupAssumption
  <1>6. ASSUME NEW m \in net, Deliver(m) PROVE IndInv'
    BY <1>6, ReceiveCreatePreserves, ReceiveUpdateIgnoredPreserves, ReceiveAddedPreserves,
       ReceiveRemovedPreserves, ReceiveKeyPreserves, ReceiveLeavePreserves, ReceiveMessagePreserves
    DEF Deliver
  <1>7. CASE UNCHANGED vars
    <2>1. UNCHANGED <<epoch, members, mine, theirs, stored, net, drawn, crashes, roster, left, heard,
                      held, base, sent, orphans, unrotated>>
      BY <1>7 DEF vars, store
    <2>2. TypeOK'
      BY <2>1 DEF IndInv, TypeOK, HasChain
    <2>3. ChainParts'
      <3>1. OnlyForgets
        BY <2>1 DEF OnlyForgets
      <3> QED
        BY <2>1, <3>1, QuietKeepsChains
    <2>4. RosterParts'
      BY <2>1, RosterIdle
    <2> QED
      BY <2>2, <2>3, <2>4 DEF IndInv
  <1> QED
    BY <1>1, <1>2, <1>3, <1>4, <1>5, <1>6, <1>7 DEF Next

LEMMA IndInvHolds == Spec => []IndInv
  BY InitHolds, NextPreserves, PTL DEF Spec

(* The rows and the wire keep their shape, and a node that has got the     *)
(* founder's updates one after the other has the founder's list of that    *)
(* epoch, leavers aside: process_group_control applies differences, and in *)
(* order they add up.                                                      *)
THEOREM RostersAgreeInOrder == Spec => []RostersSound
  <1>1. IndInv => RostersSound
    <2> SUFFICES ASSUME IndInv, NEW p \in Peers, Known(p), heard[p] = [i \in 1 .. epoch[p] |-> i]
                 PROVE  members[p] \ left = roster[epoch[p] + 1] \ left
      BY DEF RostersSound, RosterAgrees, IndInv
    <2>1. heard[p] \in Seq(Nat) /\ epoch[p] \in Nat
      BY DEF IndInv, TypeOK, Known
    <2>2. Len(heard[p]) = epoch[p]
      BY <2>1
    <2>3. Ordered(heard[p])
      BY <2>1, <2>2 DEF Ordered
    <2> QED
      BY <2>3 DEF IndInv, RosterParts, OrderedAgree
  <1> QED
    BY <1>1, IndInvHolds, PTL

(* Nobody who was off the sender's list when a message was sealed can read *)
(* it from the bundles it has kept, unless a crash stopped the rotation    *)
(* (rotate_my_sender_chain_and_broadcast after every removal and Leave).   *)
THEOREM RotationLocksOut == Spec => []DepartedLockedOut
  <1>1. IndInv => DepartedLockedOut
    BY DEF IndInv, ChainParts, SenderParts
  <1> QED
    BY <1>1, IndInvHolds, PTL

(* Whoever group_send fans a message out to has been handed a bundle that  *)
(* reads it, whichever of the three ways it became a member.               *)
THEOREM MembersGetTheChain == Spec => []AudienceHasChain
  <1>1. IndInv => AudienceHasChain
    BY DEF IndInv, ChainParts, SenderParts
  <1> QED
    BY <1>1, IndInvHolds, PTL

(* Reordered delivery costs no message: ReceiverChain::decrypt opens every *)
(* message still on its way that is not older than the installed bundle,   *)
(* unless MAX_SKIP refuses it.                                             *)
THEOREM ReorderedMessagesOpen == Spec => []InFlightOpens
  <1>1. IndInv => InFlightOpens
    BY DEF IndInv, ChainParts, ReceiverParts
  <1> QED
    BY <1>1, IndInvHolds, PTL
=============================================================================
