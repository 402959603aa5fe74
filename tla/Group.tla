------------------------------- MODULE Group -------------------------------
(***************************************************************************)
(* One group chat: founder-signed membership, sender chains handed out     *)
(* over the pairwise sessions, rotation when a member goes (node.rs, the   *)
(* group functions; protocol/group.rs; store.rs, the group tables).        *)
(*                                                                         *)
(* handle_group_create draws a random id, so one group stands for all.     *)
(* Signatures are checked by who can make a message: only the founder      *)
(* sends CreateGroup and MembershipUpdate, only a leaver its Leave.        *)
(*                                                                         *)
(* The pairwise channel is what DmNode shows of it: authentic, each        *)
(* message delivered at most once, in any order.  deliver_kind_to_member   *)
(* drops what it has no session for and nothing is retried; what is lost   *)
(* stays in net for ever, which is all a safety property can see of it.    *)
(* Everything a node knows of a group is in its store, so a restart        *)
(* changes nothing; a crash inside a handler does.                         *)
(***************************************************************************)
EXTENDS Integers, Sequences, FiniteSets, Megolm

CONSTANTS Peers, Founder,
          Invitations,      \* bound: lists the group may be created with
          Targets,          \* bound: peers the founder adds and removes
          Senders,          \* bound: peers whose users write
          Leavers,          \* bound: peers whose users leave
          MaxChanges,       \* bound: membership updates and leaves
          MaxSends,         \* bound: group messages
          MaxCrashes        \* bound: crashes inside a handler

ASSUME GroupAssumption ==
    /\ Founder \in Peers /\ Invitations \subseteq SUBSET Peers
    /\ Targets \subseteq Peers /\ Senders \subseteq Peers /\ Leavers \subseteq Peers
    /\ MaxChanges \in Nat /\ MaxSends \in Nat /\ MaxCrashes \in Nat

VARIABLES epoch,        \* epoch[p]: p's groups row, or NoGroup
          members,      \* members[p]: p's group_members
          mine,         \* mine[p]: p's my_sender_keys row
          theirs,       \* theirs[p][q]: p's their_sender_keys row for q
          stored,       \* stored[p]: p's group_messages of other members
          net,          \* messages on their way
          drawn,        \* drawn[p]: sender chains p has generated
          crashes,      \* use of the bound
          \* history
          roster,       \* roster[e + 1]: the founder's member list of epoch e
          left,         \* peers that have left
          heard,        \* heard[p]: epochs of the updates p got, in order
          held,         \* held[p]: the bundles p has been sent
          base,         \* base[p][q]: index of the bundle p last installed
          sent,         \* the messages sealed, and for whom
          orphans,      \* chains drawn for a group the node had no row of
          unrotated     \* chains a crash kept from being replaced

store == <<epoch, members, mine, theirs, stored>>
vars == <<store, net, drawn, crashes, roster, left, heard, held, base, sent, orphans, unrotated>>

NoGroup == -1
NoSender == NewSenderChain(<<Founder, 0>>)
NoReceiver == FromBundle(NoSender)
Known(p) == epoch[p] # NoGroup
HasChain(p) == mine[p] # NoSender
Created == roster # <<>>
MayChange == Len(roster) - 1 + Cardinality(left) < MaxChanges

(* The wire: GroupControl and GroupMessageEnvelope inside the pairwise     *)
(* session from m.from to m.to.                                            *)
CreateMsg(q, ms) == [kind |-> "create", from |-> Founder, to |-> q, members |-> ms]
UpdateMsg(q, add, rem, e) ==
    [kind |-> "update", from |-> Founder, to |-> q, added |-> add, removed |-> rem, epoch |-> e]
KeyMsg(p, q, b, e) == [kind |-> "key", from |-> p, to |-> q, bundle |-> b, epoch |-> e]
LeaveMsg(p, q) == [kind |-> "leave", from |-> p, to |-> q]
GroupMsg(p, q, c) == [kind |-> "message", from |-> p, to |-> q, msg |-> c]

Fresh(p) == <<p, drawn[p] + 1>>

(* held after bundle b has gone to the peers in qs.                        *)
Handed(qs, b) == [q \in Peers |-> IF q \in qs THEN held[q] \cup {b} ELSE held[q]]

(* Mutant: the fresh chain is handed out but the row keeps the old one.    *)
RotateUnsaved(p, ms, e, out) ==
    LET b == CurrentBundle(NewSenderChain(Fresh(p))) IN
    /\ mine' = mine
    /\ drawn' = [drawn EXCEPT ![p] = @ + 1]
    /\ held' = Handed(ms \ {p}, b)
    /\ net' = out \cup {KeyMsg(p, q, b, e) : q \in ms \ {p}}
    /\ orphans' = IF Known(p) THEN orphans ELSE orphans \cup {Fresh(p)}

(* rotate_my_sender_chain_and_broadcast, with ms and e the member list and *)
(* epoch in p's store by now, and out what the handler has sent before.    *)
Rotate(p, ms, e, out) ==
    LET b == CurrentBundle(NewSenderChain(Fresh(p))) IN
    /\ mine' = [mine EXCEPT ![p] = NewSenderChain(Fresh(p))]
    /\ drawn' = [drawn EXCEPT ![p] = @ + 1]
    /\ held' = Handed(ms \ {p}, b)
    /\ net' = out \cup {KeyMsg(p, q, b, e) : q \in ms \ {p}}
    /\ orphans' = IF Known(p) THEN orphans ELSE orphans \cup {Fresh(p)}

(* Mutant: adding a member hands it nothing.                               *)
SendMyBundleToNobody(p, qs, e, out) ==
    /\ net' = out
    /\ UNCHANGED <<mine, drawn, held, orphans>>

(* send_my_bundle_to for every peer of qs; there is no session with        *)
(* oneself.                                                                *)
SendMyBundleTo(p, qs, e, out) ==
    LET to == IF HasChain(p) THEN qs \ {p} ELSE {}
        b == CurrentBundle(mine[p])
    IN /\ held' = Handed(to, b)
       /\ net' = out \cup {KeyMsg(p, q, b, e) : q \in to}
       /\ UNCHANGED <<mine, drawn, orphans>>

-----------------------------------------------------------------------------
(* handle_group_create: the row first, then CreateGroup to the others.     *)
HandleGroupCreate(invited) ==
    LET ms == invited \cup {Founder} IN
    /\ ~Created
    /\ roster' = <<ms>>
    /\ epoch' = [epoch EXCEPT ![Founder] = 0]
    /\ members' = [members EXCEPT ![Founder] = ms]
    /\ net' = net \cup {CreateMsg(q, ms) : q \in ms \ {Founder}}
    /\ UNCHANGED <<mine, theirs, stored, drawn, crashes, left, heard, held, base, sent, orphans, unrotated>>

(* handle_group_add: the update goes to the new list, the new member       *)
(* included, and then the founder's own bundle to the new member.          *)
HandleGroupAdd(x) ==
    LET ms == members[Founder] \cup {x}
        e == epoch[Founder] + 1
    IN /\ Known(Founder) /\ MayChange
       /\ epoch' = [epoch EXCEPT ![Founder] = e]
       /\ members' = [members EXCEPT ![Founder] = ms]
       /\ roster' = Append(roster, roster[Len(roster)] \cup {x})
       /\ heard' = [heard EXCEPT ![Founder] = Append(@, e)]
       /\ SendMyBundleTo(Founder, {x}, e,
              net \cup {UpdateMsg(q, {x}, {}, e) : q \in ms \ {Founder}})
       /\ UNCHANGED <<theirs, stored, crashes, left, base, sent, unrotated>>

(* Mutant: only the key of the removed member is deleted.                  *)
DropMemberKeyOnly(p, x, e) ==
    /\ epoch' = [epoch EXCEPT ![p] = e]
    /\ members' = members
    /\ theirs' = [theirs EXCEPT ![p][x] = NoReceiver]

(* What a removal writes before the rotation.                              *)
DropMember(p, x, e) ==
    /\ epoch' = [epoch EXCEPT ![p] = e]
    /\ members' = [members EXCEPT ![p] = @ \ {x}]
    /\ theirs' = [theirs EXCEPT ![p][x] = NoReceiver]

(* A crash between those writes and the rotation's.                        *)
CrashUnrotated(p, out) ==
    /\ crashes < MaxCrashes
    /\ crashes' = crashes + 1
    /\ unrotated' = IF HasChain(p) THEN unrotated \cup {mine[p].chain} ELSE unrotated
    /\ net' = out
    /\ UNCHANGED <<mine, drawn, held, orphans>>

RotateOrCrash(p, ms, e, out) ==
    \/ Rotate(p, ms, e, out) /\ UNCHANGED <<crashes, unrotated>>
    \/ CrashUnrotated(p, out)

(* handle_group_remove                                                     *)
HandleGroupRemove(x) ==
    LET ms == members[Founder] \ {x}
        e == epoch[Founder] + 1
    IN /\ Known(Founder) /\ MayChange
       /\ DropMember(Founder, x, e)
       /\ roster' = Append(roster, roster[Len(roster)] \ {x})
       /\ heard' = [heard EXCEPT ![Founder] = Append(@, e)]
       /\ RotateOrCrash(Founder, ms, e,
              net \cup {UpdateMsg(q, {}, {x}, e) : q \in ms \ {Founder}})
       /\ UNCHANGED <<stored, left, base, sent>>

(* group_forget keeps the message history.                                 *)
GroupForget(p) ==
    /\ epoch' = [epoch EXCEPT ![p] = NoGroup]
    /\ members' = [members EXCEPT ![p] = {}]
    /\ mine' = [mine EXCEPT ![p] = NoSender]
    /\ theirs' = [theirs EXCEPT ![p] = [q \in Peers |-> NoReceiver]]

(* handle_group_leave: Leave to the others, then group_forget.             *)
HandleGroupLeave(p) ==
    /\ Known(p) /\ MayChange
    /\ left' = left \cup {p}
    /\ net' = net \cup {LeaveMsg(p, q) : q \in members[p] \ {p}}
    /\ GroupForget(p)
    /\ UNCHANGED <<stored, drawn, crashes, roster, heard, held, base, sent, orphans, unrotated>>

(* group_send: a fresh chain goes to every member first; the advanced      *)
(* chain is saved before the fan-out.                                      *)
GroupSend(p) ==
    LET fresh == ~HasChain(p)
        ck == IF fresh THEN NewSenderChain(Fresh(p)) ELSE mine[p]
        to == members[p] \ {p}
    IN /\ Known(p) /\ Cardinality(sent) < MaxSends
       /\ mine' = [mine EXCEPT ![p] = AfterEncrypt(ck)]
       /\ drawn' = IF fresh THEN [drawn EXCEPT ![p] = @ + 1] ELSE drawn
       /\ held' = IF fresh THEN Handed(to, CurrentBundle(ck)) ELSE held
       /\ net' = net \cup {GroupMsg(p, q, Sealed(ck)) : q \in to}
                     \cup {KeyMsg(p, q, CurrentBundle(ck), epoch[p]) : q \in IF fresh THEN to ELSE {}}
       /\ sent' = sent \cup {[msg |-> Sealed(ck), from |-> p, audience |-> to]}
       /\ UNCHANGED <<epoch, members, theirs, stored, crashes, roster, left, heard, base, orphans, unrotated>>

-----------------------------------------------------------------------------
(* process_group_control, CreateGroup: the recipient is on the list.       *)
ReceiveCreate(m) ==
    /\ m.kind = "create"
    /\ epoch' = [epoch EXCEPT ![m.to] = 0]
    /\ members' = [members EXCEPT ![m.to] = @ \cup m.members]
    /\ net' = net \ {m}
    /\ UNCHANGED <<mine, theirs, stored, drawn, crashes, roster, left, heard, held, base, sent, orphans, unrotated>>

(* MembershipUpdate: unknown groups and stale epochs are ignored.          *)
UpdateApplies(m) == Known(m.to) /\ m.epoch > epoch[m.to]

Hears(m) ==
    heard' = IF Known(m.to) THEN [heard EXCEPT ![m.to] = Append(@, m.epoch)] ELSE heard

ReceiveUpdateIgnored(m) ==
    /\ m.kind = "update" /\ ~UpdateApplies(m)
    /\ net' = net \ {m}
    /\ Hears(m)
    /\ UNCHANGED <<store, drawn, crashes, roster, left, held, base, sent, orphans, unrotated>>

ReceiveAdded(m) ==
    /\ m.kind = "update" /\ UpdateApplies(m) /\ m.removed = {}
    /\ epoch' = [epoch EXCEPT ![m.to] = m.epoch]
    /\ members' = [members EXCEPT ![m.to] = @ \cup m.added]
    /\ Hears(m)
    /\ SendMyBundleTo(m.to, m.added, m.epoch, net \ {m})
    /\ UNCHANGED <<theirs, stored, crashes, roster, left, base, sent, unrotated>>

ReceiveRemoved(m) ==
    /\ m.kind = "update" /\ UpdateApplies(m) /\ m.removed # {}
    /\ \E x \in m.removed : DropMember(m.to, x, m.epoch)
    /\ Hears(m)
    /\ RotateOrCrash(m.to, members[m.to] \ m.removed, m.epoch, net \ {m})
    /\ UNCHANGED <<stored, roster, left, base, sent>>

(* SenderKeyDistribution: from a member; its epoch is not looked at.       *)
ReceiveKey(m) ==
    /\ m.kind = "key"
    /\ net' = net \ {m}
    /\ IF m.from \in members[m.to]
         THEN /\ theirs' = [theirs EXCEPT ![m.to][m.from] = FromBundle(m.bundle)]
              /\ base' = [base EXCEPT ![m.to][m.from] = m.bundle.index]
         ELSE UNCHANGED <<theirs, base>>
    /\ UNCHANGED <<epoch, members, mine, stored, drawn, crashes, roster, left, heard, held, sent, orphans, unrotated>>

(* Leave: no epoch is compared, and a node that does not know the group    *)
(* rotates as well, with no one to hand the chain to.                      *)
ReceiveLeave(m) ==
    LET ms == members[m.to] \ {m.from} IN
    /\ m.kind = "leave"
    /\ members' = [members EXCEPT ![m.to] = ms]
    /\ theirs' = [theirs EXCEPT ![m.to][m.from] = NoReceiver]
    /\ RotateOrCrash(m.to, ms, IF Known(m.to) THEN epoch[m.to] ELSE 0, net \ {m})
    /\ UNCHANGED <<epoch, stored, roster, left, heard, base, sent>>

(* process_group_message: the sender is a member, its chain is installed   *)
(* and opens the message; otherwise it is dropped.                         *)
ReceiveMessage(m) ==
    LET p == m.to  q == m.from IN
    /\ m.kind = "message"
    /\ net' = net \ {m}
    /\ IF q \in members[p] /\ theirs[p][q] # NoReceiver /\ Decrypts(theirs[p][q], m.msg)
         THEN /\ theirs' = [theirs EXCEPT ![p][q] = AfterDecrypt(@, m.msg)]
              /\ stored' = [stored EXCEPT ![p] = @ \cup {m.msg}]
         ELSE UNCHANGED <<theirs, stored>>
    /\ UNCHANGED <<epoch, members, mine, drawn, crashes, roster, left, heard, held, base, sent, orphans, unrotated>>

Deliver(m) ==
    \/ ReceiveCreate(m) \/ ReceiveUpdateIgnored(m) \/ ReceiveAdded(m) \/ ReceiveRemoved(m)
    \/ ReceiveKey(m) \/ ReceiveLeave(m) \/ ReceiveMessage(m)

Init ==
    /\ epoch = [p \in Peers |-> NoGroup]
    /\ members = [p \in Peers |-> {}]
    /\ mine = [p \in Peers |-> NoSender]
    /\ theirs = [p \in Peers |-> [q \in Peers |-> NoReceiver]]
    /\ stored = [p \in Peers |-> {}]
    /\ net = {} /\ drawn = [p \in Peers |-> 0]
    /\ crashes = 0
    /\ roster = <<>> /\ left = {}
    /\ heard = [p \in Peers |-> <<>>]
    /\ held = [p \in Peers |-> {}]
    /\ base = [p \in Peers |-> [q \in Peers |-> 0]]
    /\ sent = {} /\ orphans = {} /\ unrotated = {}

Next ==
    \/ \E invited \in Invitations : HandleGroupCreate(invited)
    \/ \E x \in Targets : HandleGroupAdd(x) \/ HandleGroupRemove(x)
    \/ \E p \in Leavers : HandleGroupLeave(p)
    \/ \E p \in Senders : GroupSend(p)
    \/ \E m \in net : Deliver(m)

Spec == Init /\ [][Next]_vars

-----------------------------------------------------------------------------
Chains == Peers \X Nat
Bundles == [chain : Chains, index : Nat]
Messages ==
    [kind : {"create"}, from : Peers, to : Peers, members : SUBSET Peers]
    \cup [kind : {"update"}, from : Peers, to : Peers, added : SUBSET Peers,
           removed : SUBSET Peers, epoch : Nat]
    \cup [kind : {"key"}, from : Peers, to : Peers, bundle : Bundles, epoch : Nat]
    \cup [kind : {"leave"}, from : Peers, to : Peers]
    \cup [kind : {"message"}, from : Peers, to : Peers, msg : Bundles]

(* The tables and the wire keep their shape, each row names its own node's *)
(* or the sender's chain, and nobody sends to itself.                      *)
TypeOK ==
    /\ epoch \in [Peers -> Nat \cup {NoGroup}]
    /\ members \in [Peers -> SUBSET Peers]
    /\ mine \in [Peers -> Bundles]
    /\ theirs \in [Peers -> [Peers -> [chain : Chains, next : Nat, skipped : SUBSET Nat]]]
    /\ stored \in [Peers -> SUBSET Bundles]
    /\ net \subseteq Messages
    /\ \A m \in net : m.from # m.to
    /\ drawn \in [Peers -> Nat]
    /\ crashes \in Nat
    /\ roster \in Seq(SUBSET Peers) /\ left \subseteq Peers
    /\ heard \in [Peers -> Seq(Nat)]
    /\ held \in [Peers -> SUBSET Bundles]
    /\ base \in [Peers -> [Peers -> Nat]]
    /\ sent \subseteq [msg : Bundles, from : Peers, audience : SUBSET Peers]
    /\ orphans \subseteq Chains /\ unrotated \subseteq Chains
    /\ \A p \in Peers : HasChain(p) => mine[p].chain[1] = p

(* Peer x has been sent a bundle from which the key of message m follows.  *)
CanRead(x, m) == \E b \in held[x] : b.chain = m.chain /\ b.index <= m.index

(* A message is readable for nobody who was off the sender's member list   *)
(* when it was sealed, whatever bundles that peer has kept from its time   *)
(* as a member: every removal or Leave the sender applied has replaced its *)
(* chain (rotate_my_sender_chain_and_broadcast), unless a crash prevented  *)
(* the replacement.                                                        *)
DepartedLockedOut ==
    \A s \in sent : \A x \in Peers \ (s.audience \cup {s.from}) :
        s.msg.chain \notin unrotated => ~CanRead(x, s.msg)

(* The same with crashes: the claim of INVARIANTS.md, paragraph 26.        *)
DepartedLockedOutAlways ==
    \A s \in sent : \A x \in Peers \ (s.audience \cup {s.from}) : ~CanRead(x, s.msg)

(* Whoever a message is fanned out to has been sent the sender's chain:    *)
(* on the first send, by a rotation, or when it was added.  A chain drawn  *)
(* by a Leave that came before CreateGroup is the exception.               *)
AudienceHasChain ==
    \A s \in sent : s.msg.chain \notin orphans => \A q \in s.audience : CanRead(q, s.msg)

(* A message on its way opens if the recipient still knows the sender and  *)
(* its chain, installed the chain no later than the message, and MAX_SKIP  *)
(* does not refuse it: reordering alone loses nothing.                     *)
InFlightOpens ==
    \A m \in net : m.kind = "message" =>
        LET r == theirs[m.to][m.from] IN
        (r.chain = m.msg.chain /\ base[m.to][m.from] <= m.msg.index) =>
            \/ Decrypts(r, m.msg)
            \/ m.msg.index >= r.next /\ TooManySkipped(r, m.msg)

(* A node that has got the updates one after the other has the founder's   *)
(* list of that epoch, leavers aside, although updates carry differences   *)
(* only.                                                                   *)
RosterAgrees ==
    \A p \in Peers : Known(p) /\ heard[p] = [e \in 1 .. epoch[p] |-> e] =>
        members[p] \ left = roster[epoch[p] + 1] \ left

(* The tables are well formed, and rosters agree with the founder's.       *)
RostersSound == TypeOK /\ RosterAgrees

(* The same for a node that has got all of them, in any order: INVARIANTS, *)
(* paragraph 26, has every member apply a removal it is told of.           *)
RosterAgreesAnyOrder ==
    \A p \in Peers :
        (Known(p) /\ {heard[p][i] : i \in DOMAIN heard[p]} = 1 .. epoch[p]) =>
            members[p] \ left = roster[epoch[p] + 1] \ left
=============================================================================
